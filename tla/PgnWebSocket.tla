---------------------------- MODULE PgnWebSocket ----------------------------
(***************************************************************************)
(* The web socket for PGNs that is no longer used (pgnwebsocket): events   *)
(* of the clients come on the network task, messages on the loop task,     *)
(* which asks shouldSend() before it composes one and calls send().        *)
(*                                                                         *)
(* The task that dereferences a null pointer, or runs off the table of     *)
(* clients, is where the model stops: the processor restarts.              *)
(***************************************************************************)
EXTENDS Integers, Sequences

CONSTANTS
  WsPeers, WsPgns,
  WsAsked,          \* of these, the PGNs that a client asks for by number (bound)
  MaxWsClients,     \* MAX_WS_CLIENTS
  MaxTracking,      \* MAX_PGNTRACKING
  Debounce          \* 100 ms

ASSUME PgnWebSocketAssumption ==
  /\ WsAsked \subseteq WsPgns
  /\ MaxWsClients \in Nat /\ MaxTracking \in Nat \ {0} /\ Debounce \in Nat
  /\ "none" \notin WsPeers

VARIABLES
  wsClients,   \* the slots: used, client, first of the pgns
  pgnsent,     \* the PGNs sent, the newest first, and their ages
  granted,     \* the PGN that shouldSend() said yes to
  tasksRun,    \* neither task has failed
  wsKnown      \* the PGN whose number millis() has now; history: connected peers, age of the
               \* last of each PGN; whether one was sent again, the list was full, an entry was
               \* skipped

pgnWebSocketVars == <<wsClients, pgnsent, granted, tasksRun, wsKnown>>

GonePeer == "none"
NoPgn == "none"
FreeWsSlot == [used |-> FALSE, client |-> GonePeer, pgn |-> NoPgn]
Long == Debounce + 1
InUse == {i \in DOMAIN wsClients : wsClients[i].used}
\* The network task handles one event after the other.
BetweenEvents == \A i \in InUse : wsClients[i].client # GonePeer

FirstFree(i) == \A j \in DOMAIN wsClients \ InUse : i <= j
TakenSlot(i, peer) == [wsClients EXCEPT ![i] = [@ EXCEPT !.used = TRUE, !.client = peer]]

\* addClient(): the PGNs of the slot are those of its last client.
AddClient(peer) ==
  /\ BetweenEvents /\ peer \notin wsKnown.connected
  /\ wsKnown' = [wsKnown EXCEPT !.connected = @ \cup {peer}]
  /\ \/ InUse = DOMAIN wsClients /\ UNCHANGED wsClients
     \/ \E i \in DOMAIN wsClients \ InUse : FirstFree(i) /\ wsClients' = TakenSlot(i, peer)
  /\ UNCHANGED <<pgnsent, granted, tasksRun>>

\* removeClient() asks each slot for its client's id, also the slots without one ...
RemoveClient(peer) ==
  LET of == {i \in DOMAIN wsClients : wsClients[i].client = peer}
      empty == {i \in DOMAIN wsClients : wsClients[i].client = GonePeer}
      found == \E i \in of : \A j \in empty : i < j
  IN
  /\ BetweenEvents /\ peer \in wsKnown.connected
  /\ wsKnown' = [wsKnown EXCEPT !.connected = @ \ {peer}]
  /\ tasksRun' = (found \/ (of = {} /\ empty = {}))
  /\ wsClients' = IF found THEN [i \in DOMAIN wsClients |->
                                   IF i \in of THEN [wsClients[i] EXCEPT !.client = GonePeer]
                                   ELSE wsClients[i]]
                  ELSE wsClients
  /\ UNCHANGED <<pgnsent, granted>>
\* ... and frees the slot after it has taken the client out of it.
RemovedClient ==
  \E i \in InUse :
    /\ wsClients[i].client = GonePeer
    /\ wsClients' = [wsClients EXCEPT ![i].used = FALSE]
    /\ UNCHANGED <<pgnsent, granted, tasksRun, wsKnown>>

\* addpgn: and rmpgn:, from value old to value new: the loop goes on to the other clients'
\* slots, and never looks at more than the first PGN of each.
ChangePgn(peer, old, new) ==
  LET mine == {i \in InUse : wsClients[i].client = peer}
      to == {j \in DOMAIN wsClients : (\E i \in mine : i <= j) /\ wsClients[j].pgn = old}
      j == CHOOSE i \in to : \A k \in to : i <= k
  IN
  /\ BetweenEvents /\ mine # {}
  /\ tasksRun' = (to # {})
  /\ wsClients' = IF to = {} THEN wsClients ELSE [wsClients EXCEPT ![j].pgn = new]
  /\ UNCHANGED <<pgnsent, granted, wsKnown>>

AddPgn(peer, pgn) == ChangePgn(peer, NoPgn, pgn)
RmPgn(peer, pgn) == ChangePgn(peer, pgn, NoPgn)

\* The first n of the list are those within the debounce.
Recent(n) ==
  /\ \A i \in 1 .. n : pgnsent[i].age <= Debounce
  /\ n < Len(pgnsent) => pgnsent[n + 1].age > Debounce

\* Mutant of Remembered: the list is shifted over its newest entry.
RememberedOver(list, pgn) ==
  <<[pgn |-> pgn, age |-> 0, at |-> wsKnown.now]>> \o SubSeq(list, 2, Len(list))
\* The entries whose time is the number of the PGN are skipped; later ones fill their gaps, and
\* the end of the list stays as it was.
Skips(list, pgn) == \E i \in DOMAIN list : list[i].at = pgn
GapsFilled(list, pgn) ==
  LET others == SelectSeq(list, LAMBDA entry : entry.at # pgn)
  IN  IF Skips(list, pgn) THEN others \o SubSeq(list, Len(others) + 1, Len(list)) ELSE list
\* record(): what is sent goes to the front of a list that drops its last.  What is to be taken
\* out of it are "any previous records matching this pgn" (pgnwebsocket.cpp:198), but it compares
\* their times with the PGN.
Remembered(list, pgn) ==
  LET kept == IF Len(list) < MaxTracking THEN Len(list) ELSE Len(list) - 1
  IN  <<[pgn |-> pgn, age |-> 0, at |-> wsKnown.now]>> \o SubSeq(GapsFilled(list, pgn), 1, kept)

\* sendDebounced() and record(), of a list whose first n are recent: it is cut at the first that
\* is old unless the PGN comes before.
SendDebounced(n, pgn) ==
  IF \E i \in 1 .. n : pgnsent[i].pgn = pgn THEN UNCHANGED <<pgnsent, granted, wsKnown>>
  ELSE /\ pgnsent' = Remembered(SubSeq(pgnsent, 1, n), pgn)
       /\ granted' = pgn
       /\ wsKnown' = [wsKnown EXCEPT !.again = @ \/ wsKnown.last[pgn] <= Debounce,
                                     !.last[pgn] = 0,
                                     !.full = @ \/ n = MaxTracking,
                                     !.skipped = @ \/ Skips(SubSeq(pgnsent, 1, n), pgn)]

\* shouldSend(): every client takes all, since addClient() says so and allpgns: too, whatever it
\* asks for.
ShouldSend(pgn) ==
  /\ granted = NoPgn /\ InUse # {}
  /\ \E n \in 0 .. Len(pgnsent) : Recent(n) /\ SendDebounced(n, pgn)
  /\ UNCHANGED <<wsClients, tasksRun>>

\* send(), to "all clients that have requested it" (pgnwebsocket.cpp:265): to all there are now
Receivers == {wsClients[i].client : i \in InUse}
SendSentence ==
  /\ granted # NoPgn
  /\ granted' = NoPgn
  /\ tasksRun' = (GonePeer \notin Receivers)
  /\ UNCHANGED <<wsClients, pgnsent, wsKnown>>

PgnWebSocketTick ==
  LET Older(age) == IF age = Long THEN age ELSE age + 1
  IN
  /\ pgnsent' = [i \in DOMAIN pgnsent |-> [pgnsent[i] EXCEPT !.age = Older(@)]]
  /\ \E now \in {NoPgn} \cup WsPgns :
       /\ \A i \in DOMAIN pgnsent : now # NoPgn => pgnsent[i].at # now
       /\ wsKnown' = [wsKnown EXCEPT !.last = [pgn \in WsPgns |-> Older(@[pgn])], !.now = now]
  /\ UNCHANGED <<wsClients, granted, tasksRun>>

PgnWebSocketStep ==
  /\ tasksRun
  /\ \/ \E p \in WsPeers :
          \/ AddClient(p) \/ RemoveClient(p)
          \/ \E pgn \in WsAsked : AddPgn(p, pgn) \/ RmPgn(p, pgn)
     \/ RemovedClient
     \/ \E pgn \in WsPgns : ShouldSend(pgn)
     \/ SendSentence \/ PgnWebSocketTick

PgnWebSocketInit ==
  /\ wsClients = [i \in 1 .. MaxWsClients |-> FreeWsSlot]
  /\ pgnsent = <<>> /\ granted = NoPgn /\ tasksRun = TRUE
  /\ wsKnown = [now |-> NoPgn, connected |-> {},
                last |-> [pgn \in WsPgns |-> Long],
                again |-> FALSE, full |-> FALSE, skipped |-> FALSE]

----------------------------------------------------------------------------
\* As long as the tasks run: a PGN is not sent twice within the period of the debounce, but
\* where more PGNs than the list holds were sent within it, or record() has skipped one for its
\* time; and the client that has a slot is one that is connected, in one slot only.  Which
\* clients have asked for what they get is not looked at, as the code does not.
SocketPaced ==
  tasksRun =>
    /\ wsKnown.again => wsKnown.full \/ wsKnown.skipped
    /\ \A i, j \in InUse :
         wsClients[i].client # GonePeer =>
           /\ wsClients[i].client \in wsKnown.connected
           /\ wsClients[i].client = wsClients[j].client => i = j
=============================================================================
