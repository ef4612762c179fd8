----------------------------- MODULE TcpServer ------------------------------
(***************************************************************************)
(* The blocking NMEA server that is no longer used (tcpserver): a slot for *)
(* each client, which gets sentences until it asks for SeaSmart and then   *)
(* the PGNs of its filter.                                                 *)
(*                                                                         *)
(* A line is what it asks for; it arrives in two halves, or too long for   *)
(* the buffer, which cuts it.  Counters and bandwidth are left out.        *)
(***************************************************************************)
EXTENDS Integers, Sequences

CONSTANTS
  TcpPeers,        \* clients of the server
  Pgns,
  ServerSlots,     \* MAX_TCP_CLIENTS
  MaxFields,       \* of a command, 10
  FilterSize       \* WIFICLIENT_PGN_FILTERSIZE

\* 0 and 1 are PGNs of nothing on the bus.
ASSUME TcpServerAssumption ==
  /\ Pgns \subseteq Nat \ {0, 1}
  /\ ServerSlots \in Nat /\ MaxFields \in Nat /\ FilterSize \in Nat

VARIABLES
  server,    \* the slots
  socket,    \* of each peer: not yet known, waiting, open or closed; half of a line not read yet
  promised      \* history: what each peer asked for last, and what it was sent since

tcpServerVars == <<server, socket, promised>>

NoPeer == "none"
Nothing == 0
AnySentence == 1    \* not a PGN
Filters == [1 .. 1 -> Pgns] \cup [1 .. 2 -> Pgns]
\* command 1 with a filter; another command; another sentence or a wrong checksum; too long
Lines == [says : {"filter"}, pgns : Filters] \cup [says : {"other", "bad", "long"}, pgns : {<<>>}]
NoCommand == [says |-> "nothing", pgns |-> <<>>]
NoHalf == [line |-> NoCommand, ends |-> FALSE]

FreeServerSlot == [mode |-> "disconnected", peer |-> NoPeer, begun |-> NoCommand,
                   filter |-> [i \in 1 .. FilterSize |-> 0]]

\* checkIsFree(): a client that has gone frees its slot.
Checked(slot) ==
  IF slot.mode # "disconnected" /\ socket[slot.peer].is # "open"
  THEN [slot EXCEPT !.mode = "disconnected", !.peer = NoPeer] ELSE slot

\* Mutant of Filter: what is longer in the old filter stays.
FilterPrefix(old, pgns) ==
  [i \in 1 .. FilterSize |-> IF i <= Len(pgns) THEN pgns[i] ELSE old[i]]
\* extractFields() and updatePgnFilter()
Filter(old, pgns) ==
  [i \in 1 .. FilterSize |-> IF i <= Len(pgns) /\ i < MaxFields THEN pgns[i] ELSE -1]

\* parseSentence(): any command makes it a SeaSmart client.
ParseCommand(slot, line) ==
  CASE line.says = "filter" -> [slot EXCEPT !.mode = "seasmart", !.filter = Filter(@, line.pgns)]
    [] line.says = "other"  -> [slot EXCEPT !.mode = "seasmart"]
    [] OTHER                -> slot

\* processMessage(): a line that is begun ends where the next half does.
ProcessMessage(slot, half) ==
  IF half.ends THEN [ParseCommand(slot, half.line) EXCEPT !.begun = NoCommand]
  ELSE IF half # NoHalf THEN [slot EXCEPT !.begun = half.line] ELSE slot
CommandRead(half) == half.ends /\ half.line.says \in {"filter", "other"}

\* accept(), of the peer that has waited longest; the filter stays as it is.
AcceptPeer(slot, peer) ==
  [slot EXCEPT !.mode = "nmea0183", !.peer = peer, !.begun = NoCommand]

\* handle(): a slot is checked, and either accepts or reads.
Handle(i) ==
  LET slot == Checked(server[i])
      waiting == {p \in TcpPeers : socket[p].is = "waiting"}
      half == socket[slot.peer].unread
  IN
  \/ /\ slot.mode = "disconnected" /\ waiting = {}
     /\ server' = [server EXCEPT ![i] = slot]
     /\ UNCHANGED <<socket, promised>>
  \/ \E p \in waiting :
       /\ slot.mode = "disconnected"
       /\ server' = [server EXCEPT ![i] = AcceptPeer(slot, p)]
       /\ socket' = [socket EXCEPT ![p].is = "open"]
       /\ UNCHANGED promised
  \/ /\ slot.mode # "disconnected"
     /\ server' = [server EXCEPT ![i] = ProcessMessage(slot, half)]
     /\ socket' = [socket EXCEPT ![slot.peer].unread = NoHalf]
     /\ promised' = IF CommandRead(half)
                     THEN [promised EXCEPT ![slot.peer] = [asked |-> half.line, sent |-> Nothing]]
                     ELSE promised

\* sendBufToClients()
SendBufToClients ==
  LET slots == [i \in DOMAIN server |-> Checked(server[i])]
      to == {slots[i].peer : i \in {j \in DOMAIN slots : slots[j].mode = "nmea0183"}}
  IN
  /\ server' = slots
  /\ promised' = [p \in TcpPeers |->
       [promised[p] EXCEPT !.sent = IF p \in to THEN AnySentence ELSE @]]
  /\ UNCHANGED socket

\* acceptN2k(): the filter ends at its first -1.
Accepts(slot, pgn) ==
  /\ slot.mode = "seasmart"
  /\ \E i \in 1 .. FilterSize : slot.filter[i] = pgn /\ \A j \in 1 .. i : slot.filter[j] # -1

\* sendN2k()
SendN2k(pgn) ==
  LET slots == [i \in DOMAIN server |-> Checked(server[i])]
      to == {slots[i].peer : i \in {j \in DOMAIN slots : Accepts(slots[j], pgn)}}
  IN
  /\ server' = slots
  /\ promised' = [p \in TcpPeers |->
       [promised[p] EXCEPT !.sent = IF p \in to THEN pgn ELSE @]]
  /\ UNCHANGED socket

\* A peer connects, sends half a line, and goes.
Peer(p) ==
  \/ /\ socket[p].is = "new"
     /\ socket' = [socket EXCEPT ![p].is = "waiting"]
  \/ /\ socket[p].is = "open" /\ socket[p].unread = NoHalf
     /\ \E line \in Lines :
          LET open == \E i \in DOMAIN server : server[i].peer = p /\ server[i].begun # NoCommand
              mine == CHOOSE i \in DOMAIN server : server[i].peer = p
          IN  /\ open => server[mine].begun = line
              /\ socket' = [socket EXCEPT ![p].unread = [line |-> line, ends |-> open]]
  \/ /\ socket[p].is \in {"waiting", "open"}
     /\ socket' = [socket EXCEPT ![p] = [is |-> "closed", unread |-> NoHalf]]

TcpServerStep ==
  \/ \E i \in 1 .. ServerSlots : Handle(i)
  \/ SendBufToClients \/ \E pgn \in Pgns : SendN2k(pgn)
  \/ \E p \in TcpPeers : Peer(p) /\ UNCHANGED <<server, promised>>

TcpServerInit ==
  /\ server = [i \in 1 .. ServerSlots |-> FreeServerSlot]
  /\ socket = [p \in TcpPeers |-> [is |-> "new", unread |-> NoHalf]]
  /\ promised = [p \in TcpPeers |-> [asked |-> NoCommand, sent |-> Nothing]]

----------------------------------------------------------------------------
\* A client gets sentences until a command of its own has been read and none after it, and of
\* the PGNs those of the last filter it sent, whoever had its slot before - unless it sent
\* only a command that sets no filter: then the filter is one that another client left.
KeptTo(kept) ==
  LET asked == kept.asked
      sent  == kept.sent
  IN  CASE sent = Nothing \/ asked = NoCommand -> sent \in {Nothing, AnySentence}
        [] sent # Nothing /\ asked.says = "filter" ->
             \E i \in DOMAIN asked.pgns : asked.pgns[i] = sent
        [] sent # Nothing /\ asked.says = "other"  -> sent # AnySentence
FilterHeeded == \A p \in TcpPeers : KeptTo(promised[p])
=============================================================================
