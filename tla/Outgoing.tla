------------------------------ MODULE Outgoing ------------------------------
(***************************************************************************)
(* What the loop puts out by itself and what it passes on: the six messages*)
(* JdbBMS::setN2KMsg() makes in turn, EmitMessages(), and sendAsSeaSmart(),*)
(* which hands messages to the streams of the network, one of each PGN and *)
(* source a second (lib/jdbbms/jdb_bms.cpp, src/main.cpp).                 *)
(*                                                                         *)
(* The streams are those of the web server, see SeasmartStream.  The TCP   *)
(* server takes no part: the PGN filter of its clients stays empty, because*)
(* getNextField() stops at the `$' that begins the sentence.               *)
(***************************************************************************)
EXTENDS Naturals

CONSTANTS
  Period,        \* BMS_PERIOD_...: of each message of the BMS, in ticks
  RateLimit,     \* 1000, in allowRateLimit()
  PassesPerTick, \* bound of the model: passes the loop makes in a tick, at the least
  Foreign,       \* messages of other devices: <<PGN, source>>
  Denied,        \* frameDenyFilter: PGNs and sources
  MaxSwitches    \* bound of the model: how often CAN or the network is switched

\* As setN2KMsg() tries them; the registers by their numbers.
Order == <<127508, 127506, 127513, 3, 4, 5>>
Kinds == {Order[i] : i \in DOMAIN Order}

\* A tick is no longer than the shortest period, and the loop goes round many times in it.
ASSUME PeriodAssumption ==
  /\ Period \in [Kinds -> Nat \ {0}]
  /\ RateLimit \in Nat /\ PassesPerTick \in Nat /\ PassesPerTick >= 3

VARIABLES
  canUp, networkUp,
  age,    \* now - last127508 and its fellows, no further than a little past the period
  same,   \* reg03Update = lastReg03, reg04Update = lastReg04
  copied, \* of registers 3 and 4, those of which a frame was copied in this tick
  built,  \* what setN2KMsg() has made, until sendAsSeaSmart() is done with it
  late,   \* a tick has come between the two
  passes, \* passes in this tick that made a message
  since,  \* now - lastMessageSend[key]; past the limit if it has no such key
  switches,
  up      \* history: ticks CAN has been up

bmsVars == <<age, same, copied>>
passVars == <<built, late, passes>>
vars == <<canUp, networkUp, bmsVars, passVars, since, switches, up>>

Nothing == 0
Own == 15         \* the source of a tN2kMsg that is given none
Message(kind) == <<IF kind \in 3 .. 5 THEN 130829 ELSE kind, Own>>
Streamed == {Message(kind) : kind \in Kinds} \cup Foreign

\* Ticks in which whatever has become due meanwhile is worked off.
Settled == 3

----------------------------------------------------------------------------
(* sendAsSeaSmart() *)

\* N2KFrameFilter::isFiltered()
IsFiltered(message) == message[1] \in Denied \/ message[2] \in Denied

\* Mutant of Key: the source is left out.
KeyOfPgn(message) == CHOOSE other \in Streamed : other[1] = message[1]

\* (N2kMsg.PGN*256) + N2kMsg.Source
Key(message) == message

\* allowRateLimit()
Passed(message) ==
  networkUp /\ ~IsFiltered(message) /\ since[Key(message)] > RateLimit

SendAsSeaSmart(message) ==
  since' = IF Passed(message) THEN [since EXCEPT ![Key(message)] = 0] ELSE since

\* ParseMessages() has a message of another device.
Receive(message) ==
  /\ canUp /\ built = Nothing
  /\ SendAsSeaSmart(message)
  /\ UNCHANGED <<canUp, networkUp, bmsVars, passVars, switches, up>>

----------------------------------------------------------------------------
(* The messages of the BMS. *)

\* copyReg03(), copyReg04()
CopyRegister(kind) ==
  /\ built = Nothing
  /\ copied' = copied \cup {kind}
  /\ same' = [same EXCEPT ![kind] = (age[kind] = 0)]
  /\ UNCHANGED <<canUp, networkUp, age, passVars, since, switches, up>>

Due(kind) == age[kind] > Period[kind] /\ (kind \in {3, 4} => ~same[kind])
NoneDue == \A kind \in Kinds : ~Due(kind)

\* Mutant of Stamped: the time of a message that is made is not kept.
NotStamped(kind) == IF kind = 127508 THEN age ELSE [age EXCEPT ![kind] = 0]
Stamped(kind) == [age EXCEPT ![kind] = 0]

\* setN2KMsg(): the first that is due, one in a pass.
Build ==
  /\ canUp /\ built = Nothing
  /\ \E i \in DOMAIN Order :
       /\ Due(Order[i]) /\ \A j \in 1 .. i - 1 : ~Due(Order[j])
       /\ built' = Order[i]
  /\ age' = Stamped(built')
  /\ same' = IF built' \in {3, 4} THEN [same EXCEPT ![built'] = (built' \in copied)] ELSE same
  /\ late' = FALSE
  /\ passes' = IF passes < PassesPerTick THEN passes + 1 ELSE passes
  /\ UNCHANGED <<canUp, networkUp, copied, since, switches, up>>

\* HandleNMEA2000Msg() as far as the streams.
Route ==
  /\ built # Nothing
  /\ SendAsSeaSmart(Message(built))
  /\ built' = Nothing
  /\ UNCHANGED <<canUp, networkUp, bmsVars, late, passes, switches, up>>

----------------------------------------------------------------------------
(* The rest of the loop. *)

\* The pin CAN_ON_PIN changes: onEnableCan(), onDisableCan().
SwitchCan ==
  /\ built = Nothing /\ switches < MaxSwitches
  /\ canUp' = ~canUp
  /\ up' = 0
  /\ switches' = switches + 1
  /\ UNCHANGED <<networkUp, bmsVars, passVars, since>>

\* onEnableNetwork() or onDisableNetwork() is done.
SwitchNetwork ==
  /\ switches < MaxSwitches
  /\ networkUp' = ~networkUp
  /\ switches' = switches + 1
  /\ UNCHANGED <<canUp, bmsVars, passVars, since, up>>

Older(time, bound) == IF time < bound THEN time + 1 ELSE bound

Tick ==
  /\ ~canUp \/ NoneDue \/ passes = PassesPerTick
  /\ built # Nothing => ~late
  /\ late' = (built # Nothing)
  /\ passes' = 0
  /\ copied' = {}
  /\ age' = [kind \in Kinds |-> Older(age[kind], Period[kind] + (IF kind \in {3, 4} THEN 1 ELSE 3))]
  /\ since' = [message \in Streamed |-> Older(since[message], RateLimit + 1)]
  /\ up' = IF canUp THEN Older(up, Settled) ELSE 0
  /\ UNCHANGED <<canUp, networkUp, same, built, switches>>

\* setup() takes longer than the constructor's offsets and the shorter periods.
Init ==
  /\ canUp = FALSE /\ networkUp = FALSE
  /\ age = [kind \in Kinds |-> RateLimit]
  /\ same = [kind \in {3, 4} |-> FALSE]
  /\ copied = {}
  /\ built = Nothing /\ late = FALSE /\ passes = 0
  /\ since = [message \in Streamed |-> RateLimit + 1]
  /\ switches = 0 /\ up = 0

Next ==
  \/ \E message \in Foreign : Receive(message)
  \/ \E kind \in {3, 4} : CopyRegister(kind)
  \/ Build
  \/ Route
  \/ SwitchCan
  \/ SwitchNetwork
  \/ Tick

Spec == Init /\ [][Next]_vars

\* loop() goes round for ever, time passes, and the BMS answers.
FairSpec ==
  /\ Spec
  /\ WF_vars(Build) /\ WF_vars(Route) /\ SF_vars(Tick)
  /\ \A kind \in {3, 4} : SF_vars(CopyRegister(kind) /\ age[kind] # 0)

----------------------------------------------------------------------------
(* Properties. *)

\* The order in which setN2KMsg() tries its messages keeps none waiting: once CAN has
\* been up for a while, each that does not wait for the BMS is made in the tick
\* of being due.
Prompt ==
  up = Settled => \A kind \in Kinds \ {3, 4} : age[kind] <= Period[kind] + 2

\* While CAN and the network are up, each PGN of the BMS that is not denied goes out
\* on the streams again and again, however often other devices send the same one.
Streams(message) == Route /\ Message(built) = message /\ Passed(message)
EveryPgnStreamed ==
  \A message \in {Message(kind) : kind \in Kinds} :
    \/ IsFiltered(message)
    \/ []<>~canUp \/ []<>~networkUp
    \/ []<><<Streams(message)>>_vars
=============================================================================
