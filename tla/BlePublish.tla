----------------------------- MODULE BlePublish -----------------------------
(***************************************************************************)
(* The four characteristics BoatWatchBLE publishes: the buffers the loop   *)
(* task fills with set...State(), the part of notify() that sends them,    *)
(* and the answer to AUTH, which the NimBLE host task sends on two of them.*)
(* setValue() and notify() of a characteristic are two steps, between which*)
(* the other task may take its own.                                        *)
(*                                                                         *)
(* What a buffer holds is whatever the caller encoded; a characteristic    *)
(* holds a buffer's content or the answer to AUTH.                         *)
(***************************************************************************)
EXTENDS Integers, Sequences, SequencesExt

CONSTANTS
  MinInterval,  \* BW_MIN_NAV_INTERVAL_MS, BW_MIN_ENGINE_INTERVAL_MS
  Interval,     \* BW_NAV_INTERVAL_MS, BW_ENGINE_INTERVAL_MS
  MaxInterval,  \* BW_MAX_AUTOPILOT_INTERVAL_MS, BW_MAX_BATTERY_INTERVAL_MS
  MaxAuths      \* bound of the model: AUTH writes of another client

ASSUME IntervalAssumption ==
  /\ {MinInterval, Interval, MaxInterval, MaxAuths} \subseteq Nat
  /\ MinInterval < Interval /\ Interval < MaxInterval

VARIABLES
  buffer,      \* _navBuffer and its fellows
  dirty,       \* _navDirty and its fellows
  sinceNotify, \* now - _last...Notify, up to MaxInterval
  charValue,   \* the value of each characteristic
  seen,        \* what its subscribers were sent last
  authed,      \* hasAuthenticatedClients()
  due,         \* notify(): characteristics it has still to send
  stored,      \* notify(): the first of them has its value
  answer,      \* sendAuthResponse(): steps left
  auths

bufferVars  == <<buffer, dirty>>
notifyVars  == <<sinceNotify, due, stored>>
answerVars  == <<authed, answer, auths>>
publishVars == <<bufferVars, notifyVars, charValue, seen, answerVars>>

Order == <<"nav", "engine", "autopilot", "battery">>
Characteristics == ToSet(Order)

Zeros  == [zeros |-> 0]       \* a buffer as it is constructed; _batLen = 0
Answer == [answer |-> 0]     \* the two bytes of AUTH_RESP

----------------------------------------------------------------------------
(* The loop task. *)

\* setNavState(), setEngineState(), setAutopilotState(), setBatteryState(): which were
\* called, and with what.
SetStates(called, content) ==
  /\ buffer' = [c \in Characteristics |-> IF c \in called THEN content[c] ELSE buffer[c]]
  /\ dirty' = [c \in Characteristics |-> c \in called \/ dirty[c]]

Rapid == {"nav", "engine"}

\* Mutant of Due: the autopilot and the battery are sent on change only.
DueOnChange(c) ==
  IF c \in Rapid
    THEN \/ dirty'[c] /\ sinceNotify[c] >= MinInterval
         \/ sinceNotify[c] >= Interval
    ELSE dirty'[c] /\ (c = "battery" => buffer'[c] # Zeros)

\* Evaluated on the buffers and flags as they will be when notify() is called.
Due(c) ==
  IF c \in Rapid
    THEN \/ dirty'[c] /\ sinceNotify[c] >= MinInterval
         \/ sinceNotify[c] >= Interval
    ELSE /\ dirty'[c] \/ sinceNotify[c] >= MaxInterval
         /\ c = "battery" => buffer'[c] # Zeros

\* notify() after it has dropped the idle clients.
NotifyBegin ==
  /\ due' = IF authed THEN SelectSeq(Order, Due) ELSE <<>>
  /\ UNCHANGED <<sinceNotify, stored, charValue, seen, answerVars>>

StoreValue ==
  /\ due # <<>> /\ ~stored
  /\ charValue' = [charValue EXCEPT ![Head(due)] = buffer[Head(due)]]
  /\ stored' = TRUE
  /\ UNCHANGED <<bufferVars, sinceNotify, due, seen, answerVars>>

SendValue ==
  LET c == Head(due)
  IN
  /\ due # <<>> /\ stored
  /\ seen' = [seen EXCEPT ![c] = charValue[c]]
  /\ sinceNotify' = [sinceNotify EXCEPT ![c] = 0]
  /\ dirty' = [dirty EXCEPT ![c] = FALSE]
  /\ due' = Tail(due)
  /\ stored' = FALSE
  /\ UNCHANGED <<buffer, charValue, answerVars>>

NotifyStep == StoreValue \/ SendValue

PublishClock ==
  /\ sinceNotify' = [c \in Characteristics |->
                       IF sinceNotify[c] = MaxInterval THEN MaxInterval
                       ELSE sinceNotify[c] + 1]
  /\ UNCHANGED <<bufferVars, due, stored, charValue, seen, answerVars>>

----------------------------------------------------------------------------
(* The NimBLE host task. *)

\* handleCommand() has settled the AUTH of a client and answers it.
AuthSettled(accepted) ==
  /\ answer = <<>> /\ auths < MaxAuths
  /\ authed' = (authed \/ accepted)
  /\ answer' = <<"autopilot", "autopilot", "battery", "battery">>
  /\ auths' = auths + 1
  /\ UNCHANGED <<bufferVars, notifyVars, charValue, seen>>

\* onDisconnect() of the last client that had authenticated.
AuthedGone ==
  /\ answer = <<>> /\ authed
  /\ authed' = FALSE
  /\ UNCHANGED <<bufferVars, notifyVars, charValue, seen, answer, auths>>

\* sendAuthResponse(): setValue and notify(connHandle) on each of the two.
AnswerStep ==
  LET c == Head(answer)
  IN
  /\ answer # <<>>
  /\ IF Len(answer) % 2 = 0
       THEN charValue' = [charValue EXCEPT ![c] = Answer]
       ELSE UNCHANGED charValue
  /\ answer' = Tail(answer)
  /\ UNCHANGED <<bufferVars, notifyVars, seen, authed, auths>>

\* begin() primes the buffer of the engine only.
PublishInit(primed) ==
  /\ buffer = [c \in Characteristics |-> IF c = "engine" THEN primed ELSE Zeros]
  /\ dirty = [c \in Characteristics |-> FALSE]
  /\ sinceNotify = [c \in Characteristics |-> MaxInterval]
  /\ charValue = buffer
  /\ seen = buffer
  /\ due = <<>> /\ stored = FALSE
  /\ answer = <<>> /\ auths = 0
=============================================================================
