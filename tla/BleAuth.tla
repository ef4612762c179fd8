------------------------------ MODULE BleAuth ------------------------------
(***************************************************************************)
(* The connection table of BoatWatchBLE (lib/bluetooth/boatwatch_ble.cpp): *)
(* who is connected, who has presented the PIN, the lockouts that slow a   *)
(* guesser down, and the housekeeping that notify() does for it.           *)
(*                                                                         *)
(* Two tasks run this code.  The NimBLE host task delivers onConnect,      *)
(* onDisconnect and onWrite one at a time; the Arduino loop task calls     *)
(* notify().  Each critical section of _clientsMutex is one step, and so   *)
(* is each stretch of code between two of them, so every interleaving the  *)
(* mutex allows is a behaviour.  Only a call that starts advertising goes  *)
(* with the section before it: advertising matters to LinkUp alone.        *)
(*                                                                         *)
(* Time is `clock', a true elapsed time that never wraps; the program only *)
(* sees Millis, its residue in an unsigned long.                           *)
(***************************************************************************)
EXTENDS Integers, FiniteSets

CONSTANTS
  Handle,                 \* connection handles; the map is ordered by them
  MaxClients,             \* BW_MAX_CLIENTS, also the controller's limit
  LockoutFailures,        \* BW_AUTH_LOCKOUT_FAILURES
  MaxFailures,            \* BW_AUTH_MAX_FAILURES
  GlobalLockoutFailures,  \* BW_AUTH_GLOBAL_LOCKOUT_FAILURES
  LockoutMs,              \* BW_AUTH_LOCKOUT_MS
  GlobalLockoutMs,        \* BW_AUTH_GLOBAL_LOCKOUT_MS
  IdleTimeoutMs,          \* BW_UNAUTH_IDLE_TIMEOUT_MS
  AdvWatchdogMs,          \* BW_ADV_WATCHDOG_MS
  ClockMod,               \* 2^32, the range of millis()
  StartClock,             \* when the behaviour starts
  MaxClock,               \* bound of the model: when it ends
  LateFailures,           \* bound of the model: wrong PINs a link still gets in
                          \* while its forced disconnect is under way
  NoClient                \* "not in the map"

ASSUME HandleAssumption ==
  Handle \subseteq Nat /\ IsFiniteSet(Handle)
ASSUME CountAssumption ==
  /\ MaxClients \in Nat \ {0}
  /\ LockoutFailures \in Nat \ {0}
  /\ MaxFailures \in 1 .. 255               \* failures is a uint8_t
  /\ GlobalLockoutFailures \in 1 .. 65535   \* _globalAuthFailures a uint16_t
ASSUME TimeAssumption ==
  /\ LockoutMs \in Nat \ {0}
  /\ GlobalLockoutMs \in Nat \ {0}
  /\ IdleTimeoutMs \in Nat
  /\ AdvWatchdogMs \in Nat
  /\ ClockMod \in Nat \ {0}
  /\ MaxClock \in Nat /\ StartClock \in 0 .. MaxClock
  /\ LateFailures \in Nat

VARIABLES
  clock,           \* true time
  \* the BLE controller and NimBLE's own bookkeeping
  up,              \* the links getConnectedCount() counts
  terminating,     \* links disconnect() was asked to drop
  advertising,     \* isAdvertising()
  \* the NimBLE host task
  nimble,          \* what its current callback still has to do
  \* BoatWatchBLE, under _clientsMutex
  clients,         \* _clients
  globalFailures,  \* _globalAuthFailures
  globalUntil,     \* _globalBlockUntilMs
  \* the loop task inside notify()
  main,            \* where it is, the `now' it sampled, its idleHandles
  lastAdvCheck,    \* _lastAdvCheckMs
  \* history: what an observer of the radio knows, never read by the program
  proved,          \* links that have presented the right PIN
  obeyed,          \* links a command of which has been executed
  wrong,           \* wrong PINs compared on a link since its last lockout
  wrongAll,        \* the same over all links since the last global lockout
  linkEnd,         \* true time at which the link's lockout is over
  lockEnd          \* true time at which the global lockout is over

radioVars  == <<up, terminating, advertising>>
tableVars  == <<clients, globalFailures, globalUntil>>
mainVars   == <<main, lastAdvCheck>>
guessVars  == <<wrong, wrongAll, linkEnd, lockEnd>>
vars == <<clock, radioVars, nimble, tableVars, mainVars, proved, obeyed,
          guessVars>>

----------------------------------------------------------------------------
(* Data. *)

Failures == 0 .. 255                  \* uint8_t
Totals   == {n \in Nat : n < 65536}  \* uint16_t
Stamps   == 0 .. (ClockMod - 1)       \* unsigned long

ClientState == [authed       : BOOLEAN,
                failures     : Failures,
                blockUntilMs : Stamps,
                connectedAtMs: Stamps]

ASSUME NoClientAssumption == NoClient \notin ClientState

\* The behaviours that end well before millis() comes round again.
NoWrap == /\ 2 * (MaxClock + LockoutMs) < ClockMod
          /\ 2 * (MaxClock + GlobalLockoutMs) < ClockMod

Tracked == {h \in Handle : clients[h] # NoClient}

Millis == clock % ClockMod

\* What the subtraction of two unsigned longs yields.
Elapsed(now, since) == (now - since) % ClockMod

\* Mutant of Later: the sum kept in a type wider than the clock's.
LaterWide(ms) == Millis + ms

Later(ms) == (Millis + ms) % ClockMod

\* How far the signed reading (long)(until - now) is ahead; 0 when it is not.
Ahead(until, now) ==
  LET d == (until - now) % ClockMod IN IF 2 * d < ClockMod THEN d ELSE 0

\* Mutants of Blocked: the lockout ends a millisecond early, or late.
BlockedEarly(until, now) == until # 0 /\ Ahead(until, now) > 1
BlockedLate(until, now) == until # 0 /\ (Ahead(until, now) > 0 \/ until = now)

\* `until != 0 && (long)(until - now) > 0'.
Blocked(until, now) == until # 0 /\ Ahead(until, now) > 0

Idle == [step |-> "idle"]             \* of either task: nothing in hand

----------------------------------------------------------------------------
(* The BLE controller.  A link that comes up or goes down is first counted *)
(* by NimBLE; its callback is then the only thing the host task does.      *)

LinkUp(h) ==
  /\ nimble = Idle
  /\ advertising /\ h \notin up /\ Cardinality(up) < MaxClients
  /\ up' = up \cup {h}
  /\ advertising' = FALSE
  /\ nimble' = [step |-> "connect", h |-> h]
  /\ UNCHANGED <<clock, terminating, tableVars, mainVars, proved, obeyed, guessVars>>

\* The observer's notes are about a link, not about its handle.
ForgetLink(h) ==
  /\ proved' = proved \ {h}
  /\ obeyed' = obeyed \ {h}
  /\ wrong' = [wrong EXCEPT ![h] = 0]
  /\ linkEnd' = [linkEnd EXCEPT ![h] = 0]
  /\ UNCHANGED <<wrongAll, lockEnd>>

LinkDown(h) ==
  /\ nimble = Idle
  /\ h \in up
  /\ up' = up \ {h}
  /\ terminating' = terminating \ {h}
  /\ nimble' = [step |-> "disconnect", h |-> h]
  /\ ForgetLink(h)
  /\ UNCHANGED <<clock, advertising, tableVars, mainVars>>

\* The disconnect whose callback never comes, which notify() is written to survive.
MissedDisconnect(h) ==
  /\ nimble = Idle
  /\ h \in up
  /\ up' = up \ {h}
  /\ terminating' = terminating \ {h}
  /\ ForgetLink(h)
  /\ UNCHANGED <<clock, advertising, nimble, tableVars, mainVars>>

\* Advertising "silently stopped", observed after many connect cycles.
AdvertisingStops ==
  /\ advertising
  /\ advertising' = FALSE
  /\ UNCHANGED <<clock, up, terminating, nimble, tableVars, mainVars, proved, obeyed,
                 guessVars>>

\* NimBLEServer::disconnect asks; the link goes down later, if it is still up.
Terminate(h) == terminating' = terminating \cup ({h} \cap up)

\* Mutant of RestartAdvertising: an off-by-one at the last free slot.
RestartBelowLast == advertising' = (advertising \/ Cardinality(up) < MaxClients - 1)

RestartAdvertising == advertising' = (advertising \/ Cardinality(up) < MaxClients)

Tick ==
  /\ clock < MaxClock
  /\ clock' = clock + 1
  /\ UNCHANGED <<radioVars, nimble, tableVars, mainVars, proved, obeyed, guessVars>>

----------------------------------------------------------------------------
(* The NimBLE host task. *)

NewClient == [authed |-> FALSE, failures |-> 0, blockUntilMs |-> 0,
              connectedAtMs |-> Millis]

\* Mutant of Enrolled: map::emplace, which keeps an entry that is there.
EnrolledOnce(h) == IF clients[h] = NoClient THEN NewClient ELSE clients[h]

\* `_clients[connHandle] = ClientState{...}' replaces whatever was there.
Enrolled(h) == NewClient

OnConnect ==
  /\ nimble.step = "connect"
  /\ clients' = [clients EXCEPT ![nimble.h] = Enrolled(nimble.h)]
  /\ RestartAdvertising
  /\ nimble' = Idle
  /\ UNCHANGED <<clock, up, terminating, globalFailures, globalUntil, mainVars, proved,
                 obeyed, guessVars>>

OnDisconnect ==
  /\ nimble.step = "disconnect"
  /\ clients' = [clients EXCEPT ![nimble.h] = NoClient]
  /\ RestartAdvertising
  /\ nimble' = Idle
  /\ UNCHANGED <<clock, up, terminating, globalFailures, globalUntil, mainVars, proved,
                 obeyed, guessVars>>

Reply(h, pinOk, accepted, force) ==
  [step |-> "reply", h |-> h, pinOk |-> pinOk, accepted |-> accepted, force |-> force]

GlobalLockout == Blocked(globalUntil, Millis)
LinkLockout(h) == Blocked(clients[h].blockUntilMs, Millis)

\* handleCommand's critical section for AUTH, by outcome.  A global lockout
\* that has run out is only noticed here, and its failures forgotten.
\* Mutant of ForgivenFailures: they are forgotten at every attempt.
AlwaysForgiven == 0

ForgivenFailures == IF globalUntil # 0 THEN 0 ELSE globalFailures

AuthRejectedGlobally(h, pinOk) ==
  /\ GlobalLockout
  /\ nimble' = Reply(h, pinOk, FALSE, FALSE)
  /\ UNCHANGED <<tableVars, proved, guessVars>>

AuthRejectedOnLink(h, pinOk) ==
  /\ ~GlobalLockout /\ LinkLockout(h)
  /\ nimble' = Reply(h, pinOk, FALSE, FALSE)
  /\ globalUntil' = 0
  /\ globalFailures' = ForgivenFailures
  /\ UNCHANGED <<clients, proved, guessVars>>

AuthAccepted(h) ==
  /\ ~GlobalLockout /\ ~LinkLockout(h)
  /\ nimble' = Reply(h, TRUE, TRUE, FALSE)
  /\ clients' = [clients EXCEPT ![h] =
       [authed |-> TRUE, failures |-> 0, blockUntilMs |-> 0,
        connectedAtMs |-> clients[h].connectedAtMs]]
  /\ globalUntil' = 0
  /\ globalFailures' = 0
  /\ proved' = proved \cup {h}
  /\ wrong' = [wrong EXCEPT ![h] = 0]
  /\ wrongAll' = 0
  /\ UNCHANGED <<linkEnd, lockEnd>>

AuthDenied(h) ==
  LET failures == (clients[h].failures + 1) % 256
      force    == failures >= MaxFailures
      lock     == ~force /\ failures % LockoutFailures = 0
      until    == IF lock THEN Later(LockoutMs)
                  ELSE clients[h].blockUntilMs
      total    == (ForgivenFailures + 1) % 65536
      lockAll  == total >= GlobalLockoutFailures
  IN
  /\ ~GlobalLockout /\ ~LinkLockout(h)
  /\ nimble' = Reply(h, FALSE, FALSE, force)
  /\ clients' = [clients EXCEPT ![h] =
       [authed |-> clients[h].authed, failures |-> failures, blockUntilMs |-> until,
        connectedAtMs |-> clients[h].connectedAtMs]]
  /\ globalFailures' = total
  /\ globalUntil' = IF lockAll THEN Later(GlobalLockoutMs) ELSE 0
  /\ wrong' = [wrong EXCEPT ![h] = IF lock THEN 0 ELSE @ + 1]
  /\ linkEnd' = [linkEnd EXCEPT ![h] = IF lock THEN clock + LockoutMs ELSE @]
  /\ wrongAll' = IF lockAll THEN 0 ELSE wrongAll + 1
  /\ lockEnd' = IF lockAll THEN clock + GlobalLockoutMs ELSE lockEnd
  /\ UNCHANGED proved

\* A link that is not in the map is ignored ("post-disconnect race").
AuthWrite(h, pinOk) ==
  /\ nimble = Idle
  /\ h \in up /\ clients[h] # NoClient
  /\ clients[h].failures < MaxFailures + LateFailures
  /\ \/ AuthRejectedGlobally(h, pinOk)
     \/ AuthRejectedOnLink(h, pinOk)
     \/ pinOk /\ AuthAccepted(h)
     \/ ~pinOk /\ AuthDenied(h)
  /\ UNCHANGED <<clock, radioVars, mainVars, obeyed>>

\* After the unlock: the response, then the disconnect of a persistent guesser.
SendReply ==
  /\ nimble.step = "reply"
  /\ IF nimble.force THEN Terminate(nimble.h) ELSE UNCHANGED terminating
  /\ nimble' = Idle
  /\ UNCHANGED <<clock, up, advertising, tableVars, mainVars, proved, obeyed, guessVars>>

\* Any other command: the callback runs if the map says the link is authenticated.
CommandWrite(h) ==
  /\ nimble = Idle
  /\ h \in up /\ clients[h] # NoClient
  /\ clients[h].authed
  /\ obeyed' = obeyed \cup {h}
  /\ UNCHANGED <<clock, radioVars, nimble, tableVars, mainVars, proved, guessVars>>

----------------------------------------------------------------------------
(* notify() on the loop task, up to the point where it publishes. *)

WatchdogDue == Elapsed(Millis, lastAdvCheck) >= AdvWatchdogMs

\* `now' is sampled once, then the advertising watchdog runs.
NotifyBegin ==
  /\ main = Idle
  /\ main' = [step |-> "count", now |-> Millis]
  /\ IF WatchdogDue
     THEN lastAdvCheck' = Millis /\ RestartAdvertising
     ELSE UNCHANGED <<lastAdvCheck, advertising>>
  /\ UNCHANGED <<clock, up, terminating, nimble, tableVars, proved, obeyed, guessVars>>

\* getConnectedCount() is read without the mutex.
NotifyCount ==
  /\ main.step = "count"
  /\ main' = IF up = {} THEN [step |-> "clear"]
             ELSE [step |-> "collect", now |-> main.now]
  /\ UNCHANGED <<clock, radioVars, nimble, tableVars, lastAdvCheck, proved, obeyed,
                 guessVars>>

\* Mutant of Recovered: authenticated entries survive the recovery.
RecoveredUnauthed ==
  [h \in Handle |-> IF clients[h] # NoClient /\ clients[h].authed THEN clients[h] ELSE NoClient]

\* _clients.clear()
Recovered == [h \in Handle |-> NoClient]

\* Missed-disconnect recovery.
NotifyClear ==
  /\ main.step = "clear"
  /\ clients' = Recovered
  /\ advertising' = (advertising \/ Tracked # {})
  /\ main' = Idle
  /\ UNCHANGED <<clock, up, terminating, nimble, globalFailures, globalUntil,
                 lastAdvCheck, proved, obeyed, guessVars>>

\* Mutant of IdleTooLong: a client that was ever locked out is left alone.
IdleUnlessLocked(h, now) ==
  /\ ~clients[h].authed /\ clients[h].blockUntilMs = 0
  /\ Elapsed(now, clients[h].connectedAtMs) > IdleTimeoutMs

IdleTooLong(h, now) ==
  /\ ~clients[h].authed
  /\ Elapsed(now, clients[h].connectedAtMs) > IdleTimeoutMs

\* The walk over the map stops collecting after BW_MAX_CLIENTS handles.
NotifyCollect ==
  /\ main.step = "collect"
  /\ LET idlers == {h \in Tracked : IdleTooLong(h, main.now)}
         first  == {h \in idlers : Cardinality({g \in idlers : g < h}) < MaxClients}
     IN  main' = [step |-> "kick", idle |-> first]
  /\ UNCHANGED <<clock, radioVars, nimble, tableVars, lastAdvCheck, proved, obeyed,
                 guessVars>>

NotifyKick(h) ==
  /\ main.step = "kick"
  /\ h \in main.idle
  /\ Terminate(h)
  /\ main' = [main EXCEPT !.idle = @ \ {h}]
  /\ UNCHANGED <<clock, up, advertising, nimble, tableVars, lastAdvCheck, proved, obeyed,
                 guessVars>>

\* The rest of notify() publishes; it reads the table but does not change it.
NotifyEnd ==
  /\ main.step = "kick"
  /\ main.idle = {}
  /\ main' = Idle
  /\ UNCHANGED <<clock, radioVars, nimble, tableVars, lastAdvCheck, proved, obeyed,
                 guessVars>>

----------------------------------------------------------------------------
Init ==
  /\ clock = StartClock
  /\ up = {} /\ terminating = {} /\ advertising = TRUE
  /\ nimble = Idle
  /\ clients = [h \in Handle |-> NoClient]
  /\ globalFailures = 0 /\ globalUntil = 0
  /\ main = Idle
  /\ lastAdvCheck = Millis
  /\ proved = {} /\ obeyed = {}
  /\ wrong = [h \in Handle |-> 0] /\ wrongAll = 0
  /\ linkEnd = [h \in Handle |-> 0] /\ lockEnd = 0

Radio ==
  \/ \E h \in Handle : LinkUp(h) \/ LinkDown(h) \/ MissedDisconnect(h)
  \/ AdvertisingStops

Host ==
  \/ OnConnect
  \/ OnDisconnect
  \/ \E h \in Handle : CommandWrite(h) \/ \E pinOk \in BOOLEAN : AuthWrite(h, pinOk)
  \/ SendReply

Notify ==
  \/ NotifyBegin \/ NotifyCount \/ NotifyClear \/ NotifyCollect
  \/ \E h \in Handle : NotifyKick(h)
  \/ NotifyEnd

Next == Tick \/ Radio \/ Host \/ Notify

Spec == Init /\ [][Next]_vars

(* Fairness: loop() runs forever and so does the host task; a link that was *)
(* told to go goes, whatever else the host task is kept busy with.          *)
Fairness ==
  /\ WF_vars(Tick)
  /\ WF_vars(Notify)
  /\ WF_vars(OnConnect \/ OnDisconnect \/ SendReply)
  /\ \A h \in Handle : SF_vars(h \in terminating /\ LinkDown(h))

FairSpec == Spec /\ Fairness

----------------------------------------------------------------------------
(* Properties. *)

Connecting(h) == nimble.step = "connect" /\ nimble.h = h
Forcing(h) == nimble.step = "reply" /\ nimble.h = h /\ nimble.force

NimbleStates ==
  {Idle} \cup [step : {"connect", "disconnect"}, h : Handle]
    \cup [step : {"reply"}, h : Handle, pinOk : BOOLEAN, accepted : BOOLEAN,
          force : BOOLEAN]

MainStates ==
  {Idle, [step |-> "clear"]} \cup [step : {"count", "collect"}, now : Stamps]
    \cup [step : {"kick"}, idle : SUBSET Handle]

(* The types of the variables, with the width of each counter and stamp;    *)
(* only a link that is up is being terminated.                              *)
TypeOK ==
  /\ clock \in 0 .. MaxClock
  /\ up \subseteq Handle /\ terminating \subseteq up /\ advertising \in BOOLEAN
  /\ nimble \in NimbleStates
  /\ clients \in [Handle -> ClientState \cup {NoClient}]
  /\ globalFailures \in Totals /\ globalUntil \in Stamps
  /\ main \in MainStates /\ lastAdvCheck \in Stamps
  /\ proved \subseteq Handle /\ obeyed \subseteq Handle
  /\ wrong \in [Handle -> Nat] /\ wrongAll \in Nat
  /\ linkEnd \in [Handle -> Nat] /\ lockEnd \in Nat

(* A command is only ever executed for a link that has itself presented the *)
(* right PIN since it came up: neither a missed disconnect nor a reused     *)
(* handle hands one client the authentication of another.                   *)
OnlyProvedAct == obeyed \subseteq proved

(* Guessing is bounded: fewer than GlobalLockoutFailures wrong PINs are     *)
(* compared over all connections between two global lockouts, and fewer     *)
(* than LockoutFailures on one link between two of its own, unless it is    *)
(* already being disconnected.  The cumulative count never passes its limit.*)
GuessBudget ==
  /\ globalFailures <= GlobalLockoutFailures
  /\ wrongAll < GlobalLockoutFailures
  /\ \A h \in up : wrong[h] >= LockoutFailures => h \in terminating \/ Forcing(h)

Compares(h) == wrong'[h] > wrong[h] \/ (h \in proved' \ proved)

(* No PIN is compared while a lockout, of the link or of all, still runs:   *)
(* reconnecting, other clients' traffic and the recovery of missed          *)
(* disconnects cannot shorten one.                                          *)
LockoutsHold ==
  [][\A h \in Handle : Compares(h) => clock >= lockEnd /\ clock >= linkEnd[h]]_vars

RefusesRightPin ==
  /\ nimble = Idle /\ nimble'.step = "reply"
  /\ nimble'.pinOk /\ ~nimble'.accepted

(* A lockout ends: the right PIN is only refused while one really runs, a   *)
(* global one or one engaged on that very link.                             *)
LockoutsEnd ==
  [][RefusesRightPin => clock < lockEnd \/ clock < linkEnd[nimble'.h]]_vars

(* Every link that NimBLE counts, and whose onConnect has returned, has its *)
(* entry in the map, so that it can authenticate and can be timed out.      *)
EveryLinkTracked == \A h \in up : Connecting(h) \/ clients[h] # NoClient

(* notify() only disconnects a client that is unauthenticated and has been  *)
(* connected for longer than the idle window.                               *)
KickOnlyIdle ==
  [][\A h \in terminating' \ terminating :
       main.step = "kick" =>
         /\ clients[h] # NoClient
         /\ ~clients[h].authed
         /\ clock - clients[h].connectedAtMs > IdleTimeoutMs]_vars

(* An unauthenticated client does not hold its slot for ever.  (The bound   *)
(* on the clock leaves the timeout room to run out.)                        *)
Lingers(h) ==
  /\ h \in up /\ ~Connecting(h) /\ clients[h] # NoClient /\ ~clients[h].authed
  /\ clients[h].connectedAtMs + IdleTimeoutMs < MaxClock
IdleDropped ==
  \A h \in Handle : Lingers(h) ~> (h \notin up \/ clients[h] = NoClient \/ clients[h].authed)

(* Entries whose disconnect was missed go once nobody is connected.         *)
StaleRecovered == (up = {} /\ Tracked # {}) ~> (Tracked = {} \/ up # {})

(* With a slot free, advertising that stopped is started again.             *)
SlotFree == Cardinality(up) < MaxClients
AdvertisingRestored ==
  (~advertising /\ SlotFree /\ clock + AdvWatchdogMs <= MaxClock)
    ~> (advertising \/ ~SlotFree)

=============================================================================
