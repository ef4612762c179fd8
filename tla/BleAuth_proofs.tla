--------------------------- MODULE BleAuth_proofs ---------------------------
(***************************************************************************)
(* Proofs about BleAuth, for every set of handles, every limit and every   *)
(* range of the clock.                                                     *)
(*                                                                         *)
(* First its types, and that commands are only taken from links that       *)
(* presented the PIN; neither needs the clock to behave.  Then, as long as *)
(* the behaviour ends before millis() has covered half of its range        *)
(* (NoWrap), its lockouts: one holds, it ends, and it comes in time.       *)
(*                                                                         *)
(* The invariant of these ties what the program keeps to what an observer  *)
(* of the radio has noted.  It is needed because the program overwrites or *)
(* clears each of its stamps and counters at several places, and only the  *)
(* others tell that it was right to do so.                                 *)
(***************************************************************************)
EXTENDS BleAuth, TLAPS

----------------------------------------------------------------------------
(* Type correctness. *)

\* Whatever is cut to the width of millis() is a stamp.
LEMMA StampIsStamp == ASSUME NEW x \in Int PROVE x % ClockMod \in Stamps
BY TimeAssumption DEF Stamps

\* The failure total stays in its 16 bits.
LEMMA TotalWidth == ASSUME NEW n \in Totals PROVE (n + 1) % 65536 \in Totals
BY DEF Totals

\* millis() is a stamp.
LEMMA MillisIsStamp == ASSUME clock \in Nat PROVE Millis \in Stamps
BY StampIsStamp DEF Millis

\* So is zero, which stands for none.
LEMMA ZeroIsStamp == 0 \in Stamps
BY TimeAssumption DEF Stamps

\* A client as onConnect() enters it.
LEMMA EnrolledType == ASSUME NEW h, clock \in Nat PROVE Enrolled(h) \in ClientState
BY MillisIsStamp, ZeroIsStamp DEF Enrolled, NewClient, ClientState, Failures

\* The host task with a reply to send.
LEMMA ReplyType ==
  ASSUME NEW h \in Handle, NEW p \in BOOLEAN, NEW a \in BOOLEAN, NEW f \in BOOLEAN
  PROVE  Reply(h, p, a, f) \in NimbleStates
BY DEF Reply, NimbleStates

\* A host task that is not idle works for a link.
LEMMA NimbleHandle ==
  ASSUME nimble \in NimbleStates, nimble.step # "idle"
  PROVE  nimble.h \in Handle
BY DEF NimbleStates, Idle

\* startAdvertising() leaves advertising on or off.
LEMMA RestartType == ASSUME advertising \in BOOLEAN, RestartAdvertising
                     PROVE  advertising' \in BOOLEAN
BY DEF RestartAdvertising

\* The types hold at first.
LEMMA TypeInit == Init => TypeOK
<1> SUFFICES ASSUME Init PROVE TypeOK
  OBVIOUS
<1>1. Millis \in Stamps
  BY MillisIsStamp, TimeAssumption DEF Init
<1>2. QED
  BY <1>1, TimeAssumption DEF Init, TypeOK, Totals, Idle, NimbleStates, MainStates, Stamps

\* The radio keeps the types.
LEMMA TypeRadio == ASSUME TypeOK, Radio PROVE TypeOK'
<1> USE DEF TypeOK
<1>1. ASSUME NEW h \in Handle, LinkUp(h) PROVE TypeOK'
  BY <1>1 DEF LinkUp, NimbleStates, tableVars, mainVars, guessVars
<1>2. ASSUME NEW h \in Handle, LinkDown(h) PROVE TypeOK'
  BY <1>2 DEF LinkDown, ForgetLink, NimbleStates, tableVars, mainVars
<1>3. ASSUME NEW h \in Handle, MissedDisconnect(h) PROVE TypeOK'
  BY <1>3 DEF MissedDisconnect, ForgetLink, tableVars, mainVars
<1>4. ASSUME AdvertisingStops PROVE TypeOK'
  BY <1>4 DEF AdvertisingStops, tableVars, mainVars, guessVars
<1>5. QED
  BY <1>1, <1>2, <1>3, <1>4 DEF Radio

\* An AUTH write keeps the types.
LEMMA TypeAuth ==
  ASSUME TypeOK, NEW h \in Handle, NEW pinOk \in BOOLEAN, AuthWrite(h, pinOk)
  PROVE  TypeOK'
<1>0. /\ clients[h] \in ClientState /\ clock \in Nat /\ Millis \in Stamps
      /\ 0 \in Totals /\ ForgivenFailures \in Totals
  <2>1. 0 \in Totals
    BY DEF Totals
  <2>2. QED
    BY <2>1, MillisIsStamp, TimeAssumption DEF TypeOK, AuthWrite, ForgivenFailures
<1>1. CASE AuthRejectedGlobally(h, pinOk)
  <2>1. nimble' \in NimbleStates
    BY <1>1, ReplyType DEF AuthRejectedGlobally
  <2>2. QED
    BY <1>1, <2>1 DEF TypeOK, AuthWrite, AuthRejectedGlobally, radioVars, tableVars,
       mainVars, guessVars
<1>2. CASE AuthRejectedOnLink(h, pinOk)
  <2>1. nimble' \in NimbleStates
    BY <1>2, ReplyType DEF AuthRejectedOnLink
  <2>2. globalFailures' \in Totals /\ globalUntil' \in Stamps
    BY <1>0, <1>2, ZeroIsStamp DEF AuthRejectedOnLink
  <2>3. QED
    BY <1>2, <2>1, <2>2 DEF TypeOK, AuthWrite, AuthRejectedOnLink, radioVars, mainVars,
       guessVars
<1>3. CASE pinOk /\ AuthAccepted(h)
  <2>1. clients' \in [Handle -> ClientState \cup {NoClient}]
    BY <1>0, <1>3, ZeroIsStamp DEF TypeOK, AuthAccepted, ClientState, Failures
  <2>2. nimble' \in NimbleStates
    BY <1>3, ReplyType DEF AuthAccepted
  <2>3. QED
    BY <1>0, <1>3, <2>1, <2>2, ZeroIsStamp DEF TypeOK, AuthWrite, AuthAccepted, radioVars,
       mainVars
<1>4. CASE ~pinOk /\ AuthDenied(h)
  <2> DEFINE failures == (clients[h].failures + 1) % 256
             force    == failures >= MaxFailures
             lock     == ~force /\ failures % LockoutFailures = 0
             until    == IF lock THEN Later(LockoutMs)
                         ELSE clients[h].blockUntilMs
             total    == (ForgivenFailures + 1) % 65536
             lockAll  == total >= GlobalLockoutFailures
  <2>1. failures \in Failures /\ force \in BOOLEAN
    BY <1>0 DEF ClientState, Failures
  <2>2. until \in Stamps /\ Later(GlobalLockoutMs) \in Stamps
    <3>1. Millis + LockoutMs \in Int /\ Millis + GlobalLockoutMs \in Int
      BY <1>0, TimeAssumption DEF Stamps
    <3>2. clients[h].blockUntilMs \in Stamps
      BY <1>0 DEF ClientState
    <3>3. QED
      BY <3>1, <3>2, StampIsStamp DEF Later
  <2>3. clients' \in [Handle -> ClientState \cup {NoClient}]
    <3>1. clients' = [clients EXCEPT ![h] =
            [authed |-> clients[h].authed, failures |-> failures, blockUntilMs |-> until,
             connectedAtMs |-> clients[h].connectedAtMs]]
      BY <1>4 DEF AuthDenied
    <3> HIDE DEF failures, until
    <3>2. QED
      BY <1>0, <2>1, <2>2, <3>1 DEF TypeOK, ClientState
  <2>4. nimble' \in NimbleStates
    <3>1. nimble' = Reply(h, FALSE, FALSE, force)
      BY <1>4 DEF AuthDenied
    <3> HIDE DEF force
    <3>2. QED
      BY <2>1, <3>1, ReplyType
  <2>5. globalFailures' \in Totals /\ globalUntil' \in Stamps
    <3>1. total \in Totals
      BY <1>0, TotalWidth
    <3>2. globalFailures' = total
      BY <1>4 DEF AuthDenied
    <3>3. QED
      BY <1>4, <2>2, <3>1, <3>2, ZeroIsStamp DEF AuthDenied
  <2>6. /\ wrong' \in [Handle -> Nat] /\ wrongAll' \in Nat
        /\ linkEnd' \in [Handle -> Nat] /\ lockEnd' \in Nat
    <3>1. /\ wrong' = [wrong EXCEPT ![h] = IF lock THEN 0 ELSE @ + 1]
          /\ linkEnd' = [linkEnd EXCEPT ![h] = IF lock THEN clock + LockoutMs ELSE @]
          /\ wrongAll' = IF lockAll THEN 0 ELSE wrongAll + 1
          /\ lockEnd' = IF lockAll THEN clock + GlobalLockoutMs ELSE lockEnd
      BY <1>4 DEF AuthDenied
    <3> HIDE DEF lock, lockAll
    <3>2. QED
      BY <1>0, <3>1, TimeAssumption DEF TypeOK
  <2>7. UNCHANGED <<clock, up, terminating, advertising, main, lastAdvCheck, proved, obeyed>>
    BY <1>4 DEF AuthWrite, AuthDenied, radioVars, mainVars
  <2>8. QED
    BY <2>3, <2>4, <2>5, <2>6, <2>7 DEF TypeOK
<1>5. QED
  BY <1>1, <1>2, <1>3, <1>4 DEF AuthWrite

\* The rest of the host task keeps the types.
LEMMA TypeHost == ASSUME TypeOK, Host PROVE TypeOK'
<1> USE DEF TypeOK
<1>1. CASE OnConnect
  <2>1. nimble.h \in Handle /\ Enrolled(nimble.h) \in ClientState /\ Idle \in NimbleStates
    BY <1>1, NimbleHandle, EnrolledType, TimeAssumption DEF OnConnect, NimbleStates
  <2>2. QED
    BY <1>1, <2>1, RestartType DEF OnConnect, mainVars, guessVars
<1>2. CASE OnDisconnect
  BY <1>2, RestartType DEF OnDisconnect, NimbleStates, mainVars, guessVars
<1>3. ASSUME NEW h \in Handle, CommandWrite(h) PROVE TypeOK'
  BY <1>3 DEF CommandWrite, radioVars, tableVars, mainVars, guessVars
<1>4. ASSUME NEW h \in Handle, NEW pinOk \in BOOLEAN, AuthWrite(h, pinOk) PROVE TypeOK'
  BY <1>4, TypeAuth
<1>5. CASE SendReply
  BY <1>5 DEF SendReply, Terminate, NimbleStates, tableVars, mainVars, guessVars
<1>6. QED
  BY <1>1, <1>2, <1>3, <1>4, <1>5 DEF Host

\* notify() keeps the types.
LEMMA TypeNotify == ASSUME TypeOK, Notify PROVE TypeOK'
<1> USE DEF TypeOK
<1>0. Idle \in MainStates /\ [step |-> "clear"] \in MainStates /\ Millis \in Stamps
  BY MillisIsStamp, TimeAssumption DEF MainStates
<1>1. CASE NotifyBegin
  BY <1>0, <1>1, RestartType DEF NotifyBegin, MainStates, tableVars, guessVars
<1>2. CASE NotifyCount
  <2>1. main.step = "count" => main.now \in Stamps
    BY DEF MainStates, Idle
  <2>2. main' \in MainStates
    BY <1>0, <1>2, <2>1 DEF NotifyCount, MainStates
  <2>3. QED
    BY <1>2, <2>2 DEF NotifyCount, radioVars, tableVars, guessVars
<1>3. CASE NotifyClear
  BY <1>0, <1>3 DEF NotifyClear, Recovered, guessVars
<1>4. CASE NotifyCollect
  <2>1. main' \in MainStates
    BY <1>4 DEF NotifyCollect, MainStates, Tracked
  <2>2. QED
    BY <1>4, <2>1 DEF NotifyCollect, radioVars, tableVars, guessVars
<1>5. ASSUME NEW h \in Handle, NotifyKick(h) PROVE TypeOK'
  <2>1. main' \in MainStates
    BY <1>5 DEF NotifyKick, MainStates, Idle
  <2>2. QED
    BY <1>5, <2>1 DEF NotifyKick, Terminate, tableVars, guessVars
<1>6. CASE NotifyEnd
  BY <1>0, <1>6 DEF NotifyEnd, radioVars, tableVars, guessVars
<1>7. QED
  BY <1>1, <1>2, <1>3, <1>4, <1>5, <1>6 DEF Notify

\* Time keeps the types.
LEMMA TypeTick == ASSUME TypeOK, Tick PROVE TypeOK'
BY TimeAssumption DEF TypeOK, Tick, radioVars, tableVars, mainVars, guessVars

\* Every step keeps the types.
LEMMA TypeNext == TypeOK /\ [Next]_vars => TypeOK'
<1>1. ASSUME TypeOK, UNCHANGED vars PROVE TypeOK'
  BY <1>1 DEF TypeOK, vars, radioVars, tableVars, mainVars, guessVars
<1>2. QED
  BY <1>1, TypeTick, TypeRadio, TypeHost, TypeNotify DEF Next

(* TypeOK, whatever the clock does: counters and stamps keep their width,   *)
(* and disconnect() is only ever under way for a link that is up.           *)
THEOREM TypeCorrect == Spec => []TypeOK
BY TypeInit, TypeNext, PTL DEF Spec

----------------------------------------------------------------------------
(* Only proved links are obeyed.  The map may hold entries of links that    *)
(* are gone; what saves it is that a link is not listened to before its     *)
(* onConnect has put a fresh entry in their place.                          *)

Settled(h) == h \in up /\ ~Connecting(h) /\ clients[h] # NoClient

AuthInv(h) ==
  /\ h \notin up \/ Connecting(h) => h \notin proved /\ h \notin obeyed
  /\ Settled(h) /\ clients[h].authed => h \in proved
  /\ h \in obeyed => h \in proved

\* No link is authenticated by coming or going.
LEMMA AuthRadio ==
  ASSUME TypeOK, Radio, NEW k \in Handle, AuthInv(k) PROVE AuthInv(k)'
<1> USE DEF AuthInv, Settled, Connecting
<1>1. ASSUME NEW h \in Handle, LinkUp(h) PROVE AuthInv(k)'
  BY <1>1 DEF LinkUp, Idle, tableVars, guessVars
<1>2. ASSUME NEW h \in Handle, LinkDown(h) PROVE AuthInv(k)'
  BY <1>2 DEF LinkDown, ForgetLink, Idle, tableVars
<1>3. ASSUME NEW h \in Handle, MissedDisconnect(h) PROVE AuthInv(k)'
  BY <1>3 DEF MissedDisconnect, ForgetLink, Idle, tableVars
<1>4. ASSUME AdvertisingStops PROVE AuthInv(k)'
  BY <1>4 DEF AdvertisingStops, tableVars, guessVars
<1>5. QED
  BY <1>1, <1>2, <1>3, <1>4 DEF Radio

(* A denied attempt leaves the entry as authenticated as it was. *)
LEMMA DeniedEntry ==
  ASSUME NEW h \in Handle, AuthDenied(h)
  PROVE  \E f, u : clients' = [clients EXCEPT ![h] =
           [authed |-> clients[h].authed, failures |-> f, blockUntilMs |-> u,
            connectedAtMs |-> clients[h].connectedAtMs]]
<1> DEFINE failures == (clients[h].failures + 1) % 256
           lock     == ~(failures >= MaxFailures) /\ failures % LockoutFailures = 0
           until    == IF lock THEN Later(LockoutMs) ELSE clients[h].blockUntilMs
<1>1. clients' = [clients EXCEPT ![h] =
        [authed |-> clients[h].authed, failures |-> failures, blockUntilMs |-> until,
         connectedAtMs |-> clients[h].connectedAtMs]]
  BY DEF AuthDenied
<1> HIDE DEF failures, until
<1>2. QED
  BY <1>1

\* An AUTH write authenticates its link only, and only with the right PIN.
LEMMA AuthWritten ==
  ASSUME TypeOK, NEW k \in Handle, AuthInv(k),
         NEW h \in Handle, NEW pinOk \in BOOLEAN, AuthWrite(h, pinOk)
  PROVE  AuthInv(k)'
<1> USE DEF AuthInv, Settled, Connecting
<1>0. /\ clients[h] \in ClientState /\ clients \in [Handle -> ClientState \cup {NoClient}]
      /\ nimble.step = "idle" /\ h \in up /\ UNCHANGED <<up, obeyed>>
  BY DEF TypeOK, AuthWrite, Idle, radioVars
<1>1. CASE AuthRejectedGlobally(h, pinOk)
  BY <1>0, <1>1 DEF AuthRejectedGlobally, Reply, tableVars
<1>2. CASE AuthRejectedOnLink(h, pinOk)
  BY <1>0, <1>2 DEF AuthRejectedOnLink, Reply
<1>3. CASE pinOk /\ AuthAccepted(h)
  BY <1>0, <1>3 DEF AuthAccepted, Reply
<1>4. CASE ~pinOk /\ AuthDenied(h)
  <2>1. UNCHANGED proved /\ nimble'.step = "reply"
    BY <1>4 DEF AuthDenied, Reply
  <2>2. clients'[k] # NoClient => clients[k] # NoClient /\ clients'[k].authed = clients[k].authed
    <3>1. PICK f, u : clients' = [clients EXCEPT ![h] =
            [authed |-> clients[h].authed, failures |-> f, blockUntilMs |-> u,
             connectedAtMs |-> clients[h].connectedAtMs]]
      BY <1>4, DeniedEntry
    <3>2. clients'[h].authed = clients[h].authed
      BY <1>0, <3>1
    <3>3. clients[h] # NoClient
      BY DEF AuthWrite
    <3>4. QED
      BY <1>0, <3>1, <3>2, <3>3
  <2>3. QED
    BY <1>0, <2>1, <2>2
<1>5. QED
  BY <1>1, <1>2, <1>3, <1>4 DEF AuthWrite

\* The rest of the host task authenticates no link.
LEMMA AuthHost ==
  ASSUME TypeOK, Host, NEW k \in Handle, AuthInv(k) PROVE AuthInv(k)'
<1> USE DEF AuthInv, Settled, Connecting
<1>1. CASE OnConnect
  BY <1>1 DEF TypeOK, OnConnect, Enrolled, NewClient, Idle, guessVars
<1>2. CASE OnDisconnect
  BY <1>2 DEF TypeOK, OnDisconnect, Idle, guessVars
<1>3. ASSUME NEW h \in Handle, CommandWrite(h) PROVE AuthInv(k)'
  BY <1>3 DEF CommandWrite, Idle, radioVars, tableVars, guessVars
<1>4. ASSUME NEW h \in Handle, NEW pinOk \in BOOLEAN, AuthWrite(h, pinOk) PROVE AuthInv(k)'
  BY <1>4, AuthWritten
<1>5. CASE SendReply
  BY <1>5 DEF SendReply, Idle, tableVars, guessVars
<1>6. QED
  BY <1>1, <1>2, <1>3, <1>4, <1>5 DEF Host

\* Nor does notify().
LEMMA AuthNotify ==
  ASSUME TypeOK, Notify, NEW k \in Handle, AuthInv(k) PROVE AuthInv(k)'
<1> USE DEF AuthInv, Settled, Connecting
<1>1. CASE NotifyClear
  BY <1>1 DEF NotifyClear, Recovered, guessVars
<1>2. CASE ~NotifyClear
  <2>1. UNCHANGED <<up, nimble, clients, proved, obeyed>>
    BY <1>2 DEF Notify, NotifyBegin, NotifyCount, NotifyCollect, NotifyKick, NotifyEnd,
       Terminate, radioVars, tableVars, guessVars
  <2>2. QED
    BY <2>1
<1>3. QED
  BY <1>1, <1>2

\* Nor does any other step.
LEMMA AuthNext ==
  TypeOK /\ (\A h \in Handle : AuthInv(h)) /\ [Next]_vars => (\A h \in Handle : AuthInv(h))'
<1> SUFFICES ASSUME TypeOK, \A h \in Handle : AuthInv(h), [Next]_vars, NEW k \in Handle
             PROVE  AuthInv(k)'
  OBVIOUS
<1>1. CASE UNCHANGED vars
  BY <1>1 DEF vars, radioVars, tableVars, AuthInv, Settled, Connecting
<1>2. CASE Tick
  BY <1>2 DEF Tick, radioVars, tableVars, AuthInv, Settled, Connecting
<1>3. QED
  BY <1>1, <1>2, AuthRadio, AuthHost, AuthNotify DEF Next

(* A command is only executed for a link that has itself presented the      *)
(* right PIN: whatever disconnects are missed, whatever handles are reused  *)
(* and however notify() interleaves with the host task.                     *)
THEOREM CommandsAreProved == Spec => []OnlyProvedAct
<1> DEFINE All == \A h \in Handle : AuthInv(h)
<1>1. Init => All
  BY DEF Init, AuthInv, Settled
<1>2. TypeOK /\ TypeOK' /\ All /\ [Next]_vars => All'
  BY AuthNext
<1>3. TypeOK /\ All => OnlyProvedAct
  BY DEF AuthInv, OnlyProvedAct, TypeOK
<1>4. QED
  BY <1>1, <1>2, <1>3, TypeCorrect, PTL DEF Spec


----------------------------------------------------------------------------
(* Arithmetic of stamps and counters. *)

\* Before millis() wraps a stamp is the time itself.
LEMMA SmallStamp ==
  ASSUME NEW x \in Nat, x < ClockMod
  PROVE  x % ClockMod = x
BY TimeAssumption

(* As long as both stamps lie in the first half of the clock's range, the   *)
(* signed reading of their difference says which one is later.              *)
LEMMA BlockedMeansLater ==
  ASSUME NEW until \in Nat, NEW now \in Nat,
         2 * until < ClockMod, 2 * now < ClockMod
  PROVE  Blocked(until, now) <=> until # 0 /\ until > now
<1>1. CASE until >= now
  <2> DEFINE d == until - now
  <2>1. d \in Nat /\ d < ClockMod
    BY <1>1, TimeAssumption
  <2>2. d % ClockMod = d
    BY <2>1, SmallStamp
  <2>3. QED
    BY <1>1, <2>1, <2>2, TimeAssumption DEF Blocked, Ahead
<1>2. CASE until < now
  <2>1. (until - now) % ClockMod = until - now + ClockMod
    BY <1>2, TimeAssumption
  <2>2. QED
    BY <1>2, <2>1, TimeAssumption DEF Blocked, Ahead
<1>3. QED
  BY <1>1, <1>2

(* The remainder of a counter grows by one until it comes round to zero. *)
LEMMA NextRemainder ==
  ASSUME NEW f \in Nat, NEW l \in Nat \ {0}, (f + 1) % l # 0
  PROVE  (f + 1) % l = (f % l) + 1
<1> DEFINE q == f \div l
           r == f % l
           q1 == (f + 1) \div l
           r1 == (f + 1) % l
           k == q1 - q
<1>1. q \in Int /\ r \in 0 .. (l - 1) /\ f = l * q + r
  OBVIOUS
<1>2. q1 \in Int /\ r1 \in 1 .. (l - 1) /\ f + 1 = l * q1 + r1
  OBVIOUS
<1>3. k \in Int /\ l * k = r + 1 - r1
  <2>1. l * k = l * q1 - l * q
    BY <1>1, <1>2
  <2>2. QED
    BY <1>1, <1>2, <2>1
<1> HIDE DEF q, r, q1, r1, k
<1>4. k < 1
  <2>1. SUFFICES ASSUME k >= 1 PROVE FALSE
    BY <1>3
  <2>2. l * k >= l
    BY <1>3, <2>1
  <2>3. QED
    BY <1>1, <1>2, <1>3, <2>2
<1>5. k > -1
  <2>1. SUFFICES ASSUME k <= -1 PROVE FALSE
    BY <1>3
  <2>2. l * k <= -l
    BY <1>3, <2>1
  <2>3. QED
    BY <1>1, <1>2, <1>3, <2>2
<1>6. k = 0
  BY <1>3, <1>4, <1>5
<1>7. r1 = r + 1
  BY <1>1, <1>2, <1>3, <1>6
<1>8. QED
  BY <1>7 DEF r, r1

\* What is left of a counter after whole lockouts.
LEMMA RemainderBound ==
  ASSUME NEW f \in Nat, NEW l \in Nat \ {0}
  PROVE  f % l \in 0 .. (l - 1)
OBVIOUS

----------------------------------------------------------------------------
(* The inductive invariant. *)

(* The stamp of the global lockout is the observer's while it runs and as   *)
(* long as it is there; the cumulative count is the observer's between.     *)
GlobalInv ==
  /\ globalUntil # 0 => globalUntil = lockEnd /\ wrongAll = 0
  /\ lockEnd > clock => globalUntil = lockEnd
  /\ lockEnd <= MaxClock + GlobalLockoutMs
  /\ globalUntil = 0 => globalFailures < GlobalLockoutFailures /\ wrongAll = globalFailures
  /\ globalFailures <= GlobalLockoutFailures

Dropped(h) == h \in terminating \/ Forcing(h)

StampOK(h) ==
  /\ clients[h].blockUntilMs # 0 => clients[h].blockUntilMs = linkEnd[h]
  /\ linkEnd[h] > clock => clients[h].blockUntilMs = linkEnd[h]

CountOK(h) ==
  /\ clients[h].failures < MaxFailures
  /\ wrong[h] = clients[h].failures % LockoutFailures

(* The same for a link: nothing is noted of it before its entry is made,    *)
(* and its counter counts until it is being disconnected.                   *)
LinkInv(h) ==
  /\ h \notin up \/ Connecting(h) => wrong[h] = 0 /\ linkEnd[h] = 0
  /\ linkEnd[h] <= MaxClock + LockoutMs
  /\ Settled(h) => StampOK(h) /\ (Dropped(h) \/ CountOK(h))
  /\ wrong[h] < LockoutFailures \/ Dropped(h)

ReplyUp == nimble.step = "reply" => nimble.h \in up

Inv == GlobalInv /\ ReplyUp /\ \A h \in Handle : LinkInv(h)

\* At first nothing is locked and no PIN was wrong.
LEMMA InvInit == Init => Inv
<1> SUFFICES ASSUME Init PROVE Inv
  OBVIOUS
<1>1. GlobalInv
  BY CountAssumption, TimeAssumption DEF Init, GlobalInv
<1>2. ReplyUp
  BY DEF Init, ReplyUp, Idle
<1>3. ASSUME NEW h \in Handle PROVE LinkInv(h)
  BY CountAssumption, TimeAssumption DEF Init, LinkInv, Settled
<1>4. QED
  BY <1>1, <1>2, <1>3 DEF Inv

(* In the behaviours considered, the program's clock is the true one, and   *)
(* its lockout tests say what they mean.                                    *)
LEMMA Clocks ==
  ASSUME NoWrap, TypeOK
  PROVE  /\ clock \in Nat /\ clock <= MaxClock /\ Millis = clock
         /\ Later(LockoutMs) = clock + LockoutMs
         /\ Later(GlobalLockoutMs) = clock + GlobalLockoutMs
<1>1. clock \in Nat /\ clock <= MaxClock
  BY TimeAssumption DEF TypeOK
<1>2. /\ clock < ClockMod
      /\ clock + LockoutMs < ClockMod /\ clock + GlobalLockoutMs < ClockMod
  BY <1>1, TimeAssumption DEF NoWrap
<1>3. Millis = clock
  BY <1>1, <1>2, SmallStamp DEF Millis
<1>4. QED
  BY <1>1, <1>2, <1>3, SmallStamp, TimeAssumption DEF Later

\* The signed test of the global lockout says whether it is over.
LEMMA GlobalTest ==
  ASSUME NoWrap, TypeOK, Inv
  PROVE  GlobalLockout <=> lockEnd > clock
<1>1. /\ clock \in Nat /\ clock <= MaxClock /\ Millis = clock
      /\ lockEnd \in Nat /\ globalUntil \in Nat
  BY Clocks, TimeAssumption DEF TypeOK, Stamps
<1>2. CASE globalUntil = 0
  BY <1>1, <1>2 DEF GlobalLockout, Blocked, Inv, GlobalInv
<1>3. CASE globalUntil # 0
  <2>1. globalUntil = lockEnd /\ lockEnd <= MaxClock + GlobalLockoutMs
    BY <1>3 DEF Inv, GlobalInv
  <2>2. 2 * globalUntil < ClockMod /\ 2 * clock < ClockMod
    BY <1>1, <2>1, TimeAssumption DEF NoWrap
  <2>3. QED
    BY <1>1, <1>3, <2>1, <2>2, BlockedMeansLater DEF GlobalLockout
<1>4. QED
  BY <1>2, <1>3

\* So does the test of a link.
LEMMA LinkTest ==
  ASSUME NoWrap, TypeOK, Inv, NEW h \in Handle, Settled(h)
  PROVE  LinkLockout(h) <=> linkEnd[h] > clock
<1>1. /\ clock \in Nat /\ clock <= MaxClock /\ Millis = clock
      /\ linkEnd[h] \in Nat /\ clients[h].blockUntilMs \in Nat
  BY Clocks, TimeAssumption DEF TypeOK, Stamps, ClientState, Settled
<1>2. StampOK(h) /\ linkEnd[h] <= MaxClock + LockoutMs
  BY DEF Inv, LinkInv
<1>3. CASE clients[h].blockUntilMs = 0
  BY <1>1, <1>2, <1>3 DEF LinkLockout, Blocked, StampOK
<1>4. CASE clients[h].blockUntilMs # 0
  <2>1. clients[h].blockUntilMs = linkEnd[h]
    BY <1>2, <1>4 DEF StampOK
  <2>2. 2 * clients[h].blockUntilMs < ClockMod /\ 2 * clock < ClockMod
    BY <1>1, <1>2, <2>1, TimeAssumption DEF NoWrap
  <2>3. QED
    BY <1>1, <1>4, <2>1, <2>2, BlockedMeansLater DEF LinkLockout
<1>5. QED
  BY <1>3, <1>4

----------------------------------------------------------------------------
(* Steps that touch neither the cumulative count nor any note about it. *)

Untouched == UNCHANGED <<clock, globalFailures, globalUntil, wrongAll, lockEnd>>

\* Steps that touch neither counter nor lockout keep the global part.
LEMMA GlobalKept == ASSUME GlobalInv, Untouched PROVE GlobalInv'
BY DEF GlobalInv, Untouched

(* A link is left alone, or only pushed further towards its disconnect. *)
Spared(k) ==
  /\ UNCHANGED <<clock, up>>
  /\ clients'[k] = clients[k] /\ wrong'[k] = wrong[k] /\ linkEnd'[k] = linkEnd[k]
  /\ Dropped(k) => Dropped(k)'
  /\ Connecting(k) <=> Connecting(k)'

\* A link that a step spares keeps its part.
LEMMA LinkSpared == ASSUME NEW k \in Handle, LinkInv(k), Spared(k) PROVE LinkInv(k)'
BY DEF LinkInv, Spared, Settled, StampOK, CountOK

\* The radio: links come and go.
LEMMA InvRadio == ASSUME TypeOK, Inv, Radio PROVE Inv'
<1>1. Untouched
  BY DEF Radio, LinkUp, LinkDown, MissedDisconnect, AdvertisingStops, ForgetLink, Untouched,
     tableVars, guessVars
<1>2. ReplyUp'
  BY DEF Inv, ReplyUp, Radio, LinkUp, LinkDown, MissedDisconnect, AdvertisingStops, Idle
<1>3. ASSUME NEW k \in Handle PROVE LinkInv(k)'
  <2>0. LinkInv(k)
    BY DEF Inv
  <2>1. ASSUME NEW h \in Handle, LinkUp(h) PROVE LinkInv(k)'
    <3>1. CASE k = h
      BY <2>0, <2>1, <3>1 DEF LinkUp, LinkInv, Settled, Connecting, Dropped, Forcing, Idle,
         guessVars
    <3>2. CASE k # h
      BY <2>0, <2>1, <3>2 DEF LinkUp, LinkInv, Settled, Connecting, Dropped, Forcing, Idle,
         StampOK, CountOK, tableVars, guessVars
    <3>3. QED
      BY <3>1, <3>2
  <2>2. ASSUME NEW h \in Handle, LinkDown(h) \/ MissedDisconnect(h) PROVE LinkInv(k)'
    <3>1. /\ nimble.step = "idle" /\ nimble'.step \in {"idle", "disconnect"}
          /\ up' = up \ {h} /\ terminating' = terminating \ {h}
          /\ UNCHANGED <<clock, clients>>
          /\ wrong' = [wrong EXCEPT ![h] = 0] /\ linkEnd' = [linkEnd EXCEPT ![h] = 0]
      BY <2>2 DEF LinkDown, MissedDisconnect, ForgetLink, Idle, tableVars
    <3>2. CASE k = h
      <4>1. wrong'[k] = 0 /\ linkEnd'[k] = 0 /\ k \notin up'
        BY <3>1, <3>2 DEF TypeOK
      <4>2. QED
        BY <4>1, CountAssumption, TimeAssumption DEF LinkInv, Settled
    <3>3. CASE k # h
      BY <2>0, <3>1, <3>3 DEF TypeOK, LinkInv, Settled, Connecting, Dropped, Forcing, StampOK,
         CountOK
    <3>4. QED
      BY <3>2, <3>3
  <2>3. ASSUME AdvertisingStops PROVE LinkInv(k)'
    <3>1. Spared(k)
      BY <2>3 DEF AdvertisingStops, Spared, Connecting, Dropped, Forcing, tableVars, guessVars
    <3>2. QED
      BY <2>0, <3>1, LinkSpared
  <2>4. QED
    BY <2>1, <2>2, <2>3 DEF Radio
<1>4. QED
  BY <1>1, <1>2, <1>3, GlobalKept DEF Inv

\* notify() of the loop task, which drops idle clients.
LEMMA InvNotify == ASSUME TypeOK, Inv, Notify PROVE Inv'
<1>1. /\ UNCHANGED <<up, nimble, guessVars>> /\ Untouched
      /\ terminating \subseteq terminating'
      /\ clients' = clients \/ clients' = [h \in Handle |-> NoClient]
  BY DEF Notify, NotifyBegin, NotifyCount, NotifyClear, Recovered, NotifyCollect, NotifyKick,
     NotifyEnd, Terminate, Untouched, radioVars, tableVars, guessVars
<1>2. ReplyUp'
  BY <1>1 DEF Inv, ReplyUp
<1>3. ASSUME NEW k \in Handle PROVE LinkInv(k)'
  <2>0. LinkInv(k) /\ UNCHANGED <<clock, wrong, linkEnd>>
    BY <1>1 DEF Inv, Untouched, guessVars
  <2>1. CASE clients' = clients
    <3>1. Spared(k)
      BY <1>1, <2>0, <2>1 DEF Spared, Connecting, Dropped, Forcing
    <3>2. QED
      BY <2>0, <3>1, LinkSpared
  <2>2. CASE clients' = [h \in Handle |-> NoClient]
    BY <1>1, <2>0, <2>2 DEF LinkInv, Settled, Connecting, Dropped, Forcing
  <2>3. QED
    BY <1>1, <2>1, <2>2
<1>4. QED
  BY <1>1, <1>2, <1>3, GlobalKept DEF Inv

\* Time.
LEMMA InvTick == ASSUME TypeOK, Inv, Tick PROVE Inv'
<1>1. /\ clock \in Nat /\ clock' = clock + 1 /\ lockEnd \in Nat
      /\ UNCHANGED <<radioVars, nimble, tableVars, guessVars>>
  BY TimeAssumption DEF Tick, TypeOK
<1>2. GlobalInv'
  BY <1>1 DEF Inv, GlobalInv, tableVars, guessVars
<1>3. ReplyUp'
  BY <1>1 DEF Inv, ReplyUp, radioVars
<1>4. ASSUME NEW k \in Handle PROVE LinkInv(k)'
  <2>1. LinkInv(k) /\ linkEnd[k] \in Nat
    BY DEF Inv, TypeOK
  <2>2. QED
    BY <1>1, <2>1 DEF LinkInv, Settled, Connecting, Dropped, Forcing, StampOK, CountOK,
       radioVars, tableVars, guessVars
<1>5. QED
  BY <1>2, <1>3, <1>4 DEF Inv

(* What the host task does apart from AUTH. *)
LEMMA InvCallback ==
  ASSUME TypeOK, Inv,
         OnConnect \/ OnDisconnect \/ SendReply \/ \E h \in Handle : CommandWrite(h)
  PROVE  Inv'
<1>1. Untouched /\ UNCHANGED <<up, wrong, linkEnd>>
  BY DEF OnConnect, OnDisconnect, SendReply, CommandWrite, Untouched, radioVars, tableVars,
     guessVars
<1>2. ReplyUp'
  BY DEF Inv, ReplyUp, OnConnect, OnDisconnect, SendReply, CommandWrite, Idle, radioVars
<1>3. ASSUME NEW k \in Handle PROVE LinkInv(k)'
  <2>0. LinkInv(k)
    BY DEF Inv
  <2>1. CASE OnConnect
    <3>1. CASE k = nimble.h
      <4>1. wrong'[k] = 0 /\ linkEnd'[k] = 0
        BY <1>1, <2>0, <2>1, <3>1 DEF OnConnect, LinkInv, Connecting
      <4>2. clients'[k].failures = 0 /\ clients'[k].blockUntilMs = 0
        BY <2>1, <3>1 DEF OnConnect, Enrolled, NewClient, TypeOK
      <4>3. 0 % LockoutFailures = 0 /\ 0 < MaxFailures
        BY CountAssumption
      <4>4. clock' = clock /\ clock \in Nat
        BY <1>1, TimeAssumption DEF Untouched, TypeOK
      <4>5. QED
        BY <4>1, <4>2, <4>3, <4>4, CountAssumption, TimeAssumption
           DEF LinkInv, StampOK, CountOK
    <3>2. CASE k # nimble.h
      <4>1. Spared(k)
        BY <1>1, <2>1, <3>2 DEF OnConnect, Spared, Untouched, Connecting, Dropped, Forcing,
           Idle, TypeOK
      <4>2. QED
        BY <2>0, <4>1, LinkSpared
    <3>3. QED
      BY <3>1, <3>2
  <2>2. CASE OnDisconnect
    BY <1>1, <2>0, <2>2 DEF OnDisconnect, LinkInv, Settled, Connecting, Dropped, Forcing,
       StampOK, CountOK, Idle, TypeOK, Untouched
  <2>3. CASE SendReply
    <3>1. Dropped(k) => Dropped(k)'
      BY <2>3 DEF SendReply, Terminate, Dropped, Forcing, Inv, ReplyUp
    <3>2. Spared(k)
      BY <1>1, <2>3, <3>1 DEF SendReply, Spared, Untouched, Connecting, Idle, tableVars
    <3>3. QED
      BY <2>0, <3>2, LinkSpared
  <2>4. CASE \E h \in Handle : CommandWrite(h)
    <3>1. Spared(k)
      BY <1>1, <2>4 DEF CommandWrite, Spared, Untouched, Connecting, Dropped, Forcing,
         radioVars, tableVars
    <3>2. QED
      BY <2>0, <3>1, LinkSpared
  <2>5. QED
    BY <2>1, <2>2, <2>3, <2>4
<1>4. QED
  BY <1>1, <1>2, <1>3, GlobalKept DEF Inv

----------------------------------------------------------------------------
(* AUTH, by outcome. *)

\* What every AUTH write does, whatever its answer.
LEMMA WriteBasics ==
  ASSUME TypeOK, NEW h \in Handle, NEW pinOk \in BOOLEAN, AuthWrite(h, pinOk)
  PROVE  /\ nimble.step = "idle" /\ h \in up /\ clients[h] \in ClientState /\ Settled(h)
         /\ UNCHANGED <<clock, up, terminating>>
         /\ nimble'.step = "reply" /\ nimble'.h = h
<1>1. nimble.step = "idle" /\ h \in up /\ clients[h] \in ClientState /\ Settled(h)
  BY DEF TypeOK, AuthWrite, Idle, Settled, Connecting
<1>2. UNCHANGED <<clock, up, terminating>>
  BY DEF AuthWrite, radioVars
<1>3. nimble'.step = "reply" /\ nimble'.h = h
  BY DEF AuthWrite, AuthRejectedGlobally, AuthRejectedOnLink, AuthAccepted, AuthDenied, Reply
<1>4. QED
  BY <1>1, <1>2, <1>3

(* What a wrong PIN does, each of AuthDenied's local definitions named. *)
NewFailures(h) == (clients[h].failures + 1) % 256
Forces(h)      == NewFailures(h) >= MaxFailures
Locks(h)       == ~Forces(h) /\ NewFailures(h) % LockoutFailures = 0
NewTotal       == (ForgivenFailures + 1) % 65536
LocksAll       == NewTotal >= GlobalLockoutFailures

\* What a wrong PIN does to its link and to the global counter.
LEMMA DeniedStep ==
  ASSUME NEW h \in Handle, AuthDenied(h)
  PROVE  /\ ~GlobalLockout /\ ~LinkLockout(h)
         /\ nimble' = Reply(h, FALSE, FALSE, Forces(h))
         /\ clients' = [clients EXCEPT ![h] =
              [authed |-> clients[h].authed, failures |-> NewFailures(h),
               blockUntilMs |-> IF Locks(h) THEN Later(LockoutMs)
                                ELSE clients[h].blockUntilMs,
               connectedAtMs |-> clients[h].connectedAtMs]]
         /\ globalFailures' = NewTotal
         /\ globalUntil' = IF LocksAll THEN Later(GlobalLockoutMs) ELSE 0
         /\ wrong' = [wrong EXCEPT ![h] = IF Locks(h) THEN 0 ELSE @ + 1]
         /\ linkEnd' = [linkEnd EXCEPT ![h] = IF Locks(h) THEN clock + LockoutMs ELSE @]
         /\ wrongAll' = IF LocksAll THEN 0 ELSE wrongAll + 1
         /\ lockEnd' = IF LocksAll THEN clock + GlobalLockoutMs ELSE lockEnd
         /\ proved' = proved
BY DEF AuthDenied, NewFailures, Forces, Locks, NewTotal, LocksAll

(* The links an attempt is not about. *)
LEMMA OthersSpared ==
  ASSUME TypeOK, NEW h \in Handle, NEW pinOk \in BOOLEAN, AuthWrite(h, pinOk),
         NEW k \in Handle, k # h
  PROVE  Spared(k)
<1>1. clients'[k] = clients[k] /\ wrong'[k] = wrong[k] /\ linkEnd'[k] = linkEnd[k]
  <2>1. CASE AuthDenied(h)
    <3>1. PICK c : clients' = [clients EXCEPT ![h] = c]
      BY <2>1, DeniedStep
    <3>2. wrong' = [wrong EXCEPT ![h] = IF Locks(h) THEN 0 ELSE @ + 1]
      BY <2>1, DeniedStep
    <3>3. linkEnd' = [linkEnd EXCEPT ![h] = IF Locks(h) THEN clock + LockoutMs ELSE @]
      BY <2>1, DeniedStep
    <3>4. QED
      BY <3>1, <3>2, <3>3 DEF TypeOK
  <2>2. CASE ~AuthDenied(h)
    BY <2>2 DEF TypeOK, AuthWrite, AuthRejectedGlobally, AuthRejectedOnLink, AuthAccepted,
       tableVars, guessVars
  <2>3. QED
    BY <2>1, <2>2
<1>2. QED
  BY <1>1, WriteBasics DEF Spared, Connecting, Dropped, Forcing

(* A refused attempt changes nothing of the link. *)
LEMMA RejectedSpared ==
  ASSUME TypeOK, NEW h \in Handle, NEW pinOk \in BOOLEAN, AuthWrite(h, pinOk),
         AuthRejectedGlobally(h, pinOk) \/ AuthRejectedOnLink(h, pinOk)
  PROVE  Spared(h)
BY WriteBasics DEF Spared, Connecting, Dropped, Forcing, AuthRejectedGlobally,
   AuthRejectedOnLink, tableVars, guessVars

\* Once the global lockout is over its counter is forgiven, like that of the history.
LEMMA GlobalForgotten ==
  ASSUME NoWrap, TypeOK, Inv, ~GlobalLockout
  PROVE  /\ lockEnd <= clock
         /\ ForgivenFailures \in Nat /\ ForgivenFailures < GlobalLockoutFailures
         /\ wrongAll = ForgivenFailures
<1>1. lockEnd \in Nat /\ clock \in Nat /\ globalFailures \in Nat
  BY TimeAssumption DEF TypeOK, Totals
<1>2. lockEnd <= clock
  BY <1>1, GlobalTest
<1>3. QED
  BY <1>1, <1>2, CountAssumption DEF ForgivenFailures, Inv, GlobalInv

\* A write that is turned away by a lockout compares nothing.
LEMMA InvRejected ==
  ASSUME NoWrap, TypeOK, Inv, NEW h \in Handle, NEW pinOk \in BOOLEAN, AuthWrite(h, pinOk),
         AuthRejectedGlobally(h, pinOk) \/ AuthRejectedOnLink(h, pinOk)
  PROVE  GlobalInv' /\ LinkInv(h)'
<1>1. LinkInv(h)'
  BY RejectedSpared, LinkSpared DEF Inv
<1>2. CASE AuthRejectedGlobally(h, pinOk)
  BY <1>1, <1>2, GlobalKept, WriteBasics
     DEF Inv, AuthRejectedGlobally, Untouched, tableVars, guessVars
<1>3. CASE AuthRejectedOnLink(h, pinOk)
  <2>1. /\ ~GlobalLockout
        /\ globalUntil' = 0 /\ globalFailures' = ForgivenFailures
        /\ UNCHANGED <<clock, wrongAll, lockEnd>>
    BY <1>3, WriteBasics DEF AuthRejectedOnLink, guessVars
  <2>2. clock \in Nat /\ lockEnd \in Nat
    BY TimeAssumption DEF TypeOK
  <2>3. QED
    BY <1>1, <2>1, <2>2, GlobalForgotten, CountAssumption DEF Inv, GlobalInv
<1>4. QED
  BY <1>2, <1>3

\* The right PIN ends the counts of its link.
LEMMA InvAccepted ==
  ASSUME NoWrap, TypeOK, Inv, NEW h \in Handle, AuthWrite(h, TRUE), AuthAccepted(h)
  PROVE  GlobalInv' /\ LinkInv(h)'
<1>0. clock \in Nat /\ lockEnd \in Nat /\ linkEnd[h] \in Nat
  BY TimeAssumption DEF TypeOK
<1>1. GlobalInv'
  <2>1. /\ ~GlobalLockout /\ globalUntil' = 0 /\ globalFailures' = 0 /\ wrongAll' = 0
        /\ UNCHANGED <<clock, lockEnd>>
    BY WriteBasics DEF AuthAccepted
  <2>2. QED
    BY <1>0, <2>1, GlobalForgotten, CountAssumption DEF Inv, GlobalInv
<1>2. /\ clients'[h].failures = 0 /\ clients'[h].blockUntilMs = 0 /\ wrong'[h] = 0
      /\ linkEnd'[h] = linkEnd[h]
  BY DEF AuthAccepted, TypeOK
<1>3. linkEnd[h] <= clock
  <2>1. Settled(h)
    BY WriteBasics
  <2>2. ~LinkLockout(h)
    BY DEF AuthAccepted
  <2>3. QED
    BY <1>0, <2>1, <2>2, LinkTest
<1>4. ~Connecting(h)' /\ h \in up' /\ clock' = clock
  BY WriteBasics DEF Connecting
<1>5. 0 % LockoutFailures = 0 /\ 0 < MaxFailures
  BY CountAssumption
<1>6. linkEnd[h] <= MaxClock + LockoutMs
  BY DEF Inv, LinkInv
<1>7. QED
  BY <1>0, <1>1, <1>2, <1>3, <1>4, <1>5, <1>6, CountAssumption
     DEF LinkInv, StampOK, CountOK

\* A wrong PIN, as the global lockout counts it.
LEMMA InvDeniedGlobally ==
  ASSUME NoWrap, TypeOK, Inv, NEW h \in Handle, AuthWrite(h, FALSE), AuthDenied(h)
  PROVE  GlobalInv'
<1>0. clock \in Nat /\ clock <= MaxClock /\ lockEnd \in Nat /\ clock' = clock
  BY Clocks, WriteBasics DEF TypeOK
<1>1. ~GlobalLockout
  BY DeniedStep
<1>2. NewTotal = ForgivenFailures + 1 /\ NewTotal <= GlobalLockoutFailures
  <2>1. ForgivenFailures \in Nat /\ ForgivenFailures < GlobalLockoutFailures
    BY <1>1, GlobalForgotten
  <2>2. GlobalLockoutFailures \in Nat /\ GlobalLockoutFailures < 65536
    BY CountAssumption
  <2>3. QED
    BY <2>1, <2>2 DEF NewTotal
<1>3. CASE LocksAll
  <2>1. /\ globalFailures' = NewTotal /\ wrongAll' = 0
        /\ globalUntil' = clock + GlobalLockoutMs /\ lockEnd' = clock + GlobalLockoutMs
    BY <1>3, DeniedStep, Clocks
  <2>2. QED
    BY <1>0, <1>2, <2>1, TimeAssumption DEF GlobalInv
<1>4. CASE ~LocksAll
  <2>1. /\ globalFailures' = NewTotal /\ wrongAll' = wrongAll + 1
        /\ globalUntil' = 0 /\ lockEnd' = lockEnd
    BY <1>4, DeniedStep
  <2>2. NewTotal < GlobalLockoutFailures
    BY <1>2, <1>4, GlobalForgotten, <1>1, CountAssumption DEF LocksAll
  <2>3. QED
    BY <1>0, <1>1, <1>2, <2>1, <2>2, GlobalForgotten DEF Inv, GlobalInv
<1>5. QED
  BY <1>3, <1>4

\* A wrong PIN, as its link counts it.
LEMMA InvDeniedOnLink ==
  ASSUME NoWrap, TypeOK, Inv, NEW h \in Handle, AuthWrite(h, FALSE), AuthDenied(h)
  PROVE  LinkInv(h)'
<1>0. /\ clock \in Nat /\ clock <= MaxClock /\ clock' = clock
      /\ linkEnd[h] \in Nat /\ wrong[h] \in Nat /\ clients[h].failures \in Failures
      /\ Later(LockoutMs) = clock + LockoutMs
  BY Clocks, WriteBasics DEF TypeOK, ClientState
<1>1. /\ h \in up' /\ ~Connecting(h)' /\ Settled(h) /\ terminating' = terminating
      /\ nimble.step = "idle" /\ nimble'.step = "reply" /\ nimble'.h = h
  BY WriteBasics DEF Connecting
<1>2. /\ linkEnd[h] <= MaxClock + LockoutMs /\ linkEnd[h] <= clock
      /\ StampOK(h) /\ (Dropped(h) \/ CountOK(h))
  <2>1. LinkInv(h)
    BY DEF Inv
  <2>2. ~LinkLockout(h)
    BY DeniedStep
  <2>3. linkEnd[h] <= clock
    BY <1>0, <1>1, <2>2, LinkTest
  <2>4. QED
    BY <1>1, <2>1, <2>3 DEF LinkInv
<1>3. /\ clients'[h].failures = NewFailures(h)
      /\ clients'[h].blockUntilMs = IF Locks(h) THEN clock + LockoutMs
                                    ELSE clients[h].blockUntilMs
      /\ linkEnd'[h] = IF Locks(h) THEN clock + LockoutMs ELSE linkEnd[h]
      /\ wrong'[h] = IF Locks(h) THEN 0 ELSE wrong[h] + 1
  <2>1. /\ wrong'[h] = IF Locks(h) THEN 0 ELSE wrong[h] + 1
        /\ linkEnd'[h] = IF Locks(h) THEN clock + LockoutMs ELSE linkEnd[h]
    BY DeniedStep DEF TypeOK
  <2>2. clients' = [clients EXCEPT ![h] =
              [authed |-> clients[h].authed, failures |-> NewFailures(h),
               blockUntilMs |-> IF Locks(h) THEN Later(LockoutMs)
                                ELSE clients[h].blockUntilMs,
               connectedAtMs |-> clients[h].connectedAtMs]]
    BY DeniedStep
  <2>3. QED
    BY <1>0, <2>1, <2>2 DEF TypeOK
<1>4. StampOK(h)' /\ linkEnd'[h] <= MaxClock + LockoutMs
  BY <1>0, <1>2, <1>3, TimeAssumption DEF StampOK
<1>5. CASE Dropped(h)
  <2>1. Dropped(h)'
    BY <1>1, <1>5 DEF Dropped, Forcing
  <2>2. QED
    BY <1>1, <1>4, <2>1 DEF LinkInv
<1>6. CASE Forces(h)
  <2>1. Dropped(h)'
    BY <1>6, DeniedStep DEF Dropped, Forcing, Reply
  <2>2. QED
    BY <1>1, <1>4, <2>1 DEF LinkInv
<1>7. CASE CountOK(h) /\ ~Forces(h)
  <2>1. NewFailures(h) = clients[h].failures + 1 /\ NewFailures(h) < MaxFailures
    <3>1. clients[h].failures \in Nat /\ clients[h].failures < MaxFailures
      BY <1>0, <1>7 DEF CountOK, Failures
    <3>2. MaxFailures \in Nat /\ MaxFailures <= 255
      BY CountAssumption
    <3>3. NewFailures(h) = clients[h].failures + 1
      BY <3>1, <3>2 DEF NewFailures
    <3>4. QED
      BY <1>7, <3>1, <3>2, <3>3 DEF Forces
  <2>2. CountOK(h)'
    <3>1. CASE Locks(h)
      BY <1>3, <2>1, <3>1 DEF CountOK, Locks
    <3>2. CASE ~Locks(h)
      <4>1. (clients[h].failures + 1) % LockoutFailures # 0
        BY <1>7, <2>1, <3>2 DEF Locks
      <4>2. clients[h].failures \in Nat
        BY <1>0 DEF Failures
      <4>3. (clients[h].failures + 1) % LockoutFailures
              = (clients[h].failures % LockoutFailures) + 1
        BY <4>1, <4>2, NextRemainder, CountAssumption
      <4>4. wrong'[h] = (clients[h].failures % LockoutFailures) + 1
        BY <1>3, <1>7, <3>2 DEF CountOK
      <4>5. QED
        BY <1>3, <2>1, <4>3, <4>4 DEF CountOK
    <3>3. QED
      BY <3>1, <3>2
  <2>3. wrong'[h] < LockoutFailures
    <3>1. NewFailures(h) \in Nat
      BY <1>0, <2>1 DEF Failures
    <3>2. wrong'[h] = NewFailures(h) % LockoutFailures
      BY <1>3, <2>2 DEF CountOK
    <3>3. QED
      BY <3>1, <3>2, RemainderBound, CountAssumption
  <2>4. QED
    BY <1>1, <1>4, <2>2, <2>3 DEF LinkInv
<1>8. QED
  BY <1>2, <1>5, <1>6, <1>7

\* Any AUTH write.
LEMMA InvAuth ==
  ASSUME NoWrap, TypeOK, Inv, NEW h \in Handle, NEW pinOk \in BOOLEAN, AuthWrite(h, pinOk)
  PROVE  Inv'
<1>1. GlobalInv' /\ LinkInv(h)'
  BY InvRejected, InvAccepted, InvDeniedGlobally, InvDeniedOnLink DEF AuthWrite
<1>2. ASSUME NEW k \in Handle, k # h PROVE LinkInv(k)'
  BY <1>2, OthersSpared, LinkSpared DEF Inv
<1>3. ReplyUp'
  BY WriteBasics DEF ReplyUp
<1>4. QED
  BY <1>1, <1>2, <1>3 DEF Inv

\* Every step keeps the invariant while the clock has not wrapped.
LEMMA InvNext == NoWrap /\ TypeOK /\ Inv /\ [Next]_vars => Inv'
<1> SUFFICES ASSUME NoWrap, TypeOK, Inv, [Next]_vars PROVE Inv'
  OBVIOUS
<1>1. CASE UNCHANGED vars
  BY <1>1 DEF vars, radioVars, tableVars, guessVars, Inv, GlobalInv, ReplyUp, LinkInv,
     Settled, Connecting, Dropped, Forcing, StampOK, CountOK
<1>2. CASE Host
  BY <1>2, InvCallback, InvAuth DEF Host
<1>3. QED
  BY <1>1, <1>2, InvTick, InvRadio, InvNotify DEF Next

\* The invariant holds in every state.
LEMMA Invariance == ASSUME NoWrap PROVE Spec => [](TypeOK /\ Inv)
<1>1. TypeOK /\ Inv /\ [Next]_vars => TypeOK' /\ Inv'
  BY InvNext, TypeNext
<1>2. QED
  BY <1>1, InvInit, TypeInit, PTL DEF Spec

----------------------------------------------------------------------------
(* The steps that compare a PIN. *)

\* Only an AUTH write that no lockout turns away compares a PIN.
LEMMA OnlyAuthCompares ==
  ASSUME TypeOK, [Next]_vars, NEW h \in Handle, Compares(h)
  PROVE  \E pinOk \in BOOLEAN :
           AuthWrite(h, pinOk) /\ ~GlobalLockout /\ ~LinkLockout(h)
<1>0. wrong \in [Handle -> Nat]
  BY DEF TypeOK
<1>1. ~UNCHANGED <<wrong, proved>>
  BY <1>0 DEF Compares
<1>2. CASE Radio
  <2>1. CASE UNCHANGED <<wrong, proved>>
    BY <1>1, <2>1
  <2>2. CASE \E k \in Handle : ForgetLink(k)
    <3>1. PICK k \in Handle : ForgetLink(k)
      BY <2>2
    <3>2. proved' \subseteq proved /\ (wrong'[h] = 0 \/ wrong'[h] = wrong[h])
      BY <1>0, <3>1 DEF ForgetLink
    <3>3. QED
      BY <1>0, <3>2 DEF Compares
  <2>3. QED
    BY <1>2, <2>1, <2>2 DEF Radio, LinkUp, LinkDown, MissedDisconnect, AdvertisingStops,
       guessVars
<1>3. CASE \E k \in Handle : \E pinOk \in BOOLEAN : AuthWrite(k, pinOk)
  <2>1. PICK k \in Handle, pinOk \in BOOLEAN : AuthWrite(k, pinOk)
    BY <1>3
  <2>2. AuthAccepted(k) \/ AuthDenied(k)
    BY <1>1, <2>1 DEF AuthWrite, AuthRejectedGlobally, AuthRejectedOnLink, guessVars
  <2>3. k = h
    <3>1. CASE AuthAccepted(k)
      BY <1>0, <3>1 DEF AuthAccepted, Compares
    <3>2. CASE AuthDenied(k)
      <4>1. /\ proved' = proved
            /\ wrong' = [wrong EXCEPT ![k] = IF Locks(k) THEN 0 ELSE wrong[k] + 1]
        BY <3>2, DeniedStep
      <4>2. QED
        BY <1>0, <4>1 DEF Compares
    <3>3. QED
      BY <2>2, <3>1, <3>2
  <2>4. ~GlobalLockout /\ ~LinkLockout(k)
    BY <2>2, DeniedStep DEF AuthAccepted
  <2>5. QED
    BY <2>1, <2>3, <2>4
<1>4. CASE UNCHANGED vars \/ Tick \/ Notify
        \/ OnConnect \/ OnDisconnect \/ SendReply \/ \E k \in Handle : CommandWrite(k)
  <2>1. UNCHANGED <<wrong, proved>>
    BY <1>4 DEF vars, Tick, Notify, NotifyBegin, NotifyCount, NotifyClear, NotifyCollect,
       NotifyKick, NotifyEnd, OnConnect, OnDisconnect, SendReply, CommandWrite, guessVars
  <2>2. QED
    BY <1>1, <2>1
<1>5. QED
  BY <1>2, <1>3, <1>4 DEF Next, Host

\* When a PIN is compared both lockouts have run out.
LEMMA ComparedInTime ==
  ASSUME NoWrap, TypeOK, Inv, [Next]_vars, NEW h \in Handle, Compares(h)
  PROVE  clock >= lockEnd /\ clock >= linkEnd[h]
<1>1. PICK pinOk \in BOOLEAN : AuthWrite(h, pinOk) /\ ~GlobalLockout /\ ~LinkLockout(h)
  BY OnlyAuthCompares
<1>2. Settled(h)
  BY <1>1, WriteBasics
<1>3. clock \in Nat /\ lockEnd \in Nat /\ linkEnd[h] \in Nat
  BY TimeAssumption DEF TypeOK
<1>4. QED
  BY <1>1, <1>2, <1>3, GlobalTest, LinkTest

\* When the right PIN is refused one of them still runs.
LEMMA RefusedInLockout ==
  ASSUME NoWrap, TypeOK, Inv, [Next]_vars, RefusesRightPin
  PROVE  clock < lockEnd \/ clock < linkEnd[nimble'.h]
<1>1. PICK h \in Handle, pinOk \in BOOLEAN : AuthWrite(h, pinOk)
  <2>1. /\ nimble = Idle /\ nimble.step = "idle" /\ nimble'.step = "reply"
        /\ nimble' # nimble
    BY DEF RefusesRightPin, Idle
  <2>2. ~(UNCHANGED vars \/ Tick \/ Notify \/ OnConnect \/ OnDisconnect \/ SendReply
            \/ AdvertisingStops)
    BY <2>1 DEF vars, Tick, Notify, NotifyBegin, NotifyCount, NotifyClear, NotifyCollect,
       NotifyKick, NotifyEnd, OnConnect, OnDisconnect, SendReply, AdvertisingStops
  <2>3. ~\E k \in Handle : LinkUp(k) \/ LinkDown(k) \/ MissedDisconnect(k) \/ CommandWrite(k)
    BY <2>1 DEF LinkUp, LinkDown, MissedDisconnect, CommandWrite
  <2>4. QED
    BY <2>2, <2>3 DEF Next, Radio, Host
<1>2. Settled(h) /\ nimble'.h = h
  BY <1>1, WriteBasics
<1>3. GlobalLockout \/ LinkLockout(h)
  <2>1. ~AuthAccepted(h) /\ ~AuthDenied(h)
    BY DEF AuthAccepted, AuthDenied, RefusesRightPin, Reply
  <2>2. QED
    BY <1>1, <2>1 DEF AuthWrite, AuthRejectedGlobally, AuthRejectedOnLink
<1>4. clock \in Nat /\ lockEnd \in Nat /\ linkEnd[h] \in Nat
  BY TimeAssumption DEF TypeOK
<1>5. QED
  BY <1>2, <1>3, <1>4, GlobalTest, LinkTest

----------------------------------------------------------------------------
(* The theorems. *)

(* At any time fewer than GlobalLockoutFailures wrong PINs have been        *)
(* compared since the last global lockout, and fewer than LockoutFailures   *)
(* on a link since its own, unless it is being disconnected: however many   *)
(* links share the guessing, reconnect or vanish without a callback.        *)
THEOREM GuessingBounded == ASSUME NoWrap PROVE Spec => []GuessBudget
<1>1. TypeOK /\ Inv => GuessBudget
  <2> SUFFICES ASSUME TypeOK, Inv PROVE GuessBudget
    OBVIOUS
  <2>1. globalFailures <= GlobalLockoutFailures /\ wrongAll < GlobalLockoutFailures
    BY CountAssumption DEF Inv, GlobalInv, TypeOK, Totals
  <2>2. ASSUME NEW h \in Handle, wrong[h] >= LockoutFailures
        PROVE  h \in terminating \/ Forcing(h)
    <3>1. LinkInv(h) /\ wrong[h] \in Nat
      BY DEF Inv, TypeOK
    <3>2. QED
      BY <2>2, <3>1, CountAssumption DEF LinkInv, Dropped
  <2>3. QED
    BY <2>1, <2>2 DEF GuessBudget, TypeOK
<1>2. QED
  BY <1>1, Invariance, PTL

(* No PIN is compared, and so no link becomes authenticated, before the     *)
(* global lockout and the link's own are over.                              *)
THEOREM LockoutsAreKept == ASSUME NoWrap PROVE Spec => LockoutsHold
<1>1. TypeOK /\ Inv /\ [Next]_vars
        => [\A h \in Handle : Compares(h) => clock >= lockEnd /\ clock >= linkEnd[h]]_vars
  BY ComparedInTime
<1>2. QED
  BY <1>1, Invariance, PTL DEF LockoutsHold, Spec

(* The owner's right PIN is refused only while a lockout really runs, the   *)
(* global one or one engaged on that very link: no stale stamp refuses it.  *)
THEOREM LockoutsAreOver == ASSUME NoWrap PROVE Spec => LockoutsEnd
<1>1. TypeOK /\ Inv /\ [Next]_vars
        => [RefusesRightPin => clock < lockEnd \/ clock < linkEnd[nimble'.h]]_vars
  BY RefusedInLockout
<1>2. QED
  BY <1>1, Invariance, PTL DEF LockoutsEnd, Spec

=============================================================================
