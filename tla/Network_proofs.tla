--------------------------- MODULE Network_proofs ---------------------------
(***************************************************************************)
(* Proofs about Network and TcpServer, for any number of clients.          *)
(*                                                                         *)
(* For both tasks and any number of switches of the network, one that      *)
(* nothing else interrupts makes every step it stands for, whatever        *)
(* mixture of half-made switches it starts from.  The invariant follows a  *)
(* switch made alone: what its task has still to do tells what it has      *)
(* done, and nobody else undoes it.                                        *)
(*                                                                         *)
(* The blocking server sends a client that asked for a filter last only    *)
(* PGNs of that filter.  The invariant ties each slot to the last command  *)
(* of its client.                                                          *)
(***************************************************************************)
EXTENDS Network, TcpServer, SequenceTheorems, FiniteSetTheorems, TLAPS

----------------------------------------------------------------------------
(* The inductive invariant. *)

AllSteps == {"on", "off"} \X (Services \cup {"wifi", "joined", "waited", "station", "ap", "flag"})
Switches == {Enable, Disable, ToStation, ToAP}

\* What is left of a switch from its i-th step on; no switch has more than nine.
Remaining(steps, i) == SubSeq(steps, i, Len(steps))
Remainders == {Remaining(steps, i) : steps \in Switches, i \in 1 .. 10}

NetworkTypeOK ==
  /\ networkUp \in BOOLEAN /\ softAP \in BOOLEAN
  /\ pending \in [Tasks -> Remainders]
  /\ running \subseteq Services
  /\ radio \in {"off", "ap", "searching", "station"}
  /\ last \in {<<"none">>, <<"mixed">>} \cup ({"begun", "done"} \X AllSteps)

\* Task t is the only one that makes a switch, and the i-th step is its next.
AloneAt(t, steps, i) == Alone(t) /\ pending[t] = Remaining(steps, i)
Quiet == \A t \in Tasks : ~Switching(t)

\* What onEnableNetwork() has done before its i-th step.
EnabledUpTo(i) ==
  /\ i >= 3 => (softAP <=> radio = "ap")
  /\ i >= 4 => "mdns" \in running
  /\ i >= 5 => "echo" \in running
  /\ i >= 6 => "tcp" \in running
  /\ i >= 7 => "udp" \in running
  /\ i >= 8 => (radio = "ap" => "dns" \in running)
  /\ i >= 9 => "http" \in running
  /\ i >= 10 => networkUp

\* What onDisableNetwork() has done before its i-th step.
DisabledUpTo(i) ==
  /\ i >= 2 => "http" \notin running
  /\ i >= 3 => "dns" \notin running
  /\ i >= 4 => "udp" \notin running
  /\ i >= 5 => "tcp" \notin running /\ clients = {}
  /\ i >= 6 => "echo" \notin running
  /\ i >= 7 => "mdns" \notin running
  /\ i >= 8 => radio = "off"
  /\ i >= 9 => ~networkUp

EnableInv ==
  /\ last = <<"begun", On("wifi")>> =>
       \E t \in Tasks, i \in 1 .. 9 : AloneAt(t, Enable, i) /\ EnabledUpTo(i)
  /\ last = <<"done", On("wifi")>> => Quiet /\ EnabledUpTo(10)

DisableInv ==
  /\ last = <<"begun", Off("http")>> =>
       \E t \in Tasks, i \in 1 .. 8 : AloneAt(t, Disable, i) /\ DisabledUpTo(i)
  /\ last = <<"done", Off("http")>> => Quiet /\ DisabledUpTo(9)

NetworkInv == NetworkTypeOK /\ EnableInv /\ DisableInv

----------------------------------------------------------------------------
(* The switches as sequences. *)

\* The calls of onEnableNetwork(), onDisableNetwork() and of the console's 'A', one by one.
LEMMA EnableSteps ==
  /\ Enable \in Seq(AllSteps) /\ Len(Enable) = 9
  /\ Enable[1] = On("wifi") /\ Enable[2] = On("joined") /\ Enable[3] = On("mdns")
  /\ Enable[4] = On("echo") /\ Enable[5] = On("tcp") /\ Enable[6] = On("udp")
  /\ Enable[7] = On("dns") /\ Enable[8] = On("http") /\ Enable[9] = On("flag")
BY DEF Enable, On, AllSteps, Services

\* onDisableNetwork()
LEMMA DisableSteps ==
  /\ Disable \in Seq(AllSteps) /\ Len(Disable) = 8
  /\ Disable[1] = Off("http") /\ Disable[2] = Off("dns") /\ Disable[3] = Off("udp")
  /\ Disable[4] = Off("tcp") /\ Disable[5] = Off("echo") /\ Disable[6] = Off("mdns")
  /\ Disable[7] = Off("wifi") /\ Disable[8] = Off("flag")
BY DEF Disable, Off, AllSteps, Services

\* CheckCommand(), case 'A'
LEMMA ConsoleSteps ==
  /\ ToStation \in Seq(AllSteps) /\ Len(ToStation) = 3
  /\ ToStation[1] = Off("dns") /\ ToStation[2] = On("station") /\ ToStation[3] = On("waited")
  /\ ToAP \in Seq(AllSteps) /\ Len(ToAP) = 2
  /\ ToAP[1] = On("ap") /\ ToAP[2] = On("dns")
BY DEF ToStation, ToAP, On, Off, AllSteps, Services

\* What is left of a switch when its next step has been made.
LEMMA RemainingNext ==
  ASSUME NEW steps \in Seq(AllSteps), NEW i \in 1 .. Len(steps)
  PROVE  /\ Remaining(steps, i) # <<>>
         /\ Head(Remaining(steps, i)) = steps[i]
         /\ Tail(Remaining(steps, i)) = Remaining(steps, i + 1)
<1>1. Len(steps) \in Nat /\ Len(steps) \in i .. Len(steps) /\ i <= Len(steps)
  BY LenProperties
<1>2. Head(Remaining(steps, i)) = steps[i] /\ Tail(Remaining(steps, i)) = Remaining(steps, i + 1)
  BY <1>1, HeadTailOfSubSeq DEF Remaining
<1>3. Len(Remaining(steps, i)) = Len(steps) - i + 1
  <2>1. \A j \in i .. Len(steps) : steps[j] \in AllSteps
    BY <1>1, ElementOfSeq
  <2>2. Len(Remaining(steps, i)) = IF i <= Len(steps) THEN Len(steps) - i + 1 ELSE 0
    BY <1>1, <2>1, SubSeqProperties DEF Remaining
  <2>3. QED
    BY <1>1, <2>2
<1>4. QED
  BY <1>1, <1>2, <1>3, EmptySeq

\* A whole switch, and one of which nothing is left.
LEMMA RemainingEnds ==
  ASSUME NEW steps \in Seq(AllSteps)
  PROVE  Remaining(steps, 1) = steps /\ Remaining(steps, Len(steps) + 1) = <<>>
<1>1. Len(steps) \in Nat
  BY LenProperties
<1>2. QED
  BY <1>1, SubSeqFull, SubSeqEmpty DEF Remaining

\* Only onEnableNetwork() begins with the WiFi network.
LEMMA SwitchSteps ==
  ASSUME NEW steps \in Switches
  PROVE  /\ steps \in Seq(AllSteps) /\ Len(steps) \in Nat /\ 2 <= Len(steps) /\ Len(steps) <= 9
         /\ \A i \in 1 .. Len(steps) : steps[i] = On("wifi") => steps = Enable /\ i = 1
<1>1. CASE steps = Enable
  BY <1>1, EnableSteps DEF On
<1>2. CASE steps = Disable
  BY <1>2, DisableSteps DEF On, Off
<1>3. CASE steps = ToStation
  BY <1>3, ConsoleSteps DEF On, Off
<1>4. CASE steps = ToAP
  BY <1>4, ConsoleSteps DEF On
<1>5. QED
  BY <1>1, <1>2, <1>3, <1>4 DEF Switches

\* What a step leaves of a switch.
LEMMA RemaindersClosed ==
  ASSUME NEW left \in Remainders, left # <<>>
  PROVE  /\ Head(left) \in AllSteps
         /\ Tail(left) \in Remainders
         /\ Head(left) = On("wifi") => Tail(Tail(left)) \in Remainders
<1>1. PICK steps \in Switches, i \in 1 .. 10 : left = Remaining(steps, i)
  BY DEF Remainders
<1>2. steps \in Seq(AllSteps) /\ Len(steps) \in Nat /\ 2 <= Len(steps) /\ Len(steps) <= 9
      /\ \A j \in 1 .. Len(steps) : steps[j] = On("wifi") => steps = Enable /\ j = 1
  BY SwitchSteps
<1>3. i \in 1 .. Len(steps)
  <2>1. SUFFICES ASSUME i > Len(steps) PROVE FALSE
    BY <1>2
  <2>2. Remaining(steps, i) = <<>>
    BY <1>2, <2>1, SubSeqEmpty DEF Remaining
  <2>3. QED
    BY <1>1, <2>2
<1>4. Head(left) = steps[i] /\ Tail(left) = Remaining(steps, i + 1) /\ steps[i] \in AllSteps
  BY <1>1, <1>2, <1>3, RemainingNext, ElementOfSeq
<1>5. Tail(left) \in Remainders
  <2>1. i + 1 \in 1 .. 10
    <3>1. Len(steps) \in Nat /\ 2 <= Len(steps) /\ Len(steps) <= 9
      BY <1>2
    <3>2. QED
      BY <1>3, <3>1
  <2>2. Remaining(steps, i + 1) \in Remainders
    BY <2>1 DEF Remainders
  <2>3. QED
    BY <1>4, <2>2
<1>6. ASSUME Head(left) = On("wifi") PROVE Tail(Tail(left)) \in Remainders
  <2>1. steps = Enable /\ i = 1
    BY <1>2, <1>3, <1>4, <1>6
  <2>2. 2 \in 1 .. Len(steps) /\ 3 \in 1 .. 10
    <3>1. Len(steps) \in Nat /\ 2 <= Len(steps) /\ Len(steps) <= 9
      BY <1>2
    <3>2. QED
      BY <3>1
  <2>3. Tail(left) = Remaining(steps, 2)
    BY <1>4, <2>1
  <2>4. Tail(Remaining(steps, 2)) = Remaining(steps, 3)
    BY <1>2, <2>2, RemainingNext
  <2>5. Remaining(steps, 3) \in Remainders
    BY <2>2 DEF Remainders
  <2>6. QED
    BY <2>3, <2>4, <2>5
<1>7. QED
  BY <1>4, <1>5, <1>6

----------------------------------------------------------------------------
(* Steps. *)

\* No switch has begun.
LEMMA NetworkInitially == NetworkInit => NetworkInv
<1>1. SUFFICES ASSUME NetworkInit PROVE NetworkInv
  OBVIOUS
<1>2. <<>> \in Remainders
  <2>1. Enable \in Switches /\ Enable \in Seq(AllSteps) /\ Len(Enable) = 9
    BY EnableSteps DEF Switches
  <2> HIDE DEF Enable
  <2>2. Remaining(Enable, Len(Enable) + 1) = <<>>
    BY <2>1, RemainingEnds
  <2>3. Remaining(Enable, 10) = <<>>
    BY <2>1, <2>2
  <2>4. QED
    BY <2>1, <2>3 DEF Remainders
<1>3. NetworkTypeOK
  BY <1>1, <1>2 DEF NetworkInit, NetworkTypeOK
<1>4. EnableInv /\ DisableInv
  BY <1>1 DEF NetworkInit, EnableInv, DisableInv
<1>5. QED
  BY <1>3, <1>4 DEF NetworkInv

\* What begin() of a service does to the other services and to the radio.
LEMMA BeginEffect ==
  ASSUME NetworkTypeOK, NEW service, BeginService(service)
  PROVE  /\ running \subseteq running' /\ running' \subseteq Services
         /\ service \in Services \ {"dns"} => service \in running'
         /\ service = "dns" => (radio = "ap" => service \in running')
         /\ service \in Services \cup {"flag"} => UNCHANGED wifiVars
         /\ service = "wifi" => \/ radio' = "ap" /\ softAP'
                                \/ radio' = "searching"
         /\ service = "joined" => (softAP' <=> radio' = "ap")
         /\ radio' \in {"off", "ap", "searching", "station"} /\ softAP' \in BOOLEAN
         /\ networkUp' \in BOOLEAN /\ (service = "flag" => networkUp')
         /\ UNCHANGED tcpVars
BY DEF NetworkTypeOK, BeginService, DnsCanStart, StartWifi, StartAP, Joined, Waited, wifiVars, Services

\* What end() of a service does.
LEMMA EndEffect ==
  ASSUME NetworkTypeOK, NEW service, EndService(service)
  PROVE  /\ running' = running \ {service}
         /\ service = "wifi" => radio' = "off"
         /\ service # "wifi" => radio' = radio
         /\ service = "tcp" => clients' = {}
         /\ clients' \subseteq clients
         /\ networkUp' \in BOOLEAN /\ (service = "flag" => ~networkUp')
         /\ UNCHANGED softAP
BY DEF EndService

\* Every step of onEnableNetwork() adds its own to what has been done.
LEMMA EnableGoesOn ==
  ASSUME NetworkTypeOK, NEW i \in 1 .. 9, EnabledUpTo(i), BeginService(Enable[i][2])
  PROVE  EnabledUpTo(i + 1)' /\ (i = 1 /\ radio' = "ap" => EnabledUpTo(3)')
<1> DEFINE service == Enable[i][2]
<1>1. /\ running \subseteq running' /\ running' \subseteq Services
      /\ service \in Services \ {"dns"} => service \in running'
      /\ service = "dns" => (radio = "ap" => service \in running')
      /\ service \in Services \cup {"flag"} => UNCHANGED <<radio, softAP>>
      /\ service = "wifi" => \/ radio' = "ap" /\ softAP'
                             \/ radio' = "searching"
      /\ service = "joined" => (softAP' <=> radio' = "ap")
      /\ service = "flag" => networkUp'
  BY BeginEffect DEF wifiVars
<1>2. CASE i = 1
  BY <1>1, <1>2, EnableSteps DEF EnabledUpTo, On
<1>3. CASE i = 2
  BY <1>1, <1>3, EnableSteps DEF EnabledUpTo, On
<1>4. CASE i = 3
  BY <1>1, <1>4, EnableSteps DEF EnabledUpTo, On, Services
<1>5. CASE i = 4
  BY <1>1, <1>5, EnableSteps DEF EnabledUpTo, On, Services
<1>6. CASE i = 5
  BY <1>1, <1>6, EnableSteps DEF EnabledUpTo, On, Services
<1>7. CASE i = 6
  BY <1>1, <1>7, EnableSteps DEF EnabledUpTo, On, Services
<1>8. CASE i = 7
  BY <1>1, <1>8, EnableSteps DEF EnabledUpTo, On, Services
<1>9. CASE i = 8
  BY <1>1, <1>9, EnableSteps DEF EnabledUpTo, On, Services
<1>10. CASE i = 9
  BY <1>1, <1>10, EnableSteps DEF EnabledUpTo, On, Services
<1>11. QED
  BY <1>2, <1>3, <1>4, <1>5, <1>6, <1>7, <1>8, <1>9, <1>10

\* Every step of onDisableNetwork() takes its own from what is left, and nothing comes back.
LEMMA DisableGoesOn ==
  ASSUME NetworkTypeOK, NEW i \in 1 .. 8, DisabledUpTo(i), EndService(Disable[i][2])
  PROVE  DisabledUpTo(i + 1)'
<1> DEFINE service == Disable[i][2]
<1>1. /\ running' = running \ {service}
      /\ service = "wifi" => radio' = "off"
      /\ service # "wifi" => radio' = radio
      /\ service = "tcp" => clients' = {}
      /\ clients' \subseteq clients
      /\ service = "flag" => ~networkUp'
  BY EndEffect
<1>2. CASE i = 1
  BY <1>1, <1>2, DisableSteps DEF DisabledUpTo, Off
<1>3. CASE i = 2
  BY <1>1, <1>3, DisableSteps DEF DisabledUpTo, Off
<1>4. CASE i = 3
  BY <1>1, <1>4, DisableSteps DEF DisabledUpTo, Off
<1>5. CASE i = 4
  BY <1>1, <1>5, DisableSteps DEF DisabledUpTo, Off
<1>6. CASE i = 5
  BY <1>1, <1>6, DisableSteps DEF DisabledUpTo, Off
<1>7. CASE i = 6
  BY <1>1, <1>7, DisableSteps DEF DisabledUpTo, Off
<1>8. CASE i = 7
  BY <1>1, <1>8, DisableSteps DEF DisabledUpTo, Off
<1>9. CASE i = 8
  BY <1>1, <1>9, DisableSteps DEF DisabledUpTo, Off
<1>10. QED
  BY <1>2, <1>3, <1>4, <1>5, <1>6, <1>7, <1>8, <1>9

\* A step keeps the types.
LEMMA StepTypes ==
  ASSUME NetworkTypeOK, NEW t \in Tasks, Step(t)
  PROVE  NetworkTypeOK'
<1> DEFINE left == pending[t]
           step == Head(left)
<1>1. left \in Remainders /\ left # <<>>
  BY DEF NetworkTypeOK, Step, Switching
<1>2. After(left) \in {Tail(left), Tail(Tail(left))}
      /\ (After(left) = Tail(left) \/ step = On("wifi"))
  BY DEF After
<1>3. After(left) \in Remainders
  BY <1>1, <1>2, RemaindersClosed
<1>4. pending' = [pending EXCEPT ![t] = After(left)]
  BY DEF Step
<1> HIDE DEF left
<1>5. pending' \in [Tasks -> Remainders]
  BY <1>3, <1>4 DEF NetworkTypeOK
<1>6. BeginService(step[2]) \/ EndService(step[2])
  BY DEF Step, left
<1> HIDE DEF step
<1>7. /\ networkUp' \in BOOLEAN /\ softAP' \in BOOLEAN /\ running' \subseteq Services
      /\ radio' \in {"off", "ap", "searching", "station"}
  <2>1. CASE BeginService(step[2])
    BY <2>1, BeginEffect DEF NetworkTypeOK
  <2>2. CASE EndService(step[2])
    BY <2>2, EndEffect DEF NetworkTypeOK
  <2>3. QED
    BY <1>6, <2>1, <2>2
<1>8. last' \in {<<"none">>, <<"mixed">>} \cup ({"begun", "done"} \X AllSteps)
  <2>1. \/ last' = <<"mixed">>
        \/ last[1] = "begun" /\ last' = <<"done", last[2]>>
        \/ last' = last
    BY DEF Step
  <2>2. QED
    BY <2>1 DEF NetworkTypeOK
<1>9. QED
  BY <1>5, <1>7, <1>8 DEF NetworkTypeOK

\* The task that is alone in making a switch is the one that steps.
LEMMA StepOfAlone ==
  ASSUME NetworkTypeOK, NEW t \in Tasks, NEW u \in Tasks, Alone(u), Step(t)
  PROVE  /\ t = u /\ Alone(t)'
         /\ pending'[t] = After(pending[t])
         /\ last' = IF last[1] = "begun" /\ pending'[t] = <<>> THEN <<"done", last[2]>> ELSE last
<1>1. t = u
  BY DEF Alone, Step
<1>2. pending' = [pending EXCEPT ![t] = After(pending[t])] /\ pending \in [Tasks -> Remainders]
  BY DEF Step, NetworkTypeOK
<1>3. pending'[t] = After(pending[t]) /\ \A v \in Tasks \ {t} : pending'[v] = pending[v]
  BY <1>2
<1>4. QED
  BY <1>1, <1>3 DEF Alone, Switching, Step

\* A step of the switch made alone adds to what it has done; any other step is of a mixture.
LEMMA StepKeepsEnable ==
  ASSUME NetworkInv, NEW t \in Tasks, Step(t)
  PROVE  EnableInv'
<1>1. CASE last = <<"begun", On("wifi")>>
  <2>1. PICK u \in Tasks, i \in 1 .. 9 : AloneAt(u, Enable, i) /\ EnabledUpTo(i)
    BY <1>1 DEF NetworkInv, EnableInv
  <2>2. /\ t = u /\ Alone(t)'
        /\ pending'[t] = After(pending[t])
        /\ last' = IF pending'[t] = <<>> THEN <<"done", On("wifi")>> ELSE last
    BY <1>1, <2>1, StepOfAlone DEF NetworkInv, AloneAt
  <2>3. Enable \in Seq(AllSteps) /\ Len(Enable) = 9 /\ i \in 1 .. Len(Enable)
    BY EnableSteps
  <2>4. /\ pending[t] = Remaining(Enable, i) /\ Head(pending[t]) = Enable[i]
        /\ Tail(pending[t]) = Remaining(Enable, i + 1)
    BY <2>1, <2>2, <2>3, RemainingNext DEF AloneAt
  <2>5. Enable[i][1] = "on" /\ (Enable[i] = On("wifi") <=> i = 1)
    BY EnableSteps DEF On
  <2>6. BeginService(Enable[i][2])
    BY <2>4, <2>5 DEF Step
  <2>7. EnabledUpTo(i + 1)' /\ (i = 1 /\ radio' = "ap" => EnabledUpTo(3)')
    BY <2>1, <2>6, EnableGoesOn DEF NetworkInv
  <2>8. PICK j \in 2 .. 10 : pending'[t] = Remaining(Enable, j) /\ EnabledUpTo(j)'
    <3>1. CASE i = 1 /\ radio' = "ap"
      <4>1. After(pending[t]) = Tail(Tail(pending[t]))
        BY <2>4, <2>5, <3>1 DEF After
      <4>2. 2 \in 1 .. Len(Enable)
        BY <2>3
      <4>3. Tail(Remaining(Enable, 2)) = Remaining(Enable, 2 + 1)
        BY <2>3, <4>2, RemainingNext
      <4>4. Tail(pending[t]) = Remaining(Enable, 2) /\ Remaining(Enable, 2 + 1) = Remaining(Enable, 3)
        BY <2>4, <3>1
      <4>5. pending'[t] = Remaining(Enable, 3)
        BY <2>2, <4>1, <4>3, <4>4
      <4>6. QED
        BY <2>7, <3>1, <4>5
    <3>2. CASE ~(i = 1 /\ radio' = "ap")
      <4>1. After(pending[t]) = Tail(pending[t])
        BY <2>4, <2>5, <3>2 DEF After
      <4>2. pending'[t] = Remaining(Enable, i + 1) /\ EnabledUpTo(i + 1)'
        BY <2>2, <2>4, <2>7, <4>1
      <4>3. i + 1 \in 2 .. 10
        OBVIOUS
      <4>4. QED
        BY <4>2, <4>3
    <3>3. QED
      BY <3>1, <3>2
  <2>9. CASE j <= 9
    <3>1. j \in 1 .. 9 /\ j \in 1 .. Len(Enable)
      BY <2>3, <2>9
    <3>2. pending'[t] # <<>>
      BY <2>3, <2>8, <3>1, RemainingNext
    <3>3. last' = <<"begun", On("wifi")>> /\ AloneAt(t, Enable, j)'
      BY <1>1, <2>2, <2>8, <3>2 DEF AloneAt
    <3>4. QED
      BY <2>8, <3>1, <3>3 DEF EnableInv
  <2>10. CASE j = 10
    <3>1. pending'[t] = <<>>
      <4> HIDE DEF Enable
      <4>1. Remaining(Enable, Len(Enable) + 1) = <<>>
        BY <2>3, RemainingEnds
      <4>2. QED
        BY <2>3, <2>8, <2>10, <4>1
    <3>2. Quiet'
      BY <2>2, <3>1 DEF Alone, Quiet, Switching
    <3>3. last' = <<"done", On("wifi")>>
      BY <2>2, <3>1
    <3>4. QED
      BY <2>8, <2>10, <3>2, <3>3 DEF EnableInv
  <2>11. QED
    BY <2>9, <2>10
<1>2. CASE last # <<"begun", On("wifi")>>
  <2>1. last # <<"done", On("wifi")>>
    BY DEF NetworkInv, EnableInv, Quiet, Step
  <2>2. \/ last' = <<"mixed">>
        \/ last[1] = "begun" /\ last' = <<"done", last[2]>>
        \/ last' = last
    BY DEF Step
  <2>3. last[1] = "begun" => last[2] # On("wifi")
    BY <1>2 DEF NetworkInv, NetworkTypeOK
  <2>4. last' # <<"begun", On("wifi")>> /\ last' # <<"done", On("wifi")>>
    BY <1>2, <2>1, <2>2, <2>3
  <2>5. QED
    BY <2>4 DEF EnableInv
<1>3. QED
  BY <1>1, <1>2

\* So with onDisableNetwork().
LEMMA StepKeepsDisable ==
  ASSUME NetworkInv, NEW t \in Tasks, Step(t)
  PROVE  DisableInv'
<1>1. CASE last = <<"begun", Off("http")>>
  <2>1. PICK u \in Tasks, i \in 1 .. 8 : AloneAt(u, Disable, i) /\ DisabledUpTo(i)
    BY <1>1 DEF NetworkInv, DisableInv
  <2>2. /\ t = u /\ Alone(t)'
        /\ pending'[t] = After(pending[t])
        /\ last' = IF pending'[t] = <<>> THEN <<"done", Off("http")>> ELSE last
    BY <1>1, <2>1, StepOfAlone DEF NetworkInv, AloneAt
  <2>3. Disable \in Seq(AllSteps) /\ Len(Disable) = 8 /\ i \in 1 .. Len(Disable)
    BY DisableSteps
  <2>4. /\ pending[t] = Remaining(Disable, i) /\ Head(pending[t]) = Disable[i]
        /\ Tail(pending[t]) = Remaining(Disable, i + 1)
    BY <2>1, <2>2, <2>3, RemainingNext DEF AloneAt
  <2>5. Disable[i][1] = "off" /\ Disable[i] # On("wifi")
    BY DisableSteps DEF On, Off
  <2>6. EndService(Disable[i][2])
    BY <2>4, <2>5 DEF Step
  <2>7. DisabledUpTo(i + 1)'
    BY <2>1, <2>6, DisableGoesOn DEF NetworkInv
  <2>8. pending'[t] = Remaining(Disable, i + 1)
    BY <2>2, <2>4, <2>5 DEF After
  <2>9. CASE i <= 7
    <3>1. i + 1 \in 1 .. 8 /\ i + 1 \in 1 .. Len(Disable)
      BY <2>3, <2>9
    <3>2. pending'[t] # <<>>
      BY <2>3, <2>8, <3>1, RemainingNext
    <3>3. last' = <<"begun", Off("http")>> /\ AloneAt(t, Disable, i + 1)'
      BY <1>1, <2>2, <2>8, <3>2 DEF AloneAt
    <3>4. QED
      BY <2>7, <3>1, <3>3 DEF DisableInv
  <2>10. CASE i = 8
    <3>1. pending'[t] = <<>>
      <4>1. Remaining(Disable, Len(Disable) + 1) = <<>>
        BY <2>3, RemainingEnds
      <4>2. QED
        BY <2>3, <2>8, <2>10, <4>1
    <3>2. Quiet'
      BY <2>2, <3>1 DEF Alone, Quiet, Switching
    <3>3. last' = <<"done", Off("http")>>
      BY <2>2, <3>1
    <3>4. QED
      BY <2>7, <2>10, <3>2, <3>3 DEF DisableInv
  <2>11. QED
    BY <2>9, <2>10
<1>2. CASE last # <<"begun", Off("http")>>
  <2>1. last # <<"done", Off("http")>>
    BY DEF NetworkInv, DisableInv, Quiet, Step
  <2>2. \/ last' = <<"mixed">>
        \/ last[1] = "begun" /\ last' = <<"done", last[2]>>
        \/ last' = last
    BY DEF Step
  <2>3. last[1] = "begun" => last[2] # Off("http")
    BY <1>2 DEF NetworkInv, NetworkTypeOK
  <2>4. last' # <<"begun", Off("http")>> /\ last' # <<"done", Off("http")>>
    BY <1>2, <2>1, <2>2, <2>3
  <2>5. QED
    BY <2>4 DEF DisableInv
<1>3. QED
  BY <1>1, <1>2

\* A command leaves everything to be done.
LEMMA BeginKeeps ==
  ASSUME NetworkInv, NEW t \in Tasks, NEW steps \in Switches, Begin(t, steps)
  PROVE  NetworkInv'
<1>1. steps \in Seq(AllSteps) /\ Len(steps) \in Nat /\ 2 <= Len(steps) /\ 1 \in 1 .. Len(steps)
  BY SwitchSteps
<1>2. /\ Remaining(steps, 1) = steps /\ Head(steps) = steps[1] /\ steps[1] \in AllSteps
      /\ steps \in Remainders
  <2>1. Remaining(steps, 1) = steps
    BY <1>1, RemainingEnds
  <2>2. Head(Remaining(steps, 1)) = steps[1] /\ steps[1] \in AllSteps
    BY <1>1, RemainingNext, ElementOfSeq
  <2>3. Remaining(steps, 1) \in Remainders
    BY DEF Remainders
  <2>4. QED
    BY <2>1, <2>2, <2>3
<1>3. /\ pending' = [pending EXCEPT ![t] = steps] /\ UNCHANGED stateVars
      /\ last' = IF Alone(t) THEN <<"begun", steps[1]>> ELSE <<"mixed">>
      /\ pending \in [Tasks -> Remainders]
  BY <1>2 DEF Begin, NetworkInv, NetworkTypeOK
<1>4. pending' \in [Tasks -> Remainders] /\ pending'[t] = steps
      /\ \A u \in Tasks \ {t} : pending'[u] = pending[u]
  BY <1>2, <1>3
<1>5. Alone(t) => Alone(t)'
  BY <1>4 DEF Alone, Switching
<1>6. NetworkTypeOK'
  <2>1. last' \in {<<"mixed">>} \cup ({"begun", "done"} \X AllSteps)
    BY <1>2, <1>3
  <2>2. QED
    BY <1>3, <1>4, <2>1 DEF NetworkInv, NetworkTypeOK, stateVars, wifiVars
<1>7. last' # <<"done", On("wifi")>> /\ last' # <<"done", Off("http")>>
  BY <1>3
<1>8. ASSUME last' = <<"begun", On("wifi")>>
      PROVE  \E u \in Tasks, i \in 1 .. 9 : AloneAt(u, Enable, i)' /\ EnabledUpTo(i)'
  <2>1. Alone(t) /\ steps[1] = On("wifi")
    BY <1>3, <1>8
  <2>2. steps = Enable
    BY <1>1, <2>1, SwitchSteps
  <2>3. AloneAt(t, Enable, 1)'
    BY <1>2, <1>4, <1>5, <2>1, <2>2 DEF AloneAt
  <2>4. EnabledUpTo(1)'
    BY DEF EnabledUpTo
  <2>5. QED
    BY <2>3, <2>4
<1>9. ASSUME last' = <<"begun", Off("http")>>
      PROVE  \E u \in Tasks, i \in 1 .. 8 : AloneAt(u, Disable, i)' /\ DisabledUpTo(i)'
  <2>1. Alone(t) /\ steps[1] = Off("http")
    BY <1>3, <1>9
  <2>2. steps = Disable
    BY <2>1, EnableSteps, DisableSteps, ConsoleSteps DEF Switches, On, Off
  <2>3. AloneAt(t, Disable, 1)'
    BY <1>2, <1>4, <1>5, <2>1, <2>2 DEF AloneAt
  <2>4. DisabledUpTo(1)'
    BY DEF DisabledUpTo
  <2>5. QED
    BY <2>3, <2>4
<1>10. QED
  BY <1>6, <1>7, <1>8, <1>9 DEF NetworkInv, EnableInv, DisableInv

\* Clients come only to a server that runs.
LEMMA ClientsKeep ==
  ASSUME NetworkInv,
         UNCHANGED <<networkUp, running, wifiVars, resolvedIP, onClient, pending, switches, last>>,
         "tcp" \in running \/ clients' \subseteq clients
  PROVE  NetworkInv'
<1>1. NetworkTypeOK'
  BY DEF NetworkInv, NetworkTypeOK, wifiVars
<1>2. \A i \in Int : EnabledUpTo(i)' <=> EnabledUpTo(i)
  BY DEF EnabledUpTo, wifiVars
<1>3. \A i \in Int : DisabledUpTo(i) => DisabledUpTo(i)'
  BY DEF DisabledUpTo, wifiVars
<1>4. /\ \A t : Alone(t)' <=> Alone(t)
      /\ Quiet' <=> Quiet
      /\ pending' = pending /\ last' = last
  BY DEF Alone, Quiet, Switching
<1>5. EnableInv'
  BY <1>2, <1>4 DEF NetworkInv, EnableInv, AloneAt
<1>6. DisableInv'
  BY <1>3, <1>4 DEF NetworkInv, DisableInv, AloneAt
<1>7. QED
  BY <1>1, <1>5, <1>6 DEF NetworkInv

\* The invariant is inductive.
LEMMA NetworkInvariant == NetworkInv /\ [NetworkStep]_networkVars => NetworkInv'
<1> SUFFICES ASSUME NetworkInv, [NetworkStep]_networkVars PROVE NetworkInv'
  OBVIOUS
<1>1. CASE BleCommand
  BY <1>1, BeginKeeps DEF BleCommand, Switches
<1>2. CASE ConsoleN
  BY <1>2, BeginKeeps DEF ConsoleN, Switches
<1>3. CASE ConsoleA
  BY <1>3, BeginKeeps DEF ConsoleA, Switches
<1>4. ASSUME NEW t \in Tasks, Step(t) PROVE NetworkInv'
  BY <1>4, StepTypes, StepKeepsEnable, StepKeepsDisable DEF NetworkInv
<1>5. ASSUME NEW c \in Clients, Connect(c) PROVE NetworkInv'
  BY <1>5, ClientsKeep DEF Connect
<1>6. ASSUME NEW c \in Clients, Close(c) PROVE NetworkInv'
  BY <1>6, ClientsKeep DEF Close
<1>7. CASE UNCHANGED networkVars
  BY <1>7, ClientsKeep DEF networkVars, stateVars, tcpVars
<1>8. QED
  BY <1>1, <1>2, <1>3, <1>4, <1>5, <1>6, <1>7 DEF NetworkStep

----------------------------------------------------------------------------
(* The property. *)

(* onEnableNetwork() and onDisableNetwork() make their calls one by one,    *)
(* and a BLE command and the console may each begin a switch in the middle  *)
(* of the other's.  Whatever that has left behind, the next switch that is  *)
(* made alone puts it right: every service runs, the captive portal's DNS   *)
(* where it is needed and softAP true to the radio, or none does, no client *)
(* is listed and the radio is off; and networkUp says which.                *)
LEMMA NetworkInvHolds == NetworkInv => SwitchHolds
<1> SUFFICES ASSUME NetworkInv PROVE SwitchHolds
  OBVIOUS
<1>1. ASSUME last = <<"done", On("wifi")>>
      PROVE  /\ networkUp /\ (softAP <=> radio = "ap")
             /\ Services \ {"dns"} \subseteq running
             /\ radio = "ap" => "dns" \in running
  BY <1>1 DEF NetworkInv, EnableInv, EnabledUpTo, Services
<1>2. ASSUME last = <<"done", Off("http")>>
      PROVE  ~networkUp /\ running = {} /\ clients = {} /\ radio = "off"
  BY <1>2 DEF NetworkInv, NetworkTypeOK, DisableInv, DisabledUpTo, Services
<1>3. QED
  BY <1>1, <1>2 DEF SwitchHolds, OnMeansOn, OffMeansOff, ModeKnown

----------------------------------------------------------------------------
(* The server of blocking sockets. *)

CommandLines == {line \in Lines : line.says \in {"filter", "other"}}
HalfStates == [line : Lines \cup {NoCommand}, ends : BOOLEAN]
TcpSlotStates ==
  [mode : {"disconnected", "nmea0183", "seasmart"}, peer : TcpPeers \cup {NoPeer},
   begun : Lines \cup {NoCommand}, filter : [1 .. FilterSize -> Pgns \cup {0, -1}]]
SocketStates == [is : {"new", "waiting", "open", "closed"}, unread : HalfStates]
PromisedStates == [asked : CommandLines \cup {NoCommand}, sent : Pgns \cup {Nothing, AnySentence}]

TcpTypeOK ==
  /\ server \in [1 .. ServerSlots -> TcpSlotStates]
  /\ socket \in [TcpPeers -> SocketStates]
  /\ promised \in [TcpPeers -> PromisedStates]

\* What a slot lets through is what its client has asked for.
Heeds(slot, command) ==
  /\ slot.mode = "nmea0183" => command = NoCommand
  /\ slot.mode = "seasmart" => command # NoCommand
  /\ command.says = "filter" =>
       \A i \in 1 .. FilterSize :
         slot.filter[i] = -1 \/ \E k \in DOMAIN command.pgns : slot.filter[i] = command.pgns[k]

SlotHeeds(slot) ==
  slot.mode # "disconnected" =>
    /\ slot.peer \in TcpPeers /\ socket[slot.peer].is \in {"open", "closed"}
    /\ Heeds(slot, promised[slot.peer].asked)

\* No client has two slots.
OneSlotEach ==
  \A i, j \in 1 .. ServerSlots :
    /\ server[i].mode # "disconnected" /\ server[j].mode # "disconnected"
    /\ server[i].peer = server[j].peer
    => i = j

TcpServerInv ==
  /\ TcpTypeOK
  /\ \A i \in 1 .. ServerSlots : SlotHeeds(server[i])
  /\ OneSlotEach
  /\ \A client \in TcpPeers :
       socket[client].is \in {"new", "waiting"} => promised[client].asked = NoCommand
  /\ FilterHeeded

LEMMA LinesSay ==
  /\ \A line \in Lines : line.says \in {"filter", "other", "bad", "long"}
  /\ NoCommand.says = "nothing" /\ NoCommand \notin Lines
BY DEF Lines, NoCommand

LEMMA KeptToMeans ==
  ASSUME NEW kept \in PromisedStates
  PROVE  KeptTo(kept) <=>
           (kept.sent # Nothing =>
              /\ kept.asked = NoCommand => kept.sent = AnySentence
              /\ kept.asked.says = "filter" =>
                   \E i \in DOMAIN kept.asked.pgns : kept.asked.pgns[i] = kept.sent
              /\ kept.asked.says = "other" => kept.sent # AnySentence)
<1>1. kept.asked \in CommandLines \cup {NoCommand}
  BY DEF PromisedStates
<1>2. CASE kept.asked = NoCommand
  BY <1>2, LinesSay DEF KeptTo
<1>3. CASE kept.asked # NoCommand
  <2>1. kept.asked.says \in {"filter", "other"}
    BY <1>1, <1>3 DEF CommandLines
  <2>2. CASE kept.sent = Nothing
    BY <2>2 DEF KeptTo
  <2>3. CASE kept.sent # Nothing
    BY <1>3, <2>1, <2>3 DEF KeptTo
  <2>4. QED
    BY <2>2, <2>3
<1>4. QED
  BY <1>2, <1>3

\* extractFields() and updatePgnFilter() leave nothing in the filter but what was asked for.
LEMMA FilterIsAsked ==
  ASSUME NEW pgns \in Filters, NEW old
  PROVE  /\ Filter(old, pgns) \in [1 .. FilterSize -> Pgns \cup {0, -1}]
         /\ \A i \in 1 .. FilterSize :
              Filter(old, pgns)[i] = -1 \/ \E k \in DOMAIN pgns : Filter(old, pgns)[i] = pgns[k]
<1>1. PICK n \in {1, 2} : pgns \in [1 .. n -> Pgns]
  BY DEF Filters
<1>2. DOMAIN pgns = 1 .. n /\ Len(pgns) = n /\ \A k \in 1 .. n : pgns[k] \in Pgns
  BY <1>1
<1>3. ASSUME NEW i \in 1 .. FilterSize
      PROVE  \/ Filter(old, pgns)[i] = -1
             \/ \E k \in 1 .. n : Filter(old, pgns)[i] = pgns[k]
  <2>1. CASE i <= Len(pgns) /\ i < MaxFields
    <3>1. i \in 1 .. n
      BY <1>1, <1>2, <2>1, TcpServerAssumption
    <3>2. QED
      BY <2>1, <3>1 DEF Filter
  <2>2. CASE ~(i <= Len(pgns) /\ i < MaxFields)
    BY <2>2 DEF Filter
  <2>3. QED
    BY <2>1, <2>2
<1>4. Filter(old, pgns) = [i \in 1 .. FilterSize |-> Filter(old, pgns)[i]]
  BY DEF Filter
<1>5. QED
  BY <1>2, <1>3, <1>4

\* Checking a slot frees it or leaves it alone.
LEMMA CheckedSlot ==
  ASSUME TcpServerInv, NEW i \in 1 .. ServerSlots
  PROVE  /\ server[i] \in TcpSlotStates /\ Checked(server[i]) \in TcpSlotStates
         /\ Checked(server[i]).mode # "disconnected" =>
              /\ Checked(server[i]) = server[i] /\ server[i].mode # "disconnected"
              /\ server[i].peer \in TcpPeers /\ socket[server[i].peer].is = "open"
              /\ Heeds(server[i], promised[server[i].peer].asked)
<1>1. server[i] \in TcpSlotStates /\ SlotHeeds(server[i])
  BY DEF TcpServerInv, TcpTypeOK
<1>2. CASE server[i].mode # "disconnected" /\ socket[server[i].peer].is # "open"
  BY <1>1, <1>2 DEF Checked, TcpSlotStates
<1>3. CASE ~(server[i].mode # "disconnected" /\ socket[server[i].peer].is # "open")
  BY <1>1, <1>3 DEF Checked, SlotHeeds
<1>4. QED
  BY <1>2, <1>3

\* Sending changes nothing that the slots depend on.
LEMMA SlotsCheckedKeep ==
  ASSUME TcpServerInv, UNCHANGED socket, promised' \in [TcpPeers -> PromisedStates],
         \A client \in TcpPeers :
           promised'[client].asked = promised[client].asked /\ KeptTo(promised'[client]),
         server' \in [1 .. ServerSlots -> TcpSlotStates],
         \A j \in 1 .. ServerSlots : server'[j] \in {server[j], Checked(server[j])}
  PROVE  TcpServerInv'
<1>1. ASSUME NEW j \in 1 .. ServerSlots, server'[j].mode # "disconnected"
      PROVE  server'[j] = server[j]
  BY <1>1, CheckedSlot
<1>2. TcpTypeOK'
  BY DEF TcpServerInv, TcpTypeOK
<1>3. ASSUME NEW j \in 1 .. ServerSlots PROVE SlotHeeds(server[j])'
  <2>1. CASE server'[j].mode = "disconnected"
    BY <2>1 DEF SlotHeeds
  <2>2. CASE server'[j].mode # "disconnected"
    BY <1>1, <2>2 DEF TcpServerInv, SlotHeeds
  <2>3. QED
    BY <2>1, <2>2
<1>4. OneSlotEach'
  BY <1>1 DEF TcpServerInv, OneSlotEach
<1>5. \A client \in TcpPeers :
        socket'[client].is \in {"new", "waiting"} => promised'[client].asked = NoCommand
  BY DEF TcpServerInv
<1>6. FilterHeeded'
  BY DEF FilterHeeded
<1>7. QED
  BY <1>2, <1>3, <1>4, <1>5, <1>6 DEF TcpServerInv

\* A command that is read sets the slot to what it asks for, and another line leaves it alone.
LEMMA MessageHeeded ==
  ASSUME NEW slot \in TcpSlotStates, NEW half \in HalfStates, slot.mode # "disconnected",
         NEW command, Heeds(slot, command)
  PROVE  /\ ProcessMessage(slot, half) \in TcpSlotStates
         /\ ProcessMessage(slot, half).peer = slot.peer
         /\ ProcessMessage(slot, half).mode # "disconnected"
         /\ CommandRead(half) =>
              half.line \in CommandLines /\ Heeds(ProcessMessage(slot, half), half.line)
         /\ ~CommandRead(half) => Heeds(ProcessMessage(slot, half), command)
<1> DEFINE line   == half.line
           parsed == ParseCommand(slot, line)
<1>1. line \in Lines \cup {NoCommand} /\ half.ends \in BOOLEAN
  BY DEF HalfStates
<1>2. ASSUME NEW any \in TcpSlotStates, NEW begun \in Lines \cup {NoCommand}
      PROVE  /\ [any EXCEPT !.begun = begun] \in TcpSlotStates
             /\ [any EXCEPT !.begun = begun].peer = any.peer
             /\ [any EXCEPT !.begun = begun].mode = any.mode
             /\ [any EXCEPT !.begun = begun].filter = any.filter
  BY DEF TcpSlotStates
<1>3. CASE CommandRead(half)
  <2>1. line \in CommandLines /\ half.ends
    BY <1>1, <1>3, LinesSay DEF CommandRead, CommandLines
  <2>2. ProcessMessage(slot, half) = [parsed EXCEPT !.begun = NoCommand]
    BY <2>1 DEF ProcessMessage
  <2>3. /\ parsed \in TcpSlotStates /\ parsed.peer = slot.peer /\ parsed.mode = "seasmart"
        /\ line.says = "filter" =>
             \A i \in 1 .. FilterSize :
               parsed.filter[i] = -1 \/ \E k \in DOMAIN line.pgns : parsed.filter[i] = line.pgns[k]
    <3>1. CASE line.says = "filter"
      <4>1. line.pgns \in Filters
        BY <2>1, <3>1 DEF CommandLines, Lines
      <4>2. /\ Filter(slot.filter, line.pgns) \in [1 .. FilterSize -> Pgns \cup {0, -1}]
            /\ \A i \in 1 .. FilterSize :
                 \/ Filter(slot.filter, line.pgns)[i] = -1
                 \/ \E k \in DOMAIN line.pgns : Filter(slot.filter, line.pgns)[i] = line.pgns[k]
        BY <4>1, FilterIsAsked
      <4>3. parsed = [slot EXCEPT !.mode = "seasmart", !.filter = Filter(slot.filter, line.pgns)]
        BY <3>1 DEF ParseCommand
      <4> HIDE DEF parsed
      <4>4. QED
        BY <4>2, <4>3 DEF TcpSlotStates
    <3>2. CASE line.says = "other"
      BY <3>2 DEF ParseCommand, TcpSlotStates
    <3>3. QED
      BY <2>1, <3>1, <3>2 DEF CommandLines
  <2> HIDE DEF parsed
  <2>4. line # NoCommand
    BY <2>1, LinesSay DEF CommandLines
  <2>5. NoCommand \in Lines \cup {NoCommand}
    OBVIOUS
  <2>6. QED
    BY <1>2, <1>3, <2>1, <2>2, <2>3, <2>4, <2>5 DEF Heeds
<1>4. CASE ~CommandRead(half)
  <2>1. half.ends => parsed = slot
    BY <1>4 DEF CommandRead, ParseCommand
  <2>2. \E begun \in Lines \cup {NoCommand} :
          ProcessMessage(slot, half) \in {slot, [slot EXCEPT !.begun = begun]}
    <3>1. CASE half.ends
      <4>1. NoCommand \in Lines \cup {NoCommand}
        OBVIOUS
      <4>2. QED
        BY <2>1, <3>1, <4>1 DEF ProcessMessage
    <3>2. CASE ~half.ends
      BY <1>1, <3>2 DEF ProcessMessage
    <3>3. QED
      BY <3>1, <3>2
  <2>3. /\ ProcessMessage(slot, half) \in TcpSlotStates
        /\ ProcessMessage(slot, half).peer = slot.peer
        /\ ProcessMessage(slot, half).mode = slot.mode
        /\ ProcessMessage(slot, half).filter = slot.filter
    <3>1. PICK begun \in Lines \cup {NoCommand} :
            ProcessMessage(slot, half) \in {slot, [slot EXCEPT !.begun = begun]}
      BY <2>2
    <3>2. /\ [slot EXCEPT !.begun = begun] \in TcpSlotStates
          /\ [slot EXCEPT !.begun = begun].peer = slot.peer
          /\ [slot EXCEPT !.begun = begun].mode = slot.mode
          /\ [slot EXCEPT !.begun = begun].filter = slot.filter
      BY <1>2, <3>1
    <3>3. CASE ProcessMessage(slot, half) = slot
      BY <3>3
    <3>4. CASE ProcessMessage(slot, half) = [slot EXCEPT !.begun = begun]
      BY <3>2, <3>4
    <3>5. QED
      BY <3>1, <3>3, <3>4
  <2>4. QED
    BY <1>4, <2>3 DEF Heeds
<1>5. QED
  BY <1>3, <1>4

LEMMA HandleKeeps ==
  ASSUME TcpServerInv, NEW n \in 1 .. ServerSlots, Handle(n)
  PROVE  TcpServerInv'
<1> DEFINE slot    == Checked(server[n])
           waiting == {client \in TcpPeers : socket[client].is = "waiting"}
           half    == socket[slot.peer].unread
<1>1. /\ server \in [1 .. ServerSlots -> TcpSlotStates] /\ socket \in [TcpPeers -> SocketStates]
      /\ promised \in [TcpPeers -> PromisedStates]
      /\ \A client \in TcpPeers : KeptTo(promised[client])
      /\ \A i \in 1 .. ServerSlots : SlotHeeds(server[i])
      /\ OneSlotEach
      /\ \A client \in TcpPeers :
           socket[client].is \in {"new", "waiting"} => promised[client].asked = NoCommand
  BY DEF TcpServerInv, TcpTypeOK, FilterHeeded
<1>2. /\ slot \in TcpSlotStates
      /\ slot.mode # "disconnected" =>
           /\ slot = server[n] /\ server[n].mode # "disconnected"
           /\ server[n].peer \in TcpPeers /\ socket[server[n].peer].is = "open"
           /\ Heeds(server[n], promised[server[n].peer].asked)
  BY CheckedSlot
<1>3. CASE slot.mode = "disconnected" /\ server' = [server EXCEPT ![n] = slot]
           /\ UNCHANGED <<socket, promised>>
  <2>1. server' \in [1 .. ServerSlots -> TcpSlotStates]
    BY <1>1, <1>2, <1>3
  <2>2. \A j \in 1 .. ServerSlots : server'[j] \in {server[j], Checked(server[j])}
    BY <1>1, <1>3
  <2>3. QED
    BY <1>1, <1>3, <2>1, <2>2, SlotsCheckedKeep
<1>4. ASSUME NEW client \in waiting, server' = [server EXCEPT ![n] = AcceptPeer(slot, client)],
             socket' = [socket EXCEPT ![client].is = "open"], UNCHANGED promised
      PROVE  TcpServerInv'
  <2> DEFINE new == AcceptPeer(slot, client)
  <2>1. client \in TcpPeers /\ socket[client].is = "waiting" /\ promised[client].asked = NoCommand
    BY <1>1
  <2>2. new \in TcpSlotStates /\ new.mode = "nmea0183" /\ new.peer = client
    BY <1>2, <2>1 DEF AcceptPeer, TcpSlotStates
  <2>3. /\ server' \in [1 .. ServerSlots -> TcpSlotStates] /\ server'[n] = new
        /\ \A j \in 1 .. ServerSlots : j # n => server'[j] = server[j]
    BY <1>1, <1>4, <2>2
  <2> HIDE DEF new
  <2>4. /\ socket' \in [TcpPeers -> SocketStates] /\ socket'[client].is = "open"
        /\ \A other \in TcpPeers : other # client => socket'[other] = socket[other]
    <3>1. [socket[client] EXCEPT !.is = "open"] \in SocketStates
      BY <1>1, <2>1 DEF SocketStates
    <3>2. QED
      BY <1>1, <1>4, <2>1, <3>1 DEF SocketStates
  <2>5. Heeds(new, NoCommand)
    BY <2>2, LinesSay DEF Heeds
  <2>6. \A j \in 1 .. ServerSlots : server[j].mode # "disconnected" => server[j].peer # client
    BY <1>1, <2>1 DEF SlotHeeds
  <2>7. ASSUME NEW j \in 1 .. ServerSlots PROVE SlotHeeds(server[j])'
    <3>1. CASE j = n
      BY <1>4, <2>1, <2>2, <2>3, <2>4, <2>5, <3>1 DEF SlotHeeds
    <3>2. CASE j # n
      BY <1>1, <1>4, <2>3, <2>4, <2>6, <3>2 DEF SlotHeeds
    <3>3. QED
      BY <3>1, <3>2
  <2>8. OneSlotEach'
    BY <1>1, <2>2, <2>3, <2>6 DEF OneSlotEach
  <2>9. TcpTypeOK'
    BY <1>1, <1>4, <2>3, <2>4 DEF TcpTypeOK
  <2>10. \A other \in TcpPeers :
           socket'[other].is \in {"new", "waiting"} => promised'[other].asked = NoCommand
    BY <1>1, <1>4, <2>4
  <2>11. FilterHeeded'
    BY <1>1, <1>4 DEF FilterHeeded
  <2>12. QED
    BY <2>7, <2>8, <2>9, <2>10, <2>11 DEF TcpServerInv
<1>5. CASE /\ slot.mode # "disconnected"
           /\ server' = [server EXCEPT ![n] = ProcessMessage(slot, half)]
           /\ socket' = [socket EXCEPT ![slot.peer].unread = NoHalf]
           /\ promised' = IF CommandRead(half)
                          THEN [promised EXCEPT ![slot.peer] = [asked |-> half.line, sent |-> Nothing]]
                          ELSE promised
  <2> DEFINE client == server[n].peer
             new    == ProcessMessage(server[n], half)
  <2>1. /\ slot = server[n] /\ server[n] \in TcpSlotStates /\ client \in TcpPeers
        /\ socket[client].is = "open" /\ Heeds(server[n], promised[client].asked)
        /\ server[n].mode # "disconnected" /\ half \in HalfStates
    BY <1>1, <1>2, <1>5 DEF SocketStates
  <2>2. /\ server' = [server EXCEPT ![n] = new]
        /\ socket' = [socket EXCEPT ![client].unread = NoHalf]
        /\ promised' = IF CommandRead(half)
                       THEN [promised EXCEPT ![client] = [asked |-> half.line, sent |-> Nothing]]
                       ELSE promised
    BY <1>5, <2>1
  <2>3. /\ new \in TcpSlotStates /\ new.peer = client /\ new.mode # "disconnected"
        /\ CommandRead(half) => half.line \in CommandLines /\ Heeds(new, half.line)
        /\ ~CommandRead(half) => Heeds(new, promised[client].asked)
    BY <2>1, MessageHeeded
  <2> HIDE DEF new, half, slot, waiting
  <2>4. /\ server' \in [1 .. ServerSlots -> TcpSlotStates] /\ server'[n] = new
        /\ \A j \in 1 .. ServerSlots : j # n => server'[j] = server[j]
    BY <1>1, <2>2, <2>3
  <2>5. \A j \in 1 .. ServerSlots : j # n /\ server[j].mode # "disconnected" =>
          server[j].peer # client
    BY <1>1, <2>1 DEF OneSlotEach
  <2>6. /\ socket' \in [TcpPeers -> SocketStates]
        /\ \A other \in TcpPeers : socket'[other].is = socket[other].is
    <3>1. NoHalf \in HalfStates
      BY DEF NoHalf, HalfStates
    <3>2. ASSUME NEW other \in TcpPeers
          PROVE  socket'[other] \in SocketStates /\ socket'[other].is = socket[other].is
      BY <1>1, <2>1, <2>2, <3>1 DEF SocketStates
    <3>3. QED
      BY <1>1, <2>2, <3>2
  <2>7. /\ promised' \in [TcpPeers -> PromisedStates]
        /\ \A other \in TcpPeers : other # client => promised'[other] = promised[other]
        /\ CommandRead(half) =>
             promised'[client] = [asked |-> half.line, sent |-> Nothing]
        /\ ~CommandRead(half) => promised' = promised
    <3>1. CommandRead(half) => [asked |-> half.line, sent |-> Nothing] \in PromisedStates
      BY <2>3 DEF PromisedStates
    <3>2. QED
      BY <1>1, <2>1, <2>2, <3>1
  <2>8. Heeds(new, promised'[client].asked)
    BY <2>3, <2>7
  <2>9. ASSUME NEW j \in 1 .. ServerSlots PROVE SlotHeeds(server[j])'
    <3>1. CASE j = n
      BY <2>1, <2>3, <2>4, <2>6, <2>8, <3>1 DEF SlotHeeds
    <3>2. CASE j # n
      BY <1>1, <2>4, <2>5, <2>6, <2>7, <3>2 DEF SlotHeeds
    <3>3. QED
      BY <3>1, <3>2
  <2>10. OneSlotEach'
    BY <1>1, <2>3, <2>4, <2>5 DEF OneSlotEach
  <2>11. TcpTypeOK'
    BY <2>4, <2>6, <2>7 DEF TcpTypeOK
  <2>12. \A other \in TcpPeers :
           socket'[other].is \in {"new", "waiting"} => promised'[other].asked = NoCommand
    BY <1>1, <2>1, <2>6, <2>7
  <2>13. ASSUME NEW other \in TcpPeers PROVE KeptTo(promised'[other])
    <3>1. CASE other = client /\ CommandRead(half)
      <4>1. promised'[other].sent = Nothing
        BY <2>7, <3>1
      <4>2. QED
        BY <4>1 DEF KeptTo
    <3>2. CASE ~(other = client /\ CommandRead(half))
      BY <1>1, <2>7, <3>2
    <3>3. QED
      BY <3>1, <3>2
  <2>14. FilterHeeded'
    BY <2>13 DEF FilterHeeded
  <2>15. QED
    BY <2>9, <2>10, <2>11, <2>12, <2>14 DEF TcpServerInv
<1>6. QED
  BY <1>3, <1>4, <1>5 DEF Handle

LEMMA SendKeeps ==
  ASSUME TcpServerInv, NEW what \in Pgns \cup {AnySentence}, NEW to \in SUBSET TcpPeers,
         server' = [i \in DOMAIN server |-> Checked(server[i])], UNCHANGED socket,
         promised' = [client \in TcpPeers |->
                        [promised[client] EXCEPT !.sent = IF client \in to THEN what ELSE @]],
         \A client \in to : KeptTo([promised[client] EXCEPT !.sent = what])
  PROVE  TcpServerInv'
<1>1. /\ server \in [1 .. ServerSlots -> TcpSlotStates]
      /\ promised \in [TcpPeers -> PromisedStates]
      /\ \A client \in TcpPeers : KeptTo(promised[client])
  BY DEF TcpServerInv, TcpTypeOK, FilterHeeded
<1>2. ASSUME NEW client \in TcpPeers
      PROVE  /\ promised'[client] \in PromisedStates
             /\ promised'[client].asked = promised[client].asked
             /\ KeptTo(promised'[client])
  <2>1. CASE client \in to
    <3>1. promised'[client] = [promised[client] EXCEPT !.sent = what]
      BY <2>1
    <3>2. QED
      BY <1>1, <2>1, <3>1 DEF PromisedStates
  <2>2. CASE client \notin to
    <3>1. promised'[client] = promised[client]
      BY <1>1, <2>2 DEF PromisedStates
    <3>2. QED
      BY <1>1, <3>1
  <2>3. QED
    BY <2>1, <2>2
<1>3. promised' \in [TcpPeers -> PromisedStates]
  BY <1>2
<1>4. \A j \in 1 .. ServerSlots : server'[j] = Checked(server[j])
  BY <1>1
<1>5. server' \in [1 .. ServerSlots -> TcpSlotStates]
  BY <1>1, <1>4, CheckedSlot
<1>6. QED
  BY <1>2, <1>3, <1>4, <1>5, SlotsCheckedKeep

LEMMA SentencesKeep ==
  ASSUME TcpServerInv, SendBufToClients
  PROVE  TcpServerInv'
<1> DEFINE slots == [i \in DOMAIN server |-> Checked(server[i])]
           to    == {slots[i].peer : i \in {j \in DOMAIN slots : slots[j].mode = "nmea0183"}}
<1>1. DOMAIN server = 1 .. ServerSlots /\ promised \in [TcpPeers -> PromisedStates]
  BY DEF TcpServerInv, TcpTypeOK
<1>2. \A client \in to : client \in TcpPeers /\ promised[client].asked = NoCommand
  <2>1. ASSUME NEW i \in 1 .. ServerSlots, slots[i].mode = "nmea0183"
        PROVE  slots[i].peer \in TcpPeers /\ promised[slots[i].peer].asked = NoCommand
    <3>1. slots[i] = Checked(server[i])
      BY <1>1
    <3>2. QED
      BY <2>1, <3>1, CheckedSlot DEF Heeds
  <2>2. \A client \in to : \E i \in 1 .. ServerSlots :
          client = slots[i].peer /\ slots[i].mode = "nmea0183"
    BY <1>1
  <2> HIDE DEF slots
  <2>3. QED
    BY <2>1, <2>2
<1>3. /\ server' = slots /\ UNCHANGED socket
      /\ promised' = [client \in TcpPeers |->
           [promised[client] EXCEPT !.sent = IF client \in to THEN AnySentence ELSE @]]
  BY DEF SendBufToClients
<1> HIDE DEF to
<1>4. ASSUME NEW client \in to PROVE KeptTo([promised[client] EXCEPT !.sent = AnySentence])
  <2> DEFINE kept == [promised[client] EXCEPT !.sent = AnySentence]
  <2>1. kept.asked = NoCommand /\ kept.sent = AnySentence
    BY <1>1, <1>2 DEF PromisedStates
  <2> HIDE DEF kept
  <2>2. KeptTo(kept)
    BY <2>1, LinesSay DEF KeptTo
  <2>3. QED
    BY <2>2 DEF kept
<1>5. QED
  BY <1>2, <1>3, <1>4, SendKeeps

\* What a filter lets through has been asked for.
LEMMA AcceptedIsAsked ==
  ASSUME TcpServerInv, NEW i \in 1 .. ServerSlots, NEW pgn \in Pgns,
         Accepts(Checked(server[i]), pgn)
  PROVE  LET kept == promised[Checked(server[i]).peer]
         IN  /\ Checked(server[i]).peer \in TcpPeers
             /\ kept.asked \in CommandLines
             /\ kept.asked.says = "filter" =>
                  \E k \in DOMAIN kept.asked.pgns : kept.asked.pgns[k] = pgn
<1> DEFINE slot == Checked(server[i])
           kept == promised[slot.peer]
<1>1. slot.mode = "seasmart" /\ \E k \in 1 .. FilterSize : slot.filter[k] = pgn
  BY DEF Accepts
<1>2. slot.peer \in TcpPeers /\ Heeds(slot, kept.asked)
  BY <1>1, CheckedSlot
<1>3. pgn # -1
  BY TcpServerAssumption
<1>4. kept.asked \in CommandLines
  BY <1>1, <1>2 DEF TcpServerInv, TcpTypeOK, PromisedStates, Heeds
<1> HIDE DEF slot
<1>5. kept.asked.says = "filter" => \E k \in DOMAIN kept.asked.pgns : kept.asked.pgns[k] = pgn
  BY <1>1, <1>2, <1>3 DEF Heeds
<1>6. QED
  BY <1>2, <1>4, <1>5 DEF slot

LEMMA PgnsKeep ==
  ASSUME TcpServerInv, NEW pgn \in Pgns, SendN2k(pgn)
  PROVE  TcpServerInv'
<1> DEFINE slots == [i \in DOMAIN server |-> Checked(server[i])]
           to    == {slots[i].peer : i \in {j \in DOMAIN slots : Accepts(slots[j], pgn)}}
<1>1. DOMAIN server = 1 .. ServerSlots /\ promised \in [TcpPeers -> PromisedStates]
  BY DEF TcpServerInv, TcpTypeOK
<1>2. \A client \in to :
        /\ client \in TcpPeers /\ promised[client].asked \in CommandLines
        /\ promised[client].asked.says = "filter" =>
             \E k \in DOMAIN promised[client].asked.pgns : promised[client].asked.pgns[k] = pgn
  <2>1. ASSUME NEW i \in 1 .. ServerSlots, Accepts(slots[i], pgn)
        PROVE  LET client == slots[i].peer
               IN  /\ client \in TcpPeers /\ promised[client].asked \in CommandLines
                   /\ promised[client].asked.says = "filter" =>
                        \E k \in DOMAIN promised[client].asked.pgns :
                          promised[client].asked.pgns[k] = pgn
    <3>1. slots[i] = Checked(server[i])
      BY <1>1
    <3>2. QED
      BY <2>1, <3>1, AcceptedIsAsked
  <2>2. \A client \in to : \E i \in 1 .. ServerSlots :
          client = slots[i].peer /\ Accepts(slots[i], pgn)
    BY <1>1
  <2> HIDE DEF slots, to
  <2>3. QED
    BY <2>1, <2>2
<1>3. /\ server' = slots /\ UNCHANGED socket
      /\ promised' = [client \in TcpPeers |->
           [promised[client] EXCEPT !.sent = IF client \in to THEN pgn ELSE @]]
  BY DEF SendN2k
<1>4. pgn # AnySentence /\ pgn # Nothing
  BY TcpServerAssumption DEF AnySentence, Nothing
<1> HIDE DEF to
<1>5. ASSUME NEW client \in to PROVE KeptTo([promised[client] EXCEPT !.sent = pgn])
  <2> DEFINE kept == [promised[client] EXCEPT !.sent = pgn]
  <2>1. kept.asked = promised[client].asked /\ kept.sent = pgn /\ kept \in PromisedStates
    BY <1>1, <1>2 DEF PromisedStates
  <2>2. kept.asked # NoCommand
    BY <1>2, <2>1, LinesSay DEF CommandLines
  <2> HIDE DEF kept
  <2>3. kept.asked.says = "filter" => \E k \in DOMAIN kept.asked.pgns : kept.asked.pgns[k] = pgn
    BY <1>2, <2>1
  <2>4. KeptTo(kept)
    BY <1>4, <2>1, <2>2, <2>3, KeptToMeans
  <2>5. QED
    BY <2>4 DEF kept
<1>6. QED
  BY <1>2, <1>3, <1>5, SendKeeps

\* What a client does with its socket leaves its slot and what it was promised alone.
LEMMA PeerKeeps ==
  ASSUME TcpServerInv, NEW client \in TcpPeers, Peer(client), UNCHANGED <<server, promised>>
  PROVE  TcpServerInv'
<1>1. /\ socket \in [TcpPeers -> SocketStates]
      /\ \A i \in 1 .. ServerSlots : SlotHeeds(server[i])
  BY DEF TcpServerInv, TcpTypeOK
<1>2. /\ socket' \in [TcpPeers -> SocketStates]
      /\ \A other \in TcpPeers :
           \/ socket'[other].is = socket[other].is
           \/ socket[other].is = "new" /\ socket'[other].is = "waiting"
           \/ socket[other].is \in {"waiting", "open"} /\ socket'[other].is = "closed"
  <2>1. NoHalf \in HalfStates
    BY DEF NoHalf, HalfStates
  <2>2. CASE socket[client].is = "new" /\ socket' = [socket EXCEPT ![client].is = "waiting"]
    <3>1. [socket[client] EXCEPT !.is = "waiting"] \in SocketStates
      BY <1>1 DEF SocketStates
    <3>2. QED
      BY <1>1, <2>2, <3>1 DEF SocketStates
  <2>3. ASSUME NEW half \in HalfStates, socket' = [socket EXCEPT ![client].unread = half]
        PROVE  socket' \in [TcpPeers -> SocketStates] /\ \A other \in TcpPeers :
                                                           socket'[other].is = socket[other].is
    <3>1. /\ [socket[client] EXCEPT !.unread = half] \in SocketStates
          /\ [socket[client] EXCEPT !.unread = half].is = socket[client].is
      BY <1>1 DEF SocketStates
    <3>2. socket' = [socket EXCEPT ![client] = [socket[client] EXCEPT !.unread = half]]
      BY <2>3
    <3>3. QED
      BY <1>1, <3>1, <3>2
  <2>4. CASE /\ socket[client].is \in {"waiting", "open"}
             /\ socket' = [socket EXCEPT ![client] = [is |-> "closed", unread |-> NoHalf]]
    BY <1>1, <2>1, <2>4 DEF SocketStates
  <2>5. ASSUME NEW line \in Lines, NEW ends \in BOOLEAN,
               socket' = [socket EXCEPT ![client].unread = [line |-> line, ends |-> ends]]
        PROVE  socket' \in [TcpPeers -> SocketStates] /\ \A other \in TcpPeers :
                                                           socket'[other].is = socket[other].is
    <3>1. [line |-> line, ends |-> ends] \in HalfStates
      BY DEF HalfStates
    <3>2. QED
      BY <2>3, <2>5, <3>1
  <2>6. \/ socket[client].is = "new" /\ socket' = [socket EXCEPT ![client].is = "waiting"]
        \/ \E line \in Lines, ends \in BOOLEAN :
             socket' = [socket EXCEPT ![client].unread = [line |-> line, ends |-> ends]]
        \/ /\ socket[client].is \in {"waiting", "open"}
           /\ socket' = [socket EXCEPT ![client] = [is |-> "closed", unread |-> NoHalf]]
    BY DEF Peer
  <2>7. QED
    BY <2>2, <2>4, <2>5, <2>6
<1>3. TcpTypeOK'
  BY <1>2 DEF TcpServerInv, TcpTypeOK
<1>4. ASSUME NEW j \in 1 .. ServerSlots PROVE SlotHeeds(server[j])'
  BY <1>1, <1>2 DEF SlotHeeds
<1>5. OneSlotEach'
  BY DEF TcpServerInv, OneSlotEach
<1>6. \A other \in TcpPeers :
        socket'[other].is \in {"new", "waiting"} => promised'[other].asked = NoCommand
  BY <1>2 DEF TcpServerInv
<1>7. FilterHeeded'
  BY DEF TcpServerInv, FilterHeeded
<1>8. QED
  BY <1>3, <1>4, <1>5, <1>6, <1>7 DEF TcpServerInv

LEMMA TcpServerInvariant == TcpServerInv /\ [TcpServerStep]_tcpServerVars => TcpServerInv'
<1>1. SUFFICES ASSUME TcpServerInv, [TcpServerStep]_tcpServerVars PROVE TcpServerInv'
  OBVIOUS
<1>2. CASE UNCHANGED tcpServerVars
  BY <1>1, <1>2 DEF tcpServerVars, TcpServerInv, TcpTypeOK, SlotHeeds, OneSlotEach, FilterHeeded
<1>3. CASE \E i \in 1 .. ServerSlots : Handle(i)
  BY <1>1, <1>3, HandleKeeps
<1>4. CASE SendBufToClients
  BY <1>1, <1>4, SentencesKeep
<1>5. CASE \E pgn \in Pgns : SendN2k(pgn)
  BY <1>1, <1>5, PgnsKeep
<1>6. CASE \E client \in TcpPeers : Peer(client) /\ UNCHANGED <<server, promised>>
  BY <1>1, <1>6, PeerKeeps
<1>7. QED
  BY <1>1, <1>2, <1>3, <1>4, <1>5, <1>6 DEF TcpServerStep

LEMMA TcpServerInitially == TcpServerInit => TcpServerInv
<1>1. SUFFICES ASSUME TcpServerInit PROVE TcpServerInv
  OBVIOUS
<1>2. TcpTypeOK
  <2>1. FreeServerSlot \in TcpSlotStates
    <3>1. [i \in 1 .. FilterSize |-> 0] \in [1 .. FilterSize -> Pgns \cup {0, -1}]
      OBVIOUS
    <3>2. QED
      BY <3>1 DEF FreeServerSlot, TcpSlotStates
  <2>2. [is |-> "new", unread |-> NoHalf] \in SocketStates
    BY DEF NoHalf, HalfStates, SocketStates
  <2>3. [asked |-> NoCommand, sent |-> Nothing] \in PromisedStates
    BY DEF PromisedStates
  <2>4. QED
    BY <1>1, <2>1, <2>2, <2>3 DEF TcpServerInit, TcpTypeOK
<1>3. \A i \in 1 .. ServerSlots : server[i].mode = "disconnected"
  BY <1>1 DEF TcpServerInit, FreeServerSlot
<1>4. \A client \in TcpPeers : promised[client] = [asked |-> NoCommand, sent |-> Nothing]
  BY <1>1 DEF TcpServerInit
<1>5. FilterHeeded
  <2>1. KeptTo([asked |-> NoCommand, sent |-> Nothing])
    BY DEF KeptTo
  <2>2. QED
    BY <1>4, <2>1 DEF FilterHeeded
<1>6. (\A i \in 1 .. ServerSlots : SlotHeeds(server[i])) /\ OneSlotEach
  BY <1>3 DEF SlotHeeds, OneSlotEach
<1>7. QED
  BY <1>2, <1>4, <1>5, <1>6 DEF TcpServerInv
=============================================================================
