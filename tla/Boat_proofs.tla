---------------------------- MODULE Boat_proofs ----------------------------
(***************************************************************************)
(* What BLE shows of the boat, and what it tells the autopilot, for every  *)
(* scenario of messages, commands and clients and for every set of         *)
(* time-outs: no field is shown beyond its time-out, no change is missed,  *)
(* and the autopilot is told what the clients have asked for.              *)
(*                                                                         *)
(* Two invariants carry it.  SteerInv is about the commands alone: the     *)
(* arithmetic of the angles is Z3's, lemma by lemma.  BoatInv relates the  *)
(* handler's readings and stamps to what was heard and to the buffers;     *)
(* each handler has a lemma that it heeds its message (Heeded), and the    *)
(* loop is proved from those.                                              *)
(***************************************************************************)
EXTENDS Boat, TLAPS

----------------------------------------------------------------------------
(* Steering. *)

PilotFields == {"mode", "heading", "targetHeading", "targetWind"}

SteerTypes ==
  /\ autopilot = [field \in PilotFields |-> autopilot[field]]
  /\ pilot = [field \in PilotFields |-> pilot[field]]
  /\ \A field \in PilotFields : pilot[field] \in Int /\ 0 <= pilot[field]
  /\ autopilot["heading"] \in Int /\ 0 <= autopilot["heading"]
  /\ autopilot["targetWind"] \in Int
  /\ -18000 <= autopilot["targetWind"] /\ autopilot["targetWind"] <= 18000
  /\ pilot["targetWind"] <= 62831
  /\ pilot["targetHeading"] <= ToRadians(Circle)
  /\ commands \in Nat /\ wanted \in Int /\ patient \in BOOLEAN

\* The autopilot's wind angle is the one asked for, but for 0.02 degrees a command and
\* whole turns.
Kept(raw, asked, n) ==
  \E off, turns \in Int :
    /\ -(2 * n) <= off /\ off <= 2 * n
    /\ ToDegrees(raw) = asked + off + Circle * turns

SteerInv == SteerTypes /\ (patient => Kept(pilot["targetWind"], wanted, commands))

\* The constants of the conversions, and powers of two.
LEMMA Powers == 2^16 = 65536 /\ 2^15 = 32768 /\ Circle = 36000 /\ Circle \div 2 = 18000
BY SMT DEF Circle

\* What is left of a multiplication and a division by constants.
LEMMA Cuts ==
  ASSUME NEW n \in Int
  PROVE  /\ n \div 1017 \in Int /\ 1017 * (n \div 1017) <= n /\ n < 1017 * (n \div 1017) + 1017
         /\ n \div 1775 \in Int /\ 1775 * (n \div 1775) <= n /\ n < 1775 * (n \div 1775) + 1775
BY SMT

\* An angle survives the way to the autopilot and back but for 0.01 degrees.
LEMMA RoundTrip ==
  ASSUME NEW d \in Int, 0 <= d, d <= 36000
  PROVE  /\ ToRadians(d) \in Int /\ 0 <= ToRadians(d) /\ ToRadians(d) <= 62831
         /\ ToDegrees(ToRadians(d)) \in Int
         /\ d - 1 <= ToDegrees(ToRadians(d)) /\ ToDegrees(ToRadians(d)) <= d
<1>1. PICK r \in Int : r = (d * 1775) \div 1017 /\ 1017 * r <= d * 1775 /\ d * 1775 < 1017 * r + 1017
  <2>1. d * 1775 \in Int BY SMT
  <2> QED BY <2>1, Cuts
<1>2. 0 <= r /\ r <= 62831
  BY <1>1, SMT
<1>3. r % 65536 = r
  BY <1>2, SMT
<1>4. ToRadians(d) = r
  BY <1>1, <1>3, Powers DEF ToRadians
<1>5. PICK q \in Int : q = (r * 1017) \div 1775 /\ 1775 * q <= r * 1017 /\ r * 1017 < 1775 * q + 1775
  <2>1. r * 1017 \in Int BY SMT
  <2> QED BY <2>1, Cuts
<1>6. d - 1 <= q /\ q <= d
  <2>0. 1017 * r <= d * 1775 /\ d * 1775 < 1017 * r + 1017 BY <1>1
  <2>1. 1775 * q <= r * 1017 /\ r * 1017 < 1775 * q + 1775 BY <1>5
  <2> QED BY <2>0, <2>1, SMT
<1>7. ToDegrees(r) = q
  BY <1>5 DEF ToDegrees
<1> QED BY <1>2, <1>4, <1>6, <1>7

\* The whole circle, as the autopilot is told of it.
LEMMA ToldHeading == ToRadians(Circle) = 62831
<1>1. (36000 * 1775) \div 1017 = 62831 /\ 62831 % 65536 = 62831 BY SMT
<1> QED BY <1>1, Powers DEF ToRadians

\* What BLE shows of the datum is the datum, but for a turn and 0.01 degrees.
LEMMA WindShown ==
  ASSUME NEW raw \in Int, 0 <= raw, raw <= 62831
  PROVE  /\ ShownWind(raw) \in Int /\ -18000 <= ShownWind(raw) /\ ShownWind(raw) <= 18000
         /\ ToDegrees(raw) \in Int
         /\ \E off, turn \in Int : 0 <= off /\ off <= 1
                                   /\ ShownWind(raw) = ToDegrees(raw) + off - Circle * turn
<1>2. PICK p \in Int : p = (raw * 1017) \div 1775 /\ 1775 * p <= raw * 1017 /\ raw * 1017 < 1775 * p + 1775
  <2>1. raw * 1017 \in Int BY SMT
  <2> QED BY <2>1, Cuts
<1>3. ToDegrees(raw) = p
  BY <1>2 DEF ToDegrees
<1>4. CASE raw * 1017 > 18000 * 1775
  <2>1. PICK q \in Int : /\ q = (36000 * 1775 - raw * 1017) \div 1775
                         /\ 1775 * q <= 36000 * 1775 - raw * 1017
                         /\ 36000 * 1775 - raw * 1017 < 1775 * q + 1775
    <3>1. 36000 * 1775 - raw * 1017 \in Int BY SMT
    <3> QED BY <3>1, Cuts
  <2>3. ShownWind(raw) = -q
    BY <1>4, <2>1, Powers DEF ShownWind
  <2>a. 1775 * q <= 36000 * 1775 - raw * 1017 /\ 36000 * 1775 - raw * 1017 < 1775 * q + 1775
    BY <2>1
  <2>b. 1775 * p <= raw * 1017 /\ raw * 1017 < 1775 * p + 1775
    BY <1>2
  <2>4. -18000 <= -q /\ -q <= 18000
    BY <2>a, <1>4, SMT
  <2>5. -q = p + 0 - 36000 * 1 \/ -q = p + 1 - 36000 * 1
    BY <2>a, <2>b, SMT
  <2> QED BY <1>3, <2>3, <2>4, <2>5, Powers
<1>5. CASE ~(raw * 1017 > 18000 * 1775)
  <2>3. ShownWind(raw) = p
    BY <1>3, <1>5, Powers DEF ShownWind
  <2>b. 1775 * p <= raw * 1017 /\ raw * 1017 < 1775 * p + 1775
    BY <1>2
  <2>4. -18000 <= p /\ p <= 18000 /\ p = p + 0 - 36000 * 0
    BY <2>b, <1>5, SMT
  <2> QED BY <1>3, <2>3, <2>4, Powers
<1> QED BY <1>4, <1>5

\* A command that sets the wind angle, by itself or from the one that is shown.
LEMMA Sent ==
  ASSUME NEW d \in Int, 0 <= d, d <= 36000, NEW n \in Nat,
         NEW told \in Int, NEW asked \in Int, NEW off \in Int, NEW turns \in Int,
         -(2 * n) - 1 <= off, off <= 2 * n + 1,
         d = asked + off + Circle * turns, told = ToRadians(d)
  PROVE  Kept(told, asked, n + 1)
<1>1. PICK q \in Int : q = ToDegrees(told) /\ d - 1 <= q /\ q <= d
  BY RoundTrip
<1>2. q = asked + (off + (q - d)) + Circle * turns
  BY <1>1, Powers, SMT
<1>3. /\ off + (q - d) \in Int
      /\ -(2 * (n + 1)) <= off + (q - d) /\ off + (q - d) <= 2 * (n + 1)
  BY <1>1, SMT
<1> QED
  <2>1. ToDegrees(told) = asked + (off + (q - d)) + Circle * turns
    BY <1>1, <1>2
  <2>2. n + 1 \in Nat
    OBVIOUS
  <2> QED BY <1>3, <2>1, <2>2 DEF Kept

\* A remainder, in whole turns from the number it is of.
LEMMA Turns ==
  ASSUME NEW n \in Int
  PROVE  /\ n % Circle \in Int /\ 0 <= n % Circle /\ n % Circle < Circle
         /\ \E k \in Int : n % Circle = n + Circle * k
<1>1. n % 36000 \in Int /\ 0 <= n % 36000 /\ n % 36000 < 36000
  BY SMT
<1>2. PICK q \in Int : n % 36000 = n - (36000 * q)
  <2>1. n \div 36000 \in Int /\ n % 36000 = n - (36000 * (n \div 36000))
    BY SMT
  <2> QED BY <2>1
<1>3. -q \in Int /\ n % 36000 = n + (36000 * (-q))
  BY <1>1, <1>2, SMT
<1> QED BY <1>1, <1>2, <1>3, Powers

\* The payloads of the commands.
LEMMA Payloads16 ==
  ASSUME NEW cmd, NEW raw, [cmd |-> cmd, raw |-> raw] \in Commands
  PROVE  /\ raw \in Int /\ -32768 <= raw /\ raw <= 36000
         /\ cmd \in {"mode", "setHeading"} => 0 <= raw
         /\ cmd \in {"setWind", "adjustWind", "adjustHeading"} => raw < 32768
         /\ cmd \in {"mode", "setHeading", "setWind", "adjustWind", "adjustHeading"}
<1>1. CASE [cmd |-> cmd, raw |-> raw] \in [cmd : {"mode"}, raw : Modes]
  BY <1>1 DEF Modes
<1>2. CASE [cmd |-> cmd, raw |-> raw] \in [cmd : {"setHeading"}, raw : 0 .. Circle]
  <2>1. cmd = "setHeading" /\ raw \in 0 .. Circle
    BY <1>2
  <2>2. raw \in Int /\ 0 <= raw /\ raw <= 36000
    BY <2>1, Powers
  <2> QED BY <2>1, <2>2
<1>3. CASE [cmd |-> cmd, raw |-> raw] \in
           [cmd : {"setWind", "adjustWind", "adjustHeading"}, raw : Int16]
  <2>1. cmd \in {"setWind", "adjustWind", "adjustHeading"} /\ raw \in Int16
    BY <1>3
  <2>2. raw \in Int /\ -32768 <= raw /\ raw <= 32767
    BY <2>1, Powers DEF Int16
  <2>3. raw < 32768 /\ raw <= 36000
    BY <2>2, SMT
  <2>4. cmd \notin {"mode", "setHeading"}
    BY <2>1
  <2> QED BY <2>1, <2>2, <2>3, <2>4
<1>4. \/ [cmd |-> cmd, raw |-> raw] \in [cmd : {"mode"}, raw : Modes]
      \/ [cmd |-> cmd, raw |-> raw] \in [cmd : {"setHeading"}, raw : 0 .. Circle]
      \/ [cmd |-> cmd, raw |-> raw] \in
           [cmd : {"setWind", "adjustWind", "adjustHeading"}, raw : Int16]
  BY Zenon DEF Commands
<1> QED BY <1>1, <1>2, <1>3, <1>4

\* Nobody grows patient but by setting the wind angle anew.
LEMMA Patience ==
  ASSUME NEW cmd, NEW raw, Command(cmd, raw), patient \in BOOLEAN
  PROVE  /\ patient' \in BOOLEAN
         /\ cmd # "setWind" =>
              (patient' => patient /\ (cmd = "adjustWind" =>
                                         autopilot["targetWind"] = ShownWind(pilot["targetWind"])))
<1> DEFINE A == cmd = "setWind"
           B == cmd = "adjustWind"
           C == autopilot["targetWind"] = ShownWind(pilot["targetWind"])
<1>1. patient' = (A \/ (patient /\ (B => C)))
  BY DEF Command
<1> HIDE DEF A, B, C
<1>2. patient' \in BOOLEAN /\ (~A => (patient' => patient /\ (B => C)))
  BY <1>1
<1> QED BY <1>2 DEF A, B, C

\* What a command leaves of the pilot's types.
LEMMA CommandKeeps ==
  ASSUME SteerInv, NEW cmd, NEW raw, [cmd |-> cmd, raw |-> raw] \in Commands, Command(cmd, raw)
  PROVE  SteerInv'
<1> USE DEF SteerInv, PilotFields
<1>t. SteerTypes
  OBVIOUS
<1>u. UNCHANGED autopilot /\ commands' = commands + 1
  BY DEF Command, shownVars
<1>p. patient' \in BOOLEAN
  BY <1>t, Patience DEF SteerTypes
<1>r. /\ cmd \in {"mode", "setHeading", "setWind", "adjustWind", "adjustHeading"}
      /\ raw \in Int
      /\ cmd = "mode" => 0 <= raw
      /\ cmd = "setHeading" => 0 <= raw /\ raw <= 36000
      /\ -32768 <= raw /\ raw <= 36000
      /\ cmd = "setWind" => raw < 36000
      /\ cmd = "setWind" \/ cmd = "adjustWind" \/ cmd = "adjustHeading" => raw < 32768
  BY Payloads16
<1>0. UNCHANGED pilot["targetWind"] /\ (patient' => patient) /\ wanted' = wanted
      => (patient' => Kept(pilot["targetWind"], wanted, commands)')
  <2> SUFFICES ASSUME UNCHANGED pilot["targetWind"], patient' => patient, wanted' = wanted, patient'
               PROVE  Kept(pilot'["targetWind"], wanted', commands')
    OBVIOUS
  <2>1. PICK off, turns \in Int : /\ -(2 * commands) <= off /\ off <= 2 * commands
                                  /\ ToDegrees(pilot["targetWind"]) = wanted + off + Circle * turns
    BY DEF Kept
  <2>2. -(2 * (commands + 1)) <= off /\ off <= 2 * (commands + 1)
    BY <2>1, <1>t, SMT DEF SteerTypes
  <2> QED BY <2>1, <2>2, <1>u DEF Kept
<1>1. CASE cmd = "mode"
  <2>0. pilot' = [pilot EXCEPT !.mode = raw] /\ wanted' = wanted
    BY <1>1 DEF Command
  <2>1. patient' => patient
    BY <1>1, <1>t, Patience DEF SteerTypes
  <2>2. SteerTypes'
    BY <2>0, <1>1, <1>r, <1>u, <1>p DEF SteerTypes
  <2>3. UNCHANGED pilot["targetWind"]
    BY <2>0, <1>t DEF SteerTypes
  <2> QED BY <1>0, <2>0, <2>1, <2>2, <2>3
<1>2. CASE cmd = "setHeading" \/ cmd = "adjustHeading"
  <2>1. PICK d \in Int : /\ 0 <= d /\ d <= 36000
                         /\ pilot' = [pilot EXCEPT !.targetHeading = ToRadians(d)]
    <3>1. CASE cmd = "setHeading"
      BY <3>1, <1>r DEF Command
    <3>2. CASE cmd = "adjustHeading"
      <4>1. AdjustHeading(raw) \in Int /\ 0 <= AdjustHeading(raw) /\ AdjustHeading(raw) <= 36000
        <5>1. autopilot["heading"] \in Int /\ raw \in Int
          BY <1>r DEF SteerTypes
        <5>2. autopilot["heading"] + raw + Circle \in Int
          BY <5>1, Powers
        <5> QED BY <5>2, Turns, Powers DEF AdjustHeading
      <4> QED BY <3>2, <4>1 DEF Command
    <3> QED BY <1>2, <3>1, <3>2
  <2>2. wanted' = wanted
    BY <1>2 DEF Command
  <2>5. patient' => patient
    BY <1>2, <1>t, Patience DEF SteerTypes
  <2>3. ToRadians(d) \in Int /\ 0 <= ToRadians(d) /\ ToRadians(d) <= ToRadians(Circle)
    BY <2>1, RoundTrip, ToldHeading
  <2>4. SteerTypes'
    BY <2>1, <2>2, <2>3, <1>u, <1>p DEF SteerTypes
  <2>6. UNCHANGED pilot["targetWind"]
    BY <2>1, <1>t DEF SteerTypes
  <2> QED BY <1>0, <2>2, <2>5, <2>4, <2>6
<1>3. CASE cmd = "setWind"
  <2>1. PICK d \in Int : /\ 0 <= d /\ d <= 36000 /\ d = SetWind(raw)
                         /\ pilot' = [pilot EXCEPT !.targetWind = ToRadians(d)]
    <3>1. SetWind(raw) \in Int /\ 0 <= SetWind(raw) /\ SetWind(raw) <= 36000
      BY <1>r, <1>3, Powers DEF SetWind
    <3> QED BY <3>1, <1>3 DEF Command
  <2>2. wanted' = raw /\ patient' = TRUE
    BY <1>3 DEF Command
  <2>3. ToRadians(d) \in Int /\ 0 <= ToRadians(d) /\ ToRadians(d) <= 62831
    BY <2>1, RoundTrip
  <2>4. SteerTypes'
    BY <2>1, <2>2, <2>3, <1>u, <1>r, <1>p DEF SteerTypes
  <2>5. PICK turns \in Int : d = raw + 0 + Circle * turns
    <3>1. d = raw + 0 + Circle * 0 \/ d = raw + 0 + Circle * 1
      BY <2>1, <1>r, Powers DEF SetWind
    <3> QED BY <3>1
  <2>6. Kept(ToRadians(d), raw, commands + 1)
    <3>1. commands \in Nat
      BY <1>t DEF SteerTypes
    <3>2. -(2 * commands) - 1 <= 0 /\ 0 <= 2 * commands + 1
      BY <3>1, SMT
    <3> QED BY <2>1, <2>5, <1>r, <2>3, <3>1, <3>2, Sent
  <2>7. pilot'["targetWind"] = ToRadians(d)
    BY <2>1 DEF SteerTypes
  <2> QED BY <2>2, <2>4, <2>6, <2>7, <1>u
<1>4. CASE cmd = "adjustWind"
  <2>1. PICK d \in Int : /\ 0 <= d /\ d <= 36000 /\ d = AdjustWind(raw)
                         /\ pilot' = [pilot EXCEPT !.targetWind = ToRadians(d)]
    <3>1. AdjustWind(raw) \in Int /\ 0 <= AdjustWind(raw) /\ AdjustWind(raw) <= 36000
      <4>1. autopilot["targetWind"] \in Int /\ raw \in Int
        BY <1>r DEF SteerTypes
      <4>2. autopilot["targetWind"] + raw \in Int
        BY <4>1
      <4> QED BY <4>2, Turns, Powers DEF AdjustWind
    <3> QED BY <3>1, <1>4 DEF Command
  <2>2. wanted' = wanted + raw
    BY <1>4 DEF Command
  <2>5. patient' => patient /\ autopilot["targetWind"] = ShownWind(pilot["targetWind"])
    BY <1>4, <1>t, Patience DEF SteerTypes
  <2>3. ToRadians(d) \in Int /\ 0 <= ToRadians(d) /\ ToRadians(d) <= 62831
    BY <2>1, RoundTrip
  <2>4. SteerTypes'
    BY <2>1, <2>2, <2>3, <1>u, <1>r, <1>p DEF SteerTypes
  <2>7. pilot'["targetWind"] = ToRadians(d)
    BY <2>1 DEF SteerTypes
  <2>8. ASSUME patient'  PROVE  Kept(ToRadians(d), wanted + raw, commands + 1)
    <3>1. patient /\ autopilot["targetWind"] = ShownWind(pilot["targetWind"])
      BY <2>5, <2>8
    <3>2. PICK off, turns \in Int : /\ -(2 * commands) <= off /\ off <= 2 * commands
                                    /\ ToDegrees(pilot["targetWind"]) = wanted + off + Circle * turns
      BY <3>1 DEF Kept
    <3>3. PICK cut, turn \in Int : /\ 0 <= cut /\ cut <= 1
                                   /\ ShownWind(pilot["targetWind"])
                                        = ToDegrees(pilot["targetWind"]) + cut - Circle * turn
      BY <1>t, WindShown DEF SteerTypes
    <3>4. PICK shown \in Int : shown = autopilot["targetWind"] /\ d = (shown + raw) % Circle
      BY <2>1, <1>t DEF AdjustWind, SteerTypes
    <3>5. shown + raw \in Int
      BY <3>4, <1>r
    <3>6. PICK k \in Int : d = (shown + raw) + 36000 * k
      BY <3>5, <3>4, Turns, Powers
    <3>7. PICK base \in Int : base = ToDegrees(pilot["targetWind"])
      BY <1>t, WindShown DEF SteerTypes
    <3>8. shown = base + cut - 36000 * turn
      BY <3>1, <3>3, <3>4, <3>7, Powers
    <3>9. base = wanted + off + 36000 * turns
      BY <3>2, <3>7, Powers
    <3>a. wanted \in Int /\ commands \in Nat /\ wanted + raw \in Int /\ raw \in Int
      BY <1>t, <1>r DEF SteerTypes
    <3>b. d = (wanted + raw) + (off + cut) + 36000 * (turns - turn + k)
      BY <3>6, <3>8, <3>9, <3>a, SMT
    <3>c. off + cut \in Int /\ turns - turn + k \in Int
      OBVIOUS
    <3>d. -(2 * commands) - 1 <= off + cut /\ off + cut <= 2 * commands + 1
      BY <3>2, <3>3, <3>a, SMT
    <3> QED BY <3>a, <3>b, <3>c, <3>d, <2>1, <2>3, Powers, Sent
  <2> QED BY <2>2, <2>4, <2>7, <2>8, <1>u
<1> QED BY <1>r, <1>1, <1>2, <1>3, <1>4

\* A report of the autopilot only changes what BLE shows.
LEMMA ReportKeeps ==
  ASSUME SteerInv, NEW field \in PilotFields, Report(field)
  PROVE  SteerInv'
<1> USE DEF SteerInv
<1>t. SteerTypes
  OBVIOUS
<1>u. UNCHANGED <<pilot, commands, wanted, patient>>
  BY DEF Report, commandVars
<1>1. autopilot' = [autopilot EXCEPT ![field] = Shown(field, pilot[field])]
  BY DEF Report
<1>2. field = "heading" => Shown(field, pilot[field]) \in Int /\ 0 <= Shown(field, pilot[field])
  <2> SUFFICES ASSUME field = "heading"
               PROVE  Shown(field, pilot[field]) \in Int /\ 0 <= Shown(field, pilot[field])
    OBVIOUS
  <2>1. pilot[field] * 1017 \in Int
    BY <1>t DEF SteerTypes, PilotFields
  <2>2. ToDegrees(pilot[field]) \in Int
    BY <2>1, Cuts DEF ToDegrees
  <2>3. Shown(field, pilot[field]) = ToDegrees(pilot[field]) % Circle
    BY DEF Shown
  <2> QED BY <2>2, <2>3, Turns
<1>3. field = "targetWind" => /\ Shown(field, pilot[field]) \in Int
                              /\ -18000 <= Shown(field, pilot[field])
                              /\ Shown(field, pilot[field]) <= 18000
  BY <1>t, WindShown DEF Shown, SteerTypes, PilotFields
<1>4. SteerTypes'
  <2>1. autopilot' = [f \in PilotFields |-> autopilot'[f]]
    BY <1>t, <1>1 DEF SteerTypes
  <2>2. autopilot'["heading"] \in Int /\ 0 <= autopilot'["heading"]
    BY <1>t, <1>1, <1>2 DEF SteerTypes, PilotFields
  <2>3. /\ autopilot'["targetWind"] \in Int
        /\ -18000 <= autopilot'["targetWind"] /\ autopilot'["targetWind"] <= 18000
    BY <1>t, <1>1, <1>3 DEF SteerTypes, PilotFields
  <2> QED BY <1>t, <1>u, <2>1, <2>2, <2>3 DEF SteerTypes
<1> QED BY <1>4, <1>u DEF Kept

\* A turn of the boat, or another mode, is none of the wind angle's.
LEMMA TurnKeeps ==
  ASSUME SteerInv, NEW field \in {"mode", "heading"}, NEW raw \in Int, 0 <= raw, PilotHas(field, raw)
  PROVE  SteerInv'
<1> USE DEF SteerInv
<1>t. SteerTypes
  OBVIOUS
<1>u. UNCHANGED <<autopilot, commands, wanted, patient>>
  BY DEF PilotHas, shownVars
<1>1. pilot' = [pilot EXCEPT ![field] = raw]
  BY DEF PilotHas
<1>2. UNCHANGED <<pilot["targetWind"], pilot["targetHeading"]>>
  BY <1>1, <1>t DEF SteerTypes, PilotFields
<1>3. SteerTypes'
  <2>1. pilot' = [f \in PilotFields |-> pilot'[f]]
    BY <1>t, <1>1 DEF SteerTypes
  <2>2. \A f \in PilotFields : pilot'[f] \in Int /\ 0 <= pilot'[f]
    BY <1>t, <1>1 DEF SteerTypes
  <2> QED BY <1>t, <1>u, <1>2, <2>1, <2>2 DEF SteerTypes
<1> QED BY <1>3, <1>u, <1>2 DEF Kept

\* At first nothing is asked for.
LEMMA SteeringBegins ==
  ASSUME SteeringInit
  PROVE  SteerInv
<1>1. ToDegrees(0) = 0 + 0 + Circle * 0
  <2>1. (0 * 1017) \div 1775 = 0
    BY SMT
  <2> QED BY <2>1, Powers DEF ToDegrees
<1>2. Kept(0, 0, 0)
  BY <1>1 DEF Kept
<1>3. 0 <= ToRadians(Circle)
  BY ToldHeading
<1> QED BY <1>2, <1>3 DEF SteeringInit, SteerInv, SteerTypes, PilotFields

\* Whole turns are not seen on the compass card.
LEMMA NotFar ==
  ASSUME NEW a \in Int, NEW b \in Int, NEW off \in Int, NEW turns \in Int, NEW n \in Nat,
         -n <= off, off <= n, a = b + off + Circle * turns
  PROVE  \E apart \in Apart(a, b) : apart <= n
<1>1. CASE 0 <= off
  <2>1. PICK k \in Int : (a - b) % Circle = (a - b) + Circle * k
    BY Turns
  <2>2. PICK r \in Int : r = (a - b) % Circle /\ 0 <= r /\ r < 36000
    BY Turns, Powers
  <2>3. r = off + 36000 * (turns + k)
    BY <2>1, <2>2, Powers, SMT
  <2>4. r <= off
    <3>1. PICK j \in Int : j = turns + k
      OBVIOUS
    <3> QED BY <2>2, <2>3, <3>1, <1>1, SMT
  <2>5. r <= n
    BY <2>4, SMT
  <2> QED BY <2>2, <2>5 DEF Apart
<1>2. CASE ~(0 <= off)
  <2>1. PICK k \in Int : (b - a) % Circle = (b - a) + Circle * k
    BY Turns
  <2>2. PICK r \in Int : r = (b - a) % Circle /\ 0 <= r /\ r < 36000
    BY Turns, Powers
  <2>3. r = (36000 * (k - turns)) - off
    BY <2>1, <2>2, Powers, SMT
  <2>4. r <= -off
    <3>1. PICK j \in Int : j = k - turns
      OBVIOUS
    <3> QED BY <2>2, <2>3, <3>1, <1>2, SMT
  <2>5. r <= n
    BY <2>4, SMT
  <2> QED BY <2>2, <2>5 DEF Apart
<1> QED BY <1>1, <1>2

\* The invariant of the commands says what the autopilot is told.
LEMMA SteerHolds == ASSUME SteerInv PROVE SteersAsTold
<1>1. ASSUME patient
      PROVE  \E apart \in Apart(ToDegrees(pilot["targetWind"]), wanted) : apart <= 2 * commands
  <2>1. PICK off, turns \in Int :
          /\ -(2 * commands) <= off /\ off <= 2 * commands
          /\ ToDegrees(pilot["targetWind"]) = wanted + off + Circle * turns
    BY <1>1 DEF SteerInv, Kept
  <2>2. 2 * commands \in Nat /\ wanted \in Int
    BY SMT DEF SteerInv, SteerTypes
  <2>3. ToDegrees(pilot["targetWind"]) \in Int
    BY WindShown DEF SteerInv, SteerTypes, PilotFields
  <2> QED BY <2>1, <2>2, <2>3, NotFar
<1> QED BY <1>1 DEF SteersAsTold, SteerInv, SteerTypes

----------------------------------------------------------------------------
(* The handlers. *)

HeardFields == NavFields \cup EngineFields \cup {"cog", "dynamic"}
OwnStamp == {"position", "sog", "variation", "depth", "awa", "aws", "stw", "log",
             "rpm", "exhaustTemp", "engineRoomTemp", "engineBattVolts", "fuelLevel"}
Ages == 0 .. Forgotten
NavShown == NavFields \ {"cogt", "cogm"}

\* A function on a set.
Table(v, D) == v = [f \in D |-> v[f]]

HandlerTypes ==
  /\ Table(value, Fields)
  /\ last \in [Stamps -> Ages]
  /\ dirtyNavState \in BOOLEAN /\ dirtyEngineState \in BOOLEAN

\* After a message a field is not available, or the message had it, or it and its stamp
\* are as they were.
Sound(m, f, s) ==
  \/ value'[f] = NA
  \/ Says(m, f)
  \/ value'[f] = value[f] /\ last'[s] = last[s]

Stamped(m) ==
  /\ \A f \in OwnStamp : Sound(m, f, f)
  /\ Sound(m, "headingMagnetic", "heading")
  /\ Says(m, "dynamic") \/ last'["dynamic"] = last["dynamic"]

\* No change that is shown goes unflagged, but for the magnetic heading there was not.
Flagged ==
  /\ ~dirtyEngineState' => ~dirtyEngineState /\ \A f \in EngineFields : value'[f] = value[f]
  /\ ~dirtyNavState' =>
       /\ ~dirtyNavState
       /\ \A f \in NavShown : value'[f] = value[f] \/ (f = "headingMagnetic" /\ value[f] = NA)

Heeded(m) == HandlerTypes' /\ Stamped(m) /\ Flagged

\* Which names are which: fields, stamps, and those that are shown.
LEMMA Names ==
  /\ OwnStamp \subseteq Fields /\ OwnStamp \subseteq Stamps /\ OwnStamp \subseteq HeardFields
  /\ "headingMagnetic" \in Fields /\ "headingMagnetic" \in HeardFields /\ "heading" \in Stamps
  /\ "dynamic" \in Stamps /\ "dynamic" \in HeardFields
  /\ EngineFields \subseteq Fields /\ NavFields \subseteq Fields
  /\ NavFields \cap EngineFields = {} /\ NavShown \subseteq NavFields /\ "headingMagnetic" \in NavShown
  /\ {"headingTrue", "roll", "cogt", "cogm"} \cap (OwnStamp \cup EngineFields \cup NavShown) = {}
  /\ "headingMagnetic" \notin OwnStamp /\ "heading" \notin OwnStamp /\ "dynamic" \notin OwnStamp
BY DEF OwnStamp, Fields, NavFields, EngineFields, Dynamic, Stamps, HeardFields, NavShown

\* The time-outs are numbers.
LEMMA Times ==
  /\ UnsafeTimeout \in Nat /\ FastTimeout \in Nat /\ UpdateTimeout \in Nat /\ SlowTimeout \in Nat
  /\ NavTimeout \in Nat /\ Forgotten = NavTimeout + 1 /\ Forgotten \in Nat
  /\ FastTimeout < NavTimeout /\ SlowTimeout <= NavTimeout
BY TimeoutAssumption DEF Forgotten

\* Stamps are set to now or left alone.
LEMMA Stamping ==
  ASSUME NEW stamps, last \in [Stamps -> Ages], Stamp(stamps)
  PROVE  /\ last' \in [Stamps -> Ages]
         /\ \A s \in Stamps : last'[s] = IF s \in stamps THEN 0 ELSE last[s]
BY Times DEF Stamp, Ages

\* A flag that is raised if something has changed.
LEMMA Flags ==
  ASSUME NEW was, NEW is, NEW changed, is = (was \/ changed), was \in BOOLEAN
  PROVE  is \in BOOLEAN /\ (~is => ~was /\ ~changed)
OBVIOUS

\* The flag of the nav characteristic, raised if something has changed.
LEMMA NavFlags ==
  ASSUME NEW changed, HandlerTypes, NavDirtyIf(changed)
  PROVE  dirtyNavState' \in BOOLEAN /\ (~dirtyNavState' => ~dirtyNavState /\ ~changed)
BY Flags DEF NavDirtyIf, HandlerTypes

\* What a message does to its own fields, told from what it leaves alone.
LEMMA Heeding ==
  ASSUME HandlerTypes, NEW m, NEW changed, changed \subseteq OwnStamp,
         \A f \in Fields : f \notin changed \cup {"roll", "cogt", "cogm"} => value'[f] = value[f],
         \A s \in Stamps : s \notin changed \cup {"roll", "cogt", "cogm", "faa"} => last'[s] = last[s],
         \A f \in changed : Sound(m, f, f)
  PROVE  Stamped(m)
<1>1. ASSUME NEW f \in OwnStamp  PROVE Sound(m, f, f)
  <2>1. CASE f \in changed
    BY <2>1
  <2>2. CASE f \notin changed
    <3>1. f \in Fields /\ f \in Stamps /\ f \notin {"roll", "cogt", "cogm"}
      BY Names
    <3>2. f # "faa"
      BY DEF OwnStamp
    <3> QED BY <3>1, <3>2, <2>2 DEF Sound
  <2> QED BY <2>1, <2>2
<1>2. Sound(m, "headingMagnetic", "heading")
  BY Names DEF Sound
<1>3. last'["dynamic"] = last["dynamic"]
  BY Names
<1> QED BY <1>1, <1>2, <1>3 DEF Stamped

\* A message of the instruments does not miss a change, nor touch the engine.
LEMMA NavFlagging ==
  ASSUME HandlerTypes, NEW changed,
         \A f \in Fields :
           f \notin changed \cup {"roll", "headingTrue", "cogt", "cogm"} => value'[f] = value[f],
         changed \cap EngineFields = {},
         ~dirtyNavState' =>
           /\ ~dirtyNavState
           /\ \A f \in changed : value'[f] = value[f] \/ (f = "headingMagnetic" /\ value[f] = NA),
         UNCHANGED dirtyEngineState
  PROVE  Flagged
<1>1. \A f \in EngineFields : value'[f] = value[f]
  BY Names
<1>2. ASSUME ~dirtyNavState', NEW f \in NavShown
      PROVE  value'[f] = value[f] \/ (f = "headingMagnetic" /\ value[f] = NA)
  BY <1>2, Names
<1> QED BY <1>1, <1>2 DEF Flagged

\* The variation.
LEMMA Keeps127258 ==
  ASSUME HandlerTypes, NEW m, m.pgn = 127258, Handle127258(m)
  PROVE  Heeded(m)
<1> DEFINE changed == {"variation"}
           differ == Differ("variation", m.variation)
<1>h. Table(value, Fields) /\ dirtyNavState \in BOOLEAN /\ dirtyEngineState \in BOOLEAN
  BY DEF HandlerTypes
<1>l. last \in [Stamps -> Ages]
  BY DEF HandlerTypes
<1>n. /\ changed \subseteq OwnStamp /\ changed \cap EngineFields = {}
      /\ changed \subseteq Fields /\ changed \subseteq Stamps
  BY DEF OwnStamp, EngineFields, Dynamic, Fields, NavFields, Stamps
<1>1. value' = IF m.variation = NA THEN value ELSE [value EXCEPT !["variation"] = m.variation]
  BY DEF Handle127258
<1>2. \A s \in Stamps : last'[s] = IF s \in Heard("variation", m.variation) THEN 0 ELSE last[s]
  BY <1>l, Stamping DEF Handle127258
<1>3. last' \in [Stamps -> Ages]
  BY <1>l, Stamping DEF Handle127258
<1>4. NavDirtyIf(differ)
  BY DEF Handle127258
<1>5. dirtyNavState' \in BOOLEAN /\ (~dirtyNavState' => ~dirtyNavState /\ value["variation"] = m.variation)
  <2> HIDE DEF differ
  <2>1. dirtyNavState' \in BOOLEAN /\ (~dirtyNavState' => ~dirtyNavState /\ ~differ)
    BY <1>4, NavFlags, SMT
  <2> QED BY <2>1 DEF differ, Differ
<1>6. UNCHANGED dirtyEngineState
  BY DEF Handle127258
<1>e. /\ Table(value', Fields) /\ value'["variation"] = Or(m.variation, value["variation"])
      /\ \A f \in Fields : f \notin changed => value'[f] = value[f]
  <2>1. CASE m.variation = NA
    BY <2>1, <1>1, <1>h DEF Or
  <2>2. CASE m.variation # NA
    BY <2>2, <1>1, <1>h, <1>n DEF Or, Table
  <2> QED BY <2>1, <2>2
<1>b. \A s \in Stamps : s \notin changed => last'[s] = last[s]
  BY <1>2 DEF Heard
<1>s0. Sound(m, "variation", "variation")
  <2>1. m.variation # NA => Says(m, "variation")
    BY DEF Says
  <2> QED BY <1>e, <1>n, <1>2, <2>1 DEF Sound, UpdateWithTimeout, Heard, Or
<1>7. Stamped(m)
  <2>1. \A f \in changed : Sound(m, f, f)
    BY <1>s0
  <2> HIDE DEF changed
  <2> QED BY <1>n, <1>e, <1>b, <2>1, Heeding DEF HandlerTypes
<1>8. Flagged
  <2>1. ~dirtyNavState' => \A f \in changed : value'[f] = value[f]
    BY <1>e, <1>5 DEF UpdateWithTimeout, Or
  <2> HIDE DEF changed
  <2> QED BY <1>n, <1>e, <1>5, <1>6, <2>1, NavFlagging
<1> QED BY <1>e, <1>h, <1>3, <1>5, <1>6, <1>7, <1>8 DEF Heeded, HandlerTypes

\* The speed through the water.
LEMMA Keeps128259 ==
  ASSUME HandlerTypes, NEW m, m.pgn = 128259, Handle128259(m)
  PROVE  Heeded(m)
<1> DEFINE changed == {"stw"}
           differ == Differ("stw", m.stw)
<1>h. Table(value, Fields) /\ dirtyNavState \in BOOLEAN /\ dirtyEngineState \in BOOLEAN
  BY DEF HandlerTypes
<1>l. last \in [Stamps -> Ages]
  BY DEF HandlerTypes
<1>n. /\ changed \subseteq OwnStamp /\ changed \cap EngineFields = {}
      /\ changed \subseteq Fields /\ changed \subseteq Stamps
  BY DEF OwnStamp, EngineFields, Dynamic, Fields, NavFields, Stamps
<1>1. value' = [value EXCEPT !["stw"] = UpdateWithTimeout("stw", m.stw)]
  BY DEF Handle128259
<1>2. \A s \in Stamps : last'[s] = IF s \in Heard("stw", m.stw) THEN 0 ELSE last[s]
  BY <1>l, Stamping DEF Handle128259
<1>3. last' \in [Stamps -> Ages]
  BY <1>l, Stamping DEF Handle128259
<1>4. NavDirtyIf(differ)
  BY DEF Handle128259
<1>5. dirtyNavState' \in BOOLEAN /\ (~dirtyNavState' => ~dirtyNavState /\ value["stw"] = m.stw)
  <2> HIDE DEF differ
  <2>1. dirtyNavState' \in BOOLEAN /\ (~dirtyNavState' => ~dirtyNavState /\ ~differ)
    BY <1>4, NavFlags, SMT
  <2> QED BY <2>1 DEF differ, Differ
<1>6. UNCHANGED dirtyEngineState
  BY DEF Handle128259
<1>e. /\ Table(value', Fields) /\ value'["stw"] = UpdateWithTimeout("stw", m.stw)
      /\ \A f \in Fields : f \notin changed => value'[f] = value[f]
  BY <1>1, <1>h, <1>n DEF Table
<1>b. \A s \in Stamps : s \notin changed => last'[s] = last[s]
  BY <1>2 DEF Heard
<1>s0. Sound(m, "stw", "stw")
  <2>1. m.stw # NA => Says(m, "stw")
    BY DEF Says
  <2> QED BY <1>e, <1>n, <1>2, <2>1 DEF Sound, UpdateWithTimeout, Heard
<1>7. Stamped(m)
  <2>1. \A f \in changed : Sound(m, f, f)
    BY <1>s0
  <2> HIDE DEF changed
  <2> QED BY <1>n, <1>e, <1>b, <2>1, Heeding DEF HandlerTypes
<1>8. Flagged
  <2>1. ~dirtyNavState' => \A f \in changed : value'[f] = value[f]
    BY <1>e, <1>5 DEF UpdateWithTimeout
  <2> HIDE DEF changed
  <2> QED BY <1>n, <1>e, <1>5, <1>6, <2>1, NavFlagging
<1> QED BY <1>e, <1>h, <1>3, <1>5, <1>6, <1>7, <1>8 DEF Heeded, HandlerTypes

\* The depth.
LEMMA Keeps128267 ==
  ASSUME HandlerTypes, NEW m, m.pgn = 128267, Handle128267(m)
  PROVE  Heeded(m)
<1> DEFINE changed == {"depth"}
           differ == Differ("depth", m.depth)
<1>h. Table(value, Fields) /\ dirtyNavState \in BOOLEAN /\ dirtyEngineState \in BOOLEAN
  BY DEF HandlerTypes
<1>l. last \in [Stamps -> Ages]
  BY DEF HandlerTypes
<1>n. /\ changed \subseteq OwnStamp /\ changed \cap EngineFields = {}
      /\ changed \subseteq Fields /\ changed \subseteq Stamps
  BY DEF OwnStamp, EngineFields, Dynamic, Fields, NavFields, Stamps
<1>1. value' = [value EXCEPT !["depth"] = m.depth]
  BY DEF Handle128267, HandleDirect
<1>2. \A s \in Stamps : last'[s] = IF s \in Heard("depth", m.depth) THEN 0 ELSE last[s]
  BY <1>l, Stamping DEF Handle128267, HandleDirect
<1>3. last' \in [Stamps -> Ages]
  BY <1>l, Stamping DEF Handle128267, HandleDirect
<1>4. NavDirtyIf(differ)
  BY DEF Handle128267, HandleDirect
<1>5. dirtyNavState' \in BOOLEAN /\ (~dirtyNavState' => ~dirtyNavState /\ value["depth"] = m.depth)
  <2> HIDE DEF differ
  <2>1. dirtyNavState' \in BOOLEAN /\ (~dirtyNavState' => ~dirtyNavState /\ ~differ)
    BY <1>4, NavFlags, SMT
  <2> QED BY <2>1 DEF differ, Differ
<1>6. UNCHANGED dirtyEngineState
  BY DEF Handle128267, HandleDirect
<1>e. /\ Table(value', Fields) /\ value'["depth"] = m.depth
      /\ \A f \in Fields : f \notin changed => value'[f] = value[f]
  BY <1>1, <1>h, <1>n DEF Table
<1>b. \A s \in Stamps : s \notin changed => last'[s] = last[s]
  BY <1>2 DEF Heard
<1>s0. Sound(m, "depth", "depth")
  <2>1. m.depth # NA => Says(m, "depth")
    BY DEF Says
  <2> QED BY <1>e, <1>n, <1>2, <2>1 DEF Sound, UpdateWithTimeout, Heard
<1>7. Stamped(m)
  <2>1. \A f \in changed : Sound(m, f, f)
    BY <1>s0
  <2> HIDE DEF changed
  <2> QED BY <1>n, <1>e, <1>b, <2>1, Heeding DEF HandlerTypes
<1>8. Flagged
  <2>1. ~dirtyNavState' => \A f \in changed : value'[f] = value[f]
    BY <1>e, <1>5 DEF UpdateWithTimeout
  <2> HIDE DEF changed
  <2> QED BY <1>n, <1>e, <1>5, <1>6, <2>1, NavFlagging
<1> QED BY <1>e, <1>h, <1>3, <1>5, <1>6, <1>7, <1>8 DEF Heeded, HandlerTypes

\* The log.
LEMMA Keeps128275 ==
  ASSUME HandlerTypes, NEW m, m.pgn = 128275, Handle128275(m)
  PROVE  Heeded(m)
<1> DEFINE changed == {"log"}
           differ == Differ("log", m.log)
<1>h. Table(value, Fields) /\ dirtyNavState \in BOOLEAN /\ dirtyEngineState \in BOOLEAN
  BY DEF HandlerTypes
<1>l. last \in [Stamps -> Ages]
  BY DEF HandlerTypes
<1>n. /\ changed \subseteq OwnStamp /\ changed \cap EngineFields = {}
      /\ changed \subseteq Fields /\ changed \subseteq Stamps
  BY DEF OwnStamp, EngineFields, Dynamic, Fields, NavFields, Stamps
<1>1. value' = [value EXCEPT !["log"] = m.log]
  BY DEF Handle128275, HandleDirect
<1>2. \A s \in Stamps : last'[s] = IF s \in Heard("log", m.log) THEN 0 ELSE last[s]
  BY <1>l, Stamping DEF Handle128275, HandleDirect
<1>3. last' \in [Stamps -> Ages]
  BY <1>l, Stamping DEF Handle128275, HandleDirect
<1>4. NavDirtyIf(differ)
  BY DEF Handle128275, HandleDirect
<1>5. dirtyNavState' \in BOOLEAN /\ (~dirtyNavState' => ~dirtyNavState /\ value["log"] = m.log)
  <2> HIDE DEF differ
  <2>1. dirtyNavState' \in BOOLEAN /\ (~dirtyNavState' => ~dirtyNavState /\ ~differ)
    BY <1>4, NavFlags, SMT
  <2> QED BY <2>1 DEF differ, Differ
<1>6. UNCHANGED dirtyEngineState
  BY DEF Handle128275, HandleDirect
<1>e. /\ Table(value', Fields) /\ value'["log"] = m.log
      /\ \A f \in Fields : f \notin changed => value'[f] = value[f]
  BY <1>1, <1>h, <1>n DEF Table
<1>b. \A s \in Stamps : s \notin changed => last'[s] = last[s]
  BY <1>2 DEF Heard
<1>s0. Sound(m, "log", "log")
  <2>1. m.log # NA => Says(m, "log")
    BY DEF Says
  <2> QED BY <1>e, <1>n, <1>2, <2>1 DEF Sound, UpdateWithTimeout, Heard
<1>7. Stamped(m)
  <2>1. \A f \in changed : Sound(m, f, f)
    BY <1>s0
  <2> HIDE DEF changed
  <2> QED BY <1>n, <1>e, <1>b, <2>1, Heeding DEF HandlerTypes
<1>8. Flagged
  <2>1. ~dirtyNavState' => \A f \in changed : value'[f] = value[f]
    BY <1>e, <1>5 DEF UpdateWithTimeout
  <2> HIDE DEF changed
  <2> QED BY <1>n, <1>e, <1>5, <1>6, <2>1, NavFlagging
<1> QED BY <1>e, <1>h, <1>3, <1>5, <1>6, <1>7, <1>8 DEF Heeded, HandlerTypes

\* The rapid position.
LEMMA Keeps129025 ==
  ASSUME HandlerTypes, NEW m, m.pgn = 129025, Handle129025(m)
  PROVE  Heeded(m)
<1> DEFINE changed == {"position"}
           differ == Differ("position", m.position)
<1>h. Table(value, Fields) /\ dirtyNavState \in BOOLEAN /\ dirtyEngineState \in BOOLEAN
  BY DEF HandlerTypes
<1>l. last \in [Stamps -> Ages]
  BY DEF HandlerTypes
<1>n. /\ changed \subseteq OwnStamp /\ changed \cap EngineFields = {}
      /\ changed \subseteq Fields /\ changed \subseteq Stamps
  BY DEF OwnStamp, EngineFields, Dynamic, Fields, NavFields, Stamps
<1>1. value' = [value EXCEPT !["position"] = m.position]
  BY DEF Handle129025
<1>2. \A s \in Stamps : last'[s] = IF s \in {"position"} THEN 0 ELSE last[s]
  BY <1>l, Stamping DEF Handle129025
<1>3. last' \in [Stamps -> Ages]
  BY <1>l, Stamping DEF Handle129025
<1>4. NavDirtyIf(differ)
  BY DEF Handle129025
<1>5. dirtyNavState' \in BOOLEAN /\ (~dirtyNavState' => ~dirtyNavState /\ value["position"] = m.position)
  <2> HIDE DEF differ
  <2>1. dirtyNavState' \in BOOLEAN /\ (~dirtyNavState' => ~dirtyNavState /\ ~differ)
    BY <1>4, NavFlags, SMT
  <2> QED BY <2>1 DEF differ, Differ
<1>6. UNCHANGED dirtyEngineState
  BY DEF Handle129025
<1>e. /\ Table(value', Fields) /\ value'["position"] = m.position
      /\ \A f \in Fields : f \notin changed => value'[f] = value[f]
  BY <1>1, <1>h, <1>n DEF Table
<1>b. \A s \in Stamps : s \notin changed => last'[s] = last[s]
  BY <1>2 DEF Heard
<1>s0. Sound(m, "position", "position")
  <2>1. m.position # NA => Says(m, "position")
    BY DEF Says
  <2> QED BY <1>e, <1>n, <1>2, <2>1 DEF Sound, UpdateWithTimeout, Heard
<1>7. Stamped(m)
  <2>1. \A f \in changed : Sound(m, f, f)
    BY <1>s0
  <2> HIDE DEF changed
  <2> QED BY <1>n, <1>e, <1>b, <2>1, Heeding DEF HandlerTypes
<1>8. Flagged
  <2>1. ~dirtyNavState' => \A f \in changed : value'[f] = value[f]
    BY <1>e, <1>5 DEF UpdateWithTimeout
  <2> HIDE DEF changed
  <2> QED BY <1>n, <1>e, <1>5, <1>6, <2>1, NavFlagging
<1> QED BY <1>e, <1>h, <1>3, <1>5, <1>6, <1>7, <1>8 DEF Heeded, HandlerTypes

\* The apparent wind.
LEMMA Keeps130306 ==
  ASSUME HandlerTypes, NEW m, m.pgn = 130306, Handle130306(m)
  PROVE  Heeded(m)
<1> DEFINE changed == {"awa", "aws"}
           differ == Differ("awa", m.awa) \/ Differ("aws", m.aws)
<1>h. Table(value, Fields) /\ dirtyNavState \in BOOLEAN /\ dirtyEngineState \in BOOLEAN
  BY DEF HandlerTypes
<1>l. last \in [Stamps -> Ages]
  BY DEF HandlerTypes
<1>n. /\ changed \subseteq OwnStamp /\ changed \cap EngineFields = {}
      /\ changed \subseteq Fields /\ changed \subseteq Stamps
  BY DEF OwnStamp, EngineFields, Dynamic, Fields, NavFields, Stamps
<1>1. value' = [value EXCEPT !["awa"] = UpdateWithTimeout("awa", m.awa),
                             !["aws"] = UpdateWithTimeout("aws", m.aws)]
  BY DEF Handle130306
<1>2. \A s \in Stamps : last'[s] = IF s \in Heard("awa", m.awa) \cup Heard("aws", m.aws) THEN 0 ELSE last[s]
  BY <1>l, Stamping DEF Handle130306
<1>3. last' \in [Stamps -> Ages]
  BY <1>l, Stamping DEF Handle130306
<1>4. NavDirtyIf(differ)
  BY DEF Handle130306
<1>5. /\ dirtyNavState' \in BOOLEAN
      /\ ~dirtyNavState' => ~dirtyNavState /\ value["awa"] = m.awa /\ value["aws"] = m.aws
  <2> HIDE DEF differ
  <2>1. dirtyNavState' \in BOOLEAN /\ (~dirtyNavState' => ~dirtyNavState /\ ~differ)
    BY <1>4, NavFlags, SMT
  <2> QED BY <2>1 DEF differ, Differ
<1>6. UNCHANGED dirtyEngineState
  BY DEF Handle130306
<1>e. /\ Table(value', Fields)
      /\ value'["awa"] = UpdateWithTimeout("awa", m.awa) /\ value'["aws"] = UpdateWithTimeout("aws", m.aws)
      /\ \A f \in Fields : f \notin changed => value'[f] = value[f]
  <2> DEFINE one == [value EXCEPT !["awa"] = UpdateWithTimeout("awa", m.awa)]
  <2>2. /\ Table(one, Fields) /\ one["awa"] = UpdateWithTimeout("awa", m.awa)
        /\ \A f \in Fields : f # "awa" => one[f] = value[f]
    BY <1>h, <1>n DEF Table
  <2>3. value' = [one EXCEPT !["aws"] = UpdateWithTimeout("aws", m.aws)]
    BY <1>1
  <2> HIDE DEF one
  <2> QED BY <2>2, <2>3, <1>n DEF Table
<1>b. \A s \in Stamps : s \notin changed => last'[s] = last[s]
  BY <1>2 DEF Heard
<1>s0. Sound(m, "awa", "awa")
  <2>1. m.awa # NA => Says(m, "awa")
    BY DEF Says, Handle130306
  <2> QED BY <1>e, <1>n, <1>2, <2>1 DEF Sound, UpdateWithTimeout, Heard
<1>s1. Sound(m, "aws", "aws")
  <2>1. m.aws # NA => Says(m, "aws")
    BY DEF Says, Handle130306
  <2> QED BY <1>e, <1>n, <1>2, <2>1 DEF Sound, UpdateWithTimeout, Heard
<1>7. Stamped(m)
  <2>1. \A f \in changed : Sound(m, f, f)
    BY <1>s0, <1>s1
  <2> HIDE DEF changed
  <2> QED BY <1>n, <1>e, <1>b, <2>1, Heeding DEF HandlerTypes
<1>8. Flagged
  <2>1. ~dirtyNavState' => \A f \in changed : value'[f] = value[f]
    BY <1>e, <1>5 DEF UpdateWithTimeout
  <2> HIDE DEF changed
  <2> QED BY <1>n, <1>e, <1>5, <1>6, <2>1, NavFlagging
<1> QED BY <1>e, <1>h, <1>3, <1>5, <1>6, <1>7, <1>8 DEF Heeded, HandlerTypes

\* A flag that is raised whatever the message says.
LEMMA EngineFlag ==
  ASSUME EngineDirtyIf(TRUE)
  PROVE  dirtyEngineState' = TRUE
BY DEF EngineDirtyIf

\* The attitude: BLE shows none of it.
LEMMA Keeps127257 ==
  ASSUME HandlerTypes, NEW m, m.pgn = 127257, Handle127257(m)
  PROVE  Heeded(m)
<1>h. Table(value, Fields) /\ dirtyNavState \in BOOLEAN /\ dirtyEngineState \in BOOLEAN
  BY DEF HandlerTypes
<1>l. last \in [Stamps -> Ages]
  BY DEF HandlerTypes
<1>1. value' = [value EXCEPT !["roll"] = UpdateWithTimeout("roll", m.roll)]
  BY DEF Handle127257
<1>2. \A s \in Stamps : last'[s] = IF s \in Heard("roll", m.roll) THEN 0 ELSE last[s]
  BY <1>l, Stamping DEF Handle127257
<1>3. last' \in [Stamps -> Ages]
  BY <1>l, Stamping DEF Handle127257
<1>4. UNCHANGED <<dirtyNavState, dirtyEngineState>>
  BY DEF Handle127257
<1>5. "roll" \in Fields /\ "roll" \notin OwnStamp
  BY DEF Fields, OwnStamp
<1>e. /\ Table(value', Fields)
      /\ \A f \in Fields : f # "roll" => value'[f] = value[f]
  BY <1>1, <1>h, <1>5 DEF Table
<1>6. \A s \in Stamps : s # "roll" => last'[s] = last[s]
  BY <1>2 DEF Heard
<1>7. Stamped(m)
  <2>1. \A f \in OwnStamp : value'[f] = value[f] /\ last'[f] = last[f]
    BY <1>e, <1>5, <1>6, Names
  <2>2. value'["headingMagnetic"] = value["headingMagnetic"] /\ last'["heading"] = last["heading"]
    BY <1>e, <1>6, Names
  <2>3. last'["dynamic"] = last["dynamic"]
    BY <1>6, Names
  <2> QED BY <2>1, <2>2, <2>3 DEF Stamped, Sound
<1>8. Flagged
  <2>1. \A f \in EngineFields \cup NavShown : f \in Fields /\ f # "roll"
    BY Names
  <2> QED BY <1>e, <1>4, <2>1 DEF Flagged
<1> QED BY <1>e, <1>h, <1>3, <1>4, <1>7, <1>8 DEF Heeded, HandlerTypes

\* What raises the flag.
LEMMA Flags129026 ==
  ASSUME NEW m, Handle129026(m), dirtyNavState \in BOOLEAN
  PROVE  dirtyNavState' \in BOOLEAN /\ (~dirtyNavState' => ~dirtyNavState /\ value["sog"] = m.sog)
<1>1. dirtyNavState' \in BOOLEAN
  BY Zenon DEF Handle129026, NavDirtyIf
<1>2. ~dirtyNavState' => ~dirtyNavState /\ value["sog"] = m.sog
  BY Zenon DEF Handle129026, NavDirtyIf, Differ
<1> QED BY <1>1, <1>2

\* The heading raises the flag of its own reference.
LEMMA Flags127250 ==
  ASSUME NEW m, Handle127250(m), dirtyNavState \in BOOLEAN
  PROVE  /\ dirtyNavState' \in BOOLEAN
         /\ ~dirtyNavState' =>
              /\ ~dirtyNavState /\ (m.variation # NA => value["variation"] = m.variation)
              /\ m.reference = "magnetic" => value["headingMagnetic"] = m.heading
<1> DEFINE varied == m.variation # NA /\ Differ("variation", m.variation)
           turned == Differ(IF m.reference = "magnetic" THEN "headingMagnetic" ELSE "headingTrue", m.heading)
<1>1. NavDirtyIf(varied \/ turned)
  BY Zenon DEF Handle127250
<1> HIDE DEF varied, turned
<1>2. dirtyNavState' \in BOOLEAN
  BY <1>1, Zenon DEF NavDirtyIf
<1>3. ~dirtyNavState' => ~dirtyNavState /\ ~varied /\ ~turned
  BY <1>1, Zenon DEF NavDirtyIf
<1>4. ~varied => (m.variation # NA => value["variation"] = m.variation)
  BY DEF varied, Differ
<1>5. ~turned => (m.reference = "magnetic" => value["headingMagnetic"] = m.heading)
  BY DEF turned, Differ
<1> QED BY <1>2, <1>3, <1>4, <1>5

\* The rapid course and speed over the ground.
LEMMA Keeps129026 ==
  ASSUME HandlerTypes, NEW m, m.pgn = 129026, Handle129026(m)
  PROVE  Heeded(m)
<1> DEFINE changed == {"sog"}
           magnetic == m.reference = "magnetic"
           cogm == IF magnetic THEN m.cog ELSE Plus(m.cog, value.variation)
           cogt == IF magnetic THEN Difference(m.cog, value.variation) ELSE m.cog
           stamps == Heard("cogt", cogt) \cup Heard("cogm", cogm) \cup Heard("sog", m.sog)
           one == [value EXCEPT !["cogt"] = UpdateWithTimeout("cogt", cogt)]
           two == [one EXCEPT !["cogm"] = UpdateWithTimeout("cogm", cogm)]
<1>h. Table(value, Fields) /\ dirtyNavState \in BOOLEAN /\ dirtyEngineState \in BOOLEAN
  BY DEF HandlerTypes
<1>l. last \in [Stamps -> Ages]
  BY DEF HandlerTypes
<1>n. /\ changed \subseteq OwnStamp /\ changed \cap EngineFields = {}
      /\ {"cogt", "cogm", "sog"} \subseteq Fields /\ {"cogt", "cogm", "sog"} \subseteq Stamps
  BY DEF OwnStamp, EngineFields, Dynamic, Fields, NavFields, Stamps
<1>1. value' = [two EXCEPT !["sog"] = UpdateWithTimeout("sog", m.sog)]
  BY DEF Handle129026
<1>2. \A s \in Stamps : last'[s] = IF s \in stamps THEN 0 ELSE last[s]
  <2>1. Stamp(stamps)
    BY DEF Handle129026
  <2> HIDE DEF stamps
  <2> QED BY <1>l, <2>1, Stamping
<1>3. last' \in [Stamps -> Ages]
  <2>1. Stamp(stamps)
    BY DEF Handle129026
  <2> HIDE DEF stamps
  <2> QED BY <1>l, <2>1, Stamping
<1>5. dirtyNavState' \in BOOLEAN /\ (~dirtyNavState' => ~dirtyNavState /\ value["sog"] = m.sog)
  BY <1>h, Flags129026
<1>6. UNCHANGED dirtyEngineState
  BY DEF Handle129026
<1> HIDE DEF cogm, cogt
<1>c. Table(one, Fields) /\ \A f \in Fields : f # "cogt" => one[f] = value[f]
  BY <1>h, <1>n DEF Table
<1> HIDE DEF one
<1>d. Table(two, Fields) /\ \A f \in Fields : f # "cogm" => two[f] = one[f]
  BY <1>c, <1>n DEF Table
<1> HIDE DEF two
<1>e. /\ Table(value', Fields) /\ value'["sog"] = UpdateWithTimeout("sog", m.sog)
      /\ \A f \in Fields : f \notin {"sog", "cogt", "cogm"} => value'[f] = value[f]
  BY <1>1, <1>c, <1>d, <1>n DEF Table
<1>b. \A s \in Stamps : /\ s \notin {"sog", "cogt", "cogm"} => last'[s] = last[s]
                        /\ s = "sog" /\ m.sog = NA => last'[s] = last[s]
  BY <1>2 DEF Heard
<1> HIDE DEF stamps
<1>s. Sound(m, "sog", "sog")
  <2>1. m.sog # NA => Says(m, "sog")
    BY DEF Says
  <2> QED BY <1>e, <1>n, <1>b, <2>1 DEF Sound, UpdateWithTimeout
<1>7. Stamped(m)
  <2>1. \A f \in changed : Sound(m, f, f)
    BY <1>s
  <2>2. \A f \in Fields : f \notin changed \cup {"roll", "cogt", "cogm"} => value'[f] = value[f]
    BY <1>e
  <2>3. \A s \in Stamps : s \notin changed \cup {"roll", "cogt", "cogm", "faa"} => last'[s] = last[s]
    BY <1>b
  <2> HIDE DEF changed
  <2> QED BY <1>n, <2>1, <2>2, <2>3, Heeding DEF HandlerTypes
<1>8. Flagged
  <2>1. ~dirtyNavState' => \A f \in changed : value'[f] = value[f]
    BY <1>e, <1>5 DEF UpdateWithTimeout
  <2>2. \A f \in Fields : f \notin changed \cup {"roll", "headingTrue", "cogt", "cogm"} => value'[f] = value[f]
    BY <1>e
  <2> HIDE DEF changed
  <2> QED BY <1>n, <2>2, <1>5, <1>6, <2>1, NavFlagging
<1> QED BY <1>e, <1>h, <1>3, <1>5, <1>6, <1>7, <1>8 DEF Heeded, HandlerTypes

\* A fix, which may not be used.
LEMMA Keeps129029 ==
  ASSUME HandlerTypes, NEW m, m.pgn = 129029, Handle129029(m)
  PROVE  Heeded(m)
<1> DEFINE changed == {"position"}
           used == m.safe \/ Age("faa") > UnsafeTimeout
           differ == Differ("position", m.position)
           stamps == (IF used THEN {"position"} ELSE {}) \cup (IF m.safe THEN {"faa"} ELSE {})
<1>h. Table(value, Fields) /\ dirtyNavState \in BOOLEAN /\ dirtyEngineState \in BOOLEAN
  BY DEF HandlerTypes
<1>l. last \in [Stamps -> Ages]
  BY DEF HandlerTypes
<1>n. /\ changed \subseteq OwnStamp /\ changed \cap EngineFields = {}
      /\ changed \subseteq Fields /\ changed \subseteq Stamps
  BY DEF OwnStamp, EngineFields, Dynamic, Fields, NavFields, Stamps
<1>1. value' = IF used THEN [value EXCEPT !["position"] = m.position] ELSE value
  BY DEF Handle129029
<1>p. Stamp(stamps)
  BY DEF Handle129029
<1>2. last' \in [Stamps -> Ages] /\ \A s \in Stamps : last'[s] = IF s \in stamps THEN 0 ELSE last[s]
  <2> HIDE DEF stamps
  <2> QED BY <1>l, <1>p, Stamping
<1>4. NavDirtyIf(differ)
  BY DEF Handle129029
<1>5. dirtyNavState' \in BOOLEAN /\ (~dirtyNavState' => ~dirtyNavState /\ value["position"] = m.position)
  <2> HIDE DEF differ
  <2>1. dirtyNavState' \in BOOLEAN /\ (~dirtyNavState' => ~dirtyNavState /\ ~differ)
    BY <1>4, NavFlags, SMT
  <2> QED BY <2>1 DEF differ, Differ
<1>6. UNCHANGED dirtyEngineState
  BY DEF Handle129029
<1>b. \A s \in Stamps : /\ s \notin {"position", "faa"} => last'[s] = last[s]
                        /\ ~used /\ s = "position" => last'[s] = last[s]
  BY <1>2
<1> HIDE DEF used
<1>e. /\ Table(value', Fields)
      /\ used => value'["position"] = m.position
      /\ ~used => value'["position"] = value["position"]
      /\ \A f \in Fields : f \notin changed => value'[f] = value[f]
  <2>1. CASE used
    BY <2>1, <1>1, <1>h, <1>n DEF Table
  <2>2. CASE ~used
    BY <2>2, <1>1, <1>h
  <2> QED BY <2>1, <2>2
<1>s. Sound(m, "position", "position")
  <2>1. m.position # NA => Says(m, "position")
    BY DEF Says
  <2>2. CASE used
    BY <2>1, <2>2, <1>e DEF Sound
  <2>3. CASE ~used
    BY <2>3, <1>e, <1>b, <1>n DEF Sound
  <2> QED BY <2>2, <2>3
<1>7. Stamped(m)
  <2>1. \A f \in changed : Sound(m, f, f)
    BY <1>s
  <2>3. \A s \in Stamps : s \notin changed \cup {"roll", "cogt", "cogm", "faa"} => last'[s] = last[s]
    BY <1>b
  <2> HIDE DEF changed
  <2> QED BY <1>n, <1>e, <2>1, <2>3, Heeding DEF HandlerTypes
<1>8. Flagged
  <2>1. ~dirtyNavState' => \A f \in changed : value'[f] = value[f]
    BY <1>e, <1>5
  <2> HIDE DEF changed
  <2> QED BY <1>n, <1>e, <1>5, <1>6, <2>1, NavFlagging
<1> QED BY <1>e, <1>h, <1>2, <1>5, <1>6, <1>7, <1>8 DEF Heeded, HandlerTypes

\* The heading: a true one only where there is no magnetic one, of which it may make one.
LEMMA Keeps127250 ==
  ASSUME HandlerTypes, NEW m, m.pgn = 127250, Handle127250(m)
  PROVE  Heeded(m)
<1> DEFINE variation == Or(m.variation, value.variation)
           magnetic == m.reference = "magnetic"
           taken == m.heading # NA /\ (magnetic \/ value.headingMagnetic = NA)
           heading == IF magnetic
                        THEN <<Or(Difference(m.heading, variation), value.headingTrue), m.heading>>
                        ELSE <<m.heading, Or(Plus(m.heading, variation), value.headingMagnetic)>>
           stamps == Heard("variation", m.variation) \cup (IF taken THEN {"heading"} ELSE {})
           turned == IF taken THEN heading[1] ELSE value["headingTrue"]
           steered == IF taken THEN heading[2] ELSE value["headingMagnetic"]
<1>h. Table(value, Fields) /\ dirtyNavState \in BOOLEAN /\ dirtyEngineState \in BOOLEAN
  BY DEF HandlerTypes
<1>l. last \in [Stamps -> Ages]
  BY DEF HandlerTypes
<1>n. /\ {"variation", "headingTrue", "headingMagnetic"} \subseteq Fields
      /\ {"variation", "heading"} \subseteq Stamps
  BY DEF Fields, NavFields, Stamps
<1>1. value' = [value EXCEPT !["variation"] = variation, !["headingTrue"] = turned,
                             !["headingMagnetic"] = steered]
  BY DEF Handle127250
<1>p. Stamp(stamps)
  BY DEF Handle127250
<1>2. last' \in [Stamps -> Ages] /\ \A s \in Stamps : last'[s] = IF s \in stamps THEN 0 ELSE last[s]
  <2> HIDE DEF stamps
  <2> QED BY <1>l, <1>p, Stamping
<1>5. /\ dirtyNavState' \in BOOLEAN
      /\ ~dirtyNavState' => /\ ~dirtyNavState /\ (m.variation # NA => value["variation"] = m.variation)
                            /\ magnetic => value["headingMagnetic"] = m.heading
  BY <1>h, Flags127250
<1>6. UNCHANGED dirtyEngineState
  BY DEF Handle127250
<1>t. /\ taken => m.heading # NA /\ (magnetic \/ value["headingMagnetic"] = NA)
      /\ magnetic => heading[2] = m.heading
  OBVIOUS
<1>b. \A s \in Stamps : /\ s \notin {"variation", "heading"} => last'[s] = last[s]
                        /\ ~taken /\ s = "heading" => last'[s] = last[s]
                        /\ m.variation = NA /\ s = "variation" => last'[s] = last[s]
  <2> HIDE DEF taken
  <2> QED BY <1>2 DEF Heard
<1> HIDE DEF taken, heading, stamps
<1>e. /\ Table(value', Fields) /\ value'["variation"] = Or(m.variation, value["variation"])
      /\ taken => value'["headingMagnetic"] = heading[2]
      /\ ~taken => value'["headingMagnetic"] = value["headingMagnetic"]
      /\ \A f \in Fields : f \notin {"variation", "headingTrue", "headingMagnetic"} => value'[f] = value[f]
  <2>1. variation = Or(m.variation, value["variation"])
    OBVIOUS
  <2>2. (taken => steered = heading[2]) /\ (~taken => steered = value["headingMagnetic"])
    OBVIOUS
  <2> HIDE DEF variation, turned, steered
  <2> DEFINE one == [value EXCEPT !["variation"] = variation]
             two == [one EXCEPT !["headingTrue"] = turned]
  <2>3. /\ Table(one, Fields) /\ one["variation"] = variation
        /\ \A f \in Fields : f # "variation" => one[f] = value[f]
    BY <1>h, <1>n DEF Table
  <2>4. value' = [two EXCEPT !["headingMagnetic"] = steered]
    BY <1>1
  <2> HIDE DEF one
  <2>5. /\ Table(two, Fields) /\ two["variation"] = one["variation"]
        /\ \A f \in Fields : f # "headingTrue" => two[f] = one[f]
    BY <2>3, <1>n DEF Table
  <2> HIDE DEF two
  <2>6. /\ Table(value', Fields) /\ value'["variation"] = two["variation"] /\ value'["headingMagnetic"] = steered
        /\ \A f \in Fields : f # "headingMagnetic" => value'[f] = two[f]
    BY <2>4, <2>5, <1>n DEF Table
  <2>7. /\ Table(value', Fields) /\ value'["variation"] = variation /\ value'["headingMagnetic"] = steered
        /\ \A f \in Fields : f \notin {"variation", "headingTrue", "headingMagnetic"} => value'[f] = value[f]
    BY <2>3, <2>5, <2>6
  <2> QED BY <2>1, <2>2, <2>7
<1>s. Sound(m, "variation", "variation")
  <2>1. m.variation # NA => Says(m, "variation")
    BY DEF Says
  <2> QED BY <2>1, <1>e, <1>b, <1>n DEF Sound, Or
<1>g. Sound(m, "headingMagnetic", "heading")
  <2>1. m.heading # NA => Says(m, "headingMagnetic")
    BY DEF Says
  <2> QED BY <2>1, <1>t, <1>e, <1>b, <1>n DEF Sound
<1>7. Stamped(m)
  <2>1. ASSUME NEW f \in OwnStamp  PROVE Sound(m, f, f)
    <3>1. f \in Fields /\ f \in Stamps /\ f \notin {"headingTrue", "headingMagnetic", "heading"}
      BY Names
    <3>2. CASE f = "variation"
      BY <3>2, <1>s
    <3>3. CASE f # "variation"
      BY <3>1, <3>3, <1>e, <1>b DEF Sound
    <3> QED BY <3>2, <3>3
  <2>2. last'["dynamic"] = last["dynamic"]
    BY Names, <1>b
  <2> QED BY <2>1, <2>2, <1>g DEF Stamped
<1>8. Flagged
  <2>1. \A f \in EngineFields : value'[f] = value[f]
    <3>1. EngineFields \cap {"variation", "headingTrue", "headingMagnetic"} = {}
      BY DEF EngineFields, Dynamic
    <3> QED BY <3>1, <1>e, Names
  <2>2. ASSUME ~dirtyNavState', NEW f \in NavShown
        PROVE  value'[f] = value[f] \/ (f = "headingMagnetic" /\ value[f] = NA)
    <3>0. f \in Fields /\ f # "headingTrue"
      BY Names
    <3>1. CASE f = "variation"
      BY <3>1, <2>2, <1>5, <1>e DEF Or
    <3>2. CASE f = "headingMagnetic"
      BY <3>2, <2>2, <1>5, <1>e, <1>t
    <3>3. CASE f \notin {"variation", "headingMagnetic"}
      BY <3>0, <3>3, <1>e
    <3> QED BY <3>1, <3>2, <3>3
  <2> QED BY <2>1, <2>2, <1>5, <1>6 DEF Flagged
<1> QED BY <1>e, <1>h, <1>2, <1>5, <1>6, <1>7, <1>8 DEF Heeded, HandlerTypes

\* What an engine message does to its fields.
LEMMA EngineKeeps ==
  ASSUME HandlerTypes, NEW m, NEW update, NEW stamps, EngineUpdate(update, stamps),
         DOMAIN update \subseteq EngineFields,
         \A f \in OwnStamp :
           \/ f \in DOMAIN update /\ (update[f] = NA \/ Says(m, f))
           \/ f \in DOMAIN update /\ update[f] = value[f] /\ f \notin stamps
           \/ f \notin DOMAIN update /\ f \notin stamps,
         "heading" \notin stamps, "dynamic" \in stamps => Says(m, "dynamic")
  PROVE  Heeded(m)
<1>h. Table(value, Fields) /\ dirtyNavState \in BOOLEAN /\ dirtyEngineState \in BOOLEAN
  BY DEF HandlerTypes
<1>l. last \in [Stamps -> Ages]
  BY DEF HandlerTypes
<1>1. value' = [f \in Fields |-> IF f \in DOMAIN update THEN update[f] ELSE value[f]]
  BY DEF EngineUpdate
<1>2. last' \in [Stamps -> Ages] /\ \A s \in Stamps : last'[s] = IF s \in stamps THEN 0 ELSE last[s]
  BY <1>l, Stamping DEF EngineUpdate
<1>3. dirtyEngineState' = TRUE /\ UNCHANGED dirtyNavState
  BY EngineFlag DEF EngineUpdate
<1>e. Table(value', Fields)
  BY <1>1 DEF Table
<1>4. \A f \in OwnStamp : Sound(m, f, f)
  BY <1>1, <1>2, Names DEF Sound
<1>5. Sound(m, "headingMagnetic", "heading")
  BY <1>1, <1>2, Names DEF Sound
<1>6. Says(m, "dynamic") \/ last'["dynamic"] = last["dynamic"]
  BY <1>2, Names
<1>7. \A f \in NavShown : value'[f] = value[f]
  BY <1>1, Names
<1>8. Flagged
  BY <1>3, <1>7 DEF Flagged
<1> QED BY <1>e, <1>h, <1>2, <1>3, <1>4, <1>5, <1>6, <1>8 DEF Heeded, HandlerTypes, Stamped

\* The engine's messages.
LEMMA Keeps127488 ==
  ASSUME HandlerTypes, NEW m, m.pgn = 127488, Handle127488(m)
  PROVE  Heeded(m)
<1> DEFINE update == [rpm |-> UpdateWithTimeout("rpm", m.rpm)]
           stamps == Heard("rpm", m.rpm)
<1>1. EngineUpdate(update, stamps)
  BY DEF Handle127488
<1>2. DOMAIN update = {"rpm"} /\ update["rpm"] = UpdateWithTimeout("rpm", m.rpm)
  OBVIOUS
<1>3. m.rpm # NA => Says(m, "rpm")
  BY DEF Says
<1>4. m.rpm = NA => stamps = {}
  BY DEF Heard
<1>8. \A s : s \in stamps => s = "rpm"
  BY DEF Heard
<1>5. update["rpm"] = NA \/ Says(m, "rpm") \/ (update["rpm"] = value["rpm"] /\ "rpm" \notin stamps)
  BY <1>2, <1>3, <1>4 DEF UpdateWithTimeout
<1>6. DOMAIN update \subseteq EngineFields
  BY <1>2 DEF EngineFields
<1> HIDE DEF update, stamps
<1>7. ASSUME NEW f \in OwnStamp
      PROVE  \/ f \in DOMAIN update /\ (update[f] = NA \/ Says(m, f))
             \/ f \in DOMAIN update /\ update[f] = value[f] /\ f \notin stamps
             \/ f \notin DOMAIN update /\ f \notin stamps
  <2>1. CASE f = "rpm"
    BY <2>1, <1>2, <1>5
  <2>2. CASE f # "rpm"
    <3>1. f \notin stamps
      BY <2>2, <1>8
    <3>2. f \notin DOMAIN update
      BY <2>2, <1>2
    <3> QED BY <3>1, <3>2
  <2> QED BY <2>1, <2>2
<1> QED BY <1>1, <1>8, <1>6, <1>7, EngineKeeps

\* The dynamic parameters of the engine share a stamp.
LEMMA Keeps127489 ==
  ASSUME HandlerTypes, NEW m, m.pgn = 127489, Handle127489(m)
  PROVE  Heeded(m)
<1> DEFINE update == [f \in Dynamic \cup {"coolantTemp", "status"} |->
                        IF f = "coolantTemp" THEN UpdateWithTimeout(f, m.coolantTemp)
                        ELSE IF f = "status" THEN m.status
                        ELSE Or(m.dynamic, value[f])]
           stamps == Heard("coolantTemp", m.coolantTemp) \cup {"dynamic"}
<1>1. EngineUpdate(update, stamps)
  BY DEF Handle127489
<1>2. DOMAIN update = Dynamic \cup {"coolantTemp", "status"}
  OBVIOUS
<1>3. Says(m, "dynamic")
  BY DEF Says
<1>4. \A s : s \in stamps => s \in {"coolantTemp", "dynamic"}
  BY DEF Heard
<1> HIDE DEF update, stamps
<1>5. DOMAIN update \subseteq EngineFields
  BY <1>2 DEF EngineFields
<1>6. (Dynamic \cup {"coolantTemp", "status", "dynamic"}) \cap OwnStamp = {}
  BY DEF OwnStamp, Dynamic
<1>7. ASSUME NEW f \in OwnStamp  PROVE f \notin DOMAIN update /\ f \notin stamps
  <2>1. f \notin Dynamic \cup {"coolantTemp", "status", "dynamic"}
    BY <1>6
  <2>2. f \notin stamps
    BY <2>1, <1>4
  <2> QED BY <2>1, <2>2, <1>2
<1> QED BY <1>1, <1>3, <1>4, <1>5, <1>7, EngineKeeps

\* One reading of the engine that is taken as it is.
LEMMA OneReading ==
  ASSUME HandlerTypes, NEW m, NEW f \in {"exhaustTemp", "engineRoomTemp", "fuelLevel", "engineBattVolts"},
         NEW update, DOMAIN update = {f}, update[f] = NA \/ Says(m, f), EngineUpdate(update, {f})
  PROVE  Heeded(m)
<1>1. DOMAIN update \subseteq EngineFields
  BY DEF EngineFields
<1>2. PICK stamps : stamps = {f}
  OBVIOUS
<1>3. "heading" \notin stamps /\ "dynamic" \notin stamps /\ EngineUpdate(update, stamps)
  BY <1>2
<1>4. \A g \in OwnStamp :
           \/ g \in DOMAIN update /\ (update[g] = NA \/ Says(m, g))
           \/ g \in DOMAIN update /\ update[g] = value[g] /\ g \notin stamps
           \/ g \notin DOMAIN update /\ g \notin stamps
  BY <1>2
<1> QED BY <1>1, <1>3, <1>4, EngineKeeps

\* The fuel level.
LEMMA KeepsFuel ==
  ASSUME HandlerTypes, NEW m, m.pgn = 127505, Handle127505(m)
  PROVE  Heeded(m)
<1> DEFINE update == [g \in {"fuelLevel"} |-> m.fuelLevel]
<1>1. m.fuelLevel # NA /\ EngineUpdate(update, {"fuelLevel"})
  BY DEF Handle127505, HandleKnown
<1>2. Says(m, "fuelLevel")
  BY <1>1 DEF Says
<1>3. DOMAIN update = {"fuelLevel"}
  OBVIOUS
<1> HIDE DEF update
<1> QED BY <1>1, <1>2, <1>3, OneReading

\* The voltage of the cranking battery.
LEMMA KeepsCranking ==
  ASSUME HandlerTypes, NEW m, m.pgn = 127508, Handle127508(m)
  PROVE  Heeded(m)
<1> DEFINE update == [g \in {"engineBattVolts"} |-> m.engineBattVolts]
<1>1. m.engineBattVolts # NA /\ EngineUpdate(update, {"engineBattVolts"})
  BY DEF Handle127508, HandleKnown
<1>2. Says(m, "engineBattVolts")
  BY <1>1 DEF Says
<1>3. DOMAIN update = {"engineBattVolts"}
  OBVIOUS
<1> HIDE DEF update
<1> QED BY <1>1, <1>2, <1>3, OneReading

\* A temperature, of the exhaust or of the engine room.
LEMMA KeepsTemperature ==
  ASSUME HandlerTypes, NEW m, m.pgn \in {130312, 130316}, HandleTemperature(m),
         m.source \in {"exhaustTemp", "engineRoomTemp"}
  PROVE  Heeded(m)
<1> DEFINE update == [g \in {m.source} |-> m.temperature]
<1>1. EngineUpdate(update, {m.source})
  BY DEF HandleTemperature
<1>2. m.temperature = NA \/ Says(m, m.source)
  BY DEF Says
<1>3. DOMAIN update = {m.source} /\ update[m.source] = m.temperature
  OBVIOUS
<1> HIDE DEF update
<1> QED BY <1>1, <1>2, <1>3, OneReading

\* Whatever the message, the handler heeds it.
LEMMA HandleKeeps ==
  ASSUME HandlerTypes, NEW m, Handle(m),
         m.pgn \in {130312, 130316} => m.source \in {"exhaustTemp", "engineRoomTemp"}
  PROVE  Heeded(m)
<1>1. \/ m.pgn = 127250 /\ Handle127250(m)
      \/ m.pgn = 127257 /\ Handle127257(m)
      \/ m.pgn = 127258 /\ Handle127258(m)
      \/ m.pgn = 127488 /\ Handle127488(m)
      \/ m.pgn = 127489 /\ Handle127489(m)
      \/ m.pgn = 127505 /\ Handle127505(m)
      \/ m.pgn = 127508 /\ Handle127508(m)
      \/ m.pgn = 128259 /\ Handle128259(m)
      \/ m.pgn = 128267 /\ Handle128267(m)
      \/ m.pgn = 128275 /\ Handle128275(m)
      \/ m.pgn = 129025 /\ Handle129025(m)
      \/ m.pgn = 129026 /\ Handle129026(m)
      \/ m.pgn = 129029 /\ Handle129029(m)
      \/ m.pgn = 130306 /\ Handle130306(m)
      \/ m.pgn \in {130312, 130316} /\ HandleTemperature(m)
  BY DEF Handle
<1> QED BY <1>1, Keeps127250, Keeps127257, Keeps127258, Keeps127488, Keeps127489, KeepsFuel, KeepsCranking,
           Keeps128259, Keeps128267, Keeps128275, Keeps129025, Keeps129026, Keeps129029,
           Keeps130306, KeepsTemperature

----------------------------------------------------------------------------
(* The loop. *)

BoatTypes ==
  /\ HandlerTypes
  /\ scenario \in Scenarios
  /\ heard \in [HeardFields -> Ages]
  /\ lag \in Nat
  /\ Table(buffer, Characteristics)

\* A reading that is kept was heard when its stamp says, or since.
HeardSound ==
  /\ \A f \in OwnStamp : value[f] # NA => heard[f] <= last[f]
  /\ value["headingMagnetic"] # NA => heard["headingMagnetic"] <= last["heading"]
  /\ heard["dynamic"] <= last["dynamic"]

\* What the engine characteristic shows of it, when it is not dirty.
EngineFlagged ==
  ~dirtyEngineState => \A f \in EngineFields : buffer["engine"][f] = value[f]

BoatInv ==
  BoatTypes /\ HeardSound /\ EngineFlagged /\ ChangesFlagged /\ NavFresh /\ EngineFresh

\* What the nav characteristic shows but for cog.
LEMMA ShownNav ==
  /\ \A v : (DOMAIN NavState(v)) \ {"cog"} = NavShown
  /\ \A v : \A f \in NavShown : NavState(v)[f] = v[f]
  /\ \A v : \A f \in EngineFields : EngineState(v)[f] = v[f]
BY DEF NavState, NavShown, NavFields, EngineState

\* The nav and the engine are among what is published.
LEMMA Published == {"nav", "engine"} \subseteq Characteristics
<1>1. Order[1] = "nav" /\ Order[2] = "engine" /\ 1 \in DOMAIN Order /\ 2 \in DOMAIN Order
  BY DEF Order
<1> QED BY <1>1 DEF Characteristics, ToSet

\* Ages are numbers.
LEMMA AgesAre ==
  ASSUME NEW a \in Ages
  PROVE  a \in Int /\ 0 <= a /\ a <= Forgotten
BY Times DEF Ages

\* The parts of the invariant about what BLE shows.
LEMMA Parts ==
  /\ ChangesFlagged <=>
       (~dirtyNavState /\ buffer["nav"] # Zeros =>
          \A f \in NavShown :
            \/ buffer["nav"][f] = value[f]
            \/ f = "headingMagnetic" /\ buffer["nav"][f] = NA)
  /\ NavFresh <=>
       (buffer["nav"] # Zeros =>
          \A f \in NavShown : buffer["nav"][f] # NA => heard[f] <= NavTimeout + lag)
BY ShownNav DEF ChangesFlagged, NavFresh, NavBle

\* The same of the next state.
LEMMA PartsNext ==
  /\ ChangesFlagged' <=>
       (~dirtyNavState' /\ buffer'["nav"] # Zeros =>
          \A f \in NavShown :
            \/ buffer'["nav"][f] = value'[f]
            \/ f = "headingMagnetic" /\ buffer'["nav"][f] = NA)
  /\ NavFresh' <=>
       (buffer'["nav"] # Zeros =>
          \A f \in NavShown : buffer'["nav"][f] # NA => heard'[f] <= NavTimeout + lag')
<1>1. NavBle' \ {"cog"} = NavShown /\ \A f \in NavShown : NavState(value)'[f] = value'[f]
  BY ShownNav DEF NavBle
<1> QED BY <1>1 DEF ChangesFlagged, NavFresh

\* What is shown of the boat is heard of, and has a stamp.
LEMMA NavHeard == NavShown \subseteq HeardFields /\ NavShown \subseteq OwnStamp \cup {"headingMagnetic"}
BY DEF NavShown, NavFields, HeardFields, OwnStamp

\* A step after which no field was heard longer ago shows nothing older.
LEMMA NothingOlder ==
  ASSUME BoatInv, UNCHANGED <<buffer, lag>>, heard' \in [HeardFields -> Ages],
         \A f \in HeardFields : heard'[f] = 0 \/ heard'[f] = heard[f]
  PROVE  NavFresh' /\ EngineFresh'
<1>1. lag \in Nat /\ heard \in [HeardFields -> Ages]
  BY DEF BoatInv, BoatTypes
<1>2. NavFresh'
  <2>1. ASSUME buffer["nav"] # Zeros, NEW f \in NavShown, buffer["nav"][f] # NA
        PROVE  heard'[f] <= NavTimeout + lag
    <3>1. heard[f] <= NavTimeout + lag
      BY <2>1, Parts DEF BoatInv
    <3>2. 0 <= NavTimeout + lag
      BY <1>1, Times
    <3> QED BY <3>1, <3>2, NavHeard
  <2> QED BY <2>1, PartsNext
<1>3. EngineFresh'
  <2>1. ASSUME NEW f \in EngineFields, buffer["engine"][f] # NA
        PROVE  IF f = "rpm" THEN heard'["rpm"] <= FastTimeout + lag
               ELSE IF f \in Dynamic \cup {"coolantTemp", "status"}
                 THEN heard'["dynamic"] <= FastTimeout + lag
               ELSE heard'[f] <= SlowTimeout + lag
    <3>1. IF f = "rpm" THEN heard["rpm"] <= FastTimeout + lag
          ELSE IF f \in Dynamic \cup {"coolantTemp", "status"}
            THEN heard["dynamic"] <= FastTimeout + lag
          ELSE heard[f] <= SlowTimeout + lag
      BY <2>1 DEF BoatInv, EngineFresh
    <3>2. 0 <= FastTimeout + lag /\ 0 <= SlowTimeout + lag
      BY <1>1, Times
    <3>3. f \in HeardFields /\ "rpm" \in HeardFields /\ "dynamic" \in HeardFields
      BY DEF HeardFields, EngineFields
    <3> QED BY <3>1, <3>2, <3>3
  <2> QED BY <2>1 DEF EngineFresh
<1> QED BY <1>2, <1>3

\* A message.
LEMMA ReceiveKeeps ==
  ASSUME BoatInv, NEW m, Receive(m)
  PROVE  BoatInv'
<1>t. BoatTypes /\ HeardSound /\ EngineFlagged /\ ChangesFlagged
  BY DEF BoatInv
<1>1. Mapped(m)
  <2>1. scenario \in Scenarios /\ m \in scenario.messages
    BY <1>t DEF Receive, BoatTypes
  <2>2. \A s \in Scenarios : \A x \in s.messages : Mapped(x)
    BY ScenarioAssumption
  <2> QED BY <2>1, <2>2
<1>2. Handle(m) /\ UNCHANGED <<buffer, lag, scenario>>
  BY DEF Receive, publishVars, bufferVars, sourceVars
<1>3. Heeded(m)
  BY <1>1, <1>2, <1>t, HandleKeeps DEF BoatTypes, Mapped
<1>4. heard' = [f \in HeardFields |-> IF Says(m, f) THEN 0 ELSE heard[f]]
  BY <1>t DEF Receive, BoatTypes
<1>5. heard \in [HeardFields -> Ages] /\ last \in [Stamps -> Ages] /\ last' \in [Stamps -> Ages]
  BY <1>t, <1>3 DEF BoatTypes, HandlerTypes, Heeded
<1>z. 0 \in Ages
  BY Times DEF Ages
<1>6. /\ heard' \in [HeardFields -> Ages]
      /\ \A f \in HeardFields : heard'[f] = IF Says(m, f) THEN 0 ELSE heard[f]
  BY <1>4, <1>5, <1>z
<1>7. BoatTypes'
  BY <1>t, <1>2, <1>3, <1>6 DEF BoatTypes, Heeded
<1>8. HeardSound'
  <2>0. \A s \in Stamps : last'[s] \in Int /\ 0 <= last'[s]
    BY <1>5, AgesAre
  <2>1. ASSUME NEW f \in OwnStamp, value'[f] # NA  PROVE heard'[f] <= last'[f]
    <3>1. Sound(m, f, f)
      BY <1>3 DEF Heeded, Stamped
    <3>2. CASE Says(m, f)
      BY <3>2, <1>6, <2>0, Names
    <3>3. CASE ~Says(m, f)
      BY <2>1, <3>1, <3>3, <1>6, <1>t, Names DEF Sound, HeardSound
    <3> QED BY <3>2, <3>3
  <2>2. ASSUME value'["headingMagnetic"] # NA  PROVE heard'["headingMagnetic"] <= last'["heading"]
    <3>1. Sound(m, "headingMagnetic", "heading")
      BY <1>3 DEF Heeded, Stamped
    <3>2. CASE Says(m, "headingMagnetic")
      BY <3>2, <1>6, <2>0, Names
    <3>3. CASE ~Says(m, "headingMagnetic")
      BY <2>2, <3>1, <3>3, <1>6, <1>t, Names DEF Sound, HeardSound
    <3> QED BY <3>2, <3>3
  <2>3. heard'["dynamic"] <= last'["dynamic"]
    <3>1. Says(m, "dynamic") \/ last'["dynamic"] = last["dynamic"]
      BY <1>3 DEF Heeded, Stamped
    <3>2. CASE Says(m, "dynamic")
      BY <3>2, <1>6, <2>0, Names
    <3>3. CASE ~Says(m, "dynamic")
      BY <3>1, <3>3, <1>6, <1>t, Names DEF HeardSound
    <3> QED BY <3>2, <3>3
  <2> QED BY <2>1, <2>2, <2>3 DEF HeardSound
<1>9. EngineFlagged'
  BY <1>t, <1>2, <1>3 DEF EngineFlagged, Heeded, Flagged
<1>a. ChangesFlagged'
  <2>1. ASSUME ~dirtyNavState', buffer["nav"] # Zeros, NEW f \in NavShown
        PROVE  buffer["nav"][f] = value'[f] \/ (f = "headingMagnetic" /\ buffer["nav"][f] = NA)
    <3>1. ~dirtyNavState /\ (value'[f] = value[f] \/ (f = "headingMagnetic" /\ value[f] = NA))
      BY <2>1, <1>3 DEF Heeded, Flagged
    <3>2. buffer["nav"][f] = value[f] \/ (f = "headingMagnetic" /\ buffer["nav"][f] = NA)
      BY <2>1, <3>1, <1>t, Parts
    <3> QED BY <3>1, <3>2
  <2> QED BY <2>1, <1>2, PartsNext
<1>b. NavFresh' /\ EngineFresh'
  BY <1>2, <1>6, NothingOlder
<1> QED BY <1>7, <1>8, <1>9, <1>a, <1>b DEF BoatInv

\* Steps that are none of the handler's, nor of the buffers'.
LEMMA OthersKeep ==
  ASSUME BoatInv, UNCHANGED <<handlerVars, scenario, heard, lag, buffer>>
  PROVE  BoatInv'
<1>1. UNCHANGED <<value, last, dirtyNavState, dirtyEngineState>>
  BY DEF handlerVars
<1>2. BoatTypes' /\ HeardSound' /\ EngineFlagged'
  BY <1>1 DEF BoatInv, BoatTypes, HandlerTypes, HeardSound, EngineFlagged
<1>3. ChangesFlagged'
  BY <1>1, Parts, PartsNext DEF BoatInv
<1>4. NavFresh' /\ EngineFresh'
  BY NothingOlder DEF BoatInv, BoatTypes
<1> QED BY <1>2, <1>3, <1>4 DEF BoatInv

\* Time.
LEMMA TickKeeps ==
  ASSUME BoatInv, Tick
  PROVE  BoatInv'
<1>t. BoatTypes /\ HeardSound /\ EngineFlagged /\ ChangesFlagged /\ NavFresh /\ EngineFresh
  BY DEF BoatInv
<1>1. /\ UNCHANGED <<value, dirtyNavState, dirtyEngineState, buffer, scenario>>
      /\ lag' = lag + 1
      /\ last' = [s \in Stamps |-> IF last[s] = Forgotten THEN Forgotten ELSE last[s] + 1]
      /\ heard' = [f \in HeardFields |-> IF heard[f] = Forgotten THEN Forgotten ELSE heard[f] + 1]
  BY <1>t DEF Tick, Clock, PublishClock, bufferVars, sourceVars, BoatTypes
<1>2. heard \in [HeardFields -> Ages] /\ last \in [Stamps -> Ages] /\ lag \in Nat
  BY <1>t DEF BoatTypes, HandlerTypes
<1>3. ASSUME NEW a \in Ages  PROVE (IF a = Forgotten THEN Forgotten ELSE a + 1) \in Ages
  BY Times DEF Ages
<1>4. heard' \in [HeardFields -> Ages] /\ last' \in [Stamps -> Ages]
  BY <1>1, <1>2, <1>3
<1>5. BoatTypes'
  BY <1>1, <1>2, <1>4, <1>t DEF BoatTypes, HandlerTypes
<1>6. ASSUME NEW f \in HeardFields, NEW s \in Stamps, heard[f] <= last[s]  PROVE heard'[f] <= last'[s]
  <2>1. heard[f] \in Ages /\ last[s] \in Ages
    BY <1>2
  <2>2. /\ heard'[f] = IF heard[f] = Forgotten THEN Forgotten ELSE heard[f] + 1
        /\ last'[s] = IF last[s] = Forgotten THEN Forgotten ELSE last[s] + 1
    BY <1>1
  <2>3. /\ heard[f] \in Int /\ last[s] \in Int /\ Forgotten \in Int
        /\ heard[f] <= Forgotten /\ last[s] <= Forgotten
    BY <2>1, AgesAre, Times
  <2> QED BY <1>6, <2>2, <2>3
<1>7. HeardSound'
  <2>1. \A f \in OwnStamp : value'[f] # NA => heard'[f] <= last'[f]
    BY <1>6, <1>1, <1>t, Names DEF HeardSound
  <2>2. value'["headingMagnetic"] # NA => heard'["headingMagnetic"] <= last'["heading"]
    BY <1>6, <1>1, <1>t, Names DEF HeardSound
  <2>3. heard'["dynamic"] <= last'["dynamic"]
    BY <1>6, <1>t, Names DEF HeardSound
  <2> QED BY <2>1, <2>2, <2>3 DEF HeardSound
<1>8. EngineFlagged'
  BY <1>1, <1>t DEF EngineFlagged
<1>9. ChangesFlagged'
  BY <1>1, <1>t, Parts, PartsNext
<1>a. ASSUME NEW f \in HeardFields, NEW t \in Nat, heard[f] <= t + lag  PROVE heard'[f] <= t + lag'
  <2>1. heard[f] \in Ages
    BY <1>2
  <2>2. heard'[f] = IF heard[f] = Forgotten THEN Forgotten ELSE heard[f] + 1
    BY <1>1
  <2>3. heard[f] \in Int
    BY <2>1, AgesAre
  <2> QED BY <1>a, <2>2, <2>3, <1>1, <1>2
<1>b. NavFresh'
  BY <1>a, <1>1, <1>t, Parts, PartsNext, NavHeard, Times
<1>c. EngineFresh'
  <2>1. ASSUME NEW f \in EngineFields, buffer["engine"][f] # NA
        PROVE  IF f = "rpm" THEN heard'["rpm"] <= FastTimeout + lag'
               ELSE IF f \in Dynamic \cup {"coolantTemp", "status"}
                 THEN heard'["dynamic"] <= FastTimeout + lag'
               ELSE heard'[f] <= SlowTimeout + lag'
    <3>1. IF f = "rpm" THEN heard["rpm"] <= FastTimeout + lag
          ELSE IF f \in Dynamic \cup {"coolantTemp", "status"}
            THEN heard["dynamic"] <= FastTimeout + lag
          ELSE heard[f] <= SlowTimeout + lag
      BY <2>1, <1>t DEF EngineFresh
    <3>3. f \in HeardFields /\ "rpm" \in HeardFields /\ "dynamic" \in HeardFields
      BY DEF HeardFields, EngineFields
    <3> QED BY <3>1, <3>3, <1>a, Times
  <2> QED BY <2>1, <1>1 DEF EngineFresh
<1> QED BY <1>5, <1>7, <1>8, <1>9, <1>b, <1>c DEF BoatInv

\* A reading that survives the expiry was heard within its time-out.
LEMMA NavSurvives ==
  ASSUME BoatInv, NEW f \in NavShown, value[f] # NA, f \notin StaleNav
  PROVE  heard[f] <= NavTimeout
<1>1. /\ last \in [Stamps -> Ages] /\ heard \in [HeardFields -> Ages]
      /\ NavTimeout \in Int
  BY Times DEF BoatInv, BoatTypes, HandlerTypes
<1>2. CASE f = "headingMagnetic"
  <2>1. ~(last["heading"] > NavTimeout)
    BY <1>2 DEF StaleNav, Age
  <2>2. last["heading"] \in Int
    BY <1>1, Names, AgesAre
  <2>3. heard[f] <= last["heading"]
    BY <1>2 DEF BoatInv, HeardSound
  <2>4. heard[f] \in Int
    BY <1>1, <1>2, Names, AgesAre
  <2> QED BY <1>1, <2>1, <2>2, <2>3, <2>4
<1>3. CASE f # "headingMagnetic"
  <2>0. f \in OwnStamp /\ f \in NavFields /\ f \in HeardFields /\ f \in Stamps
    BY <1>3, NavHeard, Names
  <2>1. ~(last[f] > NavTimeout)
    BY <1>3, <2>0 DEF StaleNav, Age
  <2>2. last[f] \in Int /\ heard[f] \in Int
    BY <1>1, <2>0, AgesAre
  <2>3. heard[f] <= last[f]
    BY <2>0 DEF BoatInv, HeardSound
  <2> QED BY <1>1, <2>1, <2>2, <2>3
<1> QED BY <1>2, <1>3

\* The same of the engine, each field by the stamp it has.
LEMMA EngineSurvives ==
  ASSUME BoatInv, NEW f \in EngineFields, value[f] # NA, f \notin StaleEngine
  PROVE  IF f = "rpm" THEN heard["rpm"] <= FastTimeout
         ELSE IF f \in Dynamic \cup {"coolantTemp", "status"} THEN heard["dynamic"] <= FastTimeout
         ELSE heard[f] <= SlowTimeout
<1>1. /\ last \in [Stamps -> Ages] /\ heard \in [HeardFields -> Ages]
      /\ FastTimeout \in Int /\ SlowTimeout \in Int
  BY Times DEF BoatInv, BoatTypes, HandlerTypes
<1>2. CASE f = "rpm"
  <2>0. "rpm" \in OwnStamp /\ "rpm" \in Stamps /\ "rpm" \in HeardFields
    BY Names DEF OwnStamp
  <2>1. ~(last["rpm"] > FastTimeout)
    BY <1>2 DEF StaleEngine, Age
  <2>2. last["rpm"] \in Int /\ heard["rpm"] \in Int
    BY <1>1, <2>0, AgesAre
  <2>3. heard["rpm"] <= last["rpm"]
    BY <1>2, <2>0 DEF BoatInv, HeardSound
  <2> QED BY <1>1, <1>2, <2>1, <2>2, <2>3
<1>3. CASE f # "rpm" /\ f \in Dynamic \cup {"coolantTemp", "status"}
  <2>1. ~(last["dynamic"] > FastTimeout)
    BY <1>3 DEF StaleEngine, Age
  <2>2. last["dynamic"] \in Int /\ heard["dynamic"] \in Int
    BY <1>1, Names, AgesAre
  <2>3. heard["dynamic"] <= last["dynamic"]
    BY DEF BoatInv, HeardSound
  <2> QED BY <1>1, <1>3, <2>1, <2>2, <2>3
<1>4. CASE f # "rpm" /\ f \notin Dynamic \cup {"coolantTemp", "status"}
  <2>0. f \in {"exhaustTemp", "engineRoomTemp", "engineBattVolts", "fuelLevel"}
    BY <1>4 DEF EngineFields
  <2>a. f \in OwnStamp /\ f \in Stamps /\ f \in HeardFields
    BY <2>0, Names DEF OwnStamp
  <2>1. ~(last[f] > SlowTimeout)
    BY <2>0 DEF StaleEngine, Age
  <2>2. last[f] \in Int /\ heard[f] \in Int
    BY <1>1, <2>a, AgesAre
  <2>3. heard[f] <= last[f]
    BY <2>a DEF BoatInv, HeardSound
  <2> QED BY <1>1, <1>4, <2>1, <2>2, <2>3
<1> QED BY <1>2, <1>3, <1>4

\* What setNavState() and setEngineState() leave in the buffers.
LEMMA Stored ==
  ASSUME SetStates(Called, Contents)
  PROVE  /\ Table(buffer', Characteristics)
         /\ buffer'["nav"] = IF NavDirty THEN NavState(value') ELSE buffer["nav"]
         /\ buffer'["engine"] = IF EngineDirty THEN EngineState(value') ELSE buffer["engine"]
<1>1. buffer' = [c \in Characteristics |-> IF c \in Called THEN Contents[c] ELSE buffer[c]]
  BY DEF SetStates
<1>2. ("nav" \in Called <=> NavDirty) /\ ("engine" \in Called <=> EngineDirty)
  BY Published DEF Called
<1>3. Contents["nav"] = NavState(value') /\ Contents["engine"] = EngineState(value')
  BY Published DEF Contents
<1>4. Table(buffer', Characteristics)
  BY <1>1 DEF Table
<1>5. \A c \in Characteristics : buffer'[c] = IF c \in Called THEN Contents[c] ELSE buffer[c]
  BY <1>1
<1> QED BY <1>2, <1>3, <1>4, <1>5, Published

\* The end of a pass of the loop.
LEMMA PublishKeeps ==
  ASSUME BoatInv, Publish
  PROVE  BoatInv'
<1>t. BoatTypes /\ HeardSound /\ EngineFlagged /\ ChangesFlagged /\ NavFresh /\ EngineFresh
  BY DEF BoatInv
<1>1. /\ value' = Expired /\ dirtyNavState' = FALSE /\ dirtyEngineState' = FALSE
      /\ lag' = 0 /\ UNCHANGED <<last, scenario, heard>>
  BY DEF Publish
<1>2. /\ Table(buffer', Characteristics)
      /\ buffer'["nav"] = IF NavDirty THEN NavState(value') ELSE buffer["nav"]
      /\ buffer'["engine"] = IF EngineDirty THEN EngineState(value') ELSE buffer["engine"]
  BY Stored DEF Publish
<1>3. Table(value', Fields)
  BY <1>1 DEF Expired, Table
<1>4. \A f \in Fields : value'[f] = IF f \in StaleNav \cup StaleEngine THEN NA ELSE value[f]
  BY <1>1 DEF Expired
<1>5. BoatTypes'
  BY <1>t, <1>1, <1>2, <1>3 DEF BoatTypes, HandlerTypes
<1>6. HeardSound'
  <2>1. \A f \in Fields : value'[f] # NA => value[f] # NA
    BY <1>4
  <2> QED BY <2>1, <1>1, <1>t, Names DEF HeardSound
<1>7. StaleEngine \subseteq EngineFields
  BY DEF StaleEngine, EngineFields, Dynamic
<1>8. StaleNav \cap EngineFields = {}
  <2>1. StaleNav \subseteq NavFields \cup {"headingTrue"}
    BY DEF StaleNav, NavFields
  <2> QED BY <2>1, Names
<1>n. NavShown \subseteq Fields /\ NavShown \cap EngineFields = {}
  BY Names
<1>9. ASSUME NEW f \in NavShown, value'[f] # NA  PROVE heard[f] <= NavTimeout
  <2>1. value[f] # NA /\ f \notin StaleNav
    BY <1>4, <1>9, <1>n
  <2> QED BY <2>1, NavSurvives
<1>a. ASSUME NEW f \in NavShown
      PROVE  \/ buffer'["nav"] = Zeros
             \/ buffer'["nav"][f] = value'[f]
             \/ f = "headingMagnetic" /\ buffer'["nav"][f] = NA
  <2>1. CASE NavDirty
    BY <2>1, <1>2, ShownNav
  <2>2. CASE ~NavDirty
    <3>1. ~dirtyNavState /\ StaleNav = {} /\ buffer'["nav"] = buffer["nav"]
      BY <2>2, <1>2 DEF NavDirty
    <3>2. value'[f] = value[f]
      BY <3>1, <1>4, <1>7, <1>n
    <3> QED BY <3>1, <3>2, <1>t, Parts
  <2> QED BY <2>1, <2>2
<1>b. ChangesFlagged'
  BY <1>a, PartsNext
<1>c. NavFresh'
  <2>1. ASSUME buffer'["nav"] # Zeros, NEW f \in NavShown, buffer'["nav"][f] # NA
        PROVE  heard'[f] <= NavTimeout + lag'
    <3>1. heard[f] <= NavTimeout
      BY <2>1, <1>a, <1>9
    <3> QED BY <3>1, <1>1, Times
  <2> QED BY <2>1, PartsNext
<1>d. ASSUME NEW f \in EngineFields  PROVE buffer'["engine"][f] = value'[f]
  <2>1. CASE EngineDirty
    BY <2>1, <1>2, ShownNav
  <2>2. CASE ~EngineDirty
    <3>1. /\ ~dirtyEngineState /\ (f \in StaleEngine => value[f] = NA)
          /\ buffer'["engine"] = buffer["engine"]
      BY <2>2, <1>2 DEF EngineDirty
    <3>2. buffer["engine"][f] = value[f]
      BY <3>1, <1>t DEF EngineFlagged
    <3>3. f \in Fields /\ f \notin StaleNav
      BY <1>8, Names
    <3> QED BY <3>1, <3>2, <3>3, <1>4
  <2> QED BY <2>1, <2>2
<1>e. EngineFlagged'
  BY <1>d DEF EngineFlagged
<1>f. EngineFresh'
  <2>1. ASSUME NEW f \in EngineFields, buffer'["engine"][f] # NA
        PROVE  IF f = "rpm" THEN heard'["rpm"] <= FastTimeout + lag'
               ELSE IF f \in Dynamic \cup {"coolantTemp", "status"}
                 THEN heard'["dynamic"] <= FastTimeout + lag'
               ELSE heard'[f] <= SlowTimeout + lag'
    <3>1. value'[f] # NA
      BY <2>1, <1>d
    <3>2. value[f] # NA /\ f \notin StaleEngine
      BY <3>1, <1>4, Names
    <3>3. IF f = "rpm" THEN heard["rpm"] <= FastTimeout
          ELSE IF f \in Dynamic \cup {"coolantTemp", "status"} THEN heard["dynamic"] <= FastTimeout
          ELSE heard[f] <= SlowTimeout
      BY <3>2, EngineSurvives
    <3> QED BY <3>3, <1>1, Times
  <2> QED BY <2>1 DEF EngineFresh
<1> QED BY <1>5, <1>6, <1>b, <1>c, <1>e, <1>f DEF BoatInv

----------------------------------------------------------------------------
(* The boat as it begins, and each of its steps. *)

\* Nothing has been heard, and nothing is shown.
LEMMA BoatBegins ==
  ASSUME Init
  PROVE  BoatInv
<1>1. /\ scenario \in Scenarios /\ value = [f \in Fields |-> NA] /\ lag = 0
      /\ last = [s \in Stamps |-> Forgotten] /\ heard = [f \in HeardFields |-> Forgotten]
      /\ dirtyNavState \in BOOLEAN /\ dirtyEngineState \in BOOLEAN
      /\ buffer = [c \in Characteristics |->
                     IF c = "engine" THEN EngineState([f \in Fields |-> NA]) ELSE Zeros]
  BY DEF Init, HandlerInit, PublishInit, HeardFields
<1>2. Forgotten \in Ages
  BY Times DEF Ages
<1>3. buffer["nav"] = Zeros /\ \A f \in EngineFields : buffer["engine"][f] = NA
  BY <1>1, Published, ShownNav, Names
<1>4. BoatTypes
  BY <1>1, <1>2 DEF BoatTypes, HandlerTypes, Table
<1>5. HeardSound
  BY <1>1, Names, Times DEF HeardSound
<1>6. EngineFlagged
  BY <1>1, <1>3, Names DEF EngineFlagged
<1>7. ChangesFlagged /\ NavFresh
  BY <1>3, Parts
<1>8. EngineFresh
  BY <1>3 DEF EngineFresh
<1> QED BY <1>4, <1>5, <1>6, <1>7, <1>8 DEF BoatInv

\* Every step keeps what is shown sound.
LEMMA BoatStep ==
  ASSUME BoatInv, [Next]_vars
  PROVE  BoatInv'
<1>1. ASSUME NEW m \in scenario.messages, Receive(m)  PROVE BoatInv'
  BY <1>1, ReceiveKeeps
<1>2. ASSUME NEW field \in DOMAIN pilot, PilotReports(field)  PROVE BoatInv'
  BY <1>2, OthersKeep DEF PilotReports, publishVars, bufferVars
<1>3. ASSUME NEW m \in scenario.pilot, PilotChanges(m)  PROVE BoatInv'
  BY <1>3, OthersKeep DEF PilotChanges, publishVars, bufferVars
<1>4. ASSUME NEW m \in scenario.commands, Steer(m)  PROVE BoatInv'
  BY <1>4, OthersKeep DEF Steer, publishVars, bufferVars
<1>5. ASSUME NEW registers \in scenario.bms, BmsRead(registers)  PROVE BoatInv'
  BY <1>5, OthersKeep DEF BmsRead, publishVars, bufferVars
<1>6. ASSUME LoopStep  PROVE BoatInv'
  BY <1>6, OthersKeep DEF LoopStep, NotifyStep, StoreValue, SendValue, sourceVars, bufferVars
<1>7. ASSUME Auth  PROVE BoatInv'
  BY <1>7, OthersKeep DEF Auth, AuthedGone, AuthSettled, sourceVars, bufferVars
<1>8. ASSUME HostStep  PROVE BoatInv'
  BY <1>8, OthersKeep DEF HostStep, AnswerStep, sourceVars, bufferVars
<1>9. ASSUME UNCHANGED vars  PROVE BoatInv'
  BY <1>9, OthersKeep DEF vars, publishVars, bufferVars, sourceVars
<1> QED BY <1>1, <1>2, <1>3, <1>4, <1>5, <1>6, <1>7, <1>8, <1>9, PublishKeeps, TickKeeps DEF Next

\* Steps that are none of the autopilot's, nor of its commands'.
LEMMA SteeringStays ==
  ASSUME SteerInv, UNCHANGED <<autopilot, pilot, commands, wanted, patient>>
  PROVE  SteerInv'
BY DEF SteerInv, SteerTypes, Kept

\* Every step keeps the autopilot on what was asked for.
LEMMA SteerStep ==
  ASSUME SteerInv, scenario \in Scenarios, [Next]_vars
  PROVE  SteerInv'
<1>s. scenario.pilot \subseteq Turnings /\ scenario.commands \subseteq Commands
  BY ScenarioAssumption
<1>1. ASSUME NEW m \in scenario.messages, Receive(m)  PROVE SteerInv'
  BY <1>1, SteeringStays DEF Receive, sourceVars, steeringVars, shownVars, commandVars
<1>2. ASSUME NEW field \in DOMAIN pilot, PilotReports(field)  PROVE SteerInv'
  <2>1. field \in PilotFields
    BY DEF SteerInv, SteerTypes
  <2> QED BY <1>2, <2>1, ReportKeeps DEF PilotReports
<1>3. ASSUME NEW m \in scenario.pilot, PilotChanges(m)  PROVE SteerInv'
  <2>1. m \in Turnings
    BY <1>s
  <2>2. m.field \in {"mode", "heading"} /\ m.raw \in Word
    BY <2>1 DEF Turnings
  <2>3. m.raw \in Int /\ 0 <= m.raw
    BY <2>2, Powers DEF Word
  <2> QED BY <1>3, <2>2, <2>3, TurnKeeps DEF PilotChanges
<1>4. ASSUME NEW m \in scenario.commands, Steer(m)  PROVE SteerInv'
  <2>1. m \in Commands
    BY <1>s
  <2>2. m = [cmd |-> m.cmd, raw |-> m.raw]
    BY <2>1 DEF Commands
  <2> QED BY <1>4, <2>1, <2>2, CommandKeeps DEF Steer
<1>5. ASSUME NEW registers \in scenario.bms, BmsRead(registers)  PROVE SteerInv'
  BY <1>5, SteeringStays DEF BmsRead, steeringVars, shownVars, commandVars
<1>6. ASSUME Publish  PROVE SteerInv'
  BY <1>6, SteeringStays DEF Publish, commandVars
<1>7. ASSUME LoopStep  PROVE SteerInv'
  BY <1>7, SteeringStays DEF LoopStep, sourceVars, steeringVars, shownVars, commandVars
<1>8. ASSUME Auth  PROVE SteerInv'
  BY <1>8, SteeringStays DEF Auth, sourceVars, steeringVars, shownVars, commandVars
<1>9. ASSUME HostStep  PROVE SteerInv'
  BY <1>9, SteeringStays DEF HostStep, sourceVars, steeringVars, shownVars, commandVars
<1>a. ASSUME Tick  PROVE SteerInv'
  BY <1>a, SteeringStays DEF Tick, sourceVars, steeringVars, shownVars, commandVars
<1>b. ASSUME UNCHANGED vars  PROVE SteerInv'
  BY <1>b, SteeringStays DEF vars, sourceVars, steeringVars, shownVars, commandVars
<1> QED BY <1>1, <1>2, <1>3, <1>4, <1>5, <1>6, <1>7, <1>8, <1>9, <1>a, <1>b DEF Next

----------------------------------------------------------------------------
(* What holds of every behaviour. *)

\* Both invariants hold in every state, whatever the scenarios and the time-outs.
LEMMA BoatAlways == Spec => [](BoatInv /\ SteerInv)
<1>1. Init => BoatInv /\ SteerInv
  BY BoatBegins, SteeringBegins DEF Init
<1>2. BoatInv /\ SteerInv /\ [Next]_vars => (BoatInv /\ SteerInv)'
  <2>1. BoatInv => scenario \in Scenarios
    BY DEF BoatInv, BoatTypes
  <2> QED BY <2>1, BoatStep, SteerStep
<1> QED BY <1>1, <1>2, PTL DEF Spec

\* When nothing is dirty, the buffer of the nav characteristic says what the handler knows: the
\* handlers and the expiry flag every change but one of cog, and leave a heading that is worked
\* out from a true one out of the buffer at worst.
THEOREM ChangesAreFlagged == Spec => []ChangesFlagged
<1>1. BoatInv => ChangesFlagged
  BY DEF BoatInv
<1> QED BY <1>1, BoatAlways, PTL

\* Whatever messages come and stop, however the time-outs are set, and however long a
\* pass of the loop takes, BLE shows nothing of the boat, but for cog, or of the engine that
\* had not been heard within its time-out when the loop last went round.
THEOREM StatesAreFresh == Spec => []StatesFresh
<1>1. BoatInv => StatesFresh
  BY DEF BoatInv, StatesFresh
<1> QED BY <1>1, BoatAlways, PTL

\* Any number of steering commands leaves the autopilot on the wind angle the clients have
\* asked for, as long as each adjustment waits for the report of the command before it; and
\* tells it no heading off the circle, if those reported and set are on it.
THEOREM AutopilotIsTold == Spec => []SteersAsTold
<1>1. SteerInv => SteersAsTold
  BY SteerHolds
<1> QED BY <1>1, BoatAlways, PTL
=============================================================================
