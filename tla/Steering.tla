------------------------------ MODULE Steering ------------------------------
(***************************************************************************)
(* Steering by BLE: handleBleCommand() of src/main.cpp, on the NimBLE host *)
(* task, turns a command into a message for the autopilot; the autopilot   *)
(* takes it over, and reports its mode and angles in messages of its own,  *)
(* from which AutopilotBleState keeps, on the loop task, what BLE shows and*)
(* what the next adjustment starts from.                                   *)
(*                                                                         *)
(* Angles of BLE are in 0.01 degrees, those of the bus in 0.0001 rad.      *)
(***************************************************************************)
EXTENDS Integers

CONSTANT MaxCommands  \* bound of the model

VARIABLES
  autopilot, autopilotDirty, \* apBleState
  pilot,    \* what the autopilot itself has, in the units of the bus
  commands, \* steering commands so far
  wanted,   \* history: the wind angle the clients have asked for
  patient   \* history: each adjustment of it came after the report of the one before

shownVars    == <<autopilot, autopilotDirty>>
commandVars  == <<pilot, commands, wanted, patient>>
steeringVars == <<shownVars, commandVars>>

Circle == 36000

\* encodeAngle(); 1775/1017 is 100 pi/180 to seven places, and the fraction is cut off.
ToRadians(degrees) == ((degrees * 1775) \div 1017) % 2^16
ToDegrees(radians) == (radians * 1017) \div 1775

----------------------------------------------------------------------------
(* The reports of the autopilot. *)

Modes == 0 .. 3   \* BW_MODE_STANDBY, _COMPASS, _WIND_AWA, _WIND_TWA

\* The datum of the wind to either side; what is cut off is cut towards the bow.
ShownWind(raw) ==
  IF raw * 1017 > (Circle \div 2) * 1775
    THEN -((Circle * 1775 - raw * 1017) \div 1775)
    ELSE ToDegrees(raw)

\* handlePGN65379(), 65359, 65360 and 65345.  Both wind modes show as the apparent one.
Shown(field, raw) ==
  IF field = "mode" THEN (IF raw = 3 THEN 2 ELSE raw)
  ELSE IF field = "targetWind" THEN ShownWind(raw)
  ELSE ToDegrees(raw) % Circle

Report(field) ==
  /\ autopilot' = [autopilot EXCEPT ![field] = Shown(field, pilot[field])]
  /\ autopilotDirty' = TRUE
  /\ UNCHANGED commandVars

\* The boat turns, or the crew sets another mode.
PilotHas(field, raw) ==
  /\ pilot' = [pilot EXCEPT ![field] = raw]
  /\ UNCHANGED <<shownVars, commands, wanted, patient>>

----------------------------------------------------------------------------
(* Commands. *)

\* BW_CMD_SET_WIND and the rest: the angle that goes out, in 0.01 degrees.
SetWind(raw) == IF raw < 0 THEN raw + Circle ELSE raw
\* Mutant of AdjustWind: a wind from port stays negative.
AdjustWindSigned(raw) == autopilot.targetWind + raw
AdjustWind(raw) == (autopilot.targetWind + raw) % Circle
AdjustHeading(raw) == (autopilot.heading + raw + Circle) % Circle

\* handleBleCommand() while CAN is up.
Command(cmd, raw) ==
  /\ commands < MaxCommands
  /\ commands' = commands + 1
  /\ \/ cmd = "mode"          /\ pilot' = [pilot EXCEPT !.mode = raw]
     \/ cmd = "setHeading"    /\ pilot' = [pilot EXCEPT !.targetHeading = ToRadians(raw)]
     \/ cmd = "adjustHeading" /\ pilot' = [pilot EXCEPT !.targetHeading = ToRadians(AdjustHeading(raw))]
     \/ cmd = "setWind"       /\ pilot' = [pilot EXCEPT !.targetWind = ToRadians(SetWind(raw))]
     \/ cmd = "adjustWind"    /\ pilot' = [pilot EXCEPT !.targetWind = ToRadians(AdjustWind(raw))]
  /\ wanted' = IF cmd = "setWind" THEN raw ELSE IF cmd = "adjustWind" THEN wanted + raw ELSE wanted
  /\ patient' = \/ cmd = "setWind"
                \/ patient /\ (cmd = "adjustWind" => autopilot.targetWind = ShownWind(pilot.targetWind))
  /\ UNCHANGED shownVars

Word  == 0 .. 2^16 - 1
Int16 == -2^15 .. 2^15 - 1

\* The four of the mode, and those that carry an angle (docs/ble-transport.md).
Commands ==
  [cmd : {"mode"}, raw : Modes]
  \cup [cmd : {"setHeading"}, raw : 0 .. Circle]
  \cup [cmd : {"setWind", "adjustWind", "adjustHeading"}, raw : Int16]

SteeringInit ==
  /\ autopilot = [field \in {"mode", "heading", "targetHeading", "targetWind"} |-> 0]
  /\ autopilotDirty = FALSE
  /\ pilot = autopilot
  /\ commands = 0 /\ wanted = 0 /\ patient = TRUE

----------------------------------------------------------------------------
(* Properties. *)

Apart(a, b) == {(a - b) % Circle, (b - a) % Circle}

\* As long as each ADJUST_WIND waits for the report of the command before it, any
\* number of commands that set and adjust the wind angle, across the bow, the stern
\* and from side to side, leave the autopilot within 0.02 degrees a command of what was
\* asked for in all; and no heading it is told is beyond the circle.
SteersAsTold ==
  /\ patient => \E apart \in Apart(ToDegrees(pilot.targetWind), wanted) : apart <= 2 * commands
  /\ pilot.targetHeading <= ToRadians(Circle)
=============================================================================
