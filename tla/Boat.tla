-------------------------------- MODULE Boat --------------------------------
(***************************************************************************)
(* The main loop (src/main.cpp) around the NMEA 2000 handler and the BLE   *)
(* characteristics: messages of the bus are handled, what the autopilot    *)
(* and the BMS say is kept, and once per pass whatever is dirty is copied  *)
(* into the BLE buffers and notify() is called.  The NimBLE host task      *)
(* answers AUTH and obeys commands meanwhile.                              *)
(*                                                                         *)
(* A scenario, chosen once, is the messages there are on the bus, what the *)
(* autopilot and the BMS do, and the BLE clients and their commands.       *)
(***************************************************************************)
EXTENDS N2KHandler, BlePublish, Steering

CONSTANTS
  Scenarios,        \* records of messages, pilot, bms, clients and commands
  LoopLag           \* bound of the model: ticks a pass of the loop may take

\* The temperatures that are mirrored; the handler leaves the state alone for any other source.
Mapped(m) == m.pgn \in {130312, 130316} => m.source \in {"exhaustTemp", "engineRoomTemp"}

\* What else than a command changes what the autopilot says of itself.
Turnings == [field : {"mode", "heading"}, raw : Word]

ASSUME ScenarioAssumption ==
  \A s \in Scenarios :
    /\ \A m \in s.messages : Mapped(m)
    /\ s.pilot \subseteq Turnings
    /\ s.commands \subseteq Commands

VARIABLES
  scenario,
  bms, bmsDirty,    \* registers 0x03 and 0x04, JdbBMS::isDirty()
  lag,              \* ticks since a pass of the loop began
  heard             \* history: ticks since each field was last in a message

sourceVars == <<scenario, steeringVars, bms, bmsDirty>>
vars == <<handlerVars, publishVars, sourceVars, lag, heard>>

----------------------------------------------------------------------------
(* Messages. *)

\* A message has a reading of field f, for the history.
Says(m, f) ==
  \/ m.pgn \in {127258, 127250} /\ f = "variation" /\ m.variation # NA
  \/ m.pgn = 127250 /\ f = "headingMagnetic" /\ m.heading # NA
  \/ m.pgn = 128259 /\ f = "stw" /\ m.stw # NA
  \/ m.pgn = 128267 /\ f = "depth" /\ m.depth # NA
  \/ m.pgn = 128275 /\ f = "log" /\ m.log # NA
  \/ m.pgn \in {129025, 129029} /\ f = "position" /\ m.position # NA
  \/ m.pgn = 129026 /\ ((f = "cog" /\ m.cog # NA) \/ (f = "sog" /\ m.sog # NA))
  \/ m.pgn = 130306 /\ m.apparent /\ ((f = "awa" /\ m.awa # NA) \/ (f = "aws" /\ m.aws # NA))
  \/ m.pgn = 127488 /\ f = "rpm" /\ m.rpm # NA
  \/ m.pgn = 127489 /\ f = "dynamic"
  \/ m.pgn \in {130312, 130316} /\ f = m.source /\ m.temperature # NA
  \/ m.pgn = 127505 /\ f = "fuelLevel" /\ m.fuelLevel # NA
  \/ m.pgn = 127508 /\ f = "engineBattVolts" /\ m.engineBattVolts # NA

\* ParseMessages(), the simulator or EmitMessages() has one for HandleNMEA2000Msg().
Receive(m) ==
  /\ m \in scenario.messages
  /\ due = <<>>
  /\ Handle(m)
  /\ heard' = [f \in DOMAIN heard |-> IF Says(m, f) THEN 0 ELSE heard[f]]
  /\ UNCHANGED <<publishVars, sourceVars, lag>>

\* The messages of the autopilot, where there is one.
PilotReports(field) ==
  /\ scenario.pilot \cup scenario.commands # {}
  /\ due = <<>>
  /\ Report(field)
  /\ UNCHANGED <<handlerVars, publishVars, scenario, bms, bmsDirty, lag, heard>>

PilotChanges(m) ==
  /\ m \in scenario.pilot
  /\ PilotHas(m.field, m.raw)
  /\ UNCHANGED <<handlerVars, publishVars, scenario, bms, bmsDirty, lag, heard>>

\* bms.update() has copied a frame.
BmsRead(registers) ==
  /\ registers \in scenario.bms
  /\ due = <<>>
  /\ bms' = registers
  /\ bmsDirty' = TRUE
  /\ UNCHANGED <<handlerVars, publishVars, scenario, steeringVars, lag, heard>>

----------------------------------------------------------------------------
(* The end of a pass of loop(): the BLE buffers. *)

NavState(v) ==
  [f \in (NavFields \ {"cogt", "cogm"}) \cup {"cog"} |-> IF f = "cog" THEN v.cogt ELSE v[f]]
EngineState(v) == [f \in EngineFields |-> v[f]]

\* setBatteryState() gives up on a register 0x03 shorter than 23 bytes.
ShortRegister == [short |-> 0]

Called ==
  {c \in Characteristics :
     \/ c = "autopilot" /\ autopilotDirty
     \/ c = "nav" /\ NavDirty
     \/ c = "engine" /\ EngineDirty
     \/ c = "battery" /\ bmsDirty /\ bms # ShortRegister}

Contents ==
  [c \in Characteristics |->
     IF c = "nav" THEN NavState(value')
     ELSE IF c = "engine" THEN EngineState(value')
     ELSE IF c = "autopilot" THEN autopilot
     ELSE bms]

Publish ==
  /\ due = <<>>
  /\ value' = Expired
  /\ SetStates(Called, Contents)
  /\ NotifyBegin
  /\ autopilotDirty' = FALSE
  /\ dirtyNavState' = FALSE
  /\ dirtyEngineState' = FALSE
  /\ bmsDirty' = FALSE
  /\ lag' = 0
  /\ UNCHANGED <<last, faaValid, scenario, autopilot, commandVars, bms, heard>>

LoopStep == NotifyStep /\ UNCHANGED <<handlerVars, sourceVars, lag, heard>>

\* The host task, where clients come and go.
Auth ==
  /\ scenario.clients = "changing"
  /\ AuthedGone \/ \E accepted \in BOOLEAN : AuthSettled(accepted)
  /\ UNCHANGED <<handlerVars, sourceVars, lag, heard>>

\* A client that has authenticated steers; the gate is that of BleAuth.
Steer(m) ==
  /\ m \in scenario.commands /\ authed
  /\ Command(m.cmd, m.raw)
  /\ UNCHANGED <<handlerVars, publishVars, scenario, bms, bmsDirty, lag, heard>>

HostStep == AnswerStep /\ UNCHANGED <<handlerVars, sourceVars, lag, heard>>

\* notify() takes far less than a tick.
Tick ==
  /\ due = <<>>
  /\ lag < LoopLag
  /\ lag' = lag + 1
  /\ Clock
  /\ PublishClock
  /\ heard' = [f \in DOMAIN heard |-> IF heard[f] = Forgotten THEN Forgotten ELSE heard[f] + 1]
  /\ UNCHANGED sourceVars

Init ==
  /\ scenario \in Scenarios
  /\ HandlerInit
  /\ PublishInit(EngineState([f \in Fields |-> NA]))
  /\ authed = (scenario.clients # "none")
  /\ SteeringInit
  /\ bms = ShortRegister /\ bmsDirty = FALSE
  /\ lag = 0
  /\ heard = [f \in NavFields \cup EngineFields \cup {"cog", "dynamic"} |-> Forgotten]

Next ==
  \/ \E m \in scenario.messages : Receive(m)
  \/ \E field \in DOMAIN pilot : PilotReports(field)
  \/ \E m \in scenario.pilot : PilotChanges(m)
  \/ \E m \in scenario.commands : Steer(m)
  \/ \E registers \in scenario.bms : BmsRead(registers)
  \/ Publish
  \/ LoopStep
  \/ Auth
  \/ HostStep
  \/ Tick

Spec == Init /\ [][Next]_vars

\* loop() is called again and again, the host task goes on with what it has
\* begun, and time passes.
FairSpec == Spec /\ WF_vars(Publish) /\ WF_vars(LoopStep) /\ WF_vars(HostStep) /\ SF_vars(Tick)

----------------------------------------------------------------------------
(* Properties. *)

NavBle == DOMAIN NavState(value)

\* Handlers flag every change of what the nav characteristic shows: when nothing
\* is dirty its buffer says what the handler knows.  Two fields are apart: cog
\* follows the variation without a flag, and a heading that is worked out from a
\* true one may be missing, but is never wrong.
ChangesFlagged ==
  ~dirtyNavState /\ buffer.nav # Zeros =>
    \A f \in NavBle \ {"cog"} :
      \/ buffer.nav[f] = NavState(value)[f]
      \/ f = "headingMagnetic" /\ buffer.nav[f] = NA

\* What BLE shows of the navigation was heard less than NAV_TIMEOUT_MS ago when
\* the loop last went round, but for cog.
NavFresh ==
  buffer.nav # Zeros =>
    \A f \in NavBle \ {"cog"} : buffer.nav[f] # NA => heard[f] <= NavTimeout + lag

\* When 127488 or 127489 stops, BLE no longer shows what it said after 5 s; the
\* temperatures, fuel and cranking battery after 15 s.
EngineFresh ==
  \A f \in EngineFields :
    buffer.engine[f] # NA =>
      IF f = "rpm" THEN heard.rpm <= FastTimeout + lag
      ELSE IF f \in Dynamic \cup {"coolantTemp", "status"} THEN heard.dynamic <= FastTimeout + lag
      ELSE heard[f] <= SlowTimeout + lag

\* What BLE shows of the boat and of the engine has been heard within its time-out.
StatesFresh == NavFresh /\ EngineFresh

\* However AUTH_RESP gets in between setValue() and notify(), each characteristic
\* shows its subscribers the buffer again and again.
StatesArrive ==
  \A c \in Characteristics : []<>(~authed \/ seen[c] = buffer[c])
=============================================================================
