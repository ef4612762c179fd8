----------------------------- MODULE N2KHandler -----------------------------
(***************************************************************************)
(* What the boat knows from the NMEA 2000 bus (lib/N2KHandler): the last   *)
(* reading of every instrument, how long ago it was heard, and whether the *)
(* BLE characteristics have to be told.  Each handler is an action; all of *)
(* them, and the expiry, run on the loop task.                             *)
(*                                                                         *)
(* A message is a record of the fields a handler looks at.  Readings are   *)
(* small integers, since some are sums or differences of others; units,    *)
(* scales and the fields nothing depends on are left out.  Time is in      *)
(* ticks: the timeouts are compared with nothing but each other, so only   *)
(* their order matters, and an age beyond the longest says nothing more.   *)
(***************************************************************************)
EXTENDS Integers

CONSTANTS
  UnsafeTimeout,  \* 5000, handle129029
  FastTimeout,    \* 5000, expireStaleEngineData
  UpdateTimeout,  \* 10000, updateWithTimeout
  SlowTimeout,    \* 15000, expireStaleEngineData
  NavTimeout      \* NAV_TIMEOUT_MS

ASSUME TimeoutAssumption ==
  /\ {UnsafeTimeout, FastTimeout, UpdateTimeout, SlowTimeout, NavTimeout} \subseteq Nat
  /\ FastTimeout < UpdateTimeout /\ UpdateTimeout < NavTimeout
  /\ SlowTimeout <= NavTimeout

VARIABLES
  value,        \* the reading of each field, or NA
  last,         \* now - last...Update, up to Forgotten
  faaValid,
  dirtyNavState,
  dirtyEngineState

handlerVars == <<value, last, faaValid, dirtyNavState, dirtyEngineState>>

NA == -1000                                             \* -1e9, 0xffff...
Forgotten == NavTimeout + 1

\* The fields of PGN 127489 that keep their value when it has none for them.
Dynamic == {"alternatorTemp", "oilPressure", "alternatorVolts", "engineHours"}
EngineFields == Dynamic \cup {"rpm", "coolantTemp", "status", "exhaustTemp", "engineRoomTemp",
                              "engineBattVolts", "fuelLevel"}
NavFields == {"position", "cogt", "cogm", "sog", "variation", "headingMagnetic", "depth",
              "awa", "aws", "stw", "log"}
Fields == NavFields \cup EngineFields \cup {"headingTrue", "roll"}

\* The stamp of each field that has one: its own, but for these.
Stamps == (NavFields \ {"headingMagnetic"}) \cup {"heading", "roll", "faa", "dynamic"}
          \cup (EngineFields \ (Dynamic \cup {"status"}))

Differ(f, reading) == value[f] # reading
Age(s) == last[s]

\* last' when the stamps of these are set to now.
Stamp(stamps) == last' = [s \in Stamps |-> IF s \in stamps THEN 0 ELSE last[s]]

Heard(s, reading) == IF reading = NA THEN {} ELSE {s}

\* updateWithTimeout(), which looks at 10000 whatever period it is given.
UpdateWithTimeout(f, reading) ==
  IF reading # NA THEN reading
  ELSE IF Age(f) > UpdateTimeout THEN NA
  ELSE value[f]

NavDirtyIf(changed)    == dirtyNavState' = (dirtyNavState \/ changed)
EngineDirtyIf(changed) == dirtyEngineState' = (dirtyEngineState \/ changed)

----------------------------------------------------------------------------
(* The handlers of navigation messages. *)

\* variation
Handle127258(m) ==
  /\ NavDirtyIf(Differ("variation", m.variation))
  /\ value' = IF m.variation = NA THEN value ELSE [value EXCEPT !["variation"] = m.variation]
  /\ Stamp(Heard("variation", m.variation))
  /\ UNCHANGED <<faaValid, dirtyEngineState>>

Plus(a, b)       == IF NA \in {a, b} THEN NA ELSE a + b
Difference(a, b) == IF NA \in {a, b} THEN NA ELSE a - b
Or(a, b)         == IF a # NA THEN a ELSE b

\* heading: a true heading is only taken when there is no magnetic one
Handle127250(m) ==
  LET variation == Or(m.variation, value.variation)
      magnetic  == m.reference = "magnetic"
      taken     == m.heading # NA /\ (magnetic \/ value.headingMagnetic = NA)
      heading   == IF magnetic
                     THEN <<Or(Difference(m.heading, variation), value.headingTrue), m.heading>>
                     ELSE <<m.heading, Or(Plus(m.heading, variation), value.headingMagnetic)>>
  IN
  /\ NavDirtyIf(\/ m.variation # NA /\ Differ("variation", m.variation)
                \/ Differ(IF magnetic THEN "headingMagnetic" ELSE "headingTrue", m.heading))
  /\ value' = [value EXCEPT !["variation"] = variation,
                            !["headingTrue"] = IF taken THEN heading[1] ELSE @,
                            !["headingMagnetic"] = IF taken THEN heading[2] ELSE @]
  /\ Stamp(Heard("variation", m.variation) \cup (IF taken THEN {"heading"} ELSE {}))
  /\ UNCHANGED <<faaValid, dirtyEngineState>>

\* attitude: only for the performance calculation
Handle127257(m) ==
  /\ value' = [value EXCEPT !["roll"] = UpdateWithTimeout("roll", m.roll)]
  /\ Stamp(Heard("roll", m.roll))
  /\ UNCHANGED <<faaValid, dirtyNavState, dirtyEngineState>>

\* water speed
Handle128259(m) ==
  /\ NavDirtyIf(Differ("stw", m.stw))
  /\ value' = [value EXCEPT !["stw"] = UpdateWithTimeout("stw", m.stw)]
  /\ Stamp(Heard("stw", m.stw))
  /\ UNCHANGED <<faaValid, dirtyEngineState>>

\* Mutant of HandleDirect: what goes away is not flagged.
HandleDirectKnown(f, reading) ==
  /\ NavDirtyIf(reading # NA /\ Differ(f, reading))
  /\ value' = [value EXCEPT ![f] = reading]
  /\ Stamp(Heard(f, reading))
  /\ UNCHANGED <<faaValid, dirtyEngineState>>

\* depth (128267) and log (128275): what they say is taken, NA included
HandleDirect(f, reading) ==
  /\ NavDirtyIf(Differ(f, reading))
  /\ value' = [value EXCEPT ![f] = reading]
  /\ Stamp(Heard(f, reading))
  /\ UNCHANGED <<faaValid, dirtyEngineState>>

Handle128267(m) == HandleDirect("depth", m.depth)
Handle128275(m) == HandleDirect("log", m.log)

\* A fix of doubtful integrity is used when there has been no better one for a while.
Handle129029(m) ==
  LET used == m.safe \/ Age("faa") > UnsafeTimeout
  IN
  /\ NavDirtyIf(Differ("position", m.position))
  /\ faaValid' = IF used THEN m.safe ELSE faaValid
  /\ value' = IF used THEN [value EXCEPT !["position"] = m.position] ELSE value
  /\ Stamp((IF used THEN {"position"} ELSE {}) \cup (IF m.safe THEN {"faa"} ELSE {}))
  /\ UNCHANGED dirtyEngineState

\* rapid position
Handle129025(m) ==
  /\ NavDirtyIf(Differ("position", m.position))
  /\ value' = [value EXCEPT !["position"] = m.position]
  /\ Stamp({"position"})
  /\ UNCHANGED <<faaValid, dirtyEngineState>>

\* rapid cog and sog: the other cog comes from the variation
Handle129026(m) ==
  LET magnetic == m.reference = "magnetic"
      cogm == IF magnetic THEN m.cog ELSE Plus(m.cog, value.variation)
      cogt == IF magnetic THEN Difference(m.cog, value.variation) ELSE m.cog
  IN
  /\ NavDirtyIf(\/ Differ(IF magnetic THEN "cogm" ELSE "cogt", m.cog)
                \/ Differ("sog", m.sog))
  /\ value' = [value EXCEPT !["cogt"] = UpdateWithTimeout("cogt", cogt),
                            !["cogm"] = UpdateWithTimeout("cogm", cogm),
                            !["sog"] = UpdateWithTimeout("sog", m.sog)]
  /\ Stamp(Heard("cogt", cogt) \cup Heard("cogm", cogm) \cup Heard("sog", m.sog))
  /\ UNCHANGED <<faaValid, dirtyEngineState>>

\* wind: the true wind only makes sentences
Handle130306(m) ==
  /\ m.apparent
  /\ NavDirtyIf(Differ("awa", m.awa) \/ Differ("aws", m.aws))
  /\ value' = [value EXCEPT !["awa"] = UpdateWithTimeout("awa", m.awa),
                            !["aws"] = UpdateWithTimeout("aws", m.aws)]
  /\ Stamp(Heard("awa", m.awa) \cup Heard("aws", m.aws))
  /\ UNCHANGED <<faaValid, dirtyEngineState>>

----------------------------------------------------------------------------
(* The handlers of engine messages.  Those of another instance do nothing. *)

EngineUpdate(update, stamps) ==
  /\ value' = [f \in Fields |-> IF f \in DOMAIN update THEN update[f] ELSE value[f]]
  /\ Stamp(stamps)
  /\ EngineDirtyIf(TRUE)
  /\ UNCHANGED <<faaValid, dirtyNavState>>

\* rapid engine parameters
Handle127488(m) ==
  EngineUpdate([rpm |-> UpdateWithTimeout("rpm", m.rpm)], Heard("rpm", m.rpm))

\* dynamic engine parameters: one stamp for all but the coolant's own
Handle127489(m) ==
  EngineUpdate(
    [f \in Dynamic \cup {"coolantTemp", "status"} |->
       IF f = "coolantTemp" THEN UpdateWithTimeout(f, m.coolantTemp)
       ELSE IF f = "status" THEN m.status
       ELSE Or(m.dynamic, value[f])],
    Heard("coolantTemp", m.coolantTemp) \cup {"dynamic"})

\* exhaust and engine room temperatures (130312 and 130316), NA included
HandleTemperature(m) == EngineUpdate([f \in {m.source} |-> m.temperature], {m.source})

\* fuel level and cranking battery: what is not available is not used
HandleKnown(f, reading) == reading # NA /\ EngineUpdate([g \in {f} |-> reading], {f})

Handle127505(m) == HandleKnown("fuelLevel", m.fuelLevel)
Handle127508(m) == HandleKnown("engineBattVolts", m.engineBattVolts)

\* N2KHandler::handle() for the messages that change what is kept.
Handle(m) ==
  \/ m.pgn = 127250 /\ Handle127250(m)
  \/ m.pgn = 127257 /\ Handle127257(m)
  \/ m.pgn = 127258 /\ Handle127258(m)
  \/ m.pgn = 127488 /\ Handle127488(m)
  \/ m.pgn = 127489 /\ Handle127489(m)
  \/ m.pgn = 127505 /\ Handle127505(m)
  \/ m.pgn = 127508 /\ Handle127508(m)
  \/ m.pgn = 128259 /\ Handle128259(m)
  \/ m.pgn = 128267 /\ Handle128267(m)
  \/ m.pgn = 128275 /\ Handle128275(m)
  \/ m.pgn = 129025 /\ Handle129025(m)
  \/ m.pgn = 129026 /\ Handle129026(m)
  \/ m.pgn = 129029 /\ Handle129029(m)
  \/ m.pgn = 130306 /\ Handle130306(m)
  \/ m.pgn \in {130312, 130316} /\ HandleTemperature(m)

----------------------------------------------------------------------------
(* Expiry, and the step of the clock. *)

\* Mutant of StaleNav: the wind speed is taken to go with its angle.
StaleNavWindAngle ==
  {f \in NavFields \ {"headingMagnetic", "aws"} : value[f] # NA /\ Age(f) > NavTimeout}
  \cup (IF value.headingMagnetic # NA /\ Age("heading") > NavTimeout
          THEN {"headingMagnetic", "headingTrue"} ELSE {})

StaleNav ==
  {f \in NavFields \ {"headingMagnetic"} : value[f] # NA /\ Age(f) > NavTimeout}
  \cup (IF value.headingMagnetic # NA /\ Age("heading") > NavTimeout
          THEN {"headingMagnetic", "headingTrue"} ELSE {})

\* Mutant of StaleEngine: the dynamic parameters have no timeout of their own.
StaleEngineRapid ==
  {f \in EngineFields : /\ f = "rpm" \/ f \notin Dynamic \cup {"status"}
                        /\ Age(f) > IF f \in {"rpm", "coolantTemp"} THEN FastTimeout
                                    ELSE SlowTimeout}

StaleEngine ==
  {f \in {"rpm"} : Age(f) > FastTimeout}
  \cup {f \in Dynamic \cup {"coolantTemp", "status"} : Age("dynamic") > FastTimeout}
  \cup {f \in {"exhaustTemp", "engineRoomTemp", "engineBattVolts", "fuelLevel"} :
          Age(f) > SlowTimeout}

\* The readings after expireStaleNavData() and expireStaleEngineData().
Expired ==
  LET stale == StaleNav \cup StaleEngine
  IN  [f \in Fields |-> IF f \in stale THEN NA ELSE value[f]]

NavDirty    == dirtyNavState \/ StaleNav # {}
EngineDirty == dirtyEngineState \/ \E f \in StaleEngine : value[f] # NA

Clock ==
  /\ last' = [s \in Stamps |-> IF last[s] = Forgotten THEN Forgotten ELSE last[s] + 1]
  /\ UNCHANGED <<value, faaValid, dirtyNavState, dirtyEngineState>>

HandlerInit ==
  /\ value = [f \in Fields |-> NA]
  /\ last = [s \in Stamps |-> Forgotten]
  /\ faaValid = FALSE
  /\ dirtyNavState = FALSE
  /\ dirtyEngineState = FALSE
=============================================================================
