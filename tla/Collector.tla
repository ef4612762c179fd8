------------------------------ MODULE Collector ------------------------------
(***************************************************************************)
(* The collector of the archive (lib/archive/N2KCollector): a table of a   *)
(* few slots for each kind of message, in which every sender has one while *)
(* it is heard; who asks gets the slot that was written last.              *)
(*                                                                         *)
(* A value is the instance its message was about.  The getters' extra      *)
(* conditions on what is in a slot (apparent wind, fuel) are left out, and *)
(* so is the millis() at which 0 comes round again.                        *)
(***************************************************************************)
EXTENDS Integers, FiniteSetsExt

CONSTANTS
  CollectorSources, Instances,
  MaxSources,        \* MAX_..._SOURCES of each table
  StaleAfter,        \* 10 minutes
  HistoryLength, MaxPeriods

VARIABLES
  wanted,       \* the tables whose messages come, and the instance that is asked for
  store,       \* the slots of each table
  lost,        \* saveFailed() was called for the last message, from this source
  pressureLog, \* PressureData: history, currentSlot, pmean; the period it is
  heardOf      \* history: ages of the last saved message asked for, per table; slots taken over;
               \* periods with a pressure that was saved

collectorVars == <<wanted, store, lost, pressureLog, heardOf>>

\* Whose slot number is handed to use() for an instance
ByIndex ==
  {"attitude", "heading", "cogSog", "gnss", "environmentalParams", "outsideEnvironmental",
   "speed", "waterDepth", "variation", "log", "possition"}
\* Three of these take the sequence number of the message for an instance.
ByInstance ==
  {"fluidLevel", "engine", "temperature", "temperatureExt", "humidity", "pressure", "dcBattery",
   "rudder", "xte", "wind", "leeway"}
Tables == ByIndex \cup ByInstance

Never == StaleAfter + 1      \* and any longer time
NoOne == 255

\* There is room for one sender of the pressure, and nobody calls itself 255.
ASSUME CollectorAssumption ==
  /\ MaxSources \in [Tables -> 1 .. NoOne - 1] /\ MaxSources["pressure"] = 1
  /\ StaleAfter \in Nat /\ HistoryLength \in Nat \ {0}
  /\ NoOne \notin CollectorSources \cup Instances

MessageParts == {"rapid", "dynamic"}    \* of an engine; a message of any other kind has both
FreeSlot == [source |-> NoOne, instance |-> NoOne, age |-> Never,
             said |-> [part \in MessageParts |-> NoOne]]

----------------------------------------------------------------------------
(* A message. *)

KeyIn(table, i, instance) == IF table \in ByIndex THEN i ELSE instance

\* use() without and with useOld, over the slots in order: 0 if it returns false for all.
Place(table, source, instance) ==
  LET slots == store[table]
      mine  == {i \in DOMAIN slots :
                  \/ slots[i].source = NoOne
                  \/ slots[i].source = source /\ slots[i].instance = KeyIn(table, i, instance)}
      old   == {i \in DOMAIN slots : slots[i].age > StaleAfter}
  IN  CASE mine # {} -> Min(mine) [] mine = {} /\ old # {} -> Min(old) [] OTHER -> 0

\* Mutant of Used: lastModified is not set where source and instance match.
UsedOnce(slot, source, key) ==
  IF slot.source = NoOne THEN [slot EXCEPT !.source = source, !.instance = key, !.age = 0]
  ELSE [slot EXCEPT !.source = source]
\* A slot that is taken over keeps its instance.
Used(slot, source, key) ==
  IF slot.source = NoOne THEN [slot EXCEPT !.source = source, !.instance = key, !.age = 0]
  ELSE [slot EXCEPT !.source = source, !.age = 0]

Save(table, parts, source, instance) ==
  LET i    == Place(table, source, instance)
      slot == store[table][i]
  IN
  /\ table \in wanted.tables
  /\ UNCHANGED wanted
  /\ lost' = IF i = 0 THEN <<table, source>> ELSE <<>>
  /\ IF i = 0 THEN UNCHANGED <<store, heardOf>>
     ELSE
       /\ store' = [store EXCEPT ![table][i] =
            [Used(slot, source, KeyIn(table, i, instance)) EXCEPT
               !.said = [part \in MessageParts |-> IF part \in parts THEN instance ELSE @[part]]]]
       /\ heardOf' = [heardOf EXCEPT
            !.age[table] = IF table \in ByIndex \/ instance = wanted.instance THEN 0 ELSE @,
            !.taken = \/ @
                      \/ /\ slot.source # NoOne
                         /\ <<slot.source, slot.instance>> # <<source, KeyIn(table, i, instance)>>,
            !.periods = IF table = "pressure" THEN @ \cup {pressureLog.period} ELSE @]

SaveAll(table, source, instance) == Save(table, MessageParts, source, instance) /\ UNCHANGED pressureLog

Attitude(source) == SaveAll("attitude", source, NoOne)
Heading(source) == SaveAll("heading", source, NoOne)
COGSOG(source) == SaveAll("cogSog", source, NoOne)
GNSS(source) == SaveAll("gnss", source, NoOne)
EnvironmentalParameters(source) == SaveAll("environmentalParams", source, NoOne)
OutsideEnvironmental(source) == SaveAll("outsideEnvironmental", source, NoOne)
Speed(source) == SaveAll("speed", source, NoOne)
WaterDepth(source) == SaveAll("waterDepth", source, NoOne)
MagneticVariation(source) == SaveAll("variation", source, NoOne)
DistanceLog(source) == SaveAll("log", source, NoOne)
LatLon(source) == SaveAll("possition", source, NoOne)

FluidLevel(source, instance) == SaveAll("fluidLevel", source, instance)
Temperature(source, instance) == SaveAll("temperature", source, instance)
TemperatureExt(source, instance) == SaveAll("temperatureExt", source, instance)
Humidity(source, instance) == SaveAll("humidity", source, instance)
DCBatteryStatus(source, instance) == SaveAll("dcBattery", source, instance)
Rudder(source, instance) == SaveAll("rudder", source, instance)
Xte(source, sid) == SaveAll("xte", source, sid)
WindSpeed(source, sid) == SaveAll("wind", source, sid)
Leeway(source, sid) == SaveAll("leeway", source, sid)

EngineRapid(source, instance) ==
  Save("engine", {"rapid"}, source, instance) /\ UNCHANGED pressureLog
EngineDynamicParameters(source, instance) ==
  Save("engine", {"dynamic"}, source, instance) /\ UNCHANGED pressureLog

\* storeHistory(): the mean of a period, as the periods whose readings are in it
StoreHistory(h) ==
  LET slot  == h.period % HistoryLength
      pmean == IF slot = h.currentSlot THEN h.pmean \cup {h.period} ELSE {h.period}
  IN  [h EXCEPT !.currentSlot = slot, !.pmean = pmean, !.history[slot] = pmean]

Pressure(source, instance) ==
  /\ Save("pressure", MessageParts, source, instance)
  /\ pressureLog' = IF lost' = <<>> THEN StoreHistory(pressureLog) ELSE pressureLog

\* Time passes, and may pass into the next period of the history.
Older(age) == IF age = Never THEN age ELSE age + 1
CollectorTick ==
  /\ store' = [table \in Tables |->
       [i \in DOMAIN store[table] |-> [store[table][i] EXCEPT !.age = Older(@)]]]
  /\ heardOf' = [heardOf EXCEPT !.age = [table \in Tables |-> Older(@[table])]]
  /\ lost' = <<>>
  /\ \/ UNCHANGED pressureLog
     \/ /\ "pressure" \in wanted.tables /\ pressureLog.period < MaxPeriods
        /\ pressureLog' = [pressureLog EXCEPT !.period = @ + 1]
  /\ UNCHANGED wanted

CollectorMessage ==
  \E s \in CollectorSources :
    \/ Attitude(s) \/ Heading(s) \/ COGSOG(s) \/ GNSS(s) \/ EnvironmentalParameters(s)
    \/ OutsideEnvironmental(s) \/ Speed(s) \/ WaterDepth(s) \/ MagneticVariation(s)
    \/ DistanceLog(s) \/ LatLon(s)
    \/ \E i \in Instances :
         \/ FluidLevel(s, i) \/ Temperature(s, i) \/ TemperatureExt(s, i) \/ Humidity(s, i)
         \/ DCBatteryStatus(s, i) \/ Rudder(s, i) \/ Xte(s, i) \/ WindSpeed(s, i) \/ Leeway(s, i)
         \/ EngineRapid(s, i) \/ EngineDynamicParameters(s, i) \/ Pressure(s, i)

CollectorStep == CollectorTick \/ CollectorMessage

CollectorInit ==
  /\ wanted \in [tables : {{table} : table \in Tables} \cup {{"possition", "gnss"}},
                instance : Instances]
  /\ store = [table \in Tables |-> [i \in 1 .. MaxSources[table] |-> FreeSlot]]
  /\ lost = <<>>
  /\ pressureLog = [history |-> [slot \in 0 .. HistoryLength - 1 |-> {}], currentSlot |-> -1,
                    pmean |-> {}, period |-> 0]
  /\ heardOf = [age |-> [table \in Tables |-> Never], taken |-> FALSE, periods |-> {}]

----------------------------------------------------------------------------
(* Asking. *)

\* Slots in use, of an instance where one is asked for
Candidates(table) ==
  {i \in DOMAIN store[table] :
     /\ store[table][i].source # NoOne
     /\ table \in {"engine", "fluidLevel", "dcBattery"} => store[table][i].instance = wanted.instance}

\* getSpeed(), getEngineInstance() and the like: the last modified, of equals the first
Newest(table) ==
  LET all    == Candidates(table)
      newest == {i \in all : \A j \in all : store[table][i].age <= store[table][j].age}
  IN  IF all = {} THEN FreeSlot ELSE store[table][Min(newest)]

\* getWindInstance() and getAparentWind(): the first, however old
FirstWind == IF Candidates("wind") = {} THEN FreeSlot ELSE store["wind"][Min(Candidates("wind"))]

\* getAtmosphericPressure() and getPressure(): the only one there is room for
FirstPressure == store["pressure"][1]

\* getLatLong(): of the newest possition and the newest gnss the newer one
LatLong ==
  LET possition == Newest("possition")
      gnss      == Newest("gnss")
  IN  IF gnss.source = NoOne \/ (possition.source # NoOne /\ possition.age < gnss.age)
      THEN possition ELSE gnss

\* startIterator(), hasNext(), nextValueRaw(): the entries of the last HistoryLength periods
Iterated == [p \in Max({0, pressureLog.period + 1 - HistoryLength}) .. pressureLog.period |->
               pressureLog.history[p % HistoryLength]]

----------------------------------------------------------------------------
\* Who asks gets a reading as young as the last one that was saved, whatever senders take
\* and leave the slots - but of the wind, whose getters give the first; for an instance, that
\* instance's, until a slot has been taken over, which keeps its old number.  A message is
\* turned away only if all slots are in use, and then not one of a sender that has a slot.  The
\* history shows a period's readings under that period, mixed at most with those of the same hour a day before.
CollectorFresh ==
  /\ \A table \in wanted.tables \ {"wind"} :
       LET shown == CASE table = "pressure" -> FirstPressure
                      [] "possition" \in wanted.tables /\ "gnss" \in wanted.tables -> LatLong
                      [] OTHER -> Newest(table)
       IN  \/ heardOf.taken /\ table \in ByInstance
           \/ /\ shown.age <= heardOf.age[table]
              /\ table \in {"engine", "fluidLevel", "dcBattery"} =>
                   \A part \in MessageParts : shown.said[part] \in {NoOne, wanted.instance}
  /\ lost # <<>> =>
       \A i \in DOMAIN store[lost[1]] :
         /\ store[lost[1]][i].age <= StaleAfter
         /\ lost[1] \in ByIndex => store[lost[1]][i].source # lost[2]
  /\ \A p \in DOMAIN Iterated \cap heardOf.periods :
       p \in Iterated[p] /\ \A q \in Iterated[p] : (p - q) % HistoryLength = 0
=============================================================================
