----------------------------- MODULE DataOutput -----------------------------
(***************************************************************************)
(* The pages of the archive (lib/archive/dataoutput): what the collector   *)
(* holds, table by table and slot by slot, as csv and as json.             *)
(*                                                                         *)
(* A page is put together on the task of the HTTP server while the loop    *)
(* goes on saving, so one slot is read in one step.  The loops of a page   *)
(* share nothing, so one of them is made here, as late after the page was  *)
(* asked for as it may be; the tables no message comes for are left out:   *)
(* their slots are all alike; and a record is what the slot was last told, *)
(* whatever its columns.                                                   *)
(***************************************************************************)
EXTENDS Collector, Sequences

\* Some loops over one table end where another's slots do.
ASSUME DataOutputAssumption ==
  /\ MaxSources["speed"] <= MaxSources["heading"]
  /\ MaxSources["log"] <= MaxSources["possition"] /\ MaxSources["log"] = MaxSources["leeway"]
  /\ MaxSources["temperature"] = MaxSources["temperatureExt"]

VARIABLE
  page    \* [format, the loop that is shown, its next slot, records: what is on the page,
          \*  asOf: history, how old the table's last message was when the page was asked for]

dataOutputVars == <<collectorVars, page>>

\* One loop of a page: over how many slots of a table, and what a record is numbered with
Loop(table, bound, id) == [table |-> table, bound |-> bound, id |-> id]
CsvSlots(table) == Loop(table, MaxSources[table], "slot")
CsvInstances(table) == Loop(table, MaxSources[table], "instance")
Json(table) == Loop(table, MaxSources[table], "both")
\* HumidityData has a second member called instance, which hides that of its slot and is never set.
HumidityLoop == Loop("humidity", MaxSources["humidity"], "unset")

----------------------------------------------------------------------------
(* csvoutput.cpp *)

EngineCsv == {CsvSlots("engine"), CsvInstances("dcBattery"), CsvInstances("fluidLevel")}

\* The loop over the headings ends where the speeds do.
BoatCsv ==
  {Loop("heading", MaxSources["speed"], "slot"), CsvSlots("speed"), CsvSlots("waterDepth"),
   CsvInstances("rudder"), CsvSlots("attitude"), CsvSlots("wind")}
NavigationCsv == {CsvSlots("cogSog"), CsvSlots("gnss")}
EnvironmentCsv ==
  {CsvSlots("outsideEnvironmental"), CsvSlots("environmentalParams"),
   HumidityLoop, CsvInstances("pressure")}
TemperatureCsv ==
  {CsvInstances("temperature"), Loop("temperatureExt", MaxSources["temperature"], "instance")}
XteCsv == {CsvInstances("xte")}
MagneticVariationCsv == {CsvSlots("variation")}
WindSpeedCsv == {CsvInstances("wind")}
LogCsv == {CsvSlots("log")}

\* These two loops end where the logs do.
LatLonCsv == {Loop("possition", MaxSources["log"], "slot")}
LeewayCsv == {Loop("leeway", MaxSources["log"], "instance")}

----------------------------------------------------------------------------
(* jsonoutput.cpp *)

EngineJson == {Json("engine"), Json("dcBattery"), Json("fluidLevel")}
BoatJson == {Json("heading"), Json("speed"), Json("waterDepth"), Json("rudder"), Json("attitude")}
NavigationJson == {Json("cogSog"), Json("gnss")}
EnvironmentJson ==
  {Json("outsideEnvironmental"), Json("environmentalParams"), HumidityLoop, Json("pressure")}
TemperatureJson == {Json("temperature"), Loop("temperatureExt", MaxSources["temperature"], "both")}
XteJson == {Json("xte")}
MagneticVariationJson == {Json("variation")}
WindSpeedJson == {Json("wind")}
LogJson == {Json("log")}
LatLonJson == {Loop("possition", MaxSources["log"], "both")}
LeewayJson == {Loop("leeway", MaxSources["log"], "both")}

----------------------------------------------------------------------------
ArchivePages ==
  [csv  |-> {EngineCsv, BoatCsv, NavigationCsv, EnvironmentCsv, TemperatureCsv, XteCsv,
             MagneticVariationCsv, WindSpeedCsv, LogCsv, LatLonCsv, LeewayCsv},
   json |-> {EngineJson, BoatJson, NavigationJson, EnvironmentJson, TemperatureJson, XteJson,
             MagneticVariationJson, WindSpeedJson, LogJson, LatLonJson, LeewayJson}]

\* Mutant of LastVisited: the last slot is left out.
LastVisitedShort(shown) == shown.bound - 1
\* for (int i = 0; i < bound; i++)
LastVisited(shown) == shown.bound

NoPage == [format |-> "none", shown |-> Loop("none", 0, "none"), next |-> 1, records |-> <<>>,
           asOf |-> Never]

\* startBlock() or startJson()
StartPage ==
  /\ page = NoPage
  /\ \E format \in DOMAIN ArchivePages : \E loops \in ArchivePages[format] : \E shown \in loops :
       /\ shown.table \in wanted.tables
       /\ page' = [format |-> format, shown |-> shown, next |-> 1, records |-> <<>>,
                   asOf |-> heardOf.age[shown.table]]
  /\ UNCHANGED collectorVars

\* active()
Active(slot) == slot.source # NoOne /\ slot.instance # NoOne

Finished == page.format # "none" /\ page.next > LastVisited(page.shown)

\* What the record of a slot may be numbered with
Numbers(id, i, slot) ==
  CASE id = "slot"  -> {i}
    [] id = "unset" -> Instances \cup {0}
    [] OTHER        -> {slot.instance}

\* startRecord() to endRecord() of a slot that is in use, startObject() to endObject() of any
AppendRecord ==
  /\ page.format # "none" /\ ~Finished
  /\ LET i    == page.next
         slot == store[page.shown.table][i]
     IN  \E number \in Numbers(page.shown.id, i, slot) :
           LET record == [id |-> number, age |-> slot.age, said |-> slot.said]
           IN  page' = [page EXCEPT !.next = i + 1,
                          !.records = IF page.format = "json" \/ Active(slot)
                                      THEN Append(@, record) ELSE @]
  /\ UNCHANGED collectorVars

\* lastModified gets older on the page too.
OlderRecords(records) == [n \in DOMAIN records |-> [records[n] EXCEPT !.age = Older(@)]]

\* Messages are saved until the page is finished.
DataOutputStep ==
  \/ StartPage \/ AppendRecord
  \/ ~Finished /\ CollectorMessage /\ UNCHANGED page
  \/ /\ ~Finished
     /\ CollectorTick
     /\ page' = [page EXCEPT !.records = OlderRecords(@), !.asOf = Older(@)]

DataOutputInit == CollectorInit /\ page = NoPage

----------------------------------------------------------------------------
(* Properties. *)

\* Slots that a page has no loop for: BoatCsv, LatLonCsv, LatLonJson
Unvisited(table) ==
  CASE page.format = "csv" /\ table = "heading" -> {i \in DOMAIN store[table] : i > MaxSources["speed"]}
    [] table = "possition" -> {i \in DOMAIN store[table] : i > MaxSources["log"]}
    [] OTHER -> {}

\* A page shows a reading as young as the last one there was of its table when it was
\* asked for, whatever is saved while it is put together - unless one is in a slot the
\* page has no loop for.  What it numbers with the instance of a slot is a reading of
\* that instance, until a slot has been taken over; what the humidity is numbered with
\* is nothing anybody has said.
PagesFresh ==
  Finished =>
    /\ \/ page.asOf = Never
       \/ \E i \in Unvisited(page.shown.table) : store[page.shown.table][i].source # NoOne
       \/ \E n \in DOMAIN page.records : page.records[n].age <= page.asOf
    /\ page.shown.id = "instance" /\ ~heardOf.taken =>
         \A n \in DOMAIN page.records : \A part \in MessageParts :
           page.records[n].said[part] \in {NoOne, page.records[n].id}

\* Whoever asks the archive, by a getter or for a page, gets the newest there is, but for the
\* wind's getters, the slots a page has no loop for and, by instance, slots that were taken over.
ArchiveFresh == CollectorFresh /\ PagesFresh
=============================================================================
