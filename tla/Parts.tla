------------------------------- MODULE Parts --------------------------------
(***************************************************************************)
(* Parts of the program that have nothing to do with each other, each      *)
(* checked on its own: the one that is the subject takes its steps, and    *)
(* the others stand still.                                                 *)
(***************************************************************************)
EXTENDS PgnSentences, Payloads, Polar, Storage, TcpLines, Network, Logbook, Performance, JdbStore,
        BmsSim, Web, Feed, DataOutput, Modbus, TcpServer, PgnWebSocket, Responders,
        SentenceRoute

CONSTANT Subjects
VARIABLE subject

vars ==
  <<subject, pgnSentenceVars, payloadVars, polarVars, storageVars, lineVars, networkVars,
    logbookVars, performanceVars, jdbStoreVars, bmsSimVars,
    webVars, feedVars, dataOutputVars, modbusVars, tcpServerVars, pgnWebSocketVars,
    respondersVars, routeVars>>

\* Whatever a part may start from is left to the runs in which it is the subject.
Init ==
  /\ subject \in Subjects
  /\ PgnSentenceInit /\ PayloadInit /\ StorageInit /\ LineInit /\ NetworkInit
  /\ LogbookInit /\ PerformanceInit /\ BmsSimInit /\ FeedInit
  /\ TcpServerInit /\ PgnWebSocketInit /\ RespondersInit
  /\ PolarInit      /\ (subject = "polar" \/ axis = polar_tws)
  /\ JdbStoreInit   /\ (subject = "store" \/ pack = CHOOSE any \in Packs : TRUE)
  /\ RouteInit
  /\ subject = "route" \/ (bus = (CHOOSE any \in Buses : TRUE) /\ listener = "none")
  /\ WebInit        /\ (subject = "web" \/ (mounted /\ busOpen))
  /\ ModbusInit     /\ (subject = "modbus" \/ modbus.units.engine = 0)
  /\ DataOutputInit /\ (subject = "collector" \/ wanted.tables = {"speed"})
  /\ wanted.instance = CHOOSE any \in Instances : TRUE   \* messages come of all of them

\* A part takes a step if it is the subject, and none otherwise.
Next ==
  /\ UNCHANGED subject
  /\ CASE subject = "flash" -> FlashStep \/ \E reason \in Reasons : Restart(reason)
       [] subject = "boot"  -> BootStep
       [] OTHER             -> UNCHANGED storageVars
  /\ CASE subject = "sentence" -> SentenceStep /\ UNCHANGED raw
       [] subject = "pgn"      -> PgnSentenceStep
       [] OTHER                -> UNCHANGED pgnSentenceVars
  /\ CASE subject = "battery" -> BatteryStep
       [] subject = "number"  -> NumberStep
       [] OTHER               -> UNCHANGED payloadVars
  /\ IF subject = "polar" THEN PolarStep ELSE UNCHANGED polarVars
  /\ IF subject = "line" THEN LineStep ELSE UNCHANGED lineVars
  /\ IF subject = "network" THEN NetworkStep ELSE UNCHANGED networkVars
  /\ IF subject = "logbook" THEN LogbookStep ELSE UNCHANGED logbookVars
  /\ IF subject = "performance" THEN PerformanceStep ELSE UNCHANGED performanceVars
  /\ IF subject = "store" THEN JdbStoreStep ELSE UNCHANGED jdbStoreVars
  /\ IF subject = "simulator" THEN BmsSimStep ELSE UNCHANGED bmsSimVars
  /\ IF subject = "web" THEN WebStep ELSE UNCHANGED webVars
  /\ IF subject = "feed" THEN FeedStep ELSE UNCHANGED feedVars
  /\ IF subject = "collector" THEN DataOutputStep ELSE UNCHANGED dataOutputVars
  /\ IF subject = "modbus" THEN ModbusStep ELSE UNCHANGED modbusVars
  /\ IF subject = "tcp" THEN TcpServerStep ELSE UNCHANGED tcpServerVars
  /\ IF subject = "websocket" THEN PgnWebSocketStep ELSE UNCHANGED pgnWebSocketVars
  /\ CASE subject = "dns"  -> HandleUDP
       [] subject = "echo" -> EchoStep
       [] OTHER            -> UNCHANGED respondersVars
  /\ IF subject = "route" THEN RouteStep ELSE UNCHANGED routeVars

Spec == Init /\ [][Next]_vars

----------------------------------------------------------------------------
\* Sailing figures are those of the polar table at the wind there is, and none but tws
\* outlives the inputs it was worked out from.
FiguresTrue == PolarBrackets /\ PerformanceFresh

\* The two servers that nothing starts any more: the blocking one sends a PGN to nobody whose own
\* filter does not let it through, and the web socket sends one no more often than the debounce
\* allows, where its list was not full and skipped nothing.  Excepted are what of a filter is left to the
\* next client of a slot, and who gets what of the web socket.
UnusedServersTrue == FilterHeeded /\ SocketPaced
=============================================================================
