SPECIFICATION Spec
CONSTANTS
  Subjects = {"sentence", "pgn", "battery", "number", "polar", "flash", "boot", "line", "network",
              "logbook", "performance", "store", "simulator", "web", "feed",
              "collector", "modbus", "tcp", "websocket", "dns", "echo", "route"}
  Bearings <- EdgeBearings
  Relatives <- EdgeRelatives
  DataLengths = {0, 8, 99, 113, 114, 115, 116, 117, 223}
  MaxHalf = 370
  CellCounts = {0, 4, 17, 125, 255}
  NtcCounts = {0, 3, 6}
  Lengths03 = {22, 23, 29, 33}
  Lengths04 = {0, 8, 32, 250}
  Tenths <- EdgeTenths
  Alarms = {a1, a2}
  Uploads = {r1, r2}
  Paths = {"file"}
  Reasons = {"panic", "brownout"}
  Space = 3
  Chunks = 2
  MaxRestarts = 1
  LineKinds <- EdgeLines
  InputBuffer = 5
  MaxSent = 3
  Tasks = {"loop", "host"}
  Clients = {c1}
  MaxSwitches = 5
  Configured = {"softap", "boat"}
  Days = {1, 2, 3, 4}
  LOGBOOK_MAX_DAYS = 2
  MAX_SCAN = 4
  LOGBOOK_MAX_FILE_RECORDS = 3
  LOGBOOK_SPIFFS_MIN_FREE = 1
  TotalRecords = 10
  PackCells = {0, 4, 16}
  PackNtcs = {0, 1, 3, 5, 16}
  StrayBytes = {"dd", "a5", "00", "77", "ff", "03", "fd", "other"}
  FeedClients = {f1, f2}
  BROADCAST_BUFFER_LEN = 3
  MaxFeed = 6
  CollectorSources = {s1, s2}
  Instances = {i1, i2}
  MaxSources <- Slots
  StaleAfter = 1
  HistoryLength = 2
  MaxPeriods = 3
  ServiceUnit = 4
  EngineUnit = 5
  ModbusTimeout = 0
  ReadPeriod = 0
  EnabledFor = 1
  MaxAnswers = 2
  TcpPeers = {"p", "q"}
  Pgns = {11, 12}
  ServerSlots = 1
  MaxFields = 3
  FilterSize = 2
  WsPeers = {w1, w2}
  WsPgns = {u1, u2}
  WsAsked = {u1}
  MaxWsClients = 2
  MaxTracking = 2
  Debounce = 1
  DomainNames = {"boatsystems.local", "boatsystems"}
  NamesWithin = {"local", ""}
  NamesElsewhere = {"example.org"}
  MaxEcho = 3
  Buses <- BusGroups
  CalculationPeriod = 1
  FastPeriod = 1
  SlowPeriod = 2
INVARIANT SentencesReadable
INVARIANT EncodedWhole
INVARIANT PayloadsReadable
INVARIANT FiguresTrue
INVARIANT AlarmsFramed
INVARIANT FlashTrue
INVARIANT LinesStandAlone
INVARIANT SwitchHolds
PROPERTY LogsRetained
INVARIANT SentencesArrive
INVARIANT StoreReadable
INVARIANT RequestsAnswered
 
INVARIANT FeedInOrder
INVARIANT ArchiveFresh
INVARIANT ShuntsTruthful
INVARIANT UnusedServersTrue
INVARIANT RespondersAnswer
CHECK_DEADLOCK FALSE
