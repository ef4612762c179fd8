# TLA+ models of the N2KNMEA0183Wifi bridge

The program is firmware for an ESP32 that bridges a boat's NMEA 2000 bus, a JBD
battery monitor and NMEA 0183 to WiFi (TCP, HTTP, UDP) and Bluetooth LE.  These
modules model its concurrent and protocol-bearing parts, what it computes where that can
go wrong, and some of the archive the repository keeps beside it.  Every definition that
models code is listed in `PROJECT.json` under `map` with the lines it stands for.

## The system

Four kinds of task run the code:

* the Arduino **loop task** (`src/main.cpp`, `loop()`): NMEA 2000 message
  handling, BMS, performance, BLE `notify()`, console commands, logging;
* the **NimBLE host task**: `onConnect`, `onDisconnect`, `onWrite`, one at a time;
* **async_tcp**: every callback of the HTTP, TCP, UDP and DNS servers;
* the **TWAI alert task**: counts bus alerts.

| component | state | operations | interacts with | what is hard | what makes it correct |
|---|---|---|---|---|---|
| BLE connections and authentication, `lib/bluetooth/boatwatch_ble` | `_clients`, `_globalAuthFailures`, `_globalBlockUntilMs` under `_clientsMutex`; `_lastAdvCheckMs` | connect, disconnect, write (AUTH or a command), `notify()` | NimBLE, the command handler in `main.cpp` | two tasks; disconnects whose callback never comes; reused handles; a wrapping clock | only a link that proved the PIN is obeyed; guessing stays bounded; lockouts hold, then end; nobody holds a slot for ever; advertising comes back |
| BLE characteristics and payloads | four buffers, their dirty flags and values, AUTH_RESP | `set...State`, `setValue`, `notify` | the above, the loop | two calls from two tasks; counts and lengths that come from the BMS | a subscriber sees the buffer again and again; a payload can be read by its table |
| Steering, `main.cpp`, `autopilot_state.h` | the autopilot's state as reported | commands, reports | BLE, N2K bus | adjustments start from reports; angles wrap and change sides | the autopilot is sent where the clients asked |
| BMS driver, `lib/jdbbms` | a byte buffer with 8-bit positions, three registers, polling state | `update()`, `setN2KMsg()` | UART, N2K bus | answers in pieces, late, corrupt, missing; arithmetic in `uint8_t` | registers hold what the device last said; polling never stops; the parser recovers |
| SeaSmart streams, `lib/network/httpstream`, list in `httpserver` | a ring per response, a mutex-guarded list | add, remove, send, fill | loop task and async_tcp | two cores on one ring without a lock; responses freed while lines are sent | no freed response is written to; text arrives in order while the client keeps up |
| NMEA TCP server, `lib/network/AsyncTcpServer` | list of clients, protocol mode and filter of each | connect, data, disconnect, `send...`, `begin`, `end` | loop task and async_tcp | the list is not guarded | a client in the list is alive; each gets only its protocol |
| Network life cycle, `main.cpp` and `wifi.cpp` | `networkUp`, `softAP`, each server's state | enable, disable | console (loop task), BLE command (host task) | both tasks switch; a start takes up to 15 s; the flag is set last | servers run exactly when the network is up; after off and on all serve again |
| NMEA 2000 handler, `lib/N2KHandler` | the boat's state, the time of the last update of each field, two dirty flags | one handler per PGN, expiry, `output` | loop task, HTTP status pages, BLE | fields that share a stamp, are worked out from others, or go away | no value outlives its time-out; every change is flagged |
| Frame filter and rate limits, `main.cpp`, `N2KFrameFilter` | PGN lists; a time per PGN and source; a time per message of the BMS | lookups, `setN2KMsg`, `sendAsSeaSmart` | message routing | messages that compete for a place or share a key | none is starved |
| NMEA 0183 sentences, `NMEA0183Encoder`, `NMEA0183N2KMessages` | a text buffer, a time per sentence | appends of fields, `doSend` | N2K handler, TCP, UDP | missing values; angles beyond the circle; the buffer's end; several messages that make one sentence | every field in its column, angles in range, nothing cut off; a sentence once a period |
| Logbook, `lib/logbook` | a file per day, records | `log` with rotation | SPIFFS, handler | dates jump; a scan sees only some files; flash runs out; never enabled (`main.cpp:816`) | the files of the latest days are kept, and room is left |
| Freeze frames, `lib/freezeframe` | last engine messages, alarm bits | handle | SPIFFS | alarms that come while others stand; a full flash; restarts | every alarm has a line written since it rose |
| HTTP pages and upload, `lib/network/httpserver` | a file and an answer per request | GET, POST, DELETE, operations | SPIFFS, N2K bus | an upload comes in several calls, and two may mix; every handler checks the login itself | one answer, which says what was done; what is answered with success is in the file |
| Counts of restarts, `main.cpp` | a count per reason, in flash and in memory | setup, clear | preferences | a restart between any two writes | the counts shown are those in flash |
| Text feed, `BroadcastBuffer` | one ring, a position per reader | write, read | loop task and async_tcp | readers of different speed on another core | each reader gets the text from where it joined until it falls behind |
| UDP sender, echo, DNS servers | running or not | start, stop, answer | life cycle | names matched by search; counts of the query kept in the reply | the boat's address for the boat's names only; a reply holds what it announces |
| Performance, `lib/performance` | inputs, outputs, entries of the polar table | update, look-up | handler, sentences | outputs reset by name; the table search keeps the last pair | no figure without its inputs; the pair brackets the value |
| BMS simulator, `jdb_bms_sim` | bytes of a request | parse, answer | UART | no time-out | one stray byte costs at most one request |
| Unused servers, `tcpserver`, `pgnwebsocket` | slots, modes, filters, PGNs; a debounce list | connect, lines, send | loop task, web server | slots are given on to the next client | a client gets what it asked for, no more often than the debounce |
| Archive: collector and data pages | a table per kind of message | handle, get, csv and json | bus, web server | senders come, go and compete for slots, while pages are made | who asks gets what was heard last |
| Archive: shunts on RS485 | one request under way, two shunts | poll, receive | UART, N2K bus | late answers, pieces, noise | a voltage is a voltage of that shunt |
| Archive: PGN encoder | a text buffer | one sentence per PGN, hex, binary | bus, servers | missing values; the buffer's end | every field in its column, the length as announced |
| Status output, configuration, device list, printer | little or none | - | - | - | - |
| Archive: displays and sensors; web interface, simulators, tests | - | - | - | - | - |

The archive (`lib/archive`), `tcpserver` and `pgnwebsocket` are not started or not even
built any more; those of their parts that keep state are modelled all the same.

## Modules

### BleAuth - the BLE connection table

Each critical section of `_clientsMutex` is one action, and so is each stretch of
code between two of them.

| code | actions |
|---|---|
| `onConnect`, `onDisconnect` | `OnConnect`, `OnDisconnect`, after `LinkUp` or `LinkDown` has changed NimBLE's count |
| `onWrite` and `handleCommand`, AUTH | `AuthWrite`: the critical section, by outcome (`AuthRejectedGlobally`, `AuthRejectedOnLink`, `AuthAccepted`, `AuthDenied`); then `SendReply`: the answer and, for the persistent guesser, `disconnect` |
| any other command | `CommandWrite` |
| `notify()` | `NotifyBegin` (samples `now`, advertising watchdog), `NotifyCount` (the unlocked read of the connected count), `NotifyClear` or `NotifyCollect` (critical sections), `NotifyKick` per idle handle, `NotifyEnd` |
| the radio | `LinkUp`, `LinkDown`, `MissedDisconnect`, `AdvertisingStops` |

`clock` is true time and never wraps; the program sees `Millis`, its residue mod
`ClockMod`, and compares it as `unsigned long` or signed difference does.
`NimBLEServer::disconnect` only marks a link `terminating`; the link goes down
later.  A PIN is a Boolean, right or wrong.  `proved`, `obeyed`, `wrong`,
`wrongAll`, `linkEnd`, `lockEnd` are history variables: what an observer of the
radio would note.  Not modelled: the values of the characteristics, the sequence
number of AUTH_RESP (nothing reads them back) and log output.

Advertising calls that follow a critical section go with it: only `LinkUp`
depends on advertising, and it may still come arbitrarily later.

### JdbBms, MCJdbBms - the BMS driver

`update()` is a cycle `waiting -> scanning -> polling -> waiting`.  `ReadLine`
takes any number of the bytes that have arrived, `Skip`, `Corrupt`,
`ErrorFrame`, `OkFrame` are the turns of the scan by what `processFrame`
returns, `Shift` moves the rest to the front, `Request` or `NoRequest` ends the
call.  The device answers requests correctly, with an error frame, with a wrong
checksum or end byte, or not at all, early or late; bytes are lost or added.

A byte is a cell: the i-th of a frame of some kind, or noise.  Any cell may be a 0xDD:
`Spans` says, by the data of a frame and the place in it, how long a frame is that seems to
begin there, or 0 for another byte.  While a frame is incomplete the scan tries every such
byte.  The checksum of a run of cells is right exactly when they are those of one frame sent
with a right checksum.  A register is a few words; `Junk` stands for a word whose bytes
`copyReg03` has turned round once too often, or that was overwritten from outside.
All frames have the same number of cells, whatever number of words they carry; the copy of
0x03 has no limit but the register's old length and runs on into the registers behind it (frames
that would run past all three are left out).  The buffer index `BufferLength` is the first
byte of `register03`, because that is what the class layout puts behind the buffer.
The model keeps `WposMod = BufferLength + 1` as in the code (255 and 256).  Time
and arrivals are not interleaved with the scan, which reads neither.  The
value getters are in `JdbStore`, `setN2KMsg` is in `Outgoing`; the printing of the status is
not modelled.

### SeasmartStream, MCSeasmartStream, LineChannel - the SeaSmart streams

The loop task: `Offer` (`acceptSeaSmart`), `SendBegin` (takes the mutex and
begins to walk the list), `Skip` for a response that does not want the PGN, else per
character `Store` and `Advance`, the two statements of
`writeLine` that the other core can see between.  async_tcp: `Open` and `Unlink`,
`Free` for a response's life; `FillBegin`, `Copy`, `FillOn`, `FillEnd` for
`_fillBuffer`.  `End` is `WebServer::end`.  `LineChannel` is the abstract
specification, an ordered channel that promises nothing more once it has
overflowed; `SeasmartStream` implements it with `sent <- written`,
`got <- received`, `broken <- overrun`.  Statistics are left out.

### N2KHandler, BlePublish, Steering, Boat, MCBoat - from the bus to BLE and back

`N2KHandler` has one action per handler that changes what is kept: `Handle127250`
and so on.  A message is a record of the fields the handler looks at, a reading a
small integer or `NA`.  `last` holds the age of each stamp rather than its time;
`Stamps` says which fields share one.  `Expired` is what the two expiry functions
leave, which the loop calls through `isNavStateDirty()` and `isEngineStateDirty()`.

`BlePublish` has the buffers, flags and intervals of the four characteristics.
`SetStates` is the `set...State()` functions, `NotifyBegin` works out what
`notify()` will send, `StoreValue` and `SendValue` are `setValue()` and `notify()`
of one characteristic.  `AnswerStep` is the same pair in `sendAuthResponse()`, on
the other task.

`Steering` is `handleBleCommand()` (`Command`), the autopilot, which takes each
command over, and the reports from which `AutopilotBleState` is kept (`Report`), in
whole numbers of 0.01 degrees and 0.0001 rad, cut off where the code cuts off.

`Boat` composes the three: a pass of `loop()` ends with `Publish`; messages come
between passes, the host task's steps anywhere.  A scenario, chosen at the
start, fixes the messages, the commands and the clients there are.

### Network - the network life cycle

`onEnableNetwork()`, `onDisableNetwork()` and the console's `A` are lists of steps
(`Enable`, `Disable`, `ToStation`, `ToAP`), worked off by the task that began them,
one call each, while the other task may do the same.  `Joined` is the end of
`Wifi::begin()`, which falls back to an access point.  A service is what its
`begin()` and `end()` leave behind: it runs or not; the DNS server also keeps its
address, and the TCP server its clients and its handler of new ones.

### Outgoing, MCOutgoing - messages of the BMS and the streams

`Build` is `setN2KMsg()`, one message a pass in the order of `Order`; `Route` and
`Receive` are `sendAsSeaSmart()` with the deny list and the rate limit.  `age` and
`since` are times since, cut off where the code no longer tells them apart.

### Parts, MCParts - the parts that stand alone

`Parts` composes the modules below and `Network`, none of which shares anything with
another in the code: it chooses one of them, the `subject`, at the start, and the others
stand still.  A module has an `...Init` and a `...Step` and no specification of its own.

| subject | module | what is in it |
|---|---|---|
| `sentence` | `Sentences` | the sentences as lists of fields (`sendHDG` and so on), the encoder as one action per kind of append; a side is the letter that is appended; `p` is the position in the buffer, with each number as wide as its NMEA 2000 field can make it |
| `pgn` | `PgnSentences` | `N2KMessageEncoder`, which uses the same encoder: a sentence per PGN, beside the arguments its function is given (`Arguments`), a message in hex (`SendPGN`) and as bytes (`SendBinaryPGN`) |
| `battery`, `number` | `Payloads` | the bytes of the battery payload, each a part of something or a count; the numbers of the other payloads, in tenths |
| `polar` | `Polar` | `findIndexes()` and the pair of entries kept between searches |
| `performance` | `Performance` | `Performance::update()`: which output is worked out from which inputs, and what is reset before |
| `flash`, `boot` | `Storage` | freeze frames (`Handle127489`, `ConsoleF`) and uploads (`Chunk`, `Gone`, `Delete`), which compete for `Space`; counts of restarts (`Restart`, `ConsoleC`, `ClearReason`), of which the preferences may not open and a write may fail.  A restart may come between any two steps, and so may the calls of two uploads |
| `logbook` | `Logbook` | `log()`: the file of the day, rotation, the caps on records and on free space |
| `line` | `TcpLines` | `readInput()` byte by byte, `checkChecksum()` over what is in the buffer, which behind an empty line is the line before |
| `network` | `Network` | see above |
| `web` | `Web` | every route with its authorization, what the handler does and what it answers, with what the upload's callback has done by then (`Uploading`, `WritesFile`); `HandleSeasmartMsg()` |
| `feed` | `Feed` | `BroadcastBuffer` and its readers, a character a step |
| `store` | `JdbStore` | the layout of registers 0x03 and 0x04, `copyReg03`'s loops that turn the bytes round, and the getters that read them by name |
| `simulator` | `BmsSim` | the request parser of the simulator, byte by byte, and its answers |
| `dns`, `echo` | `Responders` | a DNS query by the parts its reply depends on, and each kind of reply; the echo, a segment a step |
| `collector` | `Collector`, `DataOutput` | `use()`, which gives out the slots of a table, one action per handler, the getters, the history of the pressure; the loops of the csv and json pages, a slot a step, while messages come; the humidity's records are numbered with what nobody has set |
| `modbus` | `Modbus` | the asynchronous master, the wire with whole, begun and cut answers, the four registers of an answer, of which those behind the first read as 0, the two shunts and `Modbus::read`, `readStats` and `output` (`DcStatus`) with the age of what is sent |
| `tcp` | `TcpServer` | the slots of clients, their mode and filter, commands and sends |
| `websocket` | `PgnWebSocket` | slots, the commands `addpgn` and `rmpgn`, to whom a PGN is sent (`Receivers`), and the debounce list as `record()` makes it by its gaps (`GapsFilled`): a record whose time is the PGN's number is skipped and overwritten |
| `route` | `SentenceRoute` | from a message to the client: the sentences each handler makes, when it flags the figures and `update()` makes them, `doSend()` (`CallFor`) and who listens |

### The proofs

`BleAuth_proofs`, `JdbBms_proofs`, `SeasmartStream_proofs`, `Boat_proofs` and
`Outgoing_proofs` are about the module they are named after.  `Parts_proofs` is about
`Parts`, one section for each part: its invariant is kept by its own steps and left alone by
the others (`PartsStep`), so each theorem is one of the whole composition.  The lemmas of the
network and of `TcpServer` are in `Network_proofs`, what the rings of `Feed`, `SeasmartStream` and `JdbBms` need of `%` in `RingTheorems`.
See "What is proved".

## Runs

Passing runs:

* **ble_safety** (2.2 million states).  Two handles, two slots.  Limits scaled to
  `LockoutFailures = 2`, `MaxFailures = 3`, `GlobalLockoutFailures = 3`, lockouts
  of 1 and 2 ticks, two ticks of time.  That is enough for a link lockout, a
  forced disconnect, a reconnection under the same handle, a missed disconnect,
  a global lockout fed by both links, and the end of each lockout.  Checks
  `OnlyProvedAct`, `GuessBudget`, `LockoutsHold`, `LockoutsEnd`.
* **ble_liveness** (30 000 states).  One handle, three ticks, a clock on which the
  lockout stamps wrap: `TypeOK`, `IdleDropped`, `StaleRecovered`, `AdvertisingRestored`.
* **bms_line** (255 000 states).  Frames of three cells, a buffer of eight, so
  that two frames and a part of a third may lie in it; contents and lengths of
  registers vary; answers may be late; some frames have a 0xDD within, from which a frame
  seems to begin that ends with theirs or behind it.  `LastCopy`, `InStep`, `Refreshed`.
* **bms_faults** (593 000 states).  Two faults of any kind per behaviour, a buffer
  that is full after two frames, frames with a false start and one longer than its register:
  `EveryRegisterAsked`.
* **seasmart** (303 000 states).  Two responses, two PGNs, a ring that holds one
  line and overflows with the second: `ListSound`, `StreamsKeepOrder` (the
  refinement), `Delivered`.
* **boat** (112 000 states).  Sixteen scenarios: each group of instruments whose
  fields bear on each other, and clients that come and go or steer.  `ChangesFlagged`,
  `StatesFresh` (`NavFresh` and `EngineFresh`), `SteersAsTold`, `StatesArrive`.
* **outgoing** (162 000 states).  The six messages of the BMS, another device that
  sends one of the same PGNs, CAN and the network switched twice: `Prompt`,
  `EveryPgnStreamed`.
* **parts** (507 000 states; two to four minutes).  Each subject on its own:

  | subjects | property | what it shows |
  |---|---|---|
  | `sentence` | `SentencesReadable` | fields in the columns of the standard, each angle in the range of its kind and pointing where the value does; not which letter a side gets, nor that MWV's kind is the documented one |
  | `sentence`, `pgn` | `EncodedWhole` | nothing leaves the buffer; each argument of a function is in its place in the sentence, but for the four functions that lose some (`Lossy`); data that does not fit is cut between two bytes |
  | `battery`, `number` | `PayloadsReadable` | the battery payload of registers of one pack can be read by its table; numbers up to 655.34 are the nearest, or less than a unit below, and not "not available" |
  | `polar`, `performance` | `FiguresTrue` | the pair of entries kept brackets the value (`PolarBrackets`), and no figure but `tws` outlives its inputs (`PerformanceFresh`) |
  | `route` | `SentencesArrive` | a client gets a sentence once a period while messages call for it, and never sooner; a new input is in the figures unless it came too soon behind a calculation |
  | `flash` | `AlarmsFramed` | an alarm that stands has a line written since it rose, unless the flash would not take it |
  | `flash`, `boot` | `FlashTrue` | what was answered "saved" is in the file, if that could be opened and nobody else wrote it (`SavedIsWhole`); a count in memory is the one in flash, unless the preferences failed (`AuditTrail`) |
  | `logbook` | `LogsRetained` | the oldest files go first, one more than the limit is kept at most, no file outgrows its cap |
  | `line` | `LinesStandAlone` | what is made of a line depends on that line only, unless it is empty |
  | `network` | `SwitchHolds` | `OnMeansOn`, `OffMeansOff`, `ModeKnown`: a switch made alone leaves the services, the flag and `softAP` as it says, from whatever two at once have left; clients that connect later are not in it |
  | `web` | `AnswersTrue` | one answer to a request that says what was done, and nothing done without the login but the writing of an upload, which the code does before it asks |
  | `feed` | `FeedInOrder` | a reader that keeps up gets every character once, in order, whatever the others do |
  | `store` | `StoreReadable` | every word the getters read is the one meant, turned round once |
  | `simulator` | `RequestsAnswered` | a request is answered at the latest after one that was spoilt |
  | `collector` | `ArchiveFresh` | the getters, but the wind's, show what was saved last, and so do the pages in the slots they have a loop for, whatever is saved while they are made; a slot goes to its sender |
  | `modbus` | `ShuntsTruthful` | a voltage that was read is shown and sent for the battery whose own shunt measured it, whatever comes late or in pieces, and the service battery's not when it is old; not how old the engine's is, nor current and temperature, which are 0 |
  | `tcp`, `websocket` | `UnusedServersTrue` | a client gets what the last filter it sent lets through, if it sent one; a PGN is not sent again within the debounce, unless the list was full or skipped a record (`SocketPaced`) |
  | `dns`, `echo` | `RespondersAnswer` | the address for the boat's names and for none that occurs nowhere in them (parts of them are answered too); a reply to a query without additional records holds what it announces; a line is echoed whole and once |

  In `network`, five switches by two tasks, a network to join that is there or not, and a
  TCP client.

Runs that end in a counterexample, each against something the code's comments or documents say:

* **ble_wiped**.  `notify()` reads the connected count before it takes the mutex;
  a client that connects in between loses its entry.
* **ble_kick**.  A client whose `onConnect` comes after `notify()` sampled `now`
  appears to have been connected for almost 2^32 ms and is dropped as idle.
* **bms_stuck**.  A corrupt frame behind a good one in the buffer makes
  `wpos - processedTo` wrap; the driver then replays the old frame for ever.
* **bms_first**.  `copyReg03` is bounded by the register's old length: the first
  frame copies nothing.

### Bounds

| bound | why it is enough |
|---|---|
| `MaxClock`, `StartClock` | every time-out of an instance can run out with a tick to spare.  The clock stops at `MaxClock`, which is why the BleAuth runs switch deadlock checking off; nothing else can stop there |
| `LateFailures` | wrong PINs that a link still gets in while it is being disconnected; 0 forbids none that matters to the properties, since such a link's budget is exempt |
| `ClockMod` | larger than twice any stamp in ble_safety (`NoWrap`), small enough to be passed by stamps in ble_liveness; the proofs of `TypeCorrect` and `CommandsAreProved` cover wrapping |
| `MaxFaults` | two, since what goes wrong needs a fault that delays a frame and one that spoils it |
| `MaxAsked`, `MaxLine` | requests in hand, bytes in the UART; a full buffer and two frames at once are reached |
| `MaxLines`, `MaxChunk` | the ring wraps round and overflows |
| `UnsafeTimeout` ... `NavTimeout` (boat) | 1, 1, 2, 3, 3 ticks: in the order of the code's 5, 5, 10, 15 and 15 s, which is all the handlers tell apart |
| `LoopLag` | a pass of the loop may be late by a tick; the freshness properties allow for it |
| `MinInterval`, `Interval`, `MaxInterval` | 1, 2, 3 ticks, so that a state can be too early, due, or due without a change |
| `MaxAuths`, `MaxCommands` | one answer to AUTH falls anywhere in `notify()`; two commands, so that an adjustment follows another one.  Angles are at the ends of their 16 bits |
| `MaxSwitches` (parts) | five: two pairs that overlap, and one made alone after them |
| `Configured` | a network to join, or only the access point |
| `Period`, `RateLimit`, `PassesPerTick` | messages that are due together compete for more than one pass; the loop makes at least four passes in a tick, the code's hundreds |
| `Settled` | ticks after CAN comes up in which what has become due meanwhile is worked off |
| `Bearings`, `Relatives`, `Tenths`, counts and lengths | values at and next to every bound of the code |
| `DataLengths` | messages of a frame, of two digits of length and of three, around the most that fits in hex, and the longest of a fast packet |
| `MaxHalf` | 185 degrees, beyond the last entry of either table |
| `Space`, `Chunks`, `MaxRestarts` | three chunks of flash, uploads of two: two uploads, or one and two lines, do not fit.  One restart comes between any two steps |
| `InputBuffer`, `MaxSent` | lines as long as fit, one shorter and one longer; three lines, so that a good, a bad and an empty one follow each other in any order |
| `Days`, `LOGBOOK_MAX_DAYS`, `MAX_SCAN`, `LOGBOOK_MAX_FILE_RECORDS`, `LOGBOOK_SPIFFS_MIN_FREE`, `TotalRecords` | four days in any order with two to keep; a full file; a flash that is full before all files are |
| `PackCells`, `PackNtcs` | none, the usual and the most; sensors that end before, at and behind the places the loops of `copyReg03` depend on |
| `StrayBytes` | every byte the simulator tells apart, and any other |
| `FeedClients`, `BROADCAST_BUFFER_LEN`, `MaxFeed` | two readers; text for twice round the ring |
| `CollectorSources`, `Instances`, `MaxSources` | two senders and two instances for tables of one slot, or two where a getter or a page goes over several: they compete.  One instance is asked for: messages come of both |
| `StaleAfter`, `HistoryLength`, `MaxPeriods` | a slot can be taken over; the history comes round |
| `ModbusTimeout`, `ReadPeriod`, `EnabledFor`, `MaxAnswers` | a tick is longer than the first two, and another makes a shunt silent; two answers on the wire, one of them late |
| `TcpPeers`, `ServerSlots`, `Pgns`, `MaxFields`, `FilterSize` | a slot that changes hands; a filter that is full |
| `WsPeers`, `MaxWsClients`, `WsPgns`, `WsAsked`, `MaxTracking`, `Debounce` | two clients and slots, so that one goes before and behind the other; two PGNs, of which the one makes the list skip the other's record.  That it overflows takes three: with them it was checked once (155 000 states), and with four and a list of three (684 000).  Clients ask for the PGNs in `WsAsked`; a time is that of a PGN's number or of none |
| `DomainNames`, `NamesWithin`, `NamesElsewhere` | names that are the boat's, that only occur in one of them, and others |
| `MaxEcho` | a line in three segments |
| `Buses` | messages that share a sentence or the figures come together, the others alone |
| `CalculationPeriod`, `FastPeriod`, `SlowPeriod` | 1, 1, 2 ticks: a message can come too early, in time and late for each |

`parts` uses no symmetry: its sets are small, and sorting states costs more than it saves.

### Fairness

`loop()` and the host task run for ever: weak fairness of `Notify`, of the
pending callback, of `Update`, of the writer's steps.  Time passes.  A link that
was told to disconnect does (strong fairness, because other callbacks may keep
the host task busy in between).  Bytes on the wire arrive (strong fairness of
`Read`), and the BMS answers all but the finitely many requests the faults take.
async_tcp polls every open response again and again (strong fairness of
`FillBegin`), as the web server does for a response that says "try again", as long
as its client takes what it is sent.

In `boat` and `outgoing` the passes of the loop are weakly fair and `Tick` is strongly
fair, because between any two ticks there may be another pass: time goes on all
the same.  In `outgoing` the BMS answers again and again (strong fairness of
`CopyRegister`, which is what `bms_line` shows of the driver).  The properties say
"unless CAN, or the network, is switched off for good, or nobody authenticates".
`parts` checks safety only.  `CHECK_DEADLOCK FALSE` stands where the model comes to its
bound: `parts` when a sentence is complete, the network has made its last switch or
another bound is used up.

## What is proved

Thirty-one theorems, from 474 lemmas: every safety property the passing runs check is
the subject of one.  TLC has checked each property on the instances of
the runs before it was proved; the proofs hold for every value of the constants that the
named ASSUMEs allow.

| module | assumptions | theorems |
|---|---|---|
| `BleAuth` | `HandleAssumption` (finitely many handles), `CountAssumption` (limits fit their counters), `TimeAssumption`, `NoClientAssumption`; `NoWrap` for the last three theorems | `TypeCorrect`, `CommandsAreProved`; `GuessingBounded`, `LockoutsAreKept`, `LockoutsAreOver` |
| `JdbBms` | `SizeAssumption`, `DataAssumption`, `SpanAssumption`; `Undisturbed` (the line, and frames that fit and have no false start that ends within them) | `KeepsInStep`, `CopiesAreTrue` |
| `SeasmartStream` | `StreamAssumption`: a line is shorter than the ring | `ListIsSound`, `RingIsChannel` |
| `Boat` | `TimeoutAssumption` (the order of the time-outs), `IntervalAssumption`, `ScenarioAssumption` (messages and commands are of the kinds there are) | `ChangesAreFlagged`, `StatesAreFresh`, `AutopilotIsTold` |
| `Outgoing` | `PeriodAssumption`: a tick is no longer than the shortest period, and the loop makes at least three passes in it | `MessagesArePrompt` |
| `Parts`: feed, network, flash, lines, route | `FeedAssumption`, `NetworkAssumption`, `StorageAssumption`, `LineAssumption`, `PeriodsAssumption` | `FeedIsInOrder`, `SwitchesAreMade`, `AlarmsAreFramed`, `FlashIsTrue`, `LinesAreAlone`, `SentencesDoArrive` |
| `Parts`: logbook, figures | `LogbookAssumption` (a scan sees more files than are kept), `MaxHalfAssumption` | `LogsAreRetained`, `FiguresAreTrue` |
| `Parts`: web, DNS and echo, unused servers | `RespondersAssumption`, `TcpServerAssumption` (0 and 1 are no PGNs), `PgnWebSocketAssumption` | `AnswersAreTrue`, `RespondersDoAnswer`, `UnusedServersAreTrue` |
| `Parts`: sentences, PGNs, payloads | `SentencesAssumption`, `PgnSentencesAssumption` (what a fast packet holds), `PayloadAssumption` (counts are bytes) | `SentencesAreReadable`, `EncodingIsWhole`, `PayloadsAreReadable` |
| `Parts`: store, simulator | `JdbStoreAssumption` (what the registers hold) | `StoreIsReadable`, `RequestsAreAnswered` |
| `Parts`: archive | `CollectorAssumption`, `DataOutputAssumption` (the sizes of tables one loop goes over), `ModbusAssumption` | `ArchiveIsFresh`, `ShuntsAreTruthful` |

### BleAuth

* **TypeCorrect**: `Spec => []TypeOK`.
* **CommandsAreProved**: `Spec => []OnlyProvedAct`.  The invariant needed is that
  an entry which says `authed` belongs to a link in `proved` - except while the
  link's own `onConnect` is still to come (then the entry is the previous link's,
  and will be replaced before anything can be written) or the link is down.
  That exception is exactly the window of a missed disconnect and a reused handle.

And for behaviours that end before `millis()` wraps (`NoWrap`: twice the last
stamp fits the clock): **GuessingBounded**, `Spec => []GuessBudget`; **LockoutsAreKept**,
`Spec => LockoutsHold`; **LockoutsAreOver**, `Spec => LockoutsEnd`.
All three rest on one inductive invariant, `Inv`: a stamp that is not zero is the
observer's `lockEnd` (`linkEnd` for a link), and a lockout the observer still sees
running has its stamp; the counter of a link is its wrong PINs modulo the link
limit as long as the link is not being disconnected; the cumulative counter is the
observer's as long as no stamp is set.  `GuessBudget` alone is not inductive: it
says nothing about the program's counters.  The step of the proof that does the work is
`AuthDenied`, where counter, stamp and history move together; `NextRemainder` and
`BlockedMeansLater` are the arithmetic it needs.  The assumption is needed: a
global lockout nobody tests again leaves its stamp set, and half a clock range later
(24.8 days) the signed comparison takes it for a lockout in the future.

### JdbBms

Both theorems assume `Undisturbed`: the line neither loses nor adds bytes and the
device answers with ok frames or not at all, as in `bms_line`; no frame is longer than its
register, and none has a 0xDD from which a shorter one seems to begin (`FitRegisters`,
`NoFrameWithin`).  The code sees to neither of the last two: a frame with such a byte may be lost (see
"Observations without a run"), and `bms_stuck` shows what a corrupt frame does.  The types of the
variables, a lemma of both, need none of this.  `StepInv` says that line and buffer
together are whole frames, the first perhaps begun, and that the scan stands where a frame begins (**KeepsInStep**).
`CopiesSound` looks ahead: the last frame of a register that is still to be copied is
the one heard last, and when there is none the register holds it; of 0x03 the last but
one frame sets the length at which the last is cut (**CopiesAreTrue**).  `Least` and
`Greatest`, by the smallest counterexample, stand in for induction over the buffer.

### SeasmartStream

`StreamsInv` has the list and the rings.  The list: what the walk has still to visit is in
the list, the list is injective and holds open responses only, what is being freed is off it; the
mutex gives the first of these, and **ListIsSound** is the rest.  A ring that has not
overflowed (`RingInv`): `wpos` and `start` are the characters written and received,
modulo the length; those between are in their places; and less than a whole ring lies
between, which is what `overrun` counts.  `StoredInv` is the window between the two statements
of `writeLine`.  From these every step of the ring is a step of `LineChannel` or stutters
(**RingIsChannel**).

### Boat

`BoatInv` relates four things that no single function sees together: a reading that
is kept was heard when its stamp says or since (`HeardSound`; the fields of 127489 and the
heading share a stamp, and neither `cogt` nor `cogm` is in it, see below); the engine's buffer shows the
readings unless its flag is up (`EngineFlagged`); and the two properties themselves.
For each PGN a lemma (`Keeps127250` and so on) says that the handler heeds its message
(`Heeded`): a field is forgotten, taken from the message with its stamp, or left alone with its
stamp; and no change goes unflagged.  `ReceiveKeeps` and `PublishKeeps` then need
not look into any handler.  **ChangesAreFlagged** and **StatesAreFresh** follow.

**AutopilotIsTold** rests on `SteerInv` alone: the wind angle the autopilot holds is the
one asked for, give or take 0.02 degrees a command and whole turns, for adjustments of
any size.  `RoundTrip` and `WindShown` bound what each conversion cuts off; the two
sides of the bow are whole turns apart.

### Parts

* **FeedIsInOrder**: a character is in its place before it is published (`WriterInv`), and
  a reader that is not behind stands at the place of what it reads next, with everything
  it has not read still in the ring (`ReaderInv`).
* **SwitchesAreMade**: of a switch made alone, what is left of it in `pending` says what it has
  done (`EnabledUpTo`, `DisabledUpTo`), whatever it found; `SwitchHolds` itself speaks of
  complete switches only.
* **AlarmsAreFramed** is inductive as it stands; **FlashIsTrue** needs `FilesInv`: an upload
  whose file is open has in it what it got, unless another had the same file meanwhile.
* **LinesAreAlone**: the buffer holds the beginning of the line that is being sent, as much of
  it as fits (`BufferInv`), so what is made of a line depends on it alone.
* **SentencesDoArrive**: `HeardInv` relates the handler's stamp of a sentence to how long
  the client has been without.

* **LogsAreRetained** is about steps: `LogsInv` bounds the number of files by one over the
  limit, so that a rotation removes one file at most, the oldest, and none that is written.
* **FiguresAreTrue**: the cached entries are those of the whole part of the value looked up last
  (`PolarInv`), and `findIndexes` brackets every value of either table, by the greatest entry that
  is not above it; `PerformanceFresh` is inductive as it stands.
* **AnswersAreTrue** and **PayloadsAreReadable** are inductive as they stand: each request and each
  payload is made in one step, and the proof is a case for every route or part of the table.
* **RequestsAreAnswered** needs that behind any request the simulator waits for a new one
  (`SimInv`); `Moves` says field by field what one byte makes of its state.
* **ShuntsAreTruthful** (`ShuntInv`): every frame on the wire that is not cut is what was asked for
  last, until two requests have met, and the shunt that has asked knows what for.
* **ArchiveIsFresh**: of every table a slot in use keeps its number, and one of them is as young
  as the last message (`CollectorInv`); while a page is made, that message is on it or in a slot that
  is still to come (`PageInv`), however many slots are taken over meanwhile.
* **RespondersDoAnswer**: what the client sent is echoed or queued, as far as the first line end
  (`EchoInv`).
* **UnusedServersAreTrue**: a slot is in the mode its peer's commands have put it in, with a
  filter from the last of them if that set one (`SlotHeeds`), and a peer has one slot
  (`OneSlotEach`); the list of the web socket has the newest first and, unless more were sent
  than it holds or one was skipped, every PGN that was sent within the debounce (`ListInv`).
* **SentencesAreReadable** and **EncodingIsWhole** share one invariant (`EncoderInv`), by stages:
  after k fields the columns are those of the documentation, the angles kept, and the position is no
  further than `Reach(k)`, the widest k fields.  The longest sentence then fits.  Where a message
  is cut follows from the number of its bytes alone (`PgnInv`).
* **StoreIsReadable** (`StoreInv`): a register has a whole frame or nothing.  The lemmas have the
  place of every value in a frame of any number of cells and temperatures (`FrameAsBytes`), that no
  two swaps of `copyReg03` meet (`StartsOfPack`), and so what each getter reads (`ValuesOfPack`).

### Outgoing

**MessagesArePrompt** counts (`PromptInv`): as many messages are new as passes were made in this
tick, and if something is left over a tick beyond its period, at least three were made in the last
one too.  There are six kinds, so with three passes in each of two ticks nothing that waits for no
answer of the BMS is left over twice (`NoneLeftTwice`).

### Model-checked only

* Every liveness property (`IdleDropped`, `StaleRecovered`, `AdvertisingRestored`, `Refreshed`,
  `EveryRegisterAsked`, `Delivered`, `StatesArrive`, `EveryPgnStreamed`): the prover has
  no rules for fairness.
* What the four runs with a counterexample show: a counterexample is one behaviour, and no theorem.

The proofs go as far as the models: where a formula, a text or a list that nobody guards is left
out below, they say nothing of it.

## Observations without a run

What the models had to say to be faithful, and no property speaks about.

BLE and the BMS:

* `README.md:102` of the repository says the global lockout comes after 20
  failures; the header says 30 (`boatwatch_ble.h:72`).
* A lockout that would end exactly when `millis()` is 0 is none, since 0 means "no
  lockout" (`boatwatch_ble.cpp:474`); the cumulative counter then runs on until the
  next failure sets a stamp.
* A global lockout that is over is only cleared by the next attempt: 24.8 days later the signed
  difference makes it one to come, and the right PIN is refused for as long (`boatwatch_ble.cpp:474`).
  `NoWrap` excludes it; on a clock of 8 ticks and over 7 of them TLC finds `LockoutsEnd` violated.
* `notify()` collects at most `BW_MAX_CLIENTS` idle handles (`boatwatch_ble.cpp:181`), and entries
  whose disconnect was missed are among them, as long as anybody is connected.  As many of them as
  the array holds keep an idle client from being dropped, although `README.md:103` has it dropped
  after 30 s.  With two handles and one slot TLC finds `IdleDropped` violated; `ble_liveness`, with
  one handle, has no such entry.
* The answer to AUTH and a state may overwrite each other between `setValue` and
  `notify` of a characteristic (`boatwatch_ble.cpp:199`, `:565`).  `BlePublish` models it.
* The overflow test in `update()` comes after the store; if error frames, which
  are never taken out, have filled the buffer, the next byte lands in
  `register03`.  `JdbBms` models it (`ReadLine`).
* While a frame is incomplete every later 0xDD of it is tried as a start (`jdb_bms.cpp:76`).  A good
  frame that comes in two pieces and has one within, from which a shorter frame seems to begin, is
  dropped as "definite data corruption" (`:89`) though nothing was, and its register is not
  updated.  `JdbBms` models it (`Spans`); with such frames TLC finds `LastCopy` violated.
* A frame of 0x03 longer than the 64 bytes of its register is copied past them into the next
  two (`jdb_bms.cpp:203`, `:224`), a yet longer one into what lies behind.  `JdbBms` models the
  former (`Stored`).
* A BMS that has fallen silent is still published (`jdb_bms.cpp:412`), and a frame copied in the
  millisecond in which its register went out is not, until the next one.
* Registers 0x03, 0x04 and 0x05 go out as PGN 130829 with one source, so the rate
  limit lets one of them a second into the streams.  `EmitMessages()` offers `SendMsg` a
  message with PGN 0 on every pass with nothing due (`main.cpp:939`).
* When register 0x04 is shorter than the cells 0x03 declares, the battery payload
  counts cells it does not hold (`boatwatch_ble.cpp:355`).  The buffers of navigation and
  autopilot are zeros, without their magic byte, until the first data.
* An `ADJUST_` command before the pilot has reported the last one loses that one;
  `ADJUST_HEADING` starts from the heading, not from the target.  WIND_TWA is never shown:
  PGN 65379 maps both wind modes to WIND_AWA.

NMEA:

* `cog` on BLE follows the variation without a flag, and so does a heading worked
  out from a true one; a true heading alone never expires and is not used while a
  magnetic one is held.  `ChangesFlagged` and `NavFresh`,
  a part of `StatesFresh`, except them.
* `updateWithTimeout()` ignores its `period`; `faaValid` never expires.
* True headings are magnetic minus variation (`N2KHandler.cpp:246`), although
  `docs/ble-transport.md:163` has the variation positive to the east.
* `appendRelativeAngle()` appends `pos` for negative angles too (`NMEA0183Encoder.cpp:122`): a wind
  from port goes out in VWR and VWT with the R of starboard, although
  `NMEA0183N2KMessages.cpp:335` and `:369` have "L=port, R=starboard", and so HDG and RMC have the
  letter of east for west.  MWV has a signed angle, with a minus to port, although `:391` has "0 to
  359 degrees".  `Sentences` models both.
* An input that comes within 500 ms of a calculation is in no figure until another one flags
  them, since `handle()` clears the flag whatever `update()` did (`N2KHandler.cpp:153`); a value that
  is given up does not flag them.  `SentenceRoute` models both.
* True wind goes out in two sentences MWV, one from the bus and one worked out, each with a
  period of its own.
* `sendZDA` puts the seconds of the message beside the date of another.
* `append()` of an integer calls `String(field, 0)`, which asks for base 0, and takes 0xff or
  0x7f for "not available" at any width; the models let such a field be empty or not.
* `performance.cpp` compares the variation with -1e-9, looks polar speeds up with a
  wind in knots where m/s are expected, and builds the opposite track's magnetic
  heading from the true wind direction: formulas, and in no model.  `tws` is never reset
  and `twa` twice; the apparent wind speed is used without a look whether there is one.
  `Performance` models these.

Network and flash:

* The TCP server's SeaSmart mode never delivers: `getNextField()` stops at the `$` the
  sentence begins with, so the filter stays empty and the client, no longer in
  NMEA 0183 mode, gets nothing (`AsyncTcpServer.cpp:362`, `README.md:80`).
* `end()` clears the handler of new clients and `begin()` does not set it again.
  Two switches at once can leave `networkUp` at odds with the servers.
* `close()` of a TCP client takes it off the list, which destroys it, and the destructor calls
  `close()` again; the comment on `AsyncTcpServer.cpp:186` means to rule that out.  `clients.clear()` in
  `end()` does the same to the list it is clearing.  `Network` has only the list become empty.
* `softAP` stays set after the console's `A` has gone back to station mode, and the
  DNS server, which keeps its address, then starts in station mode too.
* An empty line to the TCP server is judged by the line before it; an empty first
  line by memory nobody has written.
* `httpstream.cpp:119` says writeLine watches `start` to avoid overwriting; it only
  counts.  `SeasmartStream` models it (`overrun`).
* An upload whose file could not be opened is answered "saved" (the status is set
  before `SPIFFS.open`, `httpserver.cpp:348`); a restart or a disconnect in mid-upload
  leaves the part that came.  A freeze frame for which there is no room is lost.
* `logFreezeFrame()` writes 31 letters and a zero into `filename[30]`.  Freeze frames
  ignore the engine's instance, and take 0xFFFF, "not available", for alarms.

HTTP, DNS and echo:

* The callback for an upload's chunks (`httpserver.cpp:317`) checks the path and no login: the file,
  `/config.txt` too, has been written when `authorized()` in the handler answers 401, although `:41`
  has "an authenticated admin" and `:29` that callers have checked.  `Web` models it (`WritesFile`).
* A GET of a file that is not there, and an operation of a name nobody knows, get no answer; the
  configuration file is sent without the header that lets other pages read it.
* `/api/seasmart?pgns=` with nothing behind it leaves the result of `sscanf` at -1, which a
  `size_t` makes a length (`httpstream.cpp:77`, `:107`).
* The DNS server gives the address for any name that occurs somewhere in the boat's, as "local"
  does, although the comment at `AsyncDNSServer.cpp:111` has the domain match, and whatever the type
  asked for; a query with additional records is answered with a header that still counts them.
* What follows the end of a line in the same segment is not echoed.

Unused servers and archive:

* A slot of `tcpserver` that changes hands keeps the filter, and a command that is refused
  still switches to SeaSmart mode.  `removeClient()` of `pgnwebsocket` follows the pointer
  of an empty slot that comes first; the loops over a list of PGNs advance the wrong
  counter; `allpgns` cannot be taken back, and `send()` goes to every client, although
  `pgnwebsocket.cpp:265` says to those that have requested the PGN.  `record()` compares a time with the PGN (`pgnwebsocket.cpp:206`), skips
  the record of another one and copies the next over it: that PGN is sent again within the
  debounce.  `PgnWebSocket` models these.
* `use()` keeps the instance of a slot it takes over.  Wind, cross track error and leeway
  use the sequence number for an instance, so that their table fills and stays as it is for
  ten minutes; 255 is stored but never shown.  The getters of the wind return the first entry, not
  the newest.  After a day the history blends a period with that of the day before.
* The csv headings run to the wrong table's size, so that two are missing, and a third
  position is never shown; attitude and wind have their columns in another order
  than documented; engines are numbered by slot, not instance.  The humidity has an `instance` of
  its own (`N2KCollector.h:159`) beside that of its slot, which nothing sets; the page
  prints it (`csvoutput.cpp:242`).  `DataOutput` models it as any number.
* `send129025` sends the latitude twice, `send129029` no longitude, `send127489` no fuel rate and
  no torque, `send127258` no sequence number: `EncodedWhole` excepts them (`Lossy`).  More than
  about 115 bytes are announced in full and cut off in `$IIPGR`.  A binary message is handed on
  without its length.
* A first piece of two bytes of a Modbus answer leaves `lenToRead` at 0, and the checksum of 254
  bytes is computed.  A request made from `onResponse()` is forgotten, since the state is
  set to idle behind it; the answer may then be taken for a voltage.  While the service
  battery is silent the engine's is not asked.  A voltage that was never read is sent as 0.
* The engine battery's status is sent as long as the service battery is heard (`modbus.cpp:58`),
  however old it is, although `:52` has "if no update for 60s dont send".  Its and the other's current
  and temperatures are 0, since nothing sets `numRegisters` (`modbusmaster.cpp:232`).  `Modbus` models
  both.

## Not modelled

* Of `lib/archive`, the displays, their pictures and the sensors: drawing and
  one-shot reads.  The displays and sensors are two fifths of the repository's lines, and the web interface,
  simulators and tests in JavaScript and C another fifth.  The map covers 32 % of all
  lines.
* Printing: the NMEA 2000 printer, the device list, help and status pages, the JSON of
  the handlers.  There is no state but the text.
* Formulas: the performance figures, leeway, interpolation, the CRC of a binary message.
* The contents of UDP packets, and the text of the configuration file.
* The handlers' fields that only sentences use.
* The synchronous requests of the Modbus console, which stop the loop meanwhile.
* The NMEA 2000 library: sending from the BLE host task while the loop parses is
  unguarded on the program's side (`main.cpp:632`).
* What undefined behaviour of the unguarded list of TCP clients may do.

## Plan

Done: `BleAuth` with its proofs, `JdbBms`, `SeasmartStream` with `LineChannel`, the
handler, the characteristics and steering (`Boat`), the messages of the BMS and the rate
limit (`Outgoing`), and everything in `Parts`; the proofs of `BleAuth`, `JdbBms`,
`SeasmartStream`, `Boat`, `Outgoing` and of all parts.

Left:

1. `AuthPolicy`: an abstract specification of authentication that `BleAuth` implements.
2. `BleAuth` composed with `BlePublish`, so that who is sent to is decided by the table.
