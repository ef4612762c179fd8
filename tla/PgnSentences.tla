---------------------------- MODULE PgnSentences ----------------------------
(***************************************************************************)
(* PGNs as sentences (lib/archive/N2KMessageEncoder): $IIPGN with decoded  *)
(* values, $IIPGR with the data in hex, and a binary message, all built in *)
(* the encoder's one buffer.                                               *)
(*                                                                         *)
(* A column is the name of the value that is in it.  That checkPgn() says  *)
(* somebody wants the PGN is taken for granted; the callbacks are a user's *)
(* and stand for nothing here.                                             *)
(***************************************************************************)
EXTENDS Sentences

CONSTANT DataLengths    \* bytes of a message, up to the 223 of a fast packet
ASSUME PgnSentencesAssumption == DataLengths \subseteq 0 .. 223

VARIABLE raw    \* of a sentence or message with the data itself: [form, says, carries]

pgnSentenceVars == <<sentenceVars, raw>>

send127258 == <<"source", "daysSince1970", "variation">>
send127250 == <<"SID", "source", "deviation", "variation", "ref">>
send127257 == <<"SID", "yaw", "pitch", "roll">>
send128259 == <<"SID", "waterSpeed", "groundSpeed", "SWRT">>
send128267 == <<"SID", "depthBelowTransducer", "offset", "range">>
send128275 == <<"daysSince1970", "secondsSinceMidnight", "log", "tripLog">>
send129029 ==
  <<"SID", "daysSince1970", "secondsSinceMidnight", "latitude", "altitude", "GNSStype",
    "GNSSmethod", "nSatellites", "HDOP", "PDOP", "geoidalSeparation", "nReferenceStations",
    "referenceStationType", "referenceSationID", "ageOfCorrection", "integrety">>
send129026 == <<"SID", "ref", "cog", "sog">>
send129283 == <<"SID", "XTEMode", "navigationTerminated", "xte">>
send130306 == <<"SID", "windSpeed", "windAngle", "windReference">>
send130312 == <<"SID", "tempInstance", "tempSource", "actualTemperature", "setTemperature">>
send130316 == <<"SID", "tempInstance", "tempSource", "actualTemperature", "setTemperature">>
send130314 == <<"SID", "pressureInstance", "pressureSource", "pressure">>
send127488 == <<"engineInstance", "engineSpeed", "engineBoostPressure", "engineTiltTrim">>
\* The engine's load where the fuel rate is declared, and no torque
send127489 ==
  <<"engineInstance", "engineOilPress", "engineOilTemp", "engineCoolantTemp", "altenatorVoltage",
    "engineLoad", "engineHours", "engineCoolantPress", "engineFuelPress", "status1", "status2">>
send127505 == <<"instance", "fluidType", "level", "capacity">>
send127508 == <<"SID", "batteryInstance", "batteryVoltage", "batteryCurrent", "batteryTemperature">>
send128000 == <<"SID", "leeway">>
send129025 == <<"latitude", "latitude">>
send130310 == <<"SID", "waterTemperature", "outsideAmbientAirTemperature", "atmosphericPressure">>
send130311 ==
  <<"SID", "tempSource", "temperature", "humiditySource", "humidity", "atmosphericPressure">>
send130313 == <<"SID", "humidityInstance", "humiditySource", "actualHumidity", "setHumidity">>
send127245 == <<"rudderPosition", "instance", "rudderDirectionOrder", "angleOrder">>

PgnSentence ==
  [i127258 |-> send127258, i127250 |-> send127250, i127257 |-> send127257, i128259 |-> send128259,
   i128267 |-> send128267, i128275 |-> send128275, i129029 |-> send129029, i129026 |-> send129026,
   i129283 |-> send129283, i130306 |-> send130306, i130312 |-> send130312, i130316 |-> send130316,
   i130314 |-> send130314, i127488 |-> send127488, i127489 |-> send127489, i127505 |-> send127505,
   i127508 |-> send127508, i128000 |-> send128000, i129025 |-> send129025, i130310 |-> send130310,
   i130311 |-> send130311, i130313 |-> send130313, i127245 |-> send127245]

\* The arguments of each function, in order.
Arguments ==
  [i127258 |-> <<"SID", "source", "daysSince1970", "variation">>,
   i127250 |-> <<"SID", "source", "deviation", "variation", "ref">>,
   i127257 |-> <<"SID", "yaw", "pitch", "roll">>,
   i128259 |-> <<"SID", "waterSpeed", "groundSpeed", "SWRT">>,
   i128267 |-> <<"SID", "depthBelowTransducer", "offset", "range">>,
   i128275 |-> <<"daysSince1970", "secondsSinceMidnight", "log", "tripLog">>,
   i129029 |-> <<"SID", "daysSince1970", "secondsSinceMidnight", "latitude", "longitude",
      "altitude", "GNSStype", "GNSSmethod", "nSatellites", "HDOP", "PDOP", "geoidalSeparation",
      "nReferenceStations", "referenceStationType", "referenceSationID", "ageOfCorrection",
      "integrety">>,
   i129026 |-> <<"SID", "ref", "cog", "sog">>,
   i129283 |-> <<"SID", "XTEMode", "navigationTerminated", "xte">>,
   i130306 |-> <<"SID", "windSpeed", "windAngle", "windReference">>,
   i130312 |-> <<"SID", "tempInstance", "tempSource", "actualTemperature", "setTemperature">>,
   i130316 |-> <<"SID", "tempInstance", "tempSource", "actualTemperature", "setTemperature">>,
   i130314 |-> <<"SID", "pressureInstance", "pressureSource", "pressure">>,
   i127488 |-> <<"engineInstance", "engineSpeed", "engineBoostPressure", "engineTiltTrim">>,
   i127489 |-> <<"engineInstance", "engineOilPress", "engineOilTemp", "engineCoolantTemp",
      "altenatorVoltage", "fuelRate", "engineHours", "engineCoolantPress", "engineFuelPress",
      "engineLoad", "engineTorque", "status1", "status2">>,
   i127505 |-> <<"instance", "fluidType", "level", "capacity">>,
   i127508 |-> <<"SID", "batteryInstance", "batteryVoltage", "batteryCurrent",
      "batteryTemperature">>,
   i128000 |-> <<"SID", "leeway">>,
   i129025 |-> <<"latitude", "longitude">>,
   i130310 |-> <<"SID", "waterTemperature", "outsideAmbientAirTemperature",
      "atmosphericPressure">>,
   i130311 |-> <<"SID", "tempSource", "temperature", "humiditySource", "humidity",
      "atmosphericPressure">>,
   i130313 |-> <<"SID", "humidityInstance", "humiditySource", "actualHumidity", "setHumidity">>,
   i127245 |-> <<"rudderPosition", "instance", "rudderDirectionOrder", "angleOrder">>]

\* Values handed over as doubles; the others have at most six digits.
Doubles ==
  {"variation", "deviation", "yaw", "pitch", "roll", "waterSpeed", "groundSpeed",
   "depthBelowTransducer", "offset", "range", "secondsSinceMidnight", "log", "tripLog", "latitude",
   "altitude", "HDOP", "PDOP", "geoidalSeparation", "ageOfCorrection", "cog", "sog", "xte",
   "windSpeed", "windAngle", "actualTemperature", "setTemperature", "pressure", "engineSpeed",
   "engineBoostPressure", "engineTiltTrim", "engineOilPress", "engineOilTemp",
   "engineCoolantTemp", "altenatorVoltage", "engineHours", "engineCoolantPress",
   "engineFuelPress", "level", "capacity", "batteryVoltage", "batteryCurrent",
   "batteryTemperature", "leeway", "waterTemperature", "outsideAmbientAirTemperature",
   "atmosphericPressure", "temperature", "humidity", "actualHumidity", "setHumidity",
   "rudderPosition"}
WidestDouble == 17    \* an altitude of 8 bytes with two decimals
WidestCount == 6

\* start("$IIPGN") and the PGN
StartPgn(pgn) ==
  /\ name = "none"
  /\ name' = pgn
  /\ todo' = PgnSentence[pgn]
  /\ columns' = <<"pgn">>
  /\ \E width \in {0, WidestCount} : p' = AppendText(6, width)
  /\ UNCHANGED <<angles, cut, raw>>

\* append(), empty if there is no value
AppendArgument ==
  /\ todo # <<>>
  /\ \E width \in {0, IF Head(todo) \in Doubles THEN WidestDouble ELSE WidestCount} :
       AppendOne(Head(todo), width)
  /\ UNCHANGED <<angles, raw>>

\* Mutant of HexEnd: as far as end() would have room at all.
HexEndLate == OUTBUF_LEN - 4
\* appendBinary(): whole bytes, as long as the first digit is before this
HexEnd == OUTBUF_LEN - 6

\* sendPGN(): the PGN, the source, the length and the data; String() may leave a number empty
SendPGN ==
  /\ name = "none"
  /\ \E length \in DataLengths, pgn \in {0, 5, 6}, source \in 0 .. 3, digits \in {0, 2, 3} :
       LET begun   == AppendText(AppendText(AppendText(6, pgn), source), digits) + 1
           fits    == (HexEnd - begun + 1) \div 2
           carries == IF length < fits THEN length ELSE fits
       IN
       /\ digits # 0 => (digits = 3 <=> length >= 100)
       /\ p' = begun + 2 * carries
       /\ raw' = [form |-> "text", says |-> length, carries |-> carries]
  /\ name' = "IIPGR"
  /\ UNCHANGED <<todo, columns, angles, cut>>

\* sendBinaryPGN(): nine bytes, the data and the checksum
SendBinaryPGN ==
  /\ name = "none"
  /\ \E length \in DataLengths :
       /\ p' = 9 + length + 2
       /\ raw' = [form |-> "binary", says |-> length, carries |-> length]
  /\ name' = "binary"
  /\ UNCHANGED <<todo, columns, angles, cut>>

PgnSentenceStep ==
  \/ \E pgn \in DOMAIN PgnSentence : StartPgn(pgn)
  \/ AppendArgument \/ SendPGN \/ SendBinaryPGN

PgnSentenceInit == SentenceInit /\ raw = [form |-> "none", says |-> 0, carries |-> 0]

----------------------------------------------------------------------------
(* Properties. *)

\* More bytes than this do not fit in a sentence, which still gives their number.
FitsInHex == 114

\* The functions that lose some of their arguments: 129025 and 129029 the longitude, 127489
\* the fuel rate and the torque, and 127258 the sequence number.
Lossy == {"i129025", "i129029", "i127489", "i127258"}

\* Nothing that is encoded leaves the buffer, however long the values and the message.
\* A sentence with values has all that its function was given, each in its place - but for the
\* four that are Lossy.  One with data is cut, if it has to be, between two
\* bytes and before its checksum, and is not cut if it has no more bytes than fit; a
\* binary one is always whole.
EncodedWhole ==
  /\ SentenceWhole
  /\ name \in DOMAIN PgnSentence \ Lossy /\ todo = <<>> =>
       /\ Len(columns) = 1 + Len(Arguments[name])
       /\ \A i \in DOMAIN Arguments[name] : columns[i + 1] = Arguments[name][i]
  /\ raw.form = "text" =>
       /\ p + 4 <= OUTBUF_LEN
       /\ raw.says <= FitsInHex => raw.carries = raw.says
  /\ raw.form = "binary" => p <= OUTBUF_LEN /\ raw.carries = raw.says
=============================================================================
