---------------------------- MODULE SentenceRoute ----------------------------
(***************************************************************************)
(* The way of a sentence from a message on the bus to a client: the        *)
(* handlers of N2KHandler, which make one or more of each message,         *)
(* Performance::update(), which makes five, doSend(), which lets one of a  *)
(* kind through in its period, and SendNMEA0183Message() to TCP and UDP.   *)
(* What is in a sentence is the business of Sentences.                     *)
(*                                                                         *)
(* Of a message's reading only this matters: "new" is another value than   *)
(* the one held, "none" is one that is not available and leaves none to    *)
(* hold, and with "same" the value held stays, be it that it comes again or*)
(* that none comes for the moment.  One client listens, by TCP or to the   *)
(* broadcast.                                                              *)
(***************************************************************************)
EXTENDS Naturals

CONSTANTS
  Buses,              \* each a set of PGNs that come together
  CalculationPeriod,  \* MIN_CALCULATION_PERIOD, 500
  FastPeriod,         \* 1000
  SlowPeriod          \* 5000

ASSUME PeriodsAssumption ==
  /\ {CalculationPeriod, FastPeriod, SlowPeriod} \subseteq Nat
  /\ CalculationPeriod <= FastPeriod /\ FastPeriod <= SlowPeriod

VARIABLES
  bus,         \* the PGNs that come
  sinceSend,   \* now - lastSend... of each sentence
  sinceUpdate, \* now - lastCaculation
  linked,      \* networkUp
  listener,    \* "broadcast", or a TCP client: "none", "nmea0183" or "seasmart", its mode;
               \* "lost" for good, since the server has no handler of new ones any more
  heard,       \* history: of each sentence, for how long a client that hears has been without,
               \* and whether it has had one before
  mistimed,    \* history: the sentences it had again within the period, and those it was
               \* without for longer when a message called for one and it got none
  unseen       \* history: sinceUpdate when the oldest input came that is in no figure yet

routeVars == <<bus, sinceSend, sinceUpdate, linked, listener, heard, mistimed, unseen>>

Navigation ==
  {"HDG", "HDM", "HDT", "XDR_ROLL", "VHW", "DBT", "DPT", "VLW", "GGA", "GLL", "ZDA", "RMC", "VTG",
   "XTE", "VWR", "RSA"}
Weather == {"MWVR", "VWT", "MWVT", "MTW", "XDR_TEMP_AIR", "MTA", "XDR_BAROMETER"}
Figures == {"KEP01", "KEP02", "KEP03", "KEP99", "MWV_true"}
SentenceKinds == Navigation \cup Weather \cup Figures

SendPeriod(s) == IF s \in Weather THEN SlowPeriod ELSE FastPeriod

LongAgo == SlowPeriod + 1
Later(age) == IF age = LongAgo THEN age ELSE age + 1

----------------------------------------------------------------------------
(* Sending. *)

\* Mutant of Sent: lastSend is set whether or not the sentence is sent.
SentAlways(s, sent) == TRUE
\* doSend() sets lastSend only if it lets the sentence through.
Sent(s, sent) == s \in sent

\* sendBuffer() of a TCP client looks at its mode, broadcastTo() at nothing.
Hears == linked /\ listener \in {"broadcast", "nmea0183"}

Without(s) == heard[s].without > SendPeriod(s)

\* Sentences that are called for one after the other, each to doSend() and on
CallFor(calls) ==
  LET sent == {s \in calls : sinceSend[s] > SendPeriod(s)}
  IN
  /\ sinceSend' = [s \in SentenceKinds |-> IF s \in calls /\ Sent(s, sent) THEN 0 ELSE sinceSend[s]]
  /\ heard' = [s \in SentenceKinds |->
                IF s \in sent /\ Hears THEN [without |-> 0, before |-> TRUE] ELSE heard[s]]
  /\ mistimed' = mistimed \cup
       {s \in calls : Hears /\ IF s \in sent THEN heard[s].before /\ ~Without(s) ELSE Without(s)}

\* The end of handle(): the flag is cleared although update() may have come too early.
RouteEnd(calls, flagged, changed) ==
  LET due    == flagged /\ sinceUpdate >= CalculationPeriod
      oldest == IF unseen = LongAgo /\ changed THEN sinceUpdate ELSE unseen
  IN
  /\ CallFor(calls \cup (IF due THEN Figures ELSE {}))
  /\ sinceUpdate' = IF due THEN 0 ELSE sinceUpdate
  /\ unseen' = IF due THEN LongAgo ELSE oldest
  /\ UNCHANGED <<bus, linked, listener>>

----------------------------------------------------------------------------
(* The handlers. *)

ReadingKinds == {"same", "new", "none"}

\* variation and heading: the performance is flagged by a reading that differs, none included.
Compared(calls, reading) == RouteEnd(calls, reading # "same", reading = "new")
\* roll, water speed and wind: updateWithTimeout() is true but where it gives up the value.
Updated(calls, reading) == RouteEnd(calls, reading # "none", reading = "new")
\* the others are no input of the performance.
Passed(calls) == RouteEnd(calls, FALSE, FALSE)

\* Mutant of RouteVariation: a new variation does not flag.
RouteVariationQuiet(reading) == RouteEnd({}, FALSE, reading = "new")
RouteVariation(reading) == Compared({}, reading)

RouteHeading(magnetic, reading) == Compared(IF magnetic THEN {"HDG", "HDM"} ELSE {"HDT"}, reading)
RouteAttitude(reading) == Updated({"XDR_ROLL"}, reading)
RouteWaterSpeed(reading) == Updated({"VHW"}, reading)
RouteDepth == Passed({"DBT", "DPT"})
RouteLog == Passed({"VLW"})
RouteGnss == Passed({"GGA", "GLL", "ZDA", "RMC"})
RoutePosition == Passed({"GLL", "RMC"})
RouteCogSog == Passed({"VTG"})
RouteXte == Passed({"XTE"})
RouteWind(apparent, reading) ==
  IF apparent THEN Updated({"VWR", "MWVR"}, reading) ELSE Passed({"VWT", "MWVT"})
RouteTemperature(ofSea) == Passed(IF ofSea THEN {"MTW"} ELSE {})
RouteTemperatureExt(ofCabin) == Passed(IF ofCabin THEN {"XDR_TEMP_AIR", "MTA"} ELSE {})
RoutePressure(reading) == Passed(IF reading # "none" THEN {"XDR_BAROMETER"} ELSE {})
RouteRudder(reading) == Passed(IF reading # "none" THEN {"RSA"} ELSE {})

\* handle()
RouteMessage ==
  \/ \E r \in ReadingKinds :
       \/ 127258 \in bus /\ RouteVariation(r)
       \/ 127250 \in bus /\ \E magnetic \in BOOLEAN : RouteHeading(magnetic, r)
       \/ 127257 \in bus /\ RouteAttitude(r)
       \/ 128259 \in bus /\ RouteWaterSpeed(r)
       \/ 130306 \in bus /\ \E apparent \in BOOLEAN : RouteWind(apparent, r)
       \/ 130314 \in bus /\ RoutePressure(r)
       \/ 127245 \in bus /\ RouteRudder(r)
  \/ 128267 \in bus /\ RouteDepth
  \/ 128275 \in bus /\ RouteLog
  \/ 129029 \in bus /\ RouteGnss
  \/ 129025 \in bus /\ RoutePosition
  \/ 129026 \in bus /\ RouteCogSog
  \/ 129283 \in bus /\ RouteXte
  \/ 130312 \in bus /\ \E ofSea \in BOOLEAN : RouteTemperature(ofSea)
  \/ 130316 \in bus /\ \E ofCabin \in BOOLEAN : RouteTemperatureExt(ofCabin)

----------------------------------------------------------------------------
(* Around it. *)

NothingHeard == [s \in SentenceKinds |-> [without |-> 0, before |-> FALSE]]

\* A client connects, and has heard nothing yet.
RouteConnect ==
  /\ linked /\ listener = "none"
  /\ listener' = "nmea0183" /\ heard' = NothingHeard
  /\ UNCHANGED <<bus, sinceSend, sinceUpdate, linked, mistimed, unseen>>

\* It sends a command, or goes.
RouteCommand ==
  /\ listener \in {"nmea0183", "seasmart"}
  /\ listener' \in {"seasmart", "none"} /\ heard' = NothingHeard
  /\ UNCHANGED <<bus, sinceSend, sinceUpdate, linked, mistimed, unseen>>

\* onEnableNetwork() and onDisableNetwork(), which ends all clients and takes no new ones.
RouteSwitch ==
  /\ linked' = ~linked
  /\ listener' = IF linked /\ listener # "broadcast" THEN "lost" ELSE listener
  /\ heard' = NothingHeard
  /\ UNCHANGED <<bus, sinceSend, sinceUpdate, mistimed, unseen>>

RouteTick ==
  /\ sinceSend' = [s \in SentenceKinds |-> Later(sinceSend[s])]
  /\ sinceUpdate' = Later(sinceUpdate)
  /\ heard' = IF Hears THEN [s \in SentenceKinds |-> [heard[s] EXCEPT !.without = Later(@)]] ELSE heard
  /\ UNCHANGED <<bus, linked, listener, mistimed, unseen>>

RouteStep == RouteMessage \/ RouteConnect \/ RouteCommand \/ RouteSwitch \/ RouteTick

\* All stamps are 0 when the clock starts.
RouteInit ==
  /\ bus \in Buses
  /\ sinceSend = [s \in SentenceKinds |-> 0] /\ sinceUpdate = 0
  /\ linked = FALSE /\ listener \in {"none", "broadcast"}
  /\ heard = NothingHeard /\ mistimed = {} /\ unseen = LongAgo

----------------------------------------------------------------------------
\* However often messages come and whichever of several make the same sentence: a client in
\* NMEA 0183 mode gets one whenever it has been without for the period and a message calls for
\* it, and never two within the period, even if the network was off or the stamp was set
\* before it came.  A new input that is in no figure yet came within the period of
\* a calculation; a value that is given up need not be in any.
SentencesArrive ==
  /\ mistimed = {}
  /\ unseen < CalculationPeriod \/ unseen = LongAgo
=============================================================================
