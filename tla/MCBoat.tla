------------------------------- MODULE MCBoat -------------------------------
(* Scenarios of Boat for TLC: instruments whose fields bear on each other. *)
EXTENDS Boat

Reading == {0, 1}
Maybe == Reading \cup {NA}

Quiet == [messages |-> {}, pilot |-> {}, bms |-> {}, clients |-> "none", commands |-> {}]
On(messages) == [Quiet EXCEPT !.messages = messages]

Variation == [pgn : {127258}, variation : Maybe]
Heading == [pgn : {127250}, reference : {"magnetic", "true"}, heading : {0, NA},
            variation : {NA}]
Compass == [pgn : {127250}, reference : {"magnetic"}, heading : Maybe, variation : {0, NA}]
Course == [pgn : {129026}, reference : {"magnetic", "true"}, cog : {0, NA}, sog : {0}]
Speed == [pgn : {129026}, reference : {"true"}, cog : {NA}, sog : Maybe]
Fix == [pgn : {129029}, safe : BOOLEAN, position : Maybe]
RapidFix == [pgn : {129025}, position : {0, NA}]
Wind == [pgn : {130306}, apparent : BOOLEAN, awa : {0, NA}, aws : {0, NA}]
Water == [pgn : {128259}, stw : {0, NA}]
Depth == [pgn : {128267}, depth : {0, NA}]
Log == [pgn : {128275}, log : {0, NA}]
Attitude == [pgn : {127257}, roll : {0, NA}]
Rpm == [pgn : {127488}, rpm : Maybe]
Engine == [pgn : {127489}, coolantTemp : {0, NA}, dynamic : {0, NA}, status : {0, NA}]
Temperatures == [pgn : {130312, 130316}, source : {"exhaustTemp"}, temperature : {0, NA}]
Room == [pgn : {130312}, source : {"engineRoomTemp"}, temperature : {0}]
Fuel == [pgn : {127505}, fuelLevel : {0, NA}]
Cranking == [pgn : {127508}, engineBattVolts : {0, NA}]
Pilot == [field : {"mode"}, raw : {1}]
Helm == [field : {"heading"}, raw : {62831}]
Wheel == [cmd : {"mode"}, raw : {3}] \cup [cmd : {"setHeading"}, raw : {36000}]
         \cup [cmd : {"adjustHeading"}, raw : {-32768, 100}]
Vane == [cmd : {"setWind"}, raw : {-4501}]
        \cup [cmd : {"adjustWind"}, raw : {-18000, 32767}]

Instruments ==
  {On(Variation \cup Heading), On(Compass), On(Variation \cup Course), On(Speed),
   On(Fix \cup RapidFix), On(Wind \cup Attitude), On(Water \cup Depth), On(Log),
   On(Rpm \cup Engine), On(Temperatures \cup Room), On(Fuel \cup Cranking)}

\* One source at a time, so that its characteristic and the others stay few.
WithClients ==
  LET changing == [Quiet EXCEPT !.clients = "changing"]
      steering == [Quiet EXCEPT !.clients = "authed"]
  IN  {[changing EXCEPT !.pilot = Pilot, !.bms = {ShortRegister}],
       [changing EXCEPT !.messages = {[pgn |-> 127505, fuelLevel |-> 0]}],
       [changing EXCEPT !.bms = {[volts |-> 1]}],
       [steering EXCEPT !.pilot = Helm, !.commands = Wheel],
       [steering EXCEPT !.commands = Vane]}

AllScenarios == Instruments \cup WithClients
=============================================================================
