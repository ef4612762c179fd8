------------------------------- MODULE Modbus --------------------------------
(***************************************************************************)
(* The RS485 shunts of the archive (lib/archive/modbus): a master that has *)
(* one request under way and reads its answer piece by piece, two shunts   *)
(* that ask through it, and the loop that polls them and sends their       *)
(* values on.                                                              *)
(*                                                                         *)
(* An answer has four pieces: unit, function, length, and the rest with    *)
(* the check.  A call finds pieces of one answer; what is left of one that *)
(* was partly thrown away (cut) does not start with the unit that was      *)
(* asked.  The history that read() writes is that of Collector.            *)
(***************************************************************************)
EXTENDS Integers, Sequences

CONSTANTS
  ServiceUnit, EngineUnit,
  ModbusTimeout,   \* 5 s
  ReadPeriod,      \* 10 s
  EnabledFor,      \* 60 s
  MaxAnswers       \* answers on the wire at once (bound)

ASSUME ModbusAssumption == ModbusTimeout \in Nat

VARIABLE modbus    \* the master, the wire and the shunts
modbusVars == <<modbus>>

Shunts == {"service", "engine"}
Whats == {"voltage", "stats1", "stats2"}
Function(what) == IF what = "stats2" THEN 3 ELSE 4
Pieces == 4
\* "noise" is more than the buffer holds, and has the length byte of a longer answer.
Kinds == {"data", "exception", "garbled", "noise"}
NoAnswer == "none"

\* The registers of a measurement: voltage, current and two temperatures.  A figure of a shunt
\* is what a unit said in answer to a request, or a 0: nothing was read yet, the register's
\* number is above numRegisters, which nothing sets, or the frame is too short for it.
Registers == 0 .. 3
NumRegisters == 0
Unread == [unit |-> 0, what |-> "unread"]
Unavailable == [unit |-> 0, what |-> "absent"]
Short == [unit |-> 0, what |-> "short"]

----------------------------------------------------------------------------
(* Sending: m is the whole state, and answer what the unit makes of it.    *)

\* send() starts a new frame: of what has begun the rest makes no sense any more.
Cut(frame) == [frame EXCEPT !.is = "cut", !.what = "none"]
Begun(wire) == [i \in DOMAIN wire |-> IF wire[i].is = "begun" THEN Cut(wire[i]) ELSE wire[i]]

\* readInputAsync(), readHoldingAsync() and send()
SendRequest(m, shunt, what, answer) ==
  [m EXCEPT
     !.state = "recieve", !.request = [shunt |-> shunt, what |-> what], !.got = 0, !.age = 0,
     !.mixed = @ \/ m.wire # <<>>,
     !.wire = Begun(@) \o
              IF answer = NoAnswer \/ Len(@) = MaxAnswers THEN <<>>
              ELSE <<[unit |-> m.units[shunt], what |-> what, kind |-> answer, is |-> "whole"]>>,
     !.shunts[shunt].command = what]

\* ModbusShunt::read(): a request that is under way keeps it from asking.
ShuntRead(m, shunt, answer) ==
  IF m.units[shunt] > 0 /\ m.shunts[shunt].age > ReadPeriod /\ m.state # "recieve"
  THEN SendRequest(m, shunt, "voltage", answer) ELSE m

\* ModbusShunt::readStats()
ShuntStats(m, shunt, answer) ==
  IF m.units[shunt] > 0 /\ m.state # "recieve" THEN SendRequest(m, shunt, "stats1", answer) ELSE m

----------------------------------------------------------------------------
(* Reading. *)

\* Mutant of Belongs: the answer of any unit is taken.
AnyUnit(m, frame) == frame.is # "cut"
Belongs(m, frame) == frame.is # "cut" /\ frame.unit = m.units[m.request.shunt]

\* getInt16Response(), with checkRegisterOffset()
Int16Response(frame, upTo, register) ==
  CASE register > NumRegisters -> Unavailable
    [] register <= NumRegisters /\ upTo < Pieces -> Short
    [] register <= NumRegisters /\ upTo = Pieces -> [unit |-> frame.unit, what |-> frame.what]

Int16Responses(frame, upTo) == [register \in Registers |-> Int16Response(frame, upTo, register)]

\* onResponse(MODBUS_OK): of the first statistics it asks for the second.
OnResponse(m, figures, answer) ==
  LET shunt == m.request.shunt
  IN  CASE m.shunts[shunt].command = "voltage" ->
             [m EXCEPT !.shunts[shunt] = [command |-> "none", age |-> 0, shown |-> figures]]
        [] m.shunts[shunt].command = "stats1" -> SendRequest(m, shunt, "stats2", answer)
        [] OTHER -> [m EXCEPT !.shunts[shunt].command = "none"]

\* What readResponseAsync() does with the pieces up to upTo, of which the master has the
\* first got; two alone are checked before the length is known, over what lies behind the
\* buffer (luckyCrc).  The request that onResponse() sent is forgotten: the state is idle.
Evaluated(m, frame, upTo, luckyCrc, answer) ==
  LET read == [m EXCEPT !.got = upTo]
      mine == Belongs(m, frame)
      same == Function(frame.what) = Function(m.request.what)
      whole == upTo = Pieces /\ frame.kind # "noise"
      Failed(state) == [read EXCEPT !.state = state]
      Ok == [OnResponse([read EXCEPT !.state = "ok"], Int16Responses(frame, upTo), answer)
               EXCEPT !.state = "idle"]
  IN  IF m.got = Pieces THEN Failed("overflow")
      ELSE CASE upTo >= 2 /\ ~mine -> Failed("wrongUnit")
             [] upTo >= 2 /\ mine /\ ~same -> Failed("wrongFunction")
             [] whole /\ mine /\ same ->
                  (CASE frame.kind = "data" -> Ok
                     [] frame.kind = "exception" -> Failed("exception")
                     [] frame.kind = "garbled" -> Failed("crcFail"))
             [] upTo = 2 /\ mine /\ same -> IF luckyCrc THEN Ok ELSE Failed("crcFail")
             [] OTHER -> read

\* The pieces come off the wire; noise does not end while it is listened to.
Taken(m, upTo) ==
  LET waited == m.state = "recieve"
  IN  CASE upTo = Pieces /\ ~(waited /\ Head(m.wire).kind = "noise") -> [m EXCEPT !.wire = Tail(@)]
        [] upTo < Pieces /\ ~waited -> [m EXCEPT !.wire[1] = Cut(@)]
        [] OTHER -> [m EXCEPT !.wire[1].is = IF @ = "cut" THEN @ ELSE "begun"]

\* readResponseAsync(), with n more pieces there
ReadResponse(m, n, luckyCrc, answer) ==
  LET frame == Head(m.wire)
      came  == IF m.state = "recieve" THEN m.got + n ELSE n
      piece == IF came > Pieces THEN Pieces ELSE came
      rest  == Taken(m, piece)
  IN  CASE m.state # "recieve" -> IF n = 0 THEN m ELSE rest
        [] m.state = "recieve" /\ m.age > ModbusTimeout -> [m EXCEPT !.state = "timeout"]
        [] m.state = "recieve" /\ m.age <= ModbusTimeout ->
             IF n = 0 THEN m
             ELSE Evaluated(rest, frame, piece, luckyCrc, answer)

----------------------------------------------------------------------------
(* The loop. *)

\* Modbus::read(); while the service battery does not answer the other one is not asked.
ModbusRead ==
  \E n \in IF modbus.wire = <<>> THEN {0} ELSE 0 .. Pieces, answer \in Kinds \cup {NoAnswer} :
  \E luckyCrc \in {FALSE, modbus.got + n = 2} :
    modbus' = ShuntRead(ShuntRead(ReadResponse(modbus, n, luckyCrc, answer), "service", answer),
                        "engine", answer)

\* Modbus::readStats(), of the console
ModbusReadStats ==
  \E answer \in Kinds \cup {NoAnswer} :
    modbus' = ShuntStats(ShuntStats(modbus, "service", answer), "engine", answer)

Enabled(shunt) == modbus.units[shunt] > 0 /\ modbus.shunts[shunt].age < EnabledFor

\* Modbus::output(): both batteries are sent while the service battery is heard.
DcStatus ==
  IF Enabled("service")
  THEN {[battery |-> shunt, figures |-> modbus.shunts[shunt].shown,
         age |-> modbus.shunts[shunt].age] : shunt \in Shunts}
  ELSE {}

ModbusTick ==
  LET Later(age, bound) == IF age = bound THEN age ELSE age + 1
  IN  modbus' = [modbus EXCEPT
        !.age = Later(@, ModbusTimeout + 1),
        !.shunts = [shunt \in Shunts |->
          [modbus.shunts[shunt] EXCEPT !.age = Later(@, EnabledFor)]]]

ModbusStep == ModbusRead \/ ModbusReadStats \/ ModbusTick

\* begin() gives the engine battery no unit unless it is configured.
ModbusInit ==
  \E engine \in {0, EngineUnit} :
    modbus = [units |-> [service |-> ServiceUnit, engine |-> engine],
              state |-> "idle", request |-> [shunt |-> "service", what |-> "voltage"],
              got |-> 0, age |-> 0, wire |-> <<>>, mixed |-> FALSE,
              shunts |-> [shunt \in Shunts |->
                [command |-> "none", age |-> 0, shown |-> [register \in Registers |-> Unread]]]]

----------------------------------------------------------------------------
\* A voltage that was read is shown and sent for the battery whose own shunt measured it,
\* whatever comes late, in pieces or from the other unit; and it is the register that was asked
\* for, unless a request was sent while an earlier one's answer was still to come: the
\* statistics have the same function.  A voltage that was not read is a 0, which is shown and
\* sent until the first answer, and after two bytes whose check happens to fit what lies behind
\* them.  The answer that is waited for is understood as what was asked last.
\* "if no update for 60s dont send" (modbus.cpp:52) holds of the service battery; the engine's is
\* sent while that one is heard, whatever its age.  Current and temperatures of a shunt, registers
\* 1 to 3 of modbusshunt.cpp:57-63, are 0 whatever the unit says.
OwnVoltage(shunt, figures) ==
  \/ figures[0] \in {Unread, Short}
  \/ figures[0].unit = modbus.units[shunt] /\ (modbus.mixed \/ figures[0].what = "voltage")

ShuntsTruthful ==
  /\ \A shunt \in Shunts : OwnVoltage(shunt, modbus.shunts[shunt].shown)
  /\ \A message \in DcStatus :
       /\ OwnVoltage(message.battery, message.figures)
       /\ message.battery = "service" => message.age < EnabledFor
  /\ modbus.state = "recieve" => modbus.shunts[modbus.request.shunt].command = modbus.request.what
===============================================================================
