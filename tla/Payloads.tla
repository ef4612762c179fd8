------------------------------ MODULE Payloads ------------------------------
(***************************************************************************)
(* Layouts of BLE payloads: setBatteryState(), and the numbers of the nav  *)
(* and engine payloads (writeU16() of boatwatch_ble.cpp, _engineWriteU16LE *)
(* of engine_ble_encoder.h).                                               *)
(*                                                                         *)
(* A byte of the battery payload is a record of what it holds: a count, or *)
(* a part of something.  A number of the other two is in tenths of the unit*)
(* of its field.                                                           *)
(***************************************************************************)
EXTENDS Integers, Sequences

CONSTANTS
  CellCounts, NtcCounts,  \* what a register 0x03 may say it has
  Lengths03, Lengths04,   \* register03Length, register04Length
  Tenths                  \* values of numbers

\* Counts are uint8_t, lengths size_t; writeU16() of a number below 0 is not modelled.
ASSUME PayloadAssumption ==
  /\ CellCounts \subseteq 0 .. 2^8 - 1 /\ NtcCounts \subseteq 0 .. 2^8 - 1
  /\ Lengths03 \subseteq Nat /\ Lengths04 \subseteq Nat /\ Tenths \subseteq Nat

VARIABLES
  registers,  \* the counts and lengths setBatteryState() was given
  payload,    \* _batBuffer up to _batLen
  number      \* a value and what the nav and the engine payload make of it

payloadVars == <<registers, payload, number>>

BufferLen == 64   \* sizeof(_batBuffer)

AtMost(n, limit) == IF n > limit THEN limit ELSE n
Part(what, n) == [i \in 1 .. n |-> [part |-> what, at |-> i]]
CountByte(n) == <<[part |-> "count", at |-> n]>>

\* Mutant of Cells: as many cells as register 0x03 says.
CellsUnlimited(r) == r.cells
Cells(r) == AtMost(r.cells, 16)
Ntcs(r)  == AtMost(r.ntcs, 5)

\* uint8_t totalLen
TotalLen(r) == (16 + 2 * Cells(r) + 1 + 2 * Ntcs(r)) % 2^8

\* The voltages and temperatures are left out when the register has not that many.
Battery(r) ==
  Part("head", 15) \o CountByte(Cells(r))
  \o (IF (2 * Cells(r)) % 2^8 <= r.len04 THEN Part("cell", (2 * Cells(r)) % 2^8) ELSE <<>>)
  \o CountByte(Ntcs(r))
  \o (IF 23 + 2 * Ntcs(r) <= r.len03 THEN Part("ntc", 2 * Ntcs(r)) ELSE <<>>)

setBatteryState(r) ==
  /\ registers' = r
  /\ payload' = IF r.len03 < 23 \/ TotalLen(r) > BufferLen THEN payload ELSE Battery(r)
  /\ UNCHANGED number

\* writeU16(), which cuts off
NavU16(v) == (v \div 10) % 2^16

\* Mutant of EngineU16: cut off as well.
EngineU16Cut(v) == (v \div 10) % 2^16
\* _engineWriteU16LE(), which rounds
EngineU16(v) == ((v + 5) \div 10) % 2^16

WriteNumber(v) ==
  /\ number' = [value |-> v, nav |-> NavU16(v), engine |-> EngineU16(v)]
  /\ UNCHANGED <<registers, payload>>

BatteryStep ==
  \E r \in [cells : CellCounts, ntcs : NtcCounts, len03 : Lengths03, len04 : Lengths04] :
    setBatteryState(r)

NumberStep == \E v \in Tenths : WriteNumber(v)

PayloadInit ==
  /\ registers = [cells |-> 0, ntcs |-> 0, len03 |-> 0, len04 |-> 0]
  /\ payload = <<>>
  /\ number = [value |-> 0, nav |-> 0, engine |-> 0]

----------------------------------------------------------------------------
(* Properties. *)

\* The registers are of one pack: each holds what 0x03 says there is.
OnePack(r) == r.len04 >= 2 * r.cells /\ r.len03 >= 23 + 2 * r.ntcs

\* A reader of the documented table, who takes n_cells at 15 and n_ntc behind the
\* cells, finds each part of the payload where it is and no more, whatever counts
\* the BMS claims; and the payload never outgrows its buffer.
BatteryReadable ==
  /\ Len(payload) <= BufferLen
  /\ payload # <<>> /\ OnePack(registers) =>
       LET cells == payload[16].at
           ntc   == 17 + 2 * cells
       IN  /\ payload[16].part = "count" /\ payload[ntc].part = "count"
           /\ Len(payload) = ntc + 2 * payload[ntc].at
           /\ \A i \in 17 .. ntc - 1 : payload[i].part = "cell"

\* Up to 655.34 units a number of an engine payload is the nearest there is, one of
\* a nav payload less than a unit below, and neither is taken for "not available".
NumbersKept ==
  number.value < 655345 =>
    /\ 10 * number.engine - number.value \in -4 .. 5
    /\ number.value - 10 * number.nav \in 0 .. 9
    /\ 2^16 - 1 \notin {number.nav, number.engine}

\* What a reader takes out of a payload is what was put in, for registers of one pack and
\* numbers from 0 to 655.34.
PayloadsReadable == BatteryReadable /\ NumbersKept
=============================================================================
