------------------------------- MODULE JdbStore -------------------------------
(***************************************************************************)
(* What is read out of the registers of the BMS: the copy of a frame with  *)
(* its 16-bit values turned round, the getters, and who asks them - the    *)
(* line of /api/store, the status on the console, the messages for the bus *)
(* and the layout JBDBmsSimulator writes (lib/jdbbms).  The text of the    *)
(* status and the factors of the values are left out.                      *)
(*                                                                         *)
(* A byte is a record: what it is a part of, which half, and, for a count, *)
(* its value.  The length a register had before a frame that is longer is  *)
(* the concern of JdbBms; here a pack's frames are all of one length.      *)
(***************************************************************************)
EXTENDS Integers, Sequences

CONSTANTS PackCells, PackNtcs   \* what a pack may have

\* More do not fit in the registers.
ASSUME JdbStoreAssumption == PackCells \subseteq 0 .. 16 /\ PackNtcs \subseteq 0 .. 16

VARIABLES
  pack,                      \* the pack that sends frames
  register03Length, register04Length,
  copied03                   \* bytes of the pack's frame in register 0x03

jdbStoreVars == <<pack, register03Length, register04Length, copied03>>

BMS_REGISTER03_LENGTH == 64
BMS_REGISTER04_LENGTH == 32

OneByte(of, n) == <<[of |-> of, half |-> "whole", n |-> n]>>
TwoBytes(of) == <<[of |-> of, half |-> "high", n |-> 0], [of |-> of, half |-> "low", n |-> 0]>>
Each(names) == [i \in 1 .. 2 * Len(names) |-> TwoBytes(names[(i + 1) \div 2])[2 - (i % 2)]]
Numbered(of, n) == [i \in 1 .. n |-> <<of, i - 1>>]

HeadNames ==
  <<"voltage", "current", "packCapacity", "fullCapacity", "cycles", "production", "status0",
    "status1", "errors">>
TailNames == <<"alarm", "fullCharge", "remainingCharge", "balanceCurrent">>

\* updateReg03(), the most significant byte first; a BMS sends what is behind the
\* temperatures or not.
UpdateReg03(p) ==
  Each(HeadNames)
  \o OneByte("version", 0) \o OneByte("soc", 0) \o OneByte("fet", 0)
  \o OneByte("cells", p.cells) \o OneByte("ntcs", p.ntcs)
  \o Each(Numbered("ntc", p.ntcs))
  \o IF p.long THEN OneByte("humidity", 0)
                    \o Each(TailNames)
     ELSE <<>>

\* updateReg04()
UpdateReg04(p) == Each(Numbered("cell", p.cells))

Blank == [of |-> "nothing", half |-> "whole", n |-> 0]

----------------------------------------------------------------------------
(* The getters. *)

NotThere == <<"notAvailable">>

\* getUInt16(), getUDouble() and getDouble(); the offset is a uint8_t
GetUInt16(offset, reg, length) ==
  LET at == offset % 2^8
  IN  IF at + 1 >= length THEN NotThere ELSE <<reg[at + 2], reg[at + 1]>>

\* getUInt8(): 0xff stands for what is not there.
GetUInt8(offset, reg, length) == IF offset >= length THEN 255 ELSE reg[offset + 1].n

REG_NUMBER_OF_CELLS_U8 == 21
REG_NTC_COUNT_U8 == 22
REG_NTC_READINGS_U16(n) == 23 + 2 * n
REG_ALARM_STATUS_U16(n) == 24 + 2 * n

----------------------------------------------------------------------------
(* The registers. *)

\* Mutant of SwapStarts: the last temperature is left out.
SwapStartsShort(ntcs, length) ==
  {i \in 0 .. length - 1 :
     \/ i < 18 /\ i % 2 = 0
     \/ i \in REG_NTC_READINGS_U16(0) .. REG_NTC_READINGS_U16(ntcs - 1) - 1 /\ i % 2 = 1
     \/ i >= REG_ALARM_STATUS_U16(ntcs) /\ i % 2 = 0}
\* Where copyReg03() swaps two bytes: up to the version, the temperatures, and from the
\* alarm status on.
SwapStarts(ntcs, length) ==
  {i \in 0 .. length - 1 :
     \/ i < 18 /\ i % 2 = 0
     \/ i \in REG_NTC_READINGS_U16(0) .. REG_NTC_READINGS_U16(ntcs) - 1 /\ i % 2 = 1
     \/ i >= REG_ALARM_STATUS_U16(ntcs) /\ i % 2 = 0}

SwapBytes(reg, starts) ==
  [i \in DOMAIN reg |-> IF i - 1 \in starts THEN reg[i + 1]
                        ELSE IF i - 2 \in starts THEN reg[i - 1] ELSE reg[i]]

\* Register 0x03 after copyReg03(), with the frame's bytes up to where it was copied
register03 ==
  LET raw == [i \in 1 .. BMS_REGISTER03_LENGTH |->
                IF i <= copied03 THEN UpdateReg03(pack)[i] ELSE Blank]
  IN  SwapBytes(raw, SwapStarts(GetUInt8(REG_NTC_COUNT_U8, raw, copied03), copied03))

\* Register 0x04 after copyReg04(), which swaps pair by pair
register04 ==
  [i \in 1 .. BMS_REGISTER04_LENGTH |->
     IF i > register04Length THEN Blank ELSE UpdateReg04(pack)[IF i % 2 = 1 THEN i + 1 ELSE i - 1]]

\* copyReg03(), up to the length the register had
CopyReg03 ==
  /\ copied03' = register03Length
  /\ register03Length' = Len(UpdateReg03(pack))
  /\ UNCHANGED <<pack, register04Length>>

CopyReg04 ==
  /\ register04Length' = Len(UpdateReg04(pack))
  /\ UNCHANGED <<pack, register03Length, copied03>>

NCells == GetUInt8(REG_NUMBER_OF_CELLS_U8, register03, register03Length)
NNTC == GetUInt8(REG_NTC_COUNT_U8, register03, register03Length)

Reg03(offset) == GetUInt16(offset, register03, register03Length)

----------------------------------------------------------------------------
(* Reading. *)

AtMostHalf(n, length) == IF n < length \div 2 THEN n ELSE length \div 2

\* outputStore(): cells and temperatures each behind their count.
OutputStore ==
  <<Reg03(0), Reg03(2), Reg03(4), Reg03(6), GetUInt8(19, register03, register03Length),
    Reg03(8), Reg03(16), GetUInt8(20, register03, register03Length), NCells>>
  \o [i \in 1 .. AtMostHalf(NCells, register04Length) |->
        GetUInt16(2 * (i - 1), register04, register04Length)]
  \o <<NNTC>> \o [i \in 1 .. NNTC |-> Reg03(REG_NTC_READINGS_U16(i - 1))]

\* printStatus03(), which shows three temperatures however many there are
PrintStatus ==
  [values       |-> <<Reg03(0), Reg03(2), Reg03(4), Reg03(6), Reg03(8), Reg03(10), Reg03(12),
                      Reg03(14), Reg03(16)>>,
   temperatures |-> [i \in 1 .. 3 |-> Reg03(REG_NTC_READINGS_U16(i - 1))],
   others       |-> [i \in 1 .. 4 |-> Reg03(REG_ALARM_STATUS_U16(NNTC) + 2 * (i - 1))]]

\* printStatus04()
PrintCells ==
  [i \in 1 .. register04Length \div 2 |-> GetUInt16(2 * (i - 1), register04, register04Length)]

\* setN2KMsg(): what 127508, 127506 and 127513 are made of
MessageValues ==
  [voltage |-> Reg03(0), current |-> Reg03(2), capacity |-> Reg03(4), fullCapacity |-> Reg03(6),
   chargeCycles |-> Reg03(8),
   temperature |-> IF NNTC \in {0, 255} THEN NotThere ELSE Reg03(REG_NTC_READINGS_U16(NNTC - 1))]

JdbStoreStep == CopyReg03 \/ CopyReg04

Packs == [cells : PackCells, ntcs : PackNtcs, long : BOOLEAN]

JdbStoreInit ==
  /\ pack \in Packs
  /\ register03Length = 0 /\ register04Length = 0 /\ copied03 = 0

----------------------------------------------------------------------------
(* Properties. *)

Readings(names) == [i \in DOMAIN names |-> TwoBytes(names[i])]
If(there, values) == IF there THEN values ELSE [i \in DOMAIN values |-> NotThere]

\* Once a pack's registers have come, every number in the line of /api/store, the status
\* on the console and the messages for the bus is the one the BMS has under that name,
\* high byte and low byte, however many cells and temperatures there are and whether or
\* not the register goes on behind them; and what the pack has not got is "not available"
\* rather than another value - but the status shows three temperatures.
StoreReadable ==
  copied03 > 0 /\ register04Length = 2 * pack.cells =>
    LET head  == Readings(HeadNames)
        cells == Readings(Numbered("cell", pack.cells))
        ntcs  == Readings(Numbered("ntc", pack.ntcs))
    IN
    /\ OutputStore = SubSeq(head, 1, 4) \o <<0, head[5], head[9], 0, pack.cells>> \o cells
                     \o <<pack.ntcs>> \o ntcs
    /\ PrintCells = cells
    /\ PrintStatus.values = head
    /\ \A i \in 1 .. 3 : i <= pack.ntcs => PrintStatus.temperatures[i] = ntcs[i]
    /\ PrintStatus.others = If(pack.long, Readings(TailNames))
    /\ MessageValues.voltage = head[1] /\ MessageValues.current = head[2]
    /\ MessageValues.capacity = head[3] /\ MessageValues.fullCapacity = head[4]
    /\ MessageValues.chargeCycles = head[5]
    /\ MessageValues.temperature = IF pack.ntcs = 0 THEN NotThere ELSE ntcs[pack.ntcs]
=============================================================================
