--------------------------- MODULE JdbBms_proofs ---------------------------
(***************************************************************************)
(* The driver of the battery monitor, for every size of frame, buffer and  *)
(* register: on an undisturbed line, and with frames that fit and have no  *)
(* false start in them, it keeps in step with the frames, and its registers*)
(* hold the last ones.                                                     *)
(***************************************************************************)
EXTENDS JdbBms, RingTheorems, SequenceTheorems, WellFoundedInduction

(* A line that neither loses nor adds a byte, to a device that answers with *)
(* ok frames or not at all, and with frames that fit the registers and seem *)
(* to have no shorter one in them.                                          *)
Undisturbed ==
  /\ Outcomes \subseteq {"ok", "late", "silent"}
  /\ NoFrameWithin /\ FitRegisters

(* What has arrived and has not been dealt with: the buffer up to wpos, and *)
(* the line behind it.                                                      *)
Arrived == wpos + Len(line)
Cell(j) == IF j < wpos THEN buffer[j] ELSE line[j - wpos + 1]

OkCells == {c \in FrameCells : c.kind = "ok" /\ c.data \in Payloads[c.r]}

(* It consists of whole ok frames. *)
FramesWhole ==
  /\ Arrived % FrameLength = 0
  /\ \A j \in 0 .. Arrived - 1 : Cell(j) \in OkCells /\ Cell(j).i = j % FrameLength
  /\ \A p \in 0 .. Arrived - 1 : \A i \in 0 .. FrameLength - 1 :
       (p % FrameLength = 0 /\ p + i < Arrived)
         => (Cell(p + i).r = Cell(p).r /\ Cell(p + i).data = Cell(p).data)

(* The scan is at the start of a frame, or has passed that of the last one, *)
(* which is not all there; outside it less than a frame is left.            *)
ScanInStep ==
  /\ wpos \in 0 .. BufferLength
  /\ update.step # "scanning" => wpos < FrameLength
  /\ update.step = "scanning" =>
       /\ update.processedTo \in 0 .. wpos /\ update.processedTo % FrameLength = 0
       /\ update.at \in Nat
       /\ \/ update.at = update.processedTo
          \/ update.processedTo < update.at /\ wpos < update.processedTo + FrameLength

StepInv == TypeOK /\ FramesWhole /\ ScanInStep

(* Where the frames of register r end that are in the buffer and still to   *)
(* be copied.                                                               *)
ProcessedTo == IF update.step = "scanning" THEN update.processedTo ELSE 0
Pending(r) == {j \in ProcessedTo .. wpos - 1 : IsEnd(buffer[j], r)}

IsLast(m, ends) == m \in ends /\ \A k \in ends : k <= m

(* The last frame to be copied is the last one heard; when there is none    *)
(* the register holds it.                                                   *)
LastIsHeard(r) == \A m : IsLast(m, Pending(r)) => buffer[m].data = heard[r]
CopyInv(r) == LastIsHeard(r) /\ (Pending(r) = {} => Copied(r))

(* Of register 0x03, the last frame but one sets the length that the last   *)
(* one is cut at.                                                           *)
CopyInv03 ==
  /\ LastIsHeard(3)
  /\ \A m, k : (IsLast(m, Pending(3)) /\ IsLast(k, Pending(3) \ {m})) => buffer[k].data = before
  /\ \A m : Pending(3) = {m} => length[3] = Len(before)
  /\ Pending(3) = {} => /\ length[3] = Len(heard[3])
                        /\ Len(heard[3]) <= Len(before) => Words(3) = heard[3]

CopiesSound == CopyInv(4) /\ CopyInv(5) /\ CopyInv03

(* What bounds the copy of 0x03.                                            *)
LengthFits == length[3] <= RegisterLength

----------------------------------------------------------------------------
(* Numbers and sets of them. *)

(* A set of numbers that is not empty has a least one: a number is below    *)
(* itself no more than for ever.                                            *)
LEMMA Least ==
  ASSUME NEW S \in SUBSET Nat, S # {}
  PROVE  \E x \in S : \A y \in S : x <= y
<1> DEFINE R == {ss \in Nat \X Nat : ss[1] < ss[2]}
<1>1. IsWellFoundedOn(R, Nat)
  BY NatLessThanWellFounded DEF OpToRel
<1>2. \A x \in Nat, y \in Nat : <<y, x>> \in R <=> y < x
  OBVIOUS
<1> HIDE DEF R
<1>3. PICK x \in S : \A y \in S : ~(<<y, x>> \in R)
  BY <1>1, WFMin, Zenon
<1>4. ASSUME NEW y \in S PROVE x <= y
  <2>1. x \in Nat /\ y \in Nat
    OBVIOUS
  <2>2. ~(y < x)
    BY <1>2, <1>3, <2>1
  <2>3. QED
    BY <2>1, <2>2
<1>5. QED
  BY <1>4

(* A set of places that is not empty has a last one, which Max finds.       *)
LEMMA Greatest ==
  ASSUME NEW n \in Nat, NEW S \in SUBSET (0 .. n), S # {}
  PROVE  IsLast(Max(S), S)
<1> DEFINE below == {n - y : y \in S}
<1>1. below \in SUBSET Nat /\ below # {}
  <2>1. \A y \in S : y \in 0 .. n
    OBVIOUS
  <2>2. \A y \in S : n - y \in Nat
    BY <2>1
  <2>3. QED
    BY <2>2
<1>2. PICK b \in below : \A c \in below : b <= c
  BY <1>1, Least
<1>3. PICK m \in S : b = n - m
  BY <1>2
<1>4. ASSUME NEW y \in S PROVE m >= y
  <2>1. n - m <= n - y
    BY <1>2, <1>3
  <2>2. m \in 0 .. n /\ y \in 0 .. n
    OBVIOUS
  <2>3. QED
    BY <2>1, <2>2
<1>5. Max(S) \in S /\ \A y \in S : Max(S) >= y
  BY <1>4 DEF Max
<1>6. \A y \in S : y <= Max(S)
  <2>1. \A y \in S : y \in Int
    OBVIOUS
  <2>2. QED
    BY <1>5, <2>1
<1>7. QED
  BY <1>5, <1>6 DEF IsLast

(* It has only one.                                                         *)
LEMMA OneLast ==
  ASSUME NEW n \in Nat, NEW S \in SUBSET (0 .. n), NEW m, IsLast(m, S)
  PROVE  Max(S) = m
<1>1. IsLast(Max(S), S)
  BY Greatest DEF IsLast
<1>2. Max(S) \in S /\ m \in S /\ Max(S) <= m /\ m <= Max(S)
  BY <1>1 DEF IsLast
<1>3. \A y \in S : y \in Int
  OBVIOUS
<1>4. Max(S) \in Int /\ m \in Int
  BY <1>2, <1>3
<1>5. QED
  BY <1>2, <1>4

(* The place of a cell in its frame.                                        *)
LEMMA PlaceInFrame ==
  ASSUME NEW p \in Nat, NEW i \in Nat, p % FrameLength = 0, i < FrameLength
  PROVE  (p + i) % FrameLength = i
BY SizeAssumption, PlaceShift, PlaceSmall

----------------------------------------------------------------------------
(* The types of the variables. *)

\* What a cell is made of.
AnyCell == FrameCells \cup StrayCells

(* The data of frames, and the words of registers.                          *)
LEMMA DataTypes ==
  /\ \A r \in Registers : \A data \in Payloads[r] : data \in AllData
  /\ \A data \in {<<>>} \cup AllData :
       /\ data \in Seq(Nat \ {0}) /\ Len(data) \in 0 .. 3 * RegisterLength
       /\ \A i \in 1 .. Len(data) : data[i] \in Word
<1>1. \A r \in Registers : \A data \in Payloads[r] : data \in AllData
  BY DEF AllData
<1>2. ASSUME NEW data \in {<<>>} \cup AllData
      PROVE  data \in Seq(Nat \ {0}) /\ Len(data) \in 0 .. 3 * RegisterLength
  <2>1. CASE data = <<>>
    BY <2>1, SizeAssumption
  <2>2. CASE data \in AllData
    <3>1. PICK r \in Registers : data \in Payloads[r]
      BY <2>2 DEF AllData
    <3>2. data \in Seq(Nat \ {0}) /\ Len(data) \in 1 .. 3 * RegisterLength
      BY <3>1, DataAssumption DEF Registers
    <3>3. QED
      BY <3>2, SizeAssumption
  <2>3. QED
    BY <2>1, <2>2
<1>3. ASSUME NEW data \in {<<>>} \cup AllData, NEW i \in 1 .. Len(data)
      PROVE  data[i] \in Word
  <2>1. data # <<>>
    OBVIOUS
  <2>2. data \in AllData /\ i \in DOMAIN data
    BY <1>2, <2>1
  <2>3. data[i] \in Range(data)
    BY <2>2 DEF Range
  <2>4. QED
    BY <2>2, <2>3 DEF Word
<1>4. QED
  BY <1>1, <1>2, <1>3

(* The cells of a frame.                                                    *)
LEMMA CellsTypes ==
  ASSUME NEW kind \in FrameKinds, NEW r \in Registers, NEW data \in {<<>>} \cup AllData
  PROVE  LET cells == Cells(Frame(kind, r, data))
         IN  /\ cells \in Seq(AnyCell) /\ Len(cells) = FrameLength
             /\ \A j \in 1 .. FrameLength :
                  /\ cells[j] \in FrameCells
                  /\ cells[j].kind = kind /\ cells[j].r = r
                  /\ cells[j].data = data /\ cells[j].i = j - 1
<1> DEFINE frame == Frame(kind, r, data)
           cells == Cells(frame)
<1>1. FrameLength \in Nat
  BY SizeAssumption
<1>2. \A i \in 0 .. FrameLength - 1 :
        [frame EXCEPT !.i = i] = [kind |-> kind, r |-> r, data |-> data, i |-> i]
  BY DEF Frame
<1>3. ASSUME NEW j \in 1 .. FrameLength
      PROVE  cells[j] = [kind |-> kind, r |-> r, data |-> data, i |-> j - 1]
  <2>1. j - 1 \in 0 .. FrameLength - 1
    BY <1>1
  <2>2. cells[j] = [frame EXCEPT !.i = j - 1]
    BY DEF Cells
  <2>3. QED
    BY <1>2, <2>1, <2>2
<1>4. ASSUME NEW j \in 1 .. FrameLength
      PROVE  /\ cells[j] \in FrameCells
             /\ cells[j].kind = kind /\ cells[j].r = r
             /\ cells[j].data = data /\ cells[j].i = j - 1
  <2>1. j - 1 \in 0 .. FrameLength - 1
    BY <1>1
  <2>2. \A i \in 0 .. FrameLength - 1 :
          [kind |-> kind, r |-> r, data |-> data, i |-> i] \in FrameCells
    BY DEF FrameCells
  <2>3. cells[j] \in FrameCells
    BY <1>3, <2>1, <2>2
  <2>4. ASSUME NEW c, c = [kind |-> kind, r |-> r, data |-> data, i |-> j - 1]
        PROVE  c.kind = kind /\ c.r = r /\ c.data = data /\ c.i = j - 1
    BY <2>4
  <2> HIDE DEF cells
  <2>5. cells[j].kind = kind /\ cells[j].r = r /\ cells[j].data = data /\ cells[j].i = j - 1
    BY <1>3, <2>4, Zenon
  <2>6. QED
    BY <2>3, <2>5
<1>5. cells \in [1 .. FrameLength -> AnyCell]
  <2>1. cells = [j \in 1 .. FrameLength |-> cells[j]]
    BY DEF Cells
  <2>2. \A j \in 1 .. FrameLength : cells[j] \in AnyCell
    BY <1>4 DEF AnyCell
  <2> HIDE DEF cells
  <2>3. QED
    BY <2>1, <2>2
<1> HIDE DEF cells
<1>6. cells \in Seq(AnyCell) /\ Len(cells) = FrameLength
  BY <1>1, <1>5
<1>7. QED
  BY <1>4, <1>6 DEF cells

(* Before anything was sent.                                                *)
LEMMA TypesInitially == Init => TypeOK
<1>1. SUFFICES ASSUME Init PROVE TypeOK
  OBVIOUS
<1>2. Blank \in [1 .. RegisterLength -> Word]
  BY DEF Blank, Word
<1>3. register \in [Registers -> [1 .. RegisterLength -> Word]]
  BY <1>1, <1>2 DEF Init
<1>4. buffer \in [0 .. BufferLength - 1 -> FrameCells \cup StrayCells]
  <2>1. Noise \in StrayCells
    BY DEF Noise, StrayCells
  <2>2. QED
    BY <1>1, <2>1 DEF Init
<1>5. asked \in Seq(Registers) /\ Len(asked) <= MaxAsked
      /\ line \in Seq(FrameCells \cup StrayCells) /\ Len(line) <= MaxLine
  BY <1>1, SizeAssumption DEF Init
<1>6. length \in [Registers -> 0 .. 3 * RegisterLength]
  BY <1>1, SizeAssumption DEF Init
<1>7. faults \in 0 .. MaxFaults /\ wpos \in Positions /\ reg \in 3 .. 5
      /\ requestReg05 \in 0 .. Reg05Every /\ sendNext \in BOOLEAN /\ since \in 0 .. TimeoutMs + 1
  BY <1>1, SizeAssumption DEF Init, Positions
<1>8. update \in {Waiting, Polling}
  BY <1>1 DEF Init
<1>9. QED
  BY <1>3, <1>4, <1>5, <1>6, <1>7, <1>8 DEF TypeOK

(* Whatever becomes of an answer, it is counted.                            *)
LEMMA FaultsCounted ==
  ASSUME TypeOK, NEW outcome, Fault(outcome)
  PROVE  faults' \in 0 .. MaxFaults
BY SizeAssumption DEF TypeOK, Fault

(* What arrives is a row of cells.                                          *)
LEMMA SendsTypes ==
  ASSUME TypeOK, NEW cells \in Seq(AnyCell), Sends(cells)
  PROVE  line' \in Seq(AnyCell) /\ Len(line') <= MaxLine
<1>1. line \in Seq(AnyCell)
  BY DEF TypeOK, AnyCell
<1>2. line' = line \o cells /\ Len(line) + Len(cells) <= MaxLine
  BY DEF Sends
<1>3. line' \in Seq(AnyCell) /\ Len(line') = Len(line) + Len(cells)
  BY <1>1, <1>2, ConcatProperties
<1>4. QED
  BY <1>2, <1>3

(* The first request in hand, and those behind it.                          *)
LEMMA AskedTypes ==
  ASSUME TypeOK, asked # <<>>
  PROVE  Head(asked) \in Registers /\ Tail(asked) \in Seq(Registers) /\ Len(Tail(asked)) <= MaxAsked
<1>1. asked \in Seq(Registers) /\ Len(asked) <= MaxAsked
  BY DEF TypeOK
<1>2. Head(asked) \in Registers /\ Tail(asked) \in Seq(Registers) /\ Len(Tail(asked)) = Len(asked) - 1
  BY <1>1, HeadTailProperties
<1>3. QED
  BY <1>1, <1>2, SizeAssumption

(* Answers, their absence, and what the line does to them, leave everything *)
(* but the requests in hand and the line as it is.                          *)
LEMMA AnswerTypes ==
  ASSUME TypeOK, asked # <<>>, NEW kind \in FrameKinds, NEW data \in {<<>>} \cup AllData,
         Answer(kind, data)
  PROVE  TypeOK'
<1>1. faults' \in 0 .. MaxFaults
  BY FaultsCounted DEF Answer
<1>2. Head(asked) \in Registers /\ asked' \in Seq(Registers) /\ Len(asked') <= MaxAsked
  BY AskedTypes DEF Answer
<1>3. Cells(Frame(kind, Head(asked), data)) \in Seq(AnyCell)
  BY <1>2, CellsTypes
<1>4. line' \in Seq(AnyCell) /\ Len(line') <= MaxLine
  BY <1>3, SendsTypes DEF Answer
<1>5. QED
  BY <1>1, <1>2, <1>4
  DEF TypeOK, Answer, AnyCell, bufferVars, dataVars, pollVars, heardVars, Positions

(* No answer, noise, a byte that is lost.                                   *)
LEMMA DisturbanceTypes ==
  ASSUME TypeOK, Silence \/ Disturbance \/ Overrun
  PROVE  TypeOK'
<1>1. CASE Silence
  <2>1. faults' \in 0 .. MaxFaults /\ asked' \in Seq(Registers) /\ Len(asked') <= MaxAsked
    BY <1>1, FaultsCounted, AskedTypes DEF Silence
  <2>2. QED
    BY <1>1, <2>1 DEF TypeOK, Silence, bufferVars, dataVars, pollVars, heardVars
<1>2. CASE Disturbance
  <2>1. faults' \in 0 .. MaxFaults
    BY <1>2, FaultsCounted DEF Disturbance
  <2>2. PICK span \in Strays : Sends(<<Stray(span)>>)
    BY <1>2 DEF Disturbance
  <2>5. <<Stray(span)>> \in Seq(AnyCell)
    <3>1. Stray(span) \in AnyCell
      BY DEF AnyCell, StrayCells
    <3>2. QED
      BY <3>1
  <2>3. line' \in Seq(AnyCell) /\ Len(line') <= MaxLine
    BY <1>2, <2>2, <2>5, SendsTypes DEF Disturbance
  <2>4. QED
    BY <1>2, <2>1, <2>3
    DEF TypeOK, Disturbance, AnyCell, bufferVars, dataVars, pollVars, heardVars
<1>3. CASE Overrun
  <2>1. faults' \in 0 .. MaxFaults
    BY <1>3, FaultsCounted DEF Overrun
  <2>2. line \in Seq(AnyCell) /\ Len(line) <= MaxLine /\ line # <<>> /\ line' = Tail(line)
    BY <1>3 DEF Overrun, TypeOK, AnyCell
  <2>3. line' \in Seq(AnyCell) /\ Len(line') = Len(line) - 1
    BY <2>2, HeadTailProperties
  <2>4. line' \in Seq(AnyCell) /\ Len(line') <= MaxLine
    BY <2>2, <2>3, SizeAssumption
  <2>5. QED
    BY <1>3, <2>1, <2>4
    DEF TypeOK, Overrun, AnyCell, bufferVars, dataVars, pollVars, heardVars
<1>4. QED
  BY <1>1, <1>2, <1>3

(* Time passes, and is told apart no further than the program can.          *)
LEMMA TickTypes == ASSUME TypeOK, Tick PROVE TypeOK'
<1>1. faults' \in 0 .. MaxFaults
  BY FaultsCounted DEF Tick
<1>2. since' \in 0 .. TimeoutMs + 1
  BY SizeAssumption DEF TypeOK, Tick
<1>3. QED
  BY <1>1, <1>2 DEF TypeOK, Tick, bufferVars, dataVars, heardVars

(* What a reading takes off the line, and where it puts it.                 *)
LEMMA ReadTypes ==
  ASSUME TypeOK, NEW available \in 1 .. Len(line)
  PROVE  /\ Fits(available) \in 1 .. available
         /\ wpos < BufferLength => wpos + Fits(available) <= BufferLength
<1>1. wpos \in 0 .. BufferLength /\ BufferLength \in Nat /\ WposMod = BufferLength + 1
  BY SizeAssumption DEF TypeOK, Positions
<1>2. available \in Nat \ {0}
  <2>1. line \in Seq(AnyCell)
    BY DEF TypeOK, AnyCell
  <2>2. QED
    BY <2>1
<1>3. QED
  BY <1>1, <1>2 DEF Fits

\* The line after a reading.
LEMMA LineAfterRead ==
  ASSUME TypeOK, NEW n \in 0 .. Len(line)
  PROVE  LET rest == SubSeq(line, n + 1, Len(line))
         IN  /\ rest \in Seq(AnyCell) /\ Len(rest) = Len(line) - n
             /\ \A j \in 1 .. Len(line) - n : rest[j] = line[n + j]
<1>1. line \in Seq(AnyCell) /\ Len(line) \in Nat
  BY DEF TypeOK, AnyCell
<1>2. n \in Nat /\ n <= Len(line)
  BY <1>1
<1>3. \A i \in n + 1 .. Len(line) : line[i] \in AnyCell
  BY <1>1, <1>2
<1>4. QED
  BY <1>1, <1>2, <1>3, SubSeqProperties

(* A reading keeps wpos in its byte and the cells in the buffer.            *)
LEMMA ReadLineTypes ==
  ASSUME TypeOK, NEW available \in 1 .. Len(line), ReadLine(available)
  PROVE  TypeOK'
<1> DEFINE n == Fits(available)
           index == [p \in 0 .. BufferLength |-> ((p - wpos) % WposMod) + 1]
<1>1. line \in Seq(AnyCell) /\ Len(line) \in Nat /\ Len(line) <= MaxLine
  BY DEF TypeOK, AnyCell
<1>2. n \in 1 .. Len(line)
  BY <1>1, ReadTypes
<1>3. line' = SubSeq(line, n + 1, Len(line))
  BY DEF ReadLine
<1>4. \A p \in 0 .. BufferLength - 1 : buffer'[p] = IF index[p] <= n THEN line[index[p]] ELSE buffer[p]
  BY DEF ReadLine
<1>5. buffer' = [p \in 0 .. BufferLength - 1 |-> buffer'[p]]
  BY DEF ReadLine
<1>6. wpos' = (wpos + n) % WposMod
  BY DEF ReadLine
<1>7. wpos \in Nat /\ WposMod \in Nat \ {0} /\ BufferLength \in Nat
  BY SizeAssumption DEF TypeOK, Positions
<1>8. \A p \in 0 .. BufferLength : index[p] \in Nat \ {0}
  <2>1. \A p \in 0 .. BufferLength : index[p] = ((p - wpos) % WposMod) + 1
    OBVIOUS
  <2>2. \A p \in 0 .. BufferLength : (p - wpos) % WposMod \in Nat
    BY <1>7
  <2>3. QED
    BY <2>1, <2>2
<1> HIDE DEF n, index
<1>9. line' \in Seq(AnyCell) /\ Len(line') <= MaxLine
  <2>1. n \in 0 .. Len(line)
    BY <1>2
  <2>2. line' \in Seq(AnyCell) /\ Len(line') = Len(line) - n
    BY <1>3, <2>1, LineAfterRead
  <2>3. QED
    BY <1>1, <2>1, <2>2, SizeAssumption
<1>10. buffer' \in [0 .. BufferLength - 1 -> AnyCell]
  <2>1. ASSUME NEW p \in 0 .. BufferLength - 1 PROVE buffer'[p] \in AnyCell
    <3>1. CASE index[p] <= n
      <4>1. index[p] \in Nat \ {0}
        BY <1>7, <1>8
      <4>2. index[p] \in 1 .. Len(line)
        BY <1>1, <1>2, <3>1, <4>1
      <4>3. line[index[p]] \in AnyCell
        BY <1>1, <4>2
      <4>4. QED
        BY <1>4, <3>1, <4>3
    <3>2. CASE ~(index[p] <= n)
      <4>1. buffer[p] \in AnyCell
        BY DEF TypeOK, AnyCell
      <4>2. QED
        BY <1>4, <3>2, <4>1
    <3>3. QED
      BY <3>1, <3>2
  <2>2. QED
    BY <1>5, <2>1
<1>11. wpos' \in Positions
  BY <1>2, <1>6, <1>7 DEF Positions
<1>12. register' \in [Registers -> [1 .. RegisterLength -> Word]]
  <2>1. register \in [Registers -> [1 .. RegisterLength -> Word]]
    BY DEF TypeOK
  <2>2. Junk \in Word
    BY DEF Word
  <2>3. ASSUME NEW words \in [1 .. RegisterLength -> Word], NEW w \in Word
        PROVE  [words EXCEPT ![1] = w] \in [1 .. RegisterLength -> Word]
    OBVIOUS
  <2>4. ASSUME NEW w \in Word
        PROVE  [register EXCEPT ![3] = [register[3] EXCEPT ![1] = w]]
                 \in [Registers -> [1 .. RegisterLength -> Word]]
    <3>1. register[3] \in [1 .. RegisterLength -> Word]
      BY <2>1 DEF Registers
    <3>2. [register[3] EXCEPT ![1] = w] \in [1 .. RegisterLength -> Word]
      BY <2>3, <3>1
    <3>3. QED
      BY <2>1, <3>2
  <2>5. register' = register \/ register' = [register EXCEPT ![3][1] = Junk]
    BY DEF ReadLine
  <2>6. QED
    BY <2>1, <2>2, <2>4, <2>5
<1>13. update' = Scanning(0, 0)
  BY DEF ReadLine
<1>14. \E at \in 0 .. BufferLength, by \in 0 .. BufferLength : update' = Scanning(at, by)
  <2>1. 0 \in 0 .. BufferLength
    BY <1>7
  <2>2. QED
    BY <1>13, <2>1
<1>15. QED
  <2>1. UNCHANGED <<asked, faults, length, reg, requestReg05, sendNext, since>>
    BY DEF ReadLine, pollVars
  <2>2. QED
    BY <1>9, <1>10, <1>11, <1>12, <1>14, <2>1 DEF TypeOK, AnyCell

(* Where the scan is.                                                       *)
LEMMA ScanTypes ==
  ASSUME TypeOK, update.step = "scanning"
  PROVE  /\ update.at \in 0 .. BufferLength /\ update.processedTo \in 0 .. BufferLength
         /\ update = Scanning(update.at, update.processedTo)
<1>1. PICK at \in 0 .. BufferLength, by \in 0 .. BufferLength : update = Scanning(at, by)
  BY DEF TypeOK, Waiting, Polling
<1>2. QED
  BY <1>1 DEF Scanning

(* The scan stays in what was read.                                         *)
LEMMA ScanOnTypes ==
  ASSUME TypeOK, ScanningAt
  PROVE  \E at \in 0 .. BufferLength, by \in 0 .. BufferLength : Next1 = Scanning(at, by)
<1>1. update.at \in 0 .. BufferLength /\ update.processedTo \in 0 .. BufferLength
  BY ScanTypes DEF ScanningAt
<1>2. update.at < wpos /\ wpos \in 0 .. BufferLength
  BY SizeAssumption DEF ScanningAt, TypeOK, Positions
<1>3. update.at + 1 \in 0 .. BufferLength
  BY <1>1, <1>2, SizeAssumption
<1>4. QED
  BY <1>1, <1>3 DEF Next1

(* A step over what is no whole frame, or over an error frame.              *)
LEMMA SkipTypes == ASSUME TypeOK, Skip \/ ErrorFrame PROVE TypeOK'
<1>1. ScanningAt /\ update' = Next1
  BY DEF Skip, ErrorFrame, Candidate
<1>2. \E at \in 0 .. BufferLength, by \in 0 .. BufferLength : update' = Scanning(at, by)
  BY <1>1, ScanOnTypes
<1>3. UNCHANGED <<deviceVars, bufferVars, dataVars, reg, requestReg05, since>> /\ sendNext' \in BOOLEAN
  BY DEF Skip, ErrorFrame, pollVars, TypeOK
<1>4. QED
  BY <1>2, <1>3 DEF TypeOK, deviceVars, bufferVars, dataVars

(* A frame that is not well formed.                                         *)
LEMMA CorruptTypes == ASSUME TypeOK, Corrupt PROVE TypeOK'
<1>1. wpos' \in Positions /\ sendNext' \in BOOLEAN
  BY SizeAssumption DEF Corrupt, Positions
<1>2. QED
  BY <1>1 DEF Corrupt, TypeOK, deviceVars, dataVars

(* The registers keep their size and take over words of the frame.          *)
LEMMA StoredTypes ==
  ASSUME TypeOK, NEW r \in Registers, NEW data \in {<<>>} \cup AllData
  PROVE  /\ CopyLength(r, data) \in 0 .. Len(data)
         /\ Stored(r, data) \in [Registers -> [1 .. RegisterLength -> Word]]
<1>1. data \in Seq(Nat \ {0}) /\ Len(data) \in Nat
      /\ \A i \in 1 .. Len(data) : data[i] \in Word
  BY DataTypes, SizeAssumption
<1>2. length[3] \in Nat /\ RegisterLength \in Nat
  BY SizeAssumption DEF TypeOK, Registers
<1>3. CopyLength(r, data) \in 0 .. Len(data)
  BY <1>1, <1>2 DEF CopyLength, Shorter
<1> DEFINE to == CopyLength(r, data)
           Copies(place, word) ==
             IF place \in 1 .. to THEN data[place]
             ELSE IF r = 3 /\ place \in 1 .. length[3] THEN Junk ELSE word
<1>4. \A place, word : word \in Word => Copies(place, word) \in Word
  <2>1. Junk \in Word
    BY DEF Word
  <2>2. \A place \in 1 .. to : data[place] \in Word
    BY <1>1, <1>3
  <2>3. QED
    BY <2>1, <2>2
<1>5. \A s \in Registers, i \in 1 .. RegisterLength : register[s][i] \in Word
  BY DEF TypeOK
<1>6. Stored(r, data) =
        [s \in Registers |-> [i \in 1 .. RegisterLength |->
           Copies((s - r) * RegisterLength + i, register[s][i])]]
  BY DEF Stored
<1> HIDE DEF Copies, to
<1>7. \A s \in Registers, i \in 1 .. RegisterLength :
        Copies((s - r) * RegisterLength + i, register[s][i]) \in Word
  BY <1>4, <1>5
<1>8. QED
  BY <1>3, <1>6, <1>7 DEF to

(* Of frames that fit, no more than the register's own array is written.    *)
LEMMA StoredFits ==
  ASSUME TypeOK, FitRegisters, NEW r \in Registers, NEW data \in AllData,
         length[3] <= RegisterLength
  PROVE  /\ \A s \in Registers \ {r} : Stored(r, data)[s] = register[s]
         /\ Stored(r, data)[r] \in [1 .. RegisterLength -> Word]
         /\ \A i \in 1 .. CopyLength(r, data) : Stored(r, data)[r][i] = data[i]
<1>1. /\ RegisterLength \in Nat \ {0} /\ length[3] \in 0 .. RegisterLength
      /\ CopyLength(r, data) \in 0 .. RegisterLength
      /\ Stored(r, data) \in [Registers -> [1 .. RegisterLength -> Word]]
  <2>1. /\ CopyLength(r, data) \in 0 .. Len(data) /\ Len(data) \in Nat
        /\ Stored(r, data) \in [Registers -> [1 .. RegisterLength -> Word]]
    BY StoredTypes, DataTypes, SizeAssumption
  <2>2. Len(data) <= RegisterLength
    BY DEF FitRegisters
  <2>3. length[3] \in Nat /\ RegisterLength \in Nat \ {0}
    BY SizeAssumption DEF TypeOK, Registers
  <2>4. QED
    BY <2>1, <2>2, <2>3
<1> DEFINE to == CopyLength(r, data)
           Place(s, i) == (s - r) * RegisterLength + i
           Copies(place, word) ==
             IF place \in 1 .. to THEN data[place]
             ELSE IF r = 3 /\ place \in 1 .. length[3] THEN Junk ELSE word
<1>2. \A s \in Registers, i \in 1 .. RegisterLength :
        Stored(r, data)[s][i] = Copies(Place(s, i), register[s][i])
  BY DEF Stored
<1>3. ASSUME NEW s \in Registers \ {r}, NEW i \in 1 .. RegisterLength
      PROVE  Place(s, i) \notin 1 .. RegisterLength
  <2>1. s - r \in {-2, -1, 1, 2}
    BY DEF Registers
  <2>2. QED
    BY <1>1, <2>1
<1>4. ASSUME NEW i \in 1 .. RegisterLength PROVE Place(r, i) = i
  <2>1. r - r = 0
    BY DEF Registers
  <2>2. QED
    BY <1>1, <2>1
<1> HIDE DEF Place
<1>5. ASSUME NEW s \in Registers \ {r} PROVE Stored(r, data)[s] = register[s]
  <2>1. ASSUME NEW i \in 1 .. RegisterLength PROVE Stored(r, data)[s][i] = register[s][i]
    <3>1. Place(s, i) \notin 1 .. to /\ Place(s, i) \notin 1 .. length[3]
      <4>1. Place(s, i) \notin 1 .. RegisterLength
        BY <1>3
      <4>2. QED
        BY <1>1, <4>1
    <3>2. QED
      BY <1>2, <3>1
  <2>2. Stored(r, data)[s] \in [1 .. RegisterLength -> Word]
        /\ register[s] \in [1 .. RegisterLength -> Word]
    BY <1>1 DEF TypeOK
  <2> DEFINE after == Stored(r, data)[s]
             was == register[s]
  <2> HIDE DEF after, was
  <2>3. after = was
    <3>1. after \in [1 .. RegisterLength -> Word] /\ was \in [1 .. RegisterLength -> Word]
      BY <2>2 DEF after, was
    <3>2. \A i \in 1 .. RegisterLength : after[i] = was[i]
      BY <2>1 DEF after, was
    <3>3. /\ after = [i \in 1 .. RegisterLength |-> after[i]]
          /\ was = [i \in 1 .. RegisterLength |-> was[i]]
      BY ONLY <3>1
    <3>4. [i \in 1 .. RegisterLength |-> after[i]] = [i \in 1 .. RegisterLength |-> was[i]]
      BY ONLY <3>2
    <3>5. QED
      BY ONLY <3>3, <3>4
  <2>4. QED
    BY <2>3 DEF after, was
<1>6. ASSUME NEW i \in 1 .. to PROVE Stored(r, data)[r][i] = data[i]
  <2>1. i \in 1 .. RegisterLength
    BY <1>1
  <2>2. Place(r, i) = i
    BY <1>4, <2>1
  <2>3. QED
    BY <1>2, <2>1, <2>2
<1>7. QED
  BY <1>1, <1>5, <1>6

(* A frame that is copied.                                                  *)
LEMMA OkFrameTypes == ASSUME TypeOK, NEW r \in Registers, OkFrame(r) PROVE TypeOK'
<1> DEFINE data == buffer[update.at].data
           to == EndOf(update.at) + 1
<1>1. update.at \in 0 .. BufferLength /\ update.at < wpos /\ wpos \in 0 .. BufferLength
  BY ScanTypes, SizeAssumption DEF OkFrame, Candidate, ScanningAt, TypeOK, Positions
<1>2. update.at \in 0 .. BufferLength - 1
  BY <1>1, SizeAssumption
<1>3. buffer[update.at] \in AnyCell /\ buffer[update.at].kind = "ok"
  BY <1>2 DEF TypeOK, OkFrame, AnyCell
<1>4. data \in {<<>>} \cup AllData
  <2>1. buffer[update.at] \in FrameCells
    <3>1. \A c \in StrayCells : c.kind = "noise"
      BY DEF StrayCells, Stray
    <3>2. QED
      BY <1>3, <3>1 DEF AnyCell
  <2>2. QED
    BY <2>1 DEF FrameCells
<1>5. to \in 0 .. BufferLength
  <2>1. Span(buffer[update.at]) = FrameLength
    BY <1>3 DEF OkFrame, SumsUp, Span
  <2>2. QED
    BY <1>1, <2>1, SizeAssumption DEF OkFrame, Candidate, Complete, EndOf
<1>6. register' = Stored(r, data) /\ length' = [length EXCEPT ![r] = Len(data)]
      /\ update' = Scanning(to, to) /\ sendNext' = TRUE
  BY DEF OkFrame
<1> HIDE DEF data, to
<1>7. register' \in [Registers -> [1 .. RegisterLength -> Word]]
  BY <1>4, <1>6, StoredTypes
<1>8. length' \in [Registers -> 0 .. 3 * RegisterLength]
  <2>1. Len(data) \in 0 .. 3 * RegisterLength
    BY <1>4, DataTypes
  <2>2. length \in [Registers -> 0 .. 3 * RegisterLength]
    BY DEF TypeOK
  <2>3. QED
    BY <1>6, <2>1, <2>2
<1>9. \E at \in 0 .. BufferLength, by \in 0 .. BufferLength : update' = Scanning(at, by)
  BY <1>5, <1>6
<1>10. UNCHANGED <<deviceVars, bufferVars, reg, requestReg05, since>> /\ sendNext' \in BOOLEAN
  BY <1>6 DEF OkFrame
<1>11. QED
  BY <1>7, <1>8, <1>9, <1>10 DEF TypeOK, deviceVars, bufferVars

(* What is left moves to the front.                                         *)
LEMMA ShiftTypes == ASSUME TypeOK, Shift PROVE TypeOK'
<1> DEFINE by == update.processedTo
<1>1. by \in 0 .. BufferLength /\ wpos \in 0 .. BufferLength /\ BufferLength \in Nat
  BY ScanTypes, SizeAssumption DEF Shift, TypeOK, Positions
<1>2. wpos' \in Positions
  BY <1>1, SizeAssumption DEF Shift, Unread, Positions
<1>3. buffer' = [p \in 0 .. BufferLength - 1 |-> IF p + by < wpos THEN buffer[p + by] ELSE buffer[p]]
  BY DEF Shift
<1> HIDE DEF by
<1>4. buffer' \in [0 .. BufferLength - 1 -> AnyCell]
  <2>1. ASSUME NEW p \in 0 .. BufferLength - 1
        PROVE  (IF p + by < wpos THEN buffer[p + by] ELSE buffer[p]) \in AnyCell
    <3>1. p + by < wpos => p + by \in 0 .. BufferLength - 1
      BY <1>1
    <3>2. \A q \in 0 .. BufferLength - 1 : buffer[q] \in AnyCell
      BY DEF TypeOK, AnyCell
    <3>3. QED
      BY <3>1, <3>2
  <2>2. QED
    BY <1>3, <2>1
<1>5. update' = Polling /\ UNCHANGED <<deviceVars, dataVars, pollVars>>
  BY DEF Shift
<1>6. QED
  BY <1>2, <1>4, <1>5 DEF TypeOK, AnyCell, deviceVars, dataVars, pollVars

(* Register 0x03 and 0x04 take turns, and 0x05 has its own count.           *)
LEMMA PollTypes ==
  ASSUME TypeOK, Request \/ NoRequest \/ ReadNothing
  PROVE  TypeOK'
<1>1. CASE Request
  <2>1. NextFast \in 3 .. 4
    BY DEF NextFast, TypeOK
  <2>2. PICK r \in Registers : Asks(r)
    BY <1>1, <2>1 DEF Request, Request05, RequestFast, Registers
  <2>3. asked' \in Seq(Registers) /\ Len(asked') <= MaxAsked
    <3>1. asked \in Seq(Registers) /\ Len(asked) <= MaxAsked /\ MaxAsked \in Nat
      BY SizeAssumption DEF TypeOK
    <3>2. Append(asked, r) \in Seq(Registers) /\ Len(Append(asked, r)) = Len(asked) + 1
      BY <3>1, AppendProperties
    <3>3. asked' = IF Len(asked) < MaxAsked THEN Append(asked, r) ELSE asked
      BY <2>2 DEF Asks
    <3>4. QED
      BY <3>1, <3>2, <3>3
  <2>4. reg' \in 3 .. 5 /\ requestReg05' \in 0 .. Reg05Every
    BY <1>1, <2>1, SizeAssumption DEF Request, Request05, RequestFast, TypeOK
  <2>5. sendNext' \in BOOLEAN /\ update' = Waiting
    BY <1>1 DEF Request
  <2>6. since' \in 0 .. TimeoutMs + 1
    <3>1. since' = 0
      BY <1>1 DEF Request
    <3>2. QED
      BY <3>1, SizeAssumption
  <2>7. QED
    BY <1>1, <2>3, <2>4, <2>5, <2>6 DEF Request, TypeOK, bufferVars, dataVars
<1>2. CASE NoRequest
  <2>1. sendNext' \in BOOLEAN /\ update' = Waiting
    BY <1>2 DEF NoRequest, TimedOut, TypeOK
  <2>2. QED
    BY <1>2, <2>1 DEF NoRequest, TypeOK, deviceVars, bufferVars, dataVars
<1>3. CASE ReadNothing
  BY <1>3 DEF ReadNothing, TypeOK, deviceVars, bufferVars, dataVars, pollVars
<1>4. QED
  BY <1>1, <1>2, <1>3

(* Every step keeps the types.                                              *)
LEMMA TypesKept == ASSUME TypeOK, [Next]_vars PROVE TypeOK'
<1>1. CASE UNCHANGED vars
  BY <1>1 DEF TypeOK, vars, deviceVars, bufferVars, dataVars, pollVars
<1>2. CASE Update
  BY <1>2, ReadLineTypes, SkipTypes, CorruptTypes, OkFrameTypes, ShiftTypes, PollTypes
  DEF Update, Read
<1>3. CASE Tick
  BY <1>3, TickTypes
<1>4. CASE Device
  <2>1. CASE AnswerOk
    <3>1. PICK data \in Payloads[Head(asked)] : asked # <<>> /\ Answer("ok", data)
      BY <2>1 DEF AnswerOk
    <3>2. data \in AllData
      BY <3>1, AskedTypes, DataTypes
    <3>3. QED
      BY <3>1, <3>2, AnswerTypes DEF FrameKinds
  <2>2. CASE AnswerBadly
    BY <2>2, AnswerTypes DEF AnswerBadly, FrameKinds
  <2>3. QED
    BY <1>4, <2>1, <2>2, DisturbanceTypes DEF Device
<1>5. QED
  BY <1>1, <1>2, <1>3, <1>4 DEF Next

----------------------------------------------------------------------------
(* Keeping in step. *)

\* The numbers the proofs below are about.
LEMMA Sizes ==
  ASSUME TypeOK
  PROVE  /\ FrameLength \in Nat \ {0} /\ FrameLength - 1 \in Nat /\ FrameLength <= BufferLength
         /\ BufferLength \in Nat /\ wpos \in Nat /\ Len(line) \in Nat /\ Arrived \in Nat
BY SizeAssumption DEF TypeOK, Positions, Arrived

(* Frames whose cells are all where they were stay whole.                   *)
LEMMA CellsStay ==
  ASSUME TypeOK, TypeOK', FramesWhole, Arrived' = Arrived,
         \A j \in 0 .. Arrived - 1 : Cell(j)' = Cell(j)
  PROVE  FramesWhole'
<1>1. FrameLength \in Nat \ {0} /\ Arrived \in Nat
  BY Sizes
<1>2. \A p \in 0 .. Arrived - 1, i \in 0 .. FrameLength - 1 :
        p + i < Arrived => p + i \in 0 .. Arrived - 1
  BY <1>1
<1>3. ASSUME NEW p \in 0 .. Arrived - 1, NEW i \in 0 .. FrameLength - 1,
             p % FrameLength = 0, p + i < Arrived
      PROVE  Cell(p + i)'.r = Cell(p)'.r /\ Cell(p + i)'.data = Cell(p)'.data
  <2>1. Cell(p + i)' = Cell(p + i) /\ Cell(p)' = Cell(p)
    BY <1>2, <1>3
  <2>2. Cell(p + i).r = Cell(p).r /\ Cell(p + i).data = Cell(p).data
    BY <1>3 DEF FramesWhole
  <2>3. QED
    BY <2>1, <2>2
<1>4. Arrived' % FrameLength = 0
  BY DEF FramesWhole
<1>5. \A j \in 0 .. Arrived - 1 : Cell(j)' \in OkCells /\ Cell(j)'.i = j % FrameLength
  BY DEF FramesWhole
<1>6. QED
  BY <1>3, <1>4, <1>5 DEF FramesWhole, OkCells, FrameCells

(* A step that touches neither the buffer nor the line keeps them.          *)
LEMMA NothingArrives ==
  ASSUME TypeOK, TypeOK', FramesWhole, UNCHANGED <<line, bufferVars>>
  PROVE  FramesWhole'
<1>1. Arrived' = Arrived /\ \A j \in 0 .. Arrived - 1 : Cell(j)' = Cell(j)
  BY DEF Arrived, Cell, bufferVars
<1>2. QED
  BY <1>1, CellsStay

(* A new frame comes behind those that are there.                           *)
LEMMA FrameArrives ==
  ASSUME TypeOK, TypeOK', FramesWhole, asked # <<>>, NEW data \in Payloads[Head(asked)],
         Answer("ok", data)
  PROVE  FramesWhole'
<1> DEFINE cells == Cells(Frame("ok", Head(asked), data))
           r == Head(asked)
<1>1. FrameLength \in Nat \ {0} /\ Arrived \in Nat /\ wpos \in Nat /\ Len(line) \in Nat
  BY Sizes
<1>2. r \in Registers /\ data \in AllData
  BY AskedTypes, DataTypes
<1>3. /\ cells \in Seq(AnyCell) /\ Len(cells) = FrameLength
      /\ \A j \in 1 .. FrameLength :
           /\ cells[j] \in FrameCells
           /\ cells[j].kind = "ok" /\ cells[j].r = r
           /\ cells[j].data = data /\ cells[j].i = j - 1
  BY <1>2, CellsTypes DEF FrameKinds
<1>4. line' = line \o cells /\ wpos' = wpos /\ buffer' = buffer
  BY DEF Answer, Sends, bufferVars
<1> HIDE DEF cells
<1>5. line \in Seq(AnyCell)
  BY DEF TypeOK, AnyCell
<1>6. /\ Len(line') = Len(line) + FrameLength
      /\ \A q \in 1 .. Len(line) : line'[q] = line[q]
      /\ \A q \in 1 .. FrameLength : line'[Len(line) + q] = cells[q]
  <2>1. /\ Len(line \o cells) = Len(line) + Len(cells)
        /\ \A q \in 1 .. Len(line) + Len(cells) :
             (line \o cells)[q] = IF q <= Len(line) THEN line[q] ELSE cells[q - Len(line)]
    BY <1>3, <1>5, ConcatProperties
  <2>2. /\ Len(line') = Len(line) + FrameLength
        /\ \A q \in 1 .. Len(line) + FrameLength :
             line'[q] = IF q <= Len(line) THEN line[q] ELSE cells[q - Len(line)]
    BY <1>3, <1>4, <2>1
  <2>3. \A q \in 1 .. Len(line) : line'[q] = line[q]
    BY <1>1, <2>2
  <2>4. ASSUME NEW q \in 1 .. FrameLength PROVE line'[Len(line) + q] = cells[q]
    <3>1. Len(line) + q \in 1 .. Len(line) + FrameLength /\ ~(Len(line) + q <= Len(line))
          /\ (Len(line) + q) - Len(line) = q
      BY <1>1
    <3>2. QED
      BY <2>2, <3>1
  <2>5. QED
    BY <2>2, <2>3, <2>4
<1>7. PICK size \in Nat : size = Arrived
  BY <1>1
<1>8. Arrived' = size + FrameLength /\ size = wpos + Len(line)
  BY <1>1, <1>4, <1>6, <1>7 DEF Arrived
<1>9. ASSUME NEW j \in 0 .. size - 1 PROVE Cell(j)' = Cell(j)
  <2>1. CASE j < wpos
    BY <1>4, <2>1 DEF Cell
  <2>2. CASE ~(j < wpos)
    <3>1. j - wpos + 1 \in 1 .. Len(line)
      BY <1>1, <1>8, <2>2
    <3>2. QED
      BY <1>4, <1>6, <2>2, <3>1 DEF Cell
  <2>3. QED
    BY <2>1, <2>2
<1>10. ASSUME NEW i \in 0 .. FrameLength - 1
       PROVE  /\ Cell(size + i)' \in OkCells
              /\ Cell(size + i)'.i = i
              /\ Cell(size + i)'.r = r /\ Cell(size + i)'.data = data
  <2>1. i + 1 \in 1 .. FrameLength /\ ~(size + i < wpos)
        /\ (size + i) - wpos + 1 = Len(line) + (i + 1) /\ (i + 1) - 1 = i
    BY <1>1, <1>8
  <2>2. Cell(size + i)' = cells[i + 1]
    <3>1. line'[Len(line) + (i + 1)] = cells[i + 1]
      BY <1>6, <2>1
    <3>2. Cell(size + i)' = line'[(size + i) - wpos + 1]
      <4>1. ~(size + i < wpos)
        BY <2>1
      <4>2. QED
        BY <1>4, <4>1 DEF Cell
    <3>3. line'[(size + i) - wpos + 1] = line'[Len(line) + (i + 1)]
      BY <2>1
    <3>4. QED
      BY <3>1, <3>2, <3>3
  <2>3. cells[i + 1] \in OkCells
    BY <1>3, <2>1 DEF OkCells
  <2>4. cells[i + 1].i = i /\ cells[i + 1].r = r /\ cells[i + 1].data = data
    BY <1>3, <2>1
  <2>5. OkCells' = OkCells
    BY DEF OkCells
  <2>6. QED
    BY <2>2, <2>3, <2>4
<1> HIDE DEF r
<1>11. size % FrameLength = 0
  BY <1>7 DEF FramesWhole
<1>12. Arrived' % FrameLength = 0
  <2>1. (size + FrameLength) % FrameLength = size % FrameLength
    BY <1>1, PlaceRound
  <2>2. QED
    BY <1>8, <1>11, <2>1
<1>13. ASSUME NEW j \in 0 .. Arrived' - 1
       PROVE  Cell(j)' \in OkCells /\ Cell(j)'.i = j % FrameLength
  <2>1. CASE j < size
    <3>1. j \in 0 .. size - 1 /\ j \in 0 .. Arrived - 1
      BY <1>1, <1>7, <1>8, <2>1
    <3>2. Cell(j) \in OkCells /\ Cell(j).i = j % FrameLength
      BY <3>1 DEF FramesWhole
    <3>3. QED
      BY <1>9, <3>1, <3>2
  <2>2. CASE ~(j < size)
    <3>1. PICK i \in 0 .. FrameLength - 1 : j = size + i
      <4>1. j - size \in 0 .. FrameLength - 1 /\ j = size + (j - size)
        BY <1>1, <1>8, <2>2
      <4>2. QED
        BY <4>1
    <3>2. (size + i) % FrameLength = i
      BY <1>1, <1>11, PlaceInFrame
    <3>3. QED
      BY <1>10, <3>1, <3>2
  <2>3. QED
    BY <2>1, <2>2
<1>14. ASSUME NEW p \in 0 .. Arrived' - 1, NEW i \in 0 .. FrameLength - 1,
              p % FrameLength = 0, p + i < Arrived'
       PROVE  Cell(p + i)'.r = Cell(p)'.r /\ Cell(p + i)'.data = Cell(p)'.data
  <2>1. p \in Nat /\ i \in Nat /\ i < FrameLength
    BY <1>1, <1>8
  <2>2. CASE p < size
    <3>1. p + FrameLength <= size
      BY <1>1, <1>11, <1>14, <2>1, <2>2, StartsApart
    <3>2. p \in 0 .. size - 1 /\ p + i \in 0 .. size - 1
      BY <1>1, <2>1, <3>1
    <3>3. Cell(p + i)' = Cell(p + i) /\ Cell(p)' = Cell(p)
      BY <1>9, <3>2
    <3>4. Cell(p + i).r = Cell(p).r /\ Cell(p + i).data = Cell(p).data
      BY <1>7, <1>14, <3>2 DEF FramesWhole
    <3>5. QED
      BY <3>3, <3>4
  <2>3. CASE size < p
    <3>1. size + FrameLength <= p
      BY <1>1, <1>11, <1>14, <2>1, <2>3, StartsApart
    <3>2. QED
      BY <1>1, <1>8, <1>14, <2>1, <3>1
  <2>4. CASE p = size
    <3>1. 0 \in 0 .. FrameLength - 1 /\ size + 0 = size
      BY <1>1
    <3>2. Cell(size)'.r = r /\ Cell(size)'.data = data
      BY <1>10, <3>1
    <3>3. Cell(size + i)'.r = r /\ Cell(size + i)'.data = data
      BY <1>10
    <3>4. QED
      BY <2>4, <3>2, <3>3
  <2>5. QED
    BY <1>1, <2>1, <2>2, <2>3, <2>4
<1>15. QED
  BY <1>12, <1>13, <1>14 DEF FramesWhole, OkCells, FrameCells

(* What a reading does while the driver is in step: the buffer has room     *)
(* for what it takes, and no cell goes past its end.                        *)
LEMMA ReadInStep ==
  ASSUME StepInv, NEW available \in 1 .. Len(line), ReadLine(available)
  PROVE  \E n \in 1 .. Len(line) :
           /\ n = Fits(available)
           /\ wpos' = wpos + n /\ wpos' \in 0 .. BufferLength
           /\ line' = SubSeq(line, n + 1, Len(line))
           /\ \A p \in 0 .. wpos - 1 : buffer'[p] = buffer[p]
           /\ \A q \in 1 .. n : buffer'[wpos + q - 1] = line[q]
           /\ register' = register
<1> DEFINE n == Fits(available)
           index == [p \in 0 .. BufferLength |-> ((p - wpos) % WposMod) + 1]
<1>1. TypeOK /\ wpos < FrameLength
  BY DEF StepInv, ScanInStep, ReadLine, Waiting
<1>2. FrameLength \in Nat \ {0} /\ FrameLength <= BufferLength /\ BufferLength \in Nat
      /\ wpos \in Nat /\ Len(line) \in Nat /\ wpos < BufferLength
  BY <1>1, Sizes
<1>3. n \in 1 .. available /\ wpos + n <= BufferLength
  BY <1>1, <1>2, ReadTypes
<1>4. WposMod = BufferLength + 1
  BY SizeAssumption
<1>5. \A p \in 0 .. BufferLength - 1 : buffer'[p] = IF index[p] <= n THEN line[index[p]] ELSE buffer[p]
  BY DEF ReadLine
<1>6. /\ wpos' = (wpos + n) % WposMod /\ line' = SubSeq(line, n + 1, Len(line))
      /\ register' = register \/ index[BufferLength] <= n
  BY DEF ReadLine
<1>7. \A p \in 0 .. BufferLength : index[p] = ((p - wpos) % WposMod) + 1
  OBVIOUS
<1> HIDE DEF n, index
<1>8. n \in 1 .. Len(line) /\ n \in Nat
  BY <1>2, <1>3
<1>9. ASSUME NEW p \in wpos .. BufferLength PROVE index[p] = p - wpos + 1
  <2>1. p - wpos \in Nat /\ p - wpos < WposMod /\ WposMod \in Nat \ {0} /\ p \in 0 .. BufferLength
    BY <1>2, <1>4
  <2>2. (p - wpos) % WposMod = p - wpos
    BY <2>1, PlaceSmall
  <2>3. QED
    BY <1>7, <2>1, <2>2
<1>10. ASSUME NEW p \in 0 .. wpos - 1 PROVE index[p] = p - wpos + WposMod + 1
  <2>1. p \in 0 .. BufferLength /\ p \in Nat /\ WposMod \in Nat \ {0} /\ p < wpos /\ wpos < WposMod
    BY <1>2, <1>4
  <2>2. (p - wpos) % WposMod = p - wpos + WposMod
    BY <1>2, <2>1
  <2>3. QED
    BY <1>7, <2>1, <2>2
<1>11. wpos' = wpos + n /\ wpos' \in 0 .. BufferLength
  <2>1. wpos + n \in Nat /\ wpos + n < WposMod /\ WposMod \in Nat \ {0}
    BY <1>2, <1>3, <1>4, <1>8
  <2>2. (wpos + n) % WposMod = wpos + n
    BY <2>1, PlaceSmall
  <2>3. QED
    BY <1>2, <1>3, <1>6, <2>1, <2>2
<1>12. ASSUME NEW p \in 0 .. wpos - 1 PROVE buffer'[p] = buffer[p]
  <2>1. p \in 0 .. BufferLength - 1
    BY <1>2
  <2>2. ~(index[p] <= n)
    BY <1>2, <1>3, <1>4, <1>8, <1>10
  <2>3. QED
    BY <1>5, <2>1, <2>2
<1>13. ASSUME NEW q \in 1 .. n PROVE buffer'[wpos + q - 1] = line[q]
  <2>1. wpos + q - 1 \in 0 .. BufferLength - 1 /\ wpos + q - 1 \in wpos .. BufferLength
    BY <1>2, <1>3, <1>8
  <2>2. wpos + q - 1 - wpos + 1 = q
    BY <1>2, <1>8
  <2>3. index[wpos + q - 1] = q
    <3>1. PICK p \in wpos .. BufferLength : p = wpos + q - 1
      BY <2>1
    <3>2. index[p] = p - wpos + 1
      BY <1>9
    <3>3. p - wpos + 1 = q
      BY <1>2, <1>8, <3>1
    <3>4. QED
      BY <3>1, <3>2, <3>3
  <2>4. q <= n
    BY <1>8
  <2>5. QED
    BY <1>5, <2>1, <2>3, <2>4
<1>14. register' = register
  <2>1. BufferLength \in wpos .. BufferLength
    BY <1>2
  <2>2. index[BufferLength] = BufferLength - wpos + 1
    BY <1>9, <2>1
  <2>3. QED
    BY <1>2, <1>3, <1>6, <1>8, <2>2
<1>15. QED
  BY <1>6, <1>8, <1>11, <1>12, <1>13, <1>14 DEF n

(* A reading moves cells from the line into the buffer: the same have       *)
(* arrived before and after it.                                             *)
LEMMA ReadKeepsCells ==
  ASSUME StepInv, TypeOK', NEW available \in 1 .. Len(line), ReadLine(available)
  PROVE  FramesWhole'
<1>1. PICK n \in 1 .. Len(line) :
           /\ wpos' = wpos + n
           /\ line' = SubSeq(line, n + 1, Len(line))
           /\ \A p \in 0 .. wpos - 1 : buffer'[p] = buffer[p]
           /\ \A q \in 1 .. n : buffer'[wpos + q - 1] = line[q]
  BY ReadInStep
<1>2. TypeOK /\ FramesWhole
  BY DEF StepInv
<1>3. wpos \in Nat /\ Len(line) \in Nat /\ n \in 0 .. Len(line)
  BY <1>2, Sizes
<1>4. Len(line') = Len(line) - n /\ \A j \in 1 .. Len(line) - n : line'[j] = line[n + j]
  BY <1>1, <1>2, <1>3, LineAfterRead
<1>5. PICK size \in Nat : size = Arrived /\ size = wpos + Len(line)
  BY <1>2, Sizes DEF Arrived
<1>6. Arrived' = size
  <2>1. Arrived' = wpos' + Len(line')
    BY DEF Arrived
  <2>2. wpos + n + (Len(line) - n) = size
    BY <1>3, <1>5
  <2>3. QED
    BY <1>1, <1>4, <2>1, <2>2
<1>7. ASSUME NEW j \in 0 .. size - 1 PROVE Cell(j)' = Cell(j)
  <2>1. CASE j < wpos
    <3>1. j \in 0 .. wpos - 1 /\ j < wpos + n
      BY <1>3, <2>1
    <3>2. QED
      BY <1>1, <2>1, <3>1 DEF Cell
  <2>2. CASE wpos <= j /\ j < wpos + n
    <3>1. j - wpos + 1 \in 1 .. n /\ wpos + (j - wpos + 1) - 1 = j /\ ~(j < wpos)
      BY <1>3, <2>2
    <3>2. buffer'[j] = line[j - wpos + 1]
      BY <1>1, <3>1
    <3>3. QED
      BY <1>1, <2>2, <3>1, <3>2 DEF Cell
  <2>3. CASE wpos + n <= j
    <3>1. j - (wpos + n) + 1 \in 1 .. Len(line) - n /\ n + (j - (wpos + n) + 1) = j - wpos + 1
          /\ ~(j < wpos + n) /\ ~(j < wpos)
      BY <1>3, <1>5, <2>3
    <3>2. line'[j - (wpos + n) + 1] = line[j - wpos + 1]
      BY <1>4, <3>1
    <3>3. QED
      BY <1>1, <3>1, <3>2 DEF Cell
  <2>4. QED
    BY <1>3, <1>5, <2>1, <2>2, <2>3
<1>8. QED
  BY <1>2, <1>5, <1>6, <1>7, CellsStay

(* Moving whole frames out of the buffer leaves whole frames.               *)
LEMMA ShiftKeepsCells ==
  ASSUME StepInv, TypeOK', Shift
  PROVE  FramesWhole' /\ wpos' = wpos - update.processedTo
<1>1. TypeOK /\ FramesWhole /\ update.step = "scanning"
      /\ update.processedTo \in 0 .. wpos /\ update.processedTo % FrameLength = 0
  BY DEF StepInv, ScanInStep, Shift
<1>2. PICK by \in Nat : by = update.processedTo
  BY <1>1, Sizes
<1>3. FrameLength \in Nat \ {0} /\ wpos \in 0 .. BufferLength /\ BufferLength \in Nat
      /\ Len(line) \in Nat /\ by <= wpos /\ by % FrameLength = 0
  BY <1>1, <1>2, Sizes DEF StepInv, ScanInStep
<1>4. wpos' = wpos - by
  <2>1. wpos - by \in Nat /\ wpos - by < WposMod /\ WposMod \in Nat \ {0}
    BY <1>3, SizeAssumption
  <2>2. (wpos - by) % WposMod = wpos - by
    BY <2>1, PlaceSmall
  <2>3. QED
    BY <1>2, <2>2 DEF Shift, Unread
<1>5. line' = line
  BY DEF Shift, deviceVars
<1>6. PICK size \in Nat : size = Arrived /\ size = wpos + Len(line)
  BY <1>1, Sizes DEF Arrived
<1>7. Arrived' = size - by
  BY <1>3, <1>4, <1>5, <1>6 DEF Arrived
<1>8. \A p \in 0 .. BufferLength - 1 : buffer'[p] = IF p + by < wpos THEN buffer[p + by] ELSE buffer[p]
  BY <1>2 DEF Shift
<1>9. ASSUME NEW j \in 0 .. size - by - 1
      PROVE  Cell(j)' = Cell(by + j) /\ by + j \in 0 .. size - 1 /\ j \in Nat
  <2>1. j \in Nat /\ by + j \in 0 .. size - 1
    BY <1>3, <1>6
  <2>2. CASE j < wpos - by
    <3>1. j \in 0 .. BufferLength - 1 /\ j + by < wpos /\ j + by = by + j
      BY <1>3, <2>1, <2>2
    <3>2. QED
      BY <1>4, <1>8, <2>1, <2>2, <3>1 DEF Cell
  <2>3. CASE ~(j < wpos - by)
    <3>1. j - (wpos - by) + 1 = (by + j) - wpos + 1 /\ ~(by + j < wpos)
      BY <1>3, <2>1, <2>3
    <3>2. ~(by + j < wpos)
      BY <3>1
    <3>3. Cell(by + j) = line[(by + j) - wpos + 1]
      BY <3>2 DEF Cell
    <3>4. Cell(j)' = line[j - (wpos - by) + 1]
      BY <1>4, <1>5, <2>1, <2>3 DEF Cell
    <3>5. QED
      BY <3>1, <3>3, <3>4
  <2>4. QED
    BY <2>2, <2>3
<1>10. Arrived' % FrameLength = 0
  <2>1. size - by \in Nat /\ by + (size - by) = size /\ size % FrameLength = 0
    BY <1>1, <1>3, <1>6 DEF FramesWhole
  <2>2. (by + (size - by)) % FrameLength = (size - by) % FrameLength
    BY <1>3, <2>1, PlaceShift
  <2>3. QED
    BY <1>7, <2>1, <2>2
<1>11. ASSUME NEW j \in 0 .. size - by - 1
       PROVE  Cell(j)' \in OkCells /\ Cell(j)'.i = j % FrameLength
  <2>1. Cell(by + j) \in OkCells /\ Cell(by + j).i = (by + j) % FrameLength
    BY <1>1, <1>6, <1>9 DEF FramesWhole
  <2>2. (by + j) % FrameLength = j % FrameLength
    BY <1>3, <1>9, PlaceShift
  <2>3. QED
    BY <1>9, <2>1, <2>2
<1>12. ASSUME NEW p \in 0 .. size - by - 1, NEW i \in 0 .. FrameLength - 1,
              p % FrameLength = 0, p + i < size - by
       PROVE  Cell(p + i)'.r = Cell(p)'.r /\ Cell(p + i)'.data = Cell(p)'.data
  <2>1. p \in Nat /\ i \in Nat /\ p + i \in 0 .. size - by - 1 /\ by + (p + i) = (by + p) + i
        /\ by + p \in 0 .. size - 1 /\ (by + p) + i < size
    BY <1>3, <1>6, <1>12
  <2>2. Cell(p)' = Cell(by + p) /\ Cell(p + i)' = Cell((by + p) + i)
    BY <1>9, <2>1
  <2>3. (by + p) % FrameLength = 0
    BY <1>3, <1>12, <2>1, PlaceShift
  <2>4. Cell((by + p) + i).r = Cell(by + p).r /\ Cell((by + p) + i).data = Cell(by + p).data
    BY <1>1, <1>6, <2>1, <2>3 DEF FramesWhole
  <2>5. QED
    BY <2>2, <2>4
<1>13. FramesWhole'
  BY <1>7, <1>10, <1>11, <1>12 DEF FramesWhole, OkCells, FrameCells
<1>14. QED
  BY <1>2, <1>4, <1>13

(* A cell of a frame is the first one but for its place.                    *)
LEMMA SameCell ==
  ASSUME NEW c \in FrameCells, NEW d \in FrameCells,
         c.kind = d.kind, c.r = d.r, c.data = d.data
  PROVE  c = [d EXCEPT !.i = c.i]
BY DEF FrameCells

(* On an undisturbed line a frame that is all there is a good one, and the  *)
(* scan is at its start.                                                    *)
LEMMA CandidateWhole ==
  ASSUME Undisturbed, StepInv, Candidate
  PROVE  LET at == update.at
         IN  /\ at = update.processedTo /\ at % FrameLength = 0
             /\ at \in Nat /\ at + FrameLength <= wpos
             /\ buffer[at] \in OkCells /\ EndsThere(at) /\ SumsUp(at)
             /\ EndOf(at) = at + FrameLength - 1
             /\ buffer[EndOf(at)] \in OkCells /\ buffer[EndOf(at)].i = FrameLength - 1
             /\ buffer[EndOf(at)].r = buffer[at].r /\ buffer[EndOf(at)].data = buffer[at].data
<1>1. PICK at \in Nat : at = update.at
  BY DEF StepInv, ScanInStep, Candidate, ScanningAt
<1>2. TypeOK /\ FramesWhole /\ update.step = "scanning"
      /\ update.processedTo \in 0 .. wpos /\ update.processedTo % FrameLength = 0
      /\ at < wpos /\ AtStart(at) /\ Complete(at)
  BY <1>1 DEF StepInv, ScanInStep, Candidate, ScanningAt
<1>3. FrameLength \in Nat \ {0} /\ FrameLength - 1 \in Nat /\ wpos \in Nat /\ Arrived \in Nat
      /\ wpos <= Arrived
  BY <1>2, Sizes DEF Arrived
<1>12. at \in 0 .. Arrived - 1 /\ buffer[at] \in OkCells /\ buffer[at].i = at % FrameLength
  <2>1. at \in 0 .. Arrived - 1
    BY <1>2, <1>3
  <2>2. QED
    BY <1>2, <2>1 DEF FramesWhole, Cell
<1>5. at = update.processedTo /\ at % FrameLength = 0
  <2>1. SUFFICES ASSUME update.processedTo < at, wpos < update.processedTo + FrameLength
                 PROVE  FALSE
    BY <1>1, <1>2 DEF StepInv, ScanInStep
  <2>2. PICK by \in 0 .. wpos : by = update.processedTo
    BY <1>2
  <2>3. PICK i \in 1 .. FrameLength - 1 : i = at - by
    BY <1>2, <1>3, <2>1, <2>2
  <2>4. buffer[at].i = i
    <3>1. (by + i) % FrameLength = i
      BY <1>2, <1>3, <2>2, <2>3, PlaceInFrame
    <3>2. by + i = at
      BY <1>3, <2>2, <2>3
    <3>3. QED
      BY <1>12, <3>1, <3>2
  <2>5. /\ Span(buffer[at]) = Spans[buffer[at].data][i]
        /\ buffer[at].data \in AllData
    <3>1. buffer[at].kind # "noise" /\ buffer[at].i # 0
      BY <1>12, <2>3, <2>4 DEF OkCells
    <3>2. buffer[at].data \in AllData
      BY <1>12, DataTypes DEF OkCells, FrameCells
    <3>3. QED
      BY <2>4, <3>1, <3>2 DEF Span
  <2>6. /\ Span(buffer[at]) \in Nat
        /\ Span(buffer[at]) = 0 \/ i + Span(buffer[at]) >= FrameLength
    <3>1. Spans[buffer[at].data] \in [1 .. FrameLength - 1 -> Nat]
      BY <2>5, SpanAssumption DEF AllData, Registers
    <3>2. QED
      BY <2>5, <3>1 DEF Undisturbed, NoFrameWithin
  <2>7. Span(buffer[at]) > 0 /\ at + Span(buffer[at]) - 1 < wpos
    BY <1>2 DEF AtStart, Complete, EndOf
  <2>8. QED
    BY <1>3, <2>1, <2>2, <2>3, <2>6, <2>7
<1>13. Span(buffer[at]) = FrameLength
  BY <1>5, <1>12 DEF Span, OkCells
<1>4. at + FrameLength <= wpos
  BY <1>2, <1>3, <1>13 DEF Complete, EndOf
<1>6. ASSUME NEW j \in 0 .. FrameLength - 1
      PROVE  /\ buffer[at + j] \in OkCells /\ buffer[at + j].i = j
             /\ buffer[at + j].r = buffer[at].r /\ buffer[at + j].data = buffer[at].data
  <2>1. at + j \in 0 .. Arrived - 1 /\ at \in 0 .. Arrived - 1 /\ at + j < Arrived /\ at + j < wpos
        /\ j \in Nat /\ j < FrameLength
    BY <1>2, <1>3, <1>4
  <2>2. Cell(at + j) = buffer[at + j] /\ Cell(at) = buffer[at]
    BY <1>2, <2>1 DEF Cell
  <2>3. Cell(at + j) \in OkCells /\ Cell(at + j).i = (at + j) % FrameLength
    BY <1>2, <2>1 DEF FramesWhole
  <2>4. (at + j) % FrameLength = j
    BY <1>5, <2>1, PlaceInFrame
  <2>5. Cell(at + j).r = Cell(at).r /\ Cell(at + j).data = Cell(at).data
    BY <1>2, <1>5, <2>1 DEF FramesWhole
  <2>6. QED
    BY <2>2, <2>3, <2>4, <2>5
<1>7. buffer[at] \in OkCells
  <2>1. 0 \in 0 .. FrameLength - 1 /\ at + 0 = at
    BY <1>3
  <2>2. QED
    BY <1>6, <2>1
<1>8. /\ buffer[EndOf(at)] \in OkCells /\ buffer[EndOf(at)].i = FrameLength - 1
      /\ buffer[EndOf(at)].r = buffer[at].r /\ buffer[EndOf(at)].data = buffer[at].data
  <2>1. FrameLength - 1 \in 0 .. FrameLength - 1 /\ EndOf(at) = at + (FrameLength - 1)
    BY <1>3, <1>13 DEF EndOf
  <2>2. QED
    BY <1>6, <2>1
<1>9. EndsThere(at)
  BY <1>8 DEF EndsThere, OkCells
<1>10. SumsUp(at)
  <2>1. ASSUME NEW j \in 0 .. FrameLength - 1
        PROVE  buffer[at + j] = [buffer[at] EXCEPT !.i = j]
    <3>1. buffer[at + j] \in FrameCells /\ buffer[at] \in FrameCells
          /\ buffer[at + j].kind = buffer[at].kind /\ buffer[at + j].i = j
      BY <1>6, <1>7 DEF OkCells
    <3>2. buffer[at + j] = [buffer[at] EXCEPT !.i = buffer[at + j].i]
      BY <1>6, <3>1, SameCell
    <3>3. QED
      BY <3>1, <3>2
  <2>2. buffer[at].kind = "ok" /\ buffer[at].i = 0
    BY <1>5, <1>7, <1>12 DEF OkCells
  <2>3. QED
    BY <2>1, <2>2 DEF SumsUp
<1>14. EndOf(at) = at + FrameLength - 1
  BY <1>3, <1>13 DEF EndOf
<1>11. QED
  BY <1>1, <1>4, <1>5, <1>7, <1>8, <1>9, <1>10, <1>14

(* So the scan is never thrown out of step.                                 *)
LEMMA NeverCorrupt == ASSUME Undisturbed, StepInv PROVE ~Corrupt /\ ~ErrorFrame
<1>1. SUFFICES ASSUME Corrupt \/ ErrorFrame PROVE FALSE
  OBVIOUS
<1>2. Candidate /\ (~(EndsThere(update.at) /\ SumsUp(update.at)) \/ buffer[update.at].kind = "error")
  BY <1>1 DEF Corrupt, ErrorFrame
<1>3. EndsThere(update.at) /\ SumsUp(update.at) /\ buffer[update.at] \in OkCells
  BY <1>2, CandidateWhole
<1>4. QED
  BY <1>2, <1>3 DEF OkCells

(* The scan passes the start of a frame only when the frame is not all      *)
(* there.                                                                   *)
LEMMA SkipInStep == ASSUME StepInv, Skip PROVE ScanInStep'
<1>1. PICK at \in Nat : at = update.at
  BY DEF StepInv, ScanInStep, Skip, ScanningAt
<1>2. PICK by \in 0 .. wpos : by = update.processedTo
  BY DEF StepInv, ScanInStep, Skip, ScanningAt
<1>3. /\ TypeOK /\ FramesWhole /\ at < wpos /\ wpos \in 0 .. BufferLength
      /\ by % FrameLength = 0 /\ (at = by \/ (by < at /\ wpos < by + FrameLength))
      /\ ~(AtStart(at) /\ Complete(at))
  <2>1. TypeOK /\ FramesWhole /\ ScanInStep
    BY DEF StepInv
  <2>2. update.step = "scanning" /\ update.at < wpos
        /\ ~(AtStart(update.at) /\ Complete(update.at))
    BY DEF Skip, ScanningAt
  <2>3. at < wpos /\ ~(AtStart(at) /\ Complete(at))
    BY <1>1, <2>2
  <2>4. wpos \in 0 .. BufferLength /\ by % FrameLength = 0
        /\ (at = by \/ (by < at /\ wpos < by + FrameLength))
    BY <1>1, <1>2, <2>1, <2>2 DEF ScanInStep
  <2>5. QED
    BY <2>1, <2>3, <2>4
<1>4. FrameLength \in Nat \ {0} /\ FrameLength - 1 \in Nat /\ wpos \in Nat /\ Arrived \in Nat
      /\ wpos <= Arrived /\ by \in Nat
  BY <1>2, <1>3, Sizes DEF Arrived
<1>5. wpos < by + FrameLength
  <2>1. CASE at = by
    <3>1. by \in 0 .. Arrived - 1 /\ by < wpos
      BY <1>3, <1>4, <2>1
    <3>2. Cell(by) \in OkCells /\ Cell(by).i = 0 /\ Cell(by) = buffer[by]
      BY <1>3, <3>1 DEF FramesWhole, Cell
    <3>3. Span(buffer[by]) = FrameLength
      BY <3>2 DEF Span, OkCells
    <3>4. ~(by + FrameLength - 1 < wpos)
      BY <1>3, <1>4, <2>1, <3>3 DEF AtStart, Complete, EndOf
    <3>5. QED
      BY <1>4, <3>4
  <2>2. QED
    BY <1>3, <2>1
<1>6. update' = Scanning(at + 1, by) /\ wpos' = wpos
  BY <1>1, <1>2 DEF Skip, Next1, bufferVars
<1>7. update'.step = "scanning" /\ update'.at = at + 1 /\ update'.processedTo = by
  BY <1>6 DEF Scanning
<1>8. at + 1 \in Nat /\ by < at + 1
  BY <1>3, <1>4
<1>9. QED
  BY <1>3, <1>5, <1>6, <1>7, <1>8 DEF ScanInStep

(* From one frame to the next.                                              *)
LEMMA OkFrameInStep ==
  ASSUME Undisturbed, StepInv, NEW r \in Registers, OkFrame(r)
  PROVE  /\ ScanInStep'
         /\ update'.step = "scanning" /\ update'.processedTo = update.processedTo + FrameLength
<1>1. PICK at \in Nat : at = update.at
  BY CandidateWhole DEF OkFrame
<1>2. at = update.processedTo /\ at % FrameLength = 0 /\ at + FrameLength <= wpos
  BY <1>1, CandidateWhole DEF OkFrame
<1>3. FrameLength \in Nat \ {0} /\ wpos \in 0 .. BufferLength /\ BufferLength \in Nat
  BY Sizes DEF StepInv, ScanInStep
<1>4. (at + FrameLength) % FrameLength = 0
  BY <1>2, <1>3, PlaceRound
<1>5. EndOf(at) + 1 = at + FrameLength
  BY <1>1, <1>3, CandidateWhole DEF OkFrame
<1>6. update' = Scanning(at + FrameLength, at + FrameLength) /\ wpos' = wpos
  BY <1>1, <1>5 DEF OkFrame, bufferVars
<1>7. update'.step = "scanning" /\ update'.at = at + FrameLength /\ update'.processedTo = at + FrameLength
  BY <1>6 DEF Scanning
<1>8. at + FrameLength \in 0 .. wpos /\ at + FrameLength \in Nat
  BY <1>2, <1>3
<1>9. QED
  BY <1>2, <1>3, <1>4, <1>6, <1>7, <1>8 DEF ScanInStep

(* At the end of the scan less than a frame is left.                        *)
LEMMA ShiftInStep == ASSUME StepInv, TypeOK', Shift PROVE ScanInStep'
<1>1. PICK at \in Nat : at = update.at
  BY DEF StepInv, ScanInStep, Shift
<1>2. PICK by \in 0 .. wpos : by = update.processedTo
  BY DEF StepInv, ScanInStep, Shift
<1>3. wpos \in 0 .. BufferLength /\ BufferLength \in Nat /\ FrameLength \in Nat \ {0}
      /\ at >= wpos /\ (at = by \/ (by < at /\ wpos < by + FrameLength))
  BY <1>1, <1>2, Sizes DEF StepInv, ScanInStep, Shift
<1>4. wpos' = wpos - by
  BY <1>2, ShiftKeepsCells
<1>5. wpos' \in 0 .. BufferLength /\ wpos' < FrameLength
  BY <1>2, <1>3, <1>4
<1>6. update'.step # "scanning"
  BY DEF Shift, Polling
<1>7. QED
  BY <1>5, <1>6 DEF ScanInStep

(* Every step on an undisturbed line keeps the driver in step.              *)
LEMMA StepsKept == ASSUME Undisturbed, StepInv, [Next]_vars PROVE StepInv'
<1>1. TypeOK' /\ TypeOK /\ FramesWhole /\ ScanInStep
  BY TypesKept DEF StepInv
<1>2. CASE UNCHANGED <<line, bufferVars>> /\ (update' = update
             \/ (update'.step # "scanning" /\ update.step # "scanning"))
  <2>1. FramesWhole'
    BY <1>1, <1>2, NothingArrives
  <2>2. ScanInStep'
    BY <1>1, <1>2 DEF ScanInStep, bufferVars
  <2>3. QED
    BY <1>1, <2>1, <2>2 DEF StepInv
<1>3. CASE UNCHANGED vars
  BY <1>2, <1>3 DEF vars, deviceVars
<1>4. CASE Update
  <2>1. CASE Read
    <3>1. PICK available \in 1 .. Len(line) : ReadLine(available)
      BY <2>1 DEF Read
    <3>2. FramesWhole' /\ wpos' \in 0 .. BufferLength
      BY <1>1, <3>1, ReadKeepsCells, ReadInStep
    <3>3. update'.step = "scanning" /\ update'.at = 0 /\ update'.processedTo = 0
      BY <3>1 DEF ReadLine, Scanning
    <3>4. 0 % FrameLength = 0 /\ 0 \in Nat
      BY <1>1, Sizes, PlaceSmall
    <3>5. 0 \in 0 .. wpos'
      BY <3>2, SizeAssumption
    <3>6. ScanInStep'
      BY <3>2, <3>3, <3>4, <3>5 DEF ScanInStep
    <3>7. QED
      BY <1>1, <3>2, <3>6 DEF StepInv
  <2>2. CASE ReadNothing
    BY <1>2, <2>2 DEF ReadNothing, deviceVars, Waiting, Polling
  <2>3. CASE Skip
    <3>1. FramesWhole'
      BY <1>1, <2>3, NothingArrives DEF Skip, deviceVars
    <3>2. QED
      BY <1>1, <2>3, <3>1, SkipInStep DEF StepInv
  <2>4. CASE Corrupt \/ ErrorFrame
    BY <2>4, NeverCorrupt
  <2>5. CASE \E r \in Registers : OkFrame(r)
    <3>1. PICK r \in Registers : OkFrame(r)
      BY <2>5
    <3>2. FramesWhole'
      BY <1>1, <3>1, NothingArrives DEF OkFrame, deviceVars
    <3>3. QED
      BY <1>1, <3>1, <3>2, OkFrameInStep DEF StepInv
  <2>6. CASE Shift
    BY <1>1, <2>6, ShiftKeepsCells, ShiftInStep DEF StepInv
  <2>7. CASE Request
    BY <1>2, <2>7 DEF Request, Waiting, Polling
  <2>8. CASE NoRequest
    BY <1>2, <2>8 DEF NoRequest, deviceVars, Waiting, Polling
  <2>9. QED
    BY <1>4, <2>1, <2>2, <2>3, <2>4, <2>5, <2>6, <2>7, <2>8 DEF Update
<1>5. CASE Tick
  BY <1>2, <1>5 DEF Tick
<1>6. CASE AnswerOk
  <2>1. PICK data \in Payloads[Head(asked)] : asked # <<>> /\ Answer("ok", data)
    BY <1>6 DEF AnswerOk
  <2>2. FramesWhole'
    BY <1>1, <2>1, FrameArrives
  <2>3. ScanInStep'
    BY <1>1, <2>1 DEF ScanInStep, Answer, bufferVars
  <2>4. QED
    BY <1>1, <2>2, <2>3 DEF StepInv
<1>7. CASE Silence
  BY <1>2, <1>7 DEF Silence
<1>8. CASE AnswerBadly \/ Disturbance \/ Overrun
  BY <1>8 DEF AnswerBadly, Answer, Disturbance, Overrun, Fault, Undisturbed
<1>9. QED
  BY <1>3, <1>4, <1>5, <1>6, <1>7, <1>8 DEF Next, Device

(* Before anything has arrived.                                             *)
LEMMA StepsInitially == Init => StepInv
<1>1. SUFFICES ASSUME Init PROVE StepInv
  OBVIOUS
<1>2. TypeOK
  BY <1>1, TypesInitially
<1>3. wpos = 0 /\ Len(line) = 0 /\ update = Waiting
  BY <1>1 DEF Init
<1>4. FrameLength \in Nat \ {0} /\ BufferLength \in Nat /\ Arrived = 0
  BY <1>2, <1>3, Sizes DEF Arrived
<1>5. 0 % FrameLength = 0 /\ 0 < FrameLength
  BY <1>4, PlaceSmall
<1>6. FramesWhole
  BY <1>4, <1>5 DEF FramesWhole
<1>7. ScanInStep
  BY <1>3, <1>4, <1>5 DEF ScanInStep, Waiting
<1>8. QED
  BY <1>2, <1>6, <1>7 DEF StepInv

(* What InStep says of the cells in the order they arrived.                 *)
LEMMA StepsAreInStep == ASSUME StepInv PROVE InStep
<1>1. SUFFICES ASSUME update = Waiting PROVE wpos < FrameLength /\ Aligned(Unscanned)
  BY DEF InStep
<1>2. TypeOK /\ FramesWhole /\ wpos < FrameLength
  BY <1>1 DEF StepInv, ScanInStep, Waiting
<1>3. FrameLength \in Nat \ {0} /\ FrameLength <= BufferLength /\ BufferLength \in Nat
      /\ wpos \in Nat /\ Len(line) \in Nat /\ Arrived = wpos + Len(line)
  BY <1>2, Sizes DEF Arrived
<1> DEFINE front == [j \in 1 .. wpos |-> buffer[j - 1]]
<1>4. front \in Seq(AnyCell) /\ Len(front) = wpos
  <2>1. \A j \in 1 .. wpos : j - 1 \in 0 .. BufferLength - 1
    BY <1>2, <1>3
  <2>2. \A j \in 1 .. wpos : buffer[j - 1] \in AnyCell
    BY <1>2, <2>1 DEF TypeOK, AnyCell
  <2>3. front \in [1 .. wpos -> AnyCell]
    BY <2>2
  <2> HIDE DEF front
  <2>4. QED
    BY <1>3, <2>3
<1>5. line \in Seq(AnyCell)
  BY <1>2 DEF TypeOK, AnyCell
<1>6. Unscanned = front \o line
  BY DEF Unscanned
<1>7. \A j \in 1 .. wpos : front[j] = buffer[j - 1]
  OBVIOUS
<1> HIDE DEF front
<1>8. /\ Unscanned \in Seq(AnyCell) /\ Len(Unscanned) = Arrived
      /\ \A j \in 1 .. Arrived : Unscanned[j] = IF j <= wpos THEN front[j] ELSE line[j - wpos]
  BY <1>3, <1>4, <1>5, <1>6, ConcatProperties
<1>9. ASSUME NEW j \in DOMAIN Unscanned PROVE Unscanned[j].i = (j - 1) % FrameLength
  <2>1. j \in 1 .. Arrived /\ j \in Nat
    BY <1>3, <1>8
  <2>2. j - 1 \in 0 .. Arrived - 1
    BY <1>3, <2>1
  <2>3. Cell(j - 1).i = (j - 1) % FrameLength
    BY <1>2, <2>2 DEF FramesWhole
  <2>4. Unscanned[j] = Cell(j - 1)
    <3>1. j <= wpos <=> j - 1 < wpos
      BY <1>3, <2>1
    <3>2. CASE j <= wpos
      BY <1>3, <1>7, <1>8, <2>1, <3>1, <3>2 DEF Cell
    <3>3. CASE ~(j <= wpos)
      <4>1. (j - 1) - wpos + 1 = j - wpos
        BY <1>3, <2>1
      <4>2. QED
        BY <1>8, <2>1, <3>1, <3>3, <4>1 DEF Cell
    <3>4. QED
      BY <3>2, <3>3
  <2>5. QED
    BY <2>3, <2>4
<1>10. Aligned(Unscanned)
  BY <1>2, <1>8, <1>9 DEF Aligned, FramesWhole
<1>11. QED
  BY <1>2, <1>10

(* On an undisturbed line - of frames that fit and have no byte 0xDD from   *)
(* which a shorter one seems to begin, or update() does lose them - and     *)
(* however many bytes a call of update() finds, the driver keeps in step:   *)
(* between calls what is left in the buffer is the beginning of the frame   *)
(* whose rest is still to come.                                             *)
THEOREM KeepsInStep == ASSUME Undisturbed PROVE Spec => []InStep
<1>1. Init => StepInv
  BY StepsInitially
<1>2. StepInv /\ [Next]_vars => StepInv'
  BY StepsKept
<1>3. StepInv => InStep
  BY StepsAreInStep
<1>4. QED
  BY <1>1, <1>2, <1>3, PTL DEF Spec

----------------------------------------------------------------------------
(* The last copy. *)

\* What is pending is in the buffer.
LEMMA PendingPlaces ==
  ASSUME StepInv, NEW r \in Registers
  PROVE  /\ BufferLength \in Nat /\ ProcessedTo \in Nat /\ ProcessedTo % FrameLength = 0
         /\ Pending(r) \in SUBSET (0 .. BufferLength)
<1>1. TypeOK /\ ScanInStep
  BY DEF StepInv
<1>2. FrameLength \in Nat \ {0} /\ wpos \in 0 .. BufferLength /\ BufferLength \in Nat
  BY <1>1, Sizes DEF ScanInStep
<1>3. ProcessedTo \in Nat /\ ProcessedTo % FrameLength = 0
  <2>1. 0 % FrameLength = 0
    BY <1>2, PlaceSmall
  <2>2. QED
    BY <1>1, <1>2, <2>1 DEF ScanInStep, ProcessedTo
<1>4. QED
  BY <1>2, <1>3 DEF Pending

(* The cells of the frame that is next: only the last one is an end.        *)
LEMMA EndsOfFrame ==
  ASSUME StepInv, NEW j \in ProcessedTo .. wpos - 1, j < ProcessedTo + FrameLength,
         buffer[j].i = FrameLength - 1
  PROVE  j = ProcessedTo + FrameLength - 1
<1>1. TypeOK /\ FramesWhole /\ ProcessedTo \in Nat /\ ProcessedTo % FrameLength = 0
  BY PendingPlaces DEF StepInv, Registers
<1>2. FrameLength \in Nat \ {0} /\ wpos \in Nat /\ Arrived \in Nat /\ wpos <= Arrived
  BY <1>1, Sizes DEF Arrived
<1>3. j \in 0 .. Arrived - 1 /\ j < wpos
  BY <1>1, <1>2
<1>4. buffer[j].i = j % FrameLength
  BY <1>1, <1>3 DEF FramesWhole, Cell
<1>5. PICK i \in Nat : j = ProcessedTo + i /\ i < FrameLength
  <2>1. j - ProcessedTo \in Nat /\ j = ProcessedTo + (j - ProcessedTo) /\ j - ProcessedTo < FrameLength
    BY <1>1, <1>2
  <2>2. QED
    BY <2>1
<1>6. (ProcessedTo + i) % FrameLength = i
  BY <1>1, <1>5, PlaceInFrame
<1>7. i = FrameLength - 1
  BY <1>4, <1>5, <1>6
<1>8. QED
  BY <1>1, <1>2, <1>5, <1>7

(* Less than a frame has no end.                                            *)
LEMMA NothingPending ==
  ASSUME StepInv, wpos < ProcessedTo + FrameLength, NEW r \in Registers
  PROVE  Pending(r) = {}
<1>1. SUFFICES ASSUME NEW j \in Pending(r) PROVE FALSE
  OBVIOUS
<1>2. FrameLength \in Nat \ {0} /\ wpos \in Nat /\ ProcessedTo \in Nat
  BY Sizes, PendingPlaces DEF StepInv
<1>3. j \in ProcessedTo .. wpos - 1 /\ buffer[j].i = FrameLength - 1
  BY DEF Pending, IsEnd
<1>4. j < ProcessedTo + FrameLength
  BY <1>2, <1>3
<1>5. j = ProcessedTo + FrameLength - 1
  BY <1>3, <1>4, EndsOfFrame
<1>6. QED
  BY <1>2, <1>3, <1>5

(* Outside the scan, and when it ends, nothing is left to be copied.        *)
LEMMA AllCopied ==
  ASSUME StepInv, update.step # "scanning" \/ update.at >= wpos, NEW r \in Registers
  PROVE  Pending(r) = {}
<1>1. TypeOK /\ ScanInStep
  BY DEF StepInv
<1>2. FrameLength \in Nat \ {0} /\ wpos \in Nat
  BY <1>1, Sizes
<1>3. wpos < ProcessedTo + FrameLength
  <2>1. CASE update.step # "scanning"
    BY <1>1, <1>2, <2>1 DEF ScanInStep, ProcessedTo
  <2>2. CASE update.step = "scanning"
    <3>1. update.processedTo \in 0 .. wpos /\ update.at \in Nat /\ update.at >= wpos
          /\ (update.at = update.processedTo
                \/ (update.processedTo < update.at /\ wpos < update.processedTo + FrameLength))
      BY <1>1, <2>2 DEF ScanInStep
    <3>2. wpos < update.processedTo + FrameLength
      BY <1>2, <3>1
    <3>3. QED
      BY <2>2, <3>2 DEF ProcessedTo
  <2>3. QED
    BY <2>1, <2>2
<1>4. QED
  BY <1>3, NothingPending

(* A step that leaves alone the buffer, the registers and what was heard.   *)
LEMMA CopiesStay ==
  ASSUME CopiesSound, UNCHANGED <<bufferVars, dataVars, heardVars>>, ProcessedTo' = ProcessedTo
  PROVE  CopiesSound'
<1>1. \A r \in Registers : Pending(r)' = Pending(r)
  BY DEF Pending, bufferVars
<1>2. UNCHANGED <<buffer, wpos, register, length, heard, before>>
  BY DEF bufferVars, dataVars, heardVars
<1>3. ASSUME NEW r \in Registers
      PROVE  (LastIsHeard(r) => LastIsHeard(r)') /\ Words(r)' = Words(r)
             /\ (Copied(r) => Copied(r)')
  BY <1>1, <1>2 DEF LastIsHeard, Words, Copied
<1>4. CopyInv(4)' /\ CopyInv(5)'
  BY <1>1, <1>3 DEF CopiesSound, CopyInv, Registers
<1>5. CopyInv03'
  <2>1. 3 \in Registers
    BY DEF Registers
  <2>2. CopyInv03
    BY DEF CopiesSound
  <2>3. QED
    BY <1>1, <1>2, <1>3, <2>1, <2>2 DEF CopyInv03
<1>6. QED
  BY <1>4, <1>5 DEF CopiesSound

(* A step with nothing to copy before and after it.                         *)
LEMMA NothingToCopy ==
  ASSUME CopiesSound, UNCHANGED <<dataVars, heardVars>>,
         \A r \in Registers : Pending(r) = {} /\ Pending(r)' = {}
  PROVE  CopiesSound'
<1>1. UNCHANGED <<register, length, heard, before>>
  BY DEF dataVars, heardVars
<1>2. Pending(3) = {} /\ Pending(4) = {} /\ Pending(5) = {}
      /\ Pending(3)' = {} /\ Pending(4)' = {} /\ Pending(5)' = {}
  BY DEF Registers
<1>3. ASSUME NEW r \in {4, 5} PROVE CopyInv(r)'
  <2>1. Pending(r)' = {} /\ Pending(r) = {} /\ CopyInv(r)
    BY <1>2 DEF CopiesSound
  <2>2. Copied(r)'
    BY <1>1, <2>1 DEF CopyInv, Copied, Words
  <2>3. QED
    BY <2>1, <2>2 DEF CopyInv, LastIsHeard, IsLast
<1>4. CopyInv03'
  <2>1. length[3] = Len(heard[3]) /\ (Len(heard[3]) <= Len(before) => Words(3) = heard[3])
    BY <1>2 DEF CopiesSound, CopyInv03
  <2>2. length'[3] = Len(heard'[3]) /\ (Len(heard'[3]) <= Len(before') => Words(3)' = heard'[3])
    BY <1>1, <2>1 DEF Words
  <2>3. LastIsHeard(3)'
    BY <1>2 DEF LastIsHeard, IsLast
  <2>4. QED
    BY <1>2, <2>2, <2>3 DEF CopyInv03, IsLast
<1>5. QED
  BY <1>3, <1>4 DEF CopiesSound

(* The ends that a reading finds are those of the cells it takes.           *)
LEMMA EndsRead ==
  ASSUME StepInv, StepInv', NEW available \in 1 .. Len(line), ReadLine(available), NEW r \in Registers,
         NEW n \in 1 .. Len(line), n = Fits(available), wpos' = wpos + n,
         \A p \in 0 .. wpos - 1 : buffer'[p] = buffer[p],
         \A q \in 1 .. n : buffer'[wpos + q - 1] = line[q]
  PROVE  LET cells == SubSeq(line, 1, n)
         IN  /\ Ends(r, cells) \in SUBSET (0 .. n)
             /\ \A j : j \in Pending(r)' <=> \E q \in Ends(r, cells) : j = wpos + q - 1
             /\ \A q \in Ends(r, cells) : buffer'[wpos + q - 1] = cells[q]
<1> DEFINE cells == SubSeq(line, 1, n)
<1>1. TypeOK /\ wpos \in Nat /\ Len(line) \in Nat /\ n \in Nat /\ n <= Len(line)
  BY Sizes DEF StepInv
<1>2. update.step # "scanning" /\ update'.step = "scanning" /\ update'.processedTo = 0
  BY DEF ReadLine, Waiting, Scanning
<1>3. Pending(r) = {} /\ ProcessedTo = 0
  BY <1>2, AllCopied DEF ProcessedTo
<1>4. Pending(r)' = {j \in 0 .. wpos' - 1 : IsEnd(buffer'[j], r)}
  BY <1>2 DEF Pending, ProcessedTo, IsEnd
<1>5. DOMAIN cells = 1 .. n /\ \A q \in 1 .. n : cells[q] = line[q]
  BY <1>1
<1> HIDE DEF cells
<1>6. Ends(r, cells) = {q \in 1 .. n : IsEnd(line[q], r)}
  BY <1>5 DEF Ends
<1>7. \A q \in Ends(r, cells) : buffer'[wpos + q - 1] = cells[q]
  BY <1>5, <1>6
<1>8. Ends(r, cells) \in SUBSET (0 .. n)
  BY <1>1, <1>6
<1>9. ASSUME NEW j \in Pending(r)' PROVE \E q \in Ends(r, cells) : j = wpos + q - 1
  <2>1. j \in 0 .. wpos + n - 1 /\ IsEnd(buffer'[j], r)
    <3>1. j \in 0 .. wpos' - 1 /\ IsEnd(buffer'[j], r)
      BY <1>4
    <3>2. wpos' = wpos + n
      OBVIOUS
    <3>3. QED
      BY <1>1, <3>1, <3>2
  <2>2. ~(j < wpos)
    <3>1. SUFFICES ASSUME j < wpos PROVE FALSE
      OBVIOUS
    <3>2. j \in 0 .. wpos - 1
      BY <1>1, <2>1, <3>1
    <3>3. IsEnd(buffer[j], r)
      BY <2>1, <3>2
    <3>4. QED
      BY <1>3, <3>2, <3>3 DEF Pending
  <2>3. PICK q \in 1 .. n : j = wpos + q - 1
    <3>1. j - wpos + 1 \in 1 .. n /\ j = wpos + (j - wpos + 1) - 1
      BY <1>1, <2>1, <2>2
    <3>2. QED
      BY <3>1
  <2>4. buffer'[j] = line[q]
    BY <2>3
  <2>5. QED
    BY <1>6, <2>1, <2>3, <2>4
<1>10. ASSUME NEW q \in Ends(r, cells) PROVE wpos + q - 1 \in Pending(r)'
  <2>1. q \in 1 .. n /\ IsEnd(line[q], r)
    BY <1>6
  <2>2. buffer'[wpos + q - 1] = line[q] /\ wpos + q - 1 \in 0 .. wpos' - 1
    BY <1>1, <2>1
  <2>3. QED
    BY <1>4, <2>1, <2>2
<1>11. QED
  BY <1>7, <1>8, <1>9, <1>10 DEF cells

(* A reading may deliver frames: the last of each register is the last one  *)
(* heard, and pending.                                                      *)
LEMMA ReadCopies ==
  ASSUME StepInv, StepInv', CopiesSound, NEW available \in 1 .. Len(line), ReadLine(available)
  PROVE  CopiesSound'
<1>1. PICK n \in 1 .. Len(line) :
           /\ n = Fits(available)
           /\ wpos' = wpos + n
           /\ \A p \in 0 .. wpos - 1 : buffer'[p] = buffer[p]
           /\ \A q \in 1 .. n : buffer'[wpos + q - 1] = line[q]
           /\ register' = register
  BY ReadInStep
<1>2. wpos \in Nat /\ n \in Nat
  BY Sizes DEF StepInv
<1> DEFINE cells == SubSeq(line, 1, n)
<1>3. /\ heard' = [r \in Registers |-> DataAt(Ends(r, cells), cells, heard[r])]
      /\ before' = IF Ends(3, cells) = {} THEN before
                   ELSE DataAt(Ends(3, cells) \ {Max(Ends(3, cells))}, cells, heard[3])
      /\ length' = length /\ update # Polling /\ update.step # "scanning"
  BY <1>1 DEF ReadLine, Waiting, Polling
<1> HIDE DEF cells
<1>4. ASSUME NEW r \in Registers
      PROVE  /\ Ends(r, cells) \in SUBSET (0 .. n)
             /\ \A j : j \in Pending(r)' <=> \E q \in Ends(r, cells) : j = wpos + q - 1
             /\ \A q \in Ends(r, cells) : buffer'[wpos + q - 1] = cells[q]
             /\ Pending(r) = {}
  BY <1>1, <1>3, EndsRead, AllCopied DEF cells
<1>5. ASSUME NEW r \in Registers, NEW m, IsLast(m, Pending(r)')
      PROVE  \E q \in Ends(r, cells) :
               /\ m = wpos + q - 1 /\ Ends(r, cells) # {} /\ q = Max(Ends(r, cells))
               /\ buffer'[m] = cells[q]
  <2>1. PICK q \in Ends(r, cells) : m = wpos + q - 1
    BY <1>4, <1>5 DEF IsLast
  <2>2. \A k \in Ends(r, cells) : wpos + k - 1 <= wpos + q - 1
    BY <1>4, <1>5, <2>1 DEF IsLast
  <2>3. \A k \in Ends(r, cells) : k \in Nat
    BY <1>2, <1>4
  <2>4. IsLast(q, Ends(r, cells))
    BY <1>2, <2>2, <2>3 DEF IsLast
  <2>5. Max(Ends(r, cells)) = q
    BY <1>2, <1>4, <2>4, OneLast
  <2>6. QED
    BY <1>4, <2>1, <2>5
<1>6. ASSUME NEW r \in Registers PROVE LastIsHeard(r)'
  <2>1. ASSUME NEW m, IsLast(m, Pending(r)') PROVE buffer'[m].data = heard'[r]
    BY <1>3, <1>5, <2>1 DEF DataAt
  <2>2. QED
    BY <2>1 DEF LastIsHeard, IsLast
<1>7. ASSUME NEW r \in Registers, Pending(r)' = {}
      PROVE  Ends(r, cells) = {} /\ heard'[r] = heard[r] /\ Words(r)' = Words(r)
  BY <1>1, <1>3, <1>4, <1>7 DEF DataAt, Words
<1>8. ASSUME NEW r \in {4, 5} PROVE CopyInv(r)'
  <2>1. r \in Registers /\ CopyInv(r)
    BY DEF Registers, CopiesSound
  <2>2. Copied(r)
    BY <1>4, <2>1 DEF CopyInv
  <2>3. Pending(r)' = {} => Copied(r)'
    BY <1>7, <2>1, <2>2 DEF Copied
  <2>4. QED
    BY <1>6, <2>1, <2>3 DEF CopyInv
<1>9. CopyInv03'
  <2>1. 3 \in Registers /\ Pending(3) = {}
    BY <1>4 DEF Registers
  <2>2. length[3] = Len(heard[3]) /\ (Len(heard[3]) <= Len(before) => Words(3) = heard[3])
    BY <2>1 DEF CopiesSound, CopyInv03
  <2>3. ASSUME NEW m, NEW k, IsLast(m, Pending(3)'), IsLast(k, Pending(3)' \ {m})
        PROVE  buffer'[k].data = before'
    <3>1. PICK q \in Ends(3, cells) : m = wpos + q - 1 /\ q = Max(Ends(3, cells))
      BY <1>5, <2>1, <2>3
    <3>2. PICK p \in Ends(3, cells) : k = wpos + p - 1 /\ buffer'[k] = cells[p]
      BY <1>4, <2>1, <2>3 DEF IsLast
    <3> DEFINE ends == Ends(3, cells) \ {q}
    <3>3. \A i \in Ends(3, cells) : i \in Nat
      BY <1>2, <1>4, <2>1
    <3>4. p \in ends
      BY <2>3, <3>1, <3>2 DEF IsLast
    <3>5. ASSUME NEW i \in ends PROVE i <= p
      <4>1. wpos + i - 1 \in Pending(3)' /\ wpos + i - 1 # m
        BY <1>2, <1>4, <2>1, <3>1, <3>3
      <4>2. wpos + i - 1 <= k
        BY <2>3, <4>1 DEF IsLast
      <4>3. QED
        BY <1>2, <3>2, <3>3, <4>2
    <3>6. IsLast(p, ends) /\ ends \in SUBSET (0 .. n)
      BY <1>4, <2>1, <3>4, <3>5 DEF IsLast
    <3>7. Max(ends) = p
      BY <1>2, <3>6, OneLast
    <3>8. before' = cells[p].data
      BY <1>3, <3>1, <3>4, <3>7 DEF DataAt
    <3>9. QED
      BY <3>2, <3>8
  <2>4. ASSUME NEW m, Pending(3)' = {m} PROVE length'[3] = Len(before')
    <3>1. PICK q \in Ends(3, cells) : m = wpos + q - 1
      BY <1>4, <2>1, <2>4
    <3>2. \A i \in Ends(3, cells) : i \in Nat
      BY <1>2, <1>4, <2>1
    <3>3. \A i \in Ends(3, cells) : wpos + i - 1 = m
      BY <1>4, <2>1, <2>4
    <3>4. \A i \in Ends(3, cells) : i = q
      BY <1>2, <3>1, <3>2, <3>3
    <3>5. Max(Ends(3, cells)) \in Ends(3, cells)
      BY <1>2, <1>4, <2>1, <3>1, Greatest DEF IsLast
    <3>6. Ends(3, cells) \ {Max(Ends(3, cells))} = {}
      BY <3>4, <3>5
    <3>7. before' = heard[3]
      BY <1>3, <3>1, <3>6 DEF DataAt
    <3>8. QED
      BY <1>3, <2>2, <3>7
  <2>5. ASSUME Pending(3)' = {}
        PROVE  length'[3] = Len(heard'[3])
               /\ (Len(heard'[3]) <= Len(before') => Words(3)' = heard'[3])
    BY <1>3, <1>7, <2>1, <2>2, <2>5
  <2>6. QED
    BY <1>6, <2>1, <2>3, <2>4, <2>5 DEF CopyInv03, IsLast
<1>10. QED
  BY <1>8, <1>9 DEF CopiesSound

(* What a frame leaves in its register when it is copied whole.             *)
LEMMA CopyWords ==
  ASSUME TypeOK, FitRegisters, length[3] <= RegisterLength,
         NEW r \in Registers, NEW data \in AllData, CopyLength(r, data) = Len(data),
         register' = Stored(r, data),
         length' = [length EXCEPT ![r] = Len(data)]
  PROVE  Words(r)' = data
<1>1. data \in Seq(Nat \ {0}) /\ Len(data) \in 0 .. RegisterLength /\ Len(data) \in Nat
  BY DataTypes, SizeAssumption DEF FitRegisters
<1>2. register'[r] = Stored(r, data)[r] /\ length'[r] = Len(data)
  BY DEF TypeOK
<1>3. \A i \in 1 .. Len(data) : Stored(r, data)[r][i] = data[i]
  BY StoredFits
<1> DEFINE words == [i \in 1 .. Len(data) |-> data[i]]
<1>4. Words(r)' = words
  <2>1. Words(r)' = [i \in 1 .. length'[r] |->
                       IF i <= RegisterLength THEN register'[r][i] ELSE Junk]
    BY DEF Words
  <2>2. \A i \in 1 .. Len(data) : i <= RegisterLength
    BY <1>1, SizeAssumption
  <2>3. \A i \in 1 .. Len(data) : register'[r][i] = data[i]
    BY <1>2, <1>3
  <2>4. Words(r)' = [i \in 1 .. Len(data) |->
                       IF i <= RegisterLength THEN register'[r][i] ELSE Junk]
    BY <1>2, <2>1
  <2>5. QED
    BY <2>2, <2>3, <2>4
<1>5. words = data
  <2>1. data = [i \in 1 .. Len(data) |-> data[i]]
    BY <1>1
  <2>2. QED
    BY <2>1
<1>6. QED
  BY <1>4, <1>5

(* Copying a frame takes its end out of what is pending, and no other.      *)
LEMMA PendingAfterCopy ==
  ASSUME Undisturbed, StepInv, NEW r \in Registers, OkFrame(r)
  PROVE  \E e \in Pending(r) :
           /\ e = EndOf(update.at) /\ buffer[e].data = buffer[update.at].data
           /\ buffer[update.at].data \in Payloads[r]
           /\ \A k \in Pending(r) : e <= k
           /\ Pending(r)' = Pending(r) \ {e}
           /\ \A s \in Registers \ {r} : Pending(s)' = Pending(s)
<1>1. PICK at \in Nat : at = update.at
  BY CandidateWhole DEF OkFrame
<1>2. /\ at = update.processedTo /\ at + FrameLength <= wpos
      /\ buffer[at] \in OkCells
      /\ buffer[EndOf(at)] \in OkCells /\ buffer[EndOf(at)].i = FrameLength - 1
      /\ buffer[EndOf(at)].r = buffer[at].r /\ buffer[EndOf(at)].data = buffer[at].data
  BY <1>1, CandidateWhole DEF OkFrame
<1>3. buffer[at].r = r /\ update.step = "scanning"
  BY <1>1 DEF OkFrame, Candidate, ScanningAt
<1>4. FrameLength \in Nat \ {0} /\ wpos \in Nat
  BY Sizes DEF StepInv
<1>5. PICK e \in Nat : e = EndOf(at) /\ e = at + FrameLength - 1
  BY <1>1, <1>4, CandidateWhole DEF OkFrame
<1>6. ProcessedTo = at /\ ProcessedTo' = at + FrameLength /\ wpos' = wpos /\ buffer' = buffer
  BY <1>2, <1>3, OkFrameInStep DEF ProcessedTo, OkFrame, bufferVars
<1>7. e \in Pending(r)
  <2>1. e \in at .. wpos - 1
    BY <1>2, <1>4, <1>5
  <2>2. IsEnd(buffer[e], r)
    BY <1>2, <1>3, <1>5 DEF IsEnd, OkCells
  <2>3. QED
    BY <1>6, <2>1, <2>2 DEF Pending
<1>8. ASSUME NEW s \in Registers, NEW j \in Pending(s), j < at + FrameLength
      PROVE  j = e /\ s = r
  <2>1. j \in ProcessedTo .. wpos - 1 /\ buffer[j].i = FrameLength - 1 /\ buffer[j].r = s
        /\ j < ProcessedTo + FrameLength
    BY <1>6, <1>8 DEF Pending, IsEnd
  <2>2. j = ProcessedTo + FrameLength - 1
    BY <2>1, EndsOfFrame
  <2>3. j = e
    BY <1>5, <1>6, <2>2
  <2>4. QED
    BY <1>2, <1>3, <1>5, <2>1, <2>3
<1>9. ASSUME NEW s \in Registers
      PROVE  Pending(s)' = {j \in Pending(s) : ~(j < at + FrameLength)}
  <2>1. Pending(s)' = {j \in at + FrameLength .. wpos - 1 : IsEnd(buffer[j], s)}
    BY <1>6 DEF Pending
  <2>2. Pending(s) = {j \in at .. wpos - 1 : IsEnd(buffer[j], s)}
    BY <1>6 DEF Pending
  <2>3. \A j : j \in at + FrameLength .. wpos - 1 <=> j \in at .. wpos - 1 /\ ~(j < at + FrameLength)
    BY <1>4
  <2>4. QED
    BY <2>1, <2>2, <2>3
<1>10. e < at + FrameLength
  BY <1>4, <1>5
<1>11. Pending(r)' = Pending(r) \ {e}
  BY <1>8, <1>9, <1>10
<1>12. \A s \in Registers \ {r} : Pending(s)' = Pending(s)
  BY <1>8, <1>9
<1>13. \A k \in Pending(r) : e <= k
  <2>1. ASSUME NEW k \in Pending(r) PROVE e <= k
    <3>1. k \in at .. wpos - 1
      BY <1>6 DEF Pending
    <3>2. k < at + FrameLength => k = e
      BY <1>8
    <3>3. QED
      BY <1>4, <1>5, <3>1, <3>2
  <2>2. QED
    BY <2>1
<1>14. buffer[at].data \in Payloads[r]
  BY <1>2, <1>3 DEF OkCells
<1>15. QED
  BY <1>1, <1>2, <1>5, <1>7, <1>11, <1>12, <1>13, <1>14

(* Copying a frame leaves the other registers as they are.                  *)
LEMMA OthersKept ==
  ASSUME Undisturbed, LengthFits, StepInv, NEW r \in Registers, OkFrame(r), NEW s \in Registers \ {r}
  PROVE  /\ Pending(s)' = Pending(s) /\ register'[s] = register[s] /\ length'[s] = length[s]
         /\ buffer' = buffer /\ heard' = heard /\ before' = before
<1>1. Pending(s)' = Pending(s)
  BY PendingAfterCopy
<1>2. buffer[update.at].data \in AllData
  BY PendingAfterCopy, DataTypes
<1>3. register'[s] = register[s] /\ length'[s] = length[s]
  <2>1. register' = Stored(r, buffer[update.at].data)
        /\ length' = [length EXCEPT ![r] = Len(buffer[update.at].data)]
    BY DEF OkFrame
  <2>2. Stored(r, buffer[update.at].data)[s] = register[s]
    BY <1>2, StoredFits DEF Undisturbed, LengthFits, StepInv
  <2>3. QED
    BY <2>1, <2>2 DEF StepInv, TypeOK
<1>4. QED
  BY <1>1, <1>3 DEF OkFrame, bufferVars, heardVars

(* After the frames of 0x04 and 0x05 are copied their registers hold the    *)
(* last one.                                                                *)
LEMMA CopyOthers ==
  ASSUME Undisturbed, LengthFits, StepInv, CopiesSound, NEW r \in Registers, OkFrame(r), NEW s \in {4, 5}
  PROVE  CopyInv(s)'
<1>1. CopyInv(s) /\ s \in Registers
  BY DEF CopiesSound, Registers
<1>2. CASE s # r
  <2>1. /\ Pending(s)' = Pending(s) /\ register'[s] = register[s] /\ length'[s] = length[s]
        /\ buffer' = buffer /\ heard' = heard
    BY <1>1, <1>2, OthersKept
  <2>2. LastIsHeard(s)'
    BY <1>1, <2>1 DEF CopyInv, LastIsHeard
  <2>3. Copied(s) => Copied(s)'
    BY <2>1 DEF Copied, Words
  <2>4. QED
    BY <1>1, <2>1, <2>2, <2>3 DEF CopyInv
<1>3. CASE s = r
  <2>1. PICK e \in Pending(s) :
           /\ buffer[e].data = buffer[update.at].data /\ buffer[update.at].data \in Payloads[s]
           /\ \A k \in Pending(s) : e <= k
           /\ Pending(s)' = Pending(s) \ {e}
    BY <1>3, PendingAfterCopy
  <2>2. buffer' = buffer /\ heard' = heard
    BY DEF OkFrame, bufferVars, heardVars
  <2>3. ASSUME NEW m, IsLast(m, Pending(s) \ {e}) PROVE IsLast(m, Pending(s))
    BY <2>1, <2>3 DEF IsLast
  <2>4. LastIsHeard(s)'
    BY <1>1, <2>1, <2>2, <2>3 DEF CopyInv, LastIsHeard, IsLast
  <2>5. ASSUME Pending(s)' = {} PROVE Copied(s)'
    <3>1. Pending(s) \in SUBSET (0 .. BufferLength)
      BY <1>1, PendingPlaces
    <3>2. \A k \in Pending(s) : k \in Int /\ k = e
      BY <2>1, <2>5, <3>1
    <3>3. IsLast(e, Pending(s))
      BY <3>2 DEF IsLast
    <3>4. buffer[e].data = heard[s]
      BY <1>1, <3>3 DEF CopyInv, LastIsHeard
    <3>5. Words(s)' = buffer[update.at].data
      <4> DEFINE data == buffer[update.at].data
      <4>1. data \in AllData /\ CopyLength(s, data) = Len(data)
        <5>1. data \in AllData /\ Len(data) \in Nat
          BY <1>1, <2>1, DataTypes, SizeAssumption
        <5>2. Len(data) <= RegisterLength
          BY <5>1 DEF Undisturbed, FitRegisters
        <5>3. QED
          BY <5>1, <5>2, SizeAssumption DEF CopyLength, Shorter
      <4>2. register' = Stored(s, data) /\ length' = [length EXCEPT ![s] = Len(data)]
        BY <1>3 DEF OkFrame
      <4> HIDE DEF data
      <4>3. Words(s)' = data
        BY <1>1, <4>1, <4>2, CopyWords DEF StepInv, Undisturbed, LengthFits
      <4>4. QED
        BY <4>3 DEF data
    <3>6. QED
      BY <2>1, <2>2, <3>4, <3>5 DEF Copied
  <2>6. QED
    BY <2>4, <2>5 DEF CopyInv
<1>4. QED
  BY <1>2, <1>3

(* Of register 0x03 the frame before the last one sets the length.          *)
LEMMA Copy03 ==
  ASSUME Undisturbed, LengthFits, StepInv, CopiesSound, OkFrame(3)
  PROVE  CopyInv03'
<1> DEFINE data == buffer[update.at].data
<1>1. CopyInv03 /\ 3 \in Registers /\ TypeOK
  BY DEF CopiesSound, Registers, StepInv
<1>2. PICK e \in Pending(3) :
         /\ buffer[e].data = data /\ data \in Payloads[3]
         /\ \A k \in Pending(3) : e <= k
         /\ Pending(3)' = Pending(3) \ {e}
  BY <1>1, PendingAfterCopy
<1>3. buffer' = buffer /\ heard' = heard /\ before' = before
  BY DEF OkFrame, bufferVars, heardVars
<1>4. register' = Stored(3, data) /\ length' = [length EXCEPT ![3] = Len(data)]
  BY DEF OkFrame
<1> HIDE DEF data
<1>5. length'[3] = Len(data)
  BY <1>1, <1>4 DEF TypeOK
<1>6. \A k \in Pending(3) : k \in Int
  BY <1>1, PendingPlaces
<1>7. ASSUME NEW m, IsLast(m, Pending(3) \ {e}) PROVE IsLast(m, Pending(3))
  BY <1>2, <1>7 DEF IsLast
<1>8. LastIsHeard(3)'
  BY <1>1, <1>2, <1>3, <1>7 DEF CopyInv03, LastIsHeard, IsLast
<1>9. ASSUME NEW m, NEW k, IsLast(m, Pending(3)'), IsLast(k, Pending(3)' \ {m})
      PROVE  buffer'[k].data = before'
  <2>1. IsLast(m, Pending(3))
    BY <1>2, <1>7, <1>9
  <2>2. IsLast(k, Pending(3) \ {m})
    BY <1>2, <1>9 DEF IsLast
  <2>3. buffer[k].data = before
    BY <1>1, <2>1, <2>2 DEF CopyInv03
  <2>4. QED
    BY <1>3, <2>3
<1>10. ASSUME NEW m, Pending(3)' = {m} PROVE length'[3] = Len(before')
  <2>1. m \in Pending(3) /\ m # e /\ \A k \in Pending(3) : k = m \/ k = e
    BY <1>2, <1>10
  <2>2. IsLast(m, Pending(3))
    BY <1>2, <1>6, <2>1 DEF IsLast
  <2>3. IsLast(e, Pending(3) \ {m})
    BY <1>6, <2>1 DEF IsLast
  <2>4. buffer[e].data = before
    BY <1>1, <2>2, <2>3 DEF CopyInv03
  <2>5. QED
    BY <1>2, <1>3, <1>5, <2>4
<1>11. ASSUME Pending(3)' = {}
       PROVE  length'[3] = Len(heard'[3])
              /\ (Len(heard'[3]) <= Len(before') => Words(3)' = heard'[3])
  <2>1. Pending(3) = {e}
    BY <1>2, <1>11
  <2>2. IsLast(e, Pending(3))
    BY <1>6, <2>1 DEF IsLast
  <2>3. data = heard[3] /\ length[3] = Len(before)
    BY <1>1, <1>2, <2>1, <2>2 DEF CopyInv03, LastIsHeard
  <2>4. ASSUME Len(data) <= length[3] PROVE Words(3)' = data
    <3>1. data \in AllData
      BY <1>1, <1>2, DataTypes
    <3>2. Len(data) \in Nat /\ length[3] \in Nat
      BY <1>1, <3>1, DataTypes, SizeAssumption DEF TypeOK
    <3>3. CopyLength(3, data) = Len(data)
      BY <2>4, <3>2 DEF CopyLength, Shorter
    <3>4. QED
      BY <1>1, <1>4, <3>1, <3>3, CopyWords DEF Undisturbed, LengthFits
  <2>5. QED
    BY <1>3, <1>5, <2>3, <2>4
<1>12. QED
  BY <1>8, <1>9, <1>10, <1>11 DEF CopyInv03, IsLast

\* A frame of another register leaves 0x03 as it is.
LEMMA Keep03 ==
  ASSUME Undisturbed, LengthFits, StepInv, CopiesSound, NEW r \in Registers, OkFrame(r), r # 3
  PROVE  CopyInv03'
<1>1. CopyInv03 /\ 3 \in Registers \ {r}
  BY DEF CopiesSound, Registers
<1>2. /\ Pending(3)' = Pending(3) /\ register'[3] = register[3] /\ length'[3] = length[3]
      /\ buffer' = buffer /\ heard' = heard /\ before' = before
  BY <1>1, OthersKept
<1>3. Words(3)' = Words(3) /\ LastIsHeard(3)'
  BY <1>1, <1>2 DEF Words, CopyInv03, LastIsHeard
<1>4. QED
  BY <1>1, <1>2, <1>3 DEF CopyInv03

\* The same of the state that a step leads to.
LEMMA CopiedAfterStep ==
  (StepInv /\ update.step # "scanning" => \A s \in Registers : Pending(s) = {})'
<1>1. StepInv /\ update.step # "scanning" => \A s \in Registers : Pending(s) = {}
  BY AllCopied
<1>2. QED
  BY <1>1, PTL

(* The length is that of a frame.                                           *)
LEMMA LengthKept ==
  ASSUME Undisturbed, StepInv, LengthFits, [Next]_vars
  PROVE  LengthFits'
<1>1. CASE \E r \in Registers : OkFrame(r)
  <2>1. PICK r \in Registers : OkFrame(r)
    BY <1>1
  <2>2. buffer[update.at].data \in AllData
    BY <2>1, PendingAfterCopy, DataTypes
  <2>3. Len(buffer[update.at].data) <= RegisterLength
    BY <2>2 DEF Undisturbed, FitRegisters
  <2>4. length' = [length EXCEPT ![r] = Len(buffer[update.at].data)]
    BY <2>1 DEF OkFrame
  <2>5. QED
    BY <2>3, <2>4 DEF LengthFits, StepInv, TypeOK
<1>2. CASE ~ \E r \in Registers : OkFrame(r)
  <2>1. UNCHANGED length
    BY <1>2 DEF Next, Update, Read, ReadLine, ReadNothing, Skip, Corrupt, ErrorFrame, Shift, Request,
                NoRequest, Tick, Device, AnswerOk, AnswerBadly, Answer, Silence, Disturbance,
                Overrun, dataVars, vars
  <2>2. QED
    BY <2>1 DEF LengthFits
<1>3. QED
  BY <1>1, <1>2

(* Every step on an undisturbed line keeps the registers true.              *)
LEMMA CopiesKept ==
  ASSUME Undisturbed, LengthFits, StepInv, CopiesSound, [Next]_vars
  PROVE  CopiesSound'
<1>1. StepInv'
  BY StepsKept
<1>2. CASE Read
  BY <1>1, <1>2, ReadCopies DEF Read
<1>3. CASE \E r \in Registers : OkFrame(r)
  <2>1. PICK r \in Registers : OkFrame(r)
    BY <1>3
  <2>2. CopyInv(4)' /\ CopyInv(5)'
    BY <2>1, CopyOthers
  <2>3. CopyInv03'
    BY <2>1, Copy03, Keep03
  <2>4. QED
    BY <2>2, <2>3 DEF CopiesSound
<1>4. CASE Shift
  <2>1. update.step = "scanning" /\ update.at >= wpos /\ update'.step # "scanning"
        /\ UNCHANGED <<dataVars, heardVars>>
    BY <1>4 DEF Shift, Polling
  <2>2. ASSUME NEW r \in Registers PROVE Pending(r) = {} /\ Pending(r)' = {}
    <3>1. Pending(r) = {}
      BY <2>1, AllCopied
    <3>2. (StepInv /\ update.step # "scanning" => \A s \in Registers : Pending(s) = {})'
      BY CopiedAfterStep
    <3>3. QED
      BY <1>1, <2>1, <3>1, <3>2
  <2>3. QED
    BY <2>1, <2>2, NothingToCopy
<1>5. CASE Corrupt \/ ErrorFrame
  BY <1>5, NeverCorrupt
<1>6. CASE Skip
  <2>1. ProcessedTo' = ProcessedTo
    BY <1>6 DEF Skip, ScanningAt, Next1, Scanning, ProcessedTo
  <2>2. QED
    BY <1>6, <2>1, CopiesStay DEF Skip
<1>7. CASE ReadNothing \/ Request \/ NoRequest
  <2>1. ProcessedTo' = ProcessedTo
    BY <1>7 DEF ReadNothing, Request, NoRequest, Waiting, Polling, ProcessedTo
  <2>2. QED
    BY <1>7, <2>1, CopiesStay DEF ReadNothing, Request, NoRequest
<1>8. CASE Tick \/ Device
  <2>1. update' = update
    BY <1>8 DEF Tick, Device, AnswerOk, AnswerBadly, Answer, Silence, Disturbance, Overrun
  <2>2. UNCHANGED <<bufferVars, dataVars, heardVars>>
    BY <1>8 DEF Tick, Device, AnswerOk, AnswerBadly, Answer, Silence, Disturbance, Overrun
  <2>3. QED
    BY <2>1, <2>2, CopiesStay DEF ProcessedTo
<1>9. CASE UNCHANGED vars
  BY <1>9, CopiesStay DEF vars, ProcessedTo
<1>10. QED
  BY <1>2, <1>3, <1>4, <1>5, <1>6, <1>7, <1>8, <1>9 DEF Next, Update

(* Before anything was heard.                                               *)
LEMMA CopiesInitially == Init => CopiesSound
<1>1. SUFFICES ASSUME Init PROVE CopiesSound
  OBVIOUS
<1>2. StepInv
  BY <1>1, StepsInitially
<1>3. \A r \in Registers : Pending(r) = {}
  BY <1>1, <1>2, AllCopied DEF Init, Waiting
<1>4. \A r \in Registers : heard[r] = <<>> /\ length[r] = 0
  BY <1>1 DEF Init
<1>5. ASSUME NEW r \in {4, 5} PROVE CopyInv(r)
  <2>1. r \in Registers
    BY DEF Registers
  <2>2. QED
    BY <1>3, <1>4, <2>1 DEF CopyInv, LastIsHeard, IsLast, Copied
<1>6. CopyInv03
  <2>1. 3 \in Registers
    BY DEF Registers
  <2>2. length[3] = Len(heard[3]) /\ Words(3) = heard[3]
    <3>1. length[3] = 0 /\ heard[3] = <<>>
      BY <1>4, <2>1
    <3>2. Words(3) = [i \in 1 .. 0 |-> IF i <= RegisterLength THEN register[3][i] ELSE Junk]
      BY <3>1 DEF Words
    <3>3. QED
      BY <3>1, <3>2
  <2>3. QED
    BY <1>3, <2>1, <2>2 DEF CopyInv03, LastIsHeard, IsLast
<1>7. QED
  BY <1>5, <1>6 DEF CopiesSound

(* Between calls of update() nothing is pending.                            *)
LEMMA CopiesAreLast == ASSUME StepInv, CopiesSound PROVE LastCopy
<1>1. SUFFICES ASSUME update = Waiting
               PROVE  Copied(4) /\ Copied(5) /\ (Len(heard[3]) <= Len(before) => Copied(3))
  BY DEF LastCopy
<1>2. \A r \in Registers : Pending(r) = {}
  BY <1>1, AllCopied DEF Waiting
<1>3. QED
  BY <1>2 DEF CopiesSound, CopyInv, CopyInv03, Copied, Registers

(* On such a line, however the bytes of the frames are broken up and however *)
(* many frames one call of update() finds, the registers hold               *)
(* between calls what the last frames said; 0x03, whose copy is cut at the  *)
(* length of the frame before, as long as the last is not longer than that. *)
THEOREM CopiesAreTrue == ASSUME Undisturbed PROVE Spec => []LastCopy
<1>1. Init => StepInv /\ CopiesSound /\ LengthFits
  BY StepsInitially, CopiesInitially, SizeAssumption DEF Init, LengthFits, Registers
<1>2. StepInv /\ CopiesSound /\ LengthFits /\ [Next]_vars
        => (StepInv /\ CopiesSound /\ LengthFits)'
  BY StepsKept, CopiesKept, LengthKept
<1>3. StepInv /\ CopiesSound => LastCopy
  BY CopiesAreLast
<1>4. QED
  BY <1>1, <1>2, <1>3, PTL DEF Spec
=============================================================================
