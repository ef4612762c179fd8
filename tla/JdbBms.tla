------------------------------- MODULE JdbBms -------------------------------
(***************************************************************************)
(* The driver of the JBD battery monitor (lib/jdbbms/jdb_bms.cpp): update()*)
(* reads what the UART has, looks for response frames in its buffer, copies*)
(* what they say into three registers, and sends the next request.         *)
(*                                                                         *)
(* A byte is a cell: the i-th byte of a frame, or noise.  Every frame has  *)
(* FrameLength cells, of which the first is 0xDD and the last 0x77.  Any   *)
(* other cell may be a 0xDD too, and then begins what looks like a frame,  *)
(* of the length that the byte behind it happens to say (Spans).  A run of *)
(* cells has the right checksum exactly when they are the cells of one     *)
(* frame that was sent with the right one: that others have it by accident *)
(* is left out.  A register is a few words.                                *)
(*                                                                         *)
(* update() runs on the loop task only, while the UART fills its queue.    *)
(* Each turn of the scanning loop is a step.                               *)
(***************************************************************************)
EXTENDS Integers, Sequences, SequencesExt

CONSTANTS
  BufferLength,   \* BMS_MAX_BUFFER_LENGTH
  WposMod,        \* 2^8: wpos is a uint8_t
  FrameLength,    \* cells of a frame
  RegisterLength, \* words of a register array
  PeriodMs,       \* 250, the pace of requests
  TimeoutMs,      \* 2000, when an answer is given up
  Reg05Every,     \* 200, requests between two of register 0x05
  Payloads,       \* what an ok frame may carry, by register: sequences of words
  Spans,          \* by data and cell: 0, or the cells of the frame a 0xDD there begins
  Strays,         \* the same of the bytes that noise puts on the line
  Outcomes,       \* what may become of an answer: a subset of AllOutcomes
  MaxFaults,      \* bound of the model: how often it is not "ok"
  MaxAsked,       \* requests the device can have in hand
  MaxLine         \* cells the UART can have in hand

AllOutcomes == {"ok", "error", "sum", "end", "silent", "late", "noise", "lost"}

ASSUME SizeAssumption ==
  /\ BufferLength \in Nat /\ WposMod = BufferLength + 1
  /\ FrameLength \in 2 .. BufferLength
  /\ RegisterLength \in Nat \ {0}
  /\ PeriodMs \in Nat /\ TimeoutMs \in Nat /\ PeriodMs < TimeoutMs
  /\ Reg05Every \in 1 .. 255
  /\ MaxFaults \in Nat /\ MaxAsked \in Nat /\ MaxLine \in Nat
\* Behind three registers lie wpos and the rest of the object.
ASSUME DataAssumption ==
  /\ \A r \in 3 .. 5 : \A data \in Payloads[r] :
       data \in Seq(Nat \ {0}) /\ Len(data) \in 1 .. 3 * RegisterLength
  /\ Outcomes \subseteq AllOutcomes
ASSUME SpanAssumption ==
  /\ \A data \in {<<>>} \cup UNION {Payloads[r] : r \in 3 .. 5} :
       Spans[data] \in [1 .. FrameLength - 1 -> Nat]
  /\ Strays \subseteq Nat

VARIABLES
  \* the device and the UART
  asked,        \* requests the device has not dealt with
  line,         \* cells that have arrived and have not been read
  faults,       \* how often something went wrong
  \* JdbBMS
  buffer, wpos,
  register,     \* register03, register04, register05
  length,       \* register03Length and its fellows
  reg,          \* which of 0x03 and 0x04 is next
  requestReg05, \* requests until 0x05 is read again
  sendNext,
  since,        \* now - lastSend, no further than the program can tell
  update,       \* where update() is; in the scan, frameStart and processedTo
  \* history: the ok frames the UART delivered, last and last but one
  heard, before

deviceVars == <<asked, line, faults>>
bufferVars == <<buffer, wpos>>
dataVars   == <<register, length>>
pollVars   == <<reg, requestReg05, sendNext, since>>
heardVars  == <<heard, before>>
vars == <<deviceVars, bufferVars, dataVars, pollVars, update, heardVars>>

Registers == 3 .. 5
Junk == -1                      \* a word that is not what any frame said
Stray(span) == [kind |-> "noise", i |-> span]
Noise == Stray(0)

Cells(frame) == [j \in 1 .. FrameLength |-> [frame EXCEPT !.i = j - 1]]

\* register03 as it is before the first frame: the driver is a static object.
Blank == [i \in 1 .. RegisterLength |-> 0]

----------------------------------------------------------------------------
(* The device and the UART. *)

\* The three kinds of frame that are well formed or nearly so.
Frame(kind, r, data) == [kind |-> kind, r |-> r, data |-> data, i |-> 0]

Fault(outcome) ==
  /\ outcome \in Outcomes
  /\ outcome # "ok" => faults < MaxFaults
  /\ faults' = faults + (IF outcome = "ok" THEN 0 ELSE 1)

Sends(cells) ==
  /\ Len(line) + Len(cells) <= MaxLine
  /\ line' = line \o cells

\* "sum": a frame whose checksum is wrong; "end": whose last byte is.
Answer(kind, data) ==
  /\ Fault(kind)
  /\ Sends(Cells(Frame(kind, Head(asked), data)))
  /\ asked' = Tail(asked)
  /\ UNCHANGED <<bufferVars, dataVars, pollVars, update, heardVars>>

Silence ==
  /\ asked # <<>>
  /\ Fault("silent")
  /\ asked' = Tail(asked)
  /\ UNCHANGED <<line, bufferVars, dataVars, pollVars, update, heardVars>>

Disturbance ==
  /\ Fault("noise")
  /\ \E span \in Strays : Sends(<<Stray(span)>>)
  /\ UNCHANGED <<asked, bufferVars, dataVars, pollVars, update, heardVars>>

Overrun ==
  /\ line # <<>>
  /\ Fault("lost")
  /\ line' = Tail(line)
  /\ UNCHANGED <<asked, bufferVars, dataVars, pollVars, update, heardVars>>

\* No comparison tells times apart beyond this.  An answer that is not all
\* there when the driver gives it up is late.
Tick ==
  /\ since <= TimeoutMs
  /\ since' = since + 1
  /\ Fault(IF since = TimeoutMs /\ (asked # <<>> \/ line # <<>>) THEN "late" ELSE "ok")
  /\ UNCHANGED <<asked, line, bufferVars, dataVars, reg, requestReg05, sendNext, update,
                 heardVars>>

----------------------------------------------------------------------------
(* update(): reading. *)

Waiting  == [step |-> "waiting"]
Polling  == [step |-> "polling"]
Scanning(at, processedTo) ==
  [step |-> "scanning", at |-> at, processedTo |-> processedTo]

\* The overflow test is `==' after the store, so from a full buffer one byte
\* goes past the end and wpos starts again from 0.
Fits(n) ==
  LET room == IF wpos = BufferLength THEN WposMod ELSE BufferLength - wpos
  IN  IF n <= room THEN n ELSE room

\* Where the ok frames of register r end, and the data of the last of them.
IsEnd(c, r) == c.kind = "ok" /\ c.i = FrameLength - 1 /\ c.r = r
Ends(r, cells) == {j \in DOMAIN cells : IsEnd(cells[j], r)}
DataAt(ends, cells, said) == IF ends = {} THEN said ELSE cells[Max(ends)].data

\* What lies behind the buffer in a JdbBMS is the first byte of register03.
ReadLine(available) ==
  LET n     == Fits(available)
      index == [p \in 0 .. BufferLength |-> ((p - wpos) % WposMod) + 1]
      cells == SubSeq(line, 1, n)
  IN
  /\ update = Waiting
  /\ available \in 1 .. Len(line)
  /\ line' = SubSeq(line, n + 1, Len(line))
  /\ buffer' = [p \in 0 .. BufferLength - 1 |->
                  IF index[p] <= n THEN line[index[p]] ELSE buffer[p]]
  /\ register' = IF index[BufferLength] <= n
                 THEN [register EXCEPT ![3][1] = Junk] ELSE register
  /\ wpos' = (wpos + n) % WposMod
  /\ update' = Scanning(0, 0)
  /\ heard' = [r \in Registers |-> DataAt(Ends(r, cells), cells, heard[r])]
  /\ before' = LET ends == Ends(3, cells)
               IN  IF ends = {} THEN before ELSE DataAt(ends \ {Max(ends)}, cells, heard[3])
  /\ UNCHANGED <<asked, faults, length, pollVars>>

\* Nothing has arrived, or nothing more of what is on its way.
ReadNothing ==
  /\ update = Waiting
  /\ update' = Polling
  /\ UNCHANGED <<deviceVars, bufferVars, dataVars, pollVars, heardVars>>

----------------------------------------------------------------------------
(* update(): scanning, one position at a time. *)

Span(c) ==
  CASE c.kind = "noise" -> c.i
    [] c.kind # "noise" /\ c.i = 0 -> FrameLength
    [] OTHER -> Spans[c.data][c.i]

AtStart(p) == Span(buffer[p]) > 0
EndOf(p) == p + Span(buffer[p]) - 1

\* Mutant of Complete: the end is taken to be there one byte too early.
CompleteEarly(p) == EndOf(p) <= wpos /\ EndOf(p) < BufferLength

Complete(p) == EndOf(p) < wpos
EndsThere(p) ==
  LET c == buffer[EndOf(p)]
  IN  c.kind \notin {"noise", "end"} /\ c.i = FrameLength - 1
SumsUp(p) ==
  /\ buffer[p].kind \notin {"noise", "sum", "end"} /\ buffer[p].i = 0
  /\ \A j \in 0 .. FrameLength - 1 : buffer[p + j] = [buffer[p] EXCEPT !.i = j]

ScanningAt == update.step = "scanning" /\ update.at < wpos
Candidate == ScanningAt /\ AtStart(update.at) /\ Complete(update.at)
Next1 == Scanning(update.at + 1, update.processedTo)

\* Not a frame start, or the start of a frame that is still incomplete (-1).
Skip ==
  /\ ScanningAt
  /\ ~(AtStart(update.at) /\ Complete(update.at))
  /\ update' = Next1
  /\ UNCHANGED <<deviceVars, bufferVars, dataVars, pollVars, heardVars>>

\* -2 and -3: wpos = 0, which ends the scan.
Corrupt ==
  /\ Candidate
  /\ ~(EndsThere(update.at) /\ SumsUp(update.at))
  /\ wpos' = 0
  /\ sendNext' = TRUE
  /\ UNCHANGED <<deviceVars, buffer, dataVars, reg, requestReg05, since, update,
                 heardVars>>

\* -4: the frame is not consumed.
ErrorFrame ==
  /\ Candidate
  /\ EndsThere(update.at) /\ SumsUp(update.at)
  /\ buffer[update.at].kind = "error"
  /\ sendNext' = TRUE
  /\ update' = Next1
  /\ UNCHANGED <<deviceVars, bufferVars, dataVars, reg, requestReg05, since, heardVars>>

Shorter(m, n) == IF m <= n THEN m ELSE n

\* Mutant of CopyLength: register04 is bounded like register03.
CopyLength03(r, data) == Shorter(Len(data), length[r])

\* copyReg03 stops at the length register03 had before this frame, whatever
\* the size of the array; the copies of the others at that size.
CopyLength(r, data) == Shorter(Len(data), IF r = 3 THEN length[3] ELSE RegisterLength)

\* copyReg03 turns the bytes of every word it had round again, those the frame
\* does not reach included.  What it copies past its array lands in the next.
Stored(r, data) ==
  [s \in Registers |-> [i \in 1 .. RegisterLength |->
     LET place == (s - r) * RegisterLength + i
     IN  IF place \in 1 .. CopyLength(r, data) THEN data[place]
         ELSE IF r = 3 /\ place \in 1 .. length[3] THEN Junk ELSE register[s][i]]]

OkFrame(r) ==
  LET data == buffer[update.at].data IN
  /\ Candidate
  /\ EndsThere(update.at) /\ SumsUp(update.at)
  /\ buffer[update.at].kind = "ok" /\ buffer[update.at].r = r
  /\ register' = Stored(r, data)
  /\ length' = [length EXCEPT ![r] = Len(data)]
  /\ sendNext' = TRUE
  /\ update' = Scanning(EndOf(update.at) + 1, EndOf(update.at) + 1)
  /\ UNCHANGED <<deviceVars, bufferVars, reg, requestReg05, since, heardVars>>

\* `wpos = wpos-processedTo', in a uint8_t.
Unread(processedTo) == (wpos - processedTo) % WposMod

\* The end of the scan: what follows the last good frame moves to the front.
Shift ==
  LET by == update.processedTo IN
  /\ update.step = "scanning" /\ update.at >= wpos
  /\ buffer' = [p \in 0 .. BufferLength - 1 |->
                  IF p + by < wpos THEN buffer[p + by] ELSE buffer[p]]
  /\ wpos' = Unread(by)
  /\ update' = Polling
  /\ UNCHANGED <<deviceVars, dataVars, pollVars, heardVars>>

----------------------------------------------------------------------------
(* update(): polling. *)

\* Mutant of TimedOut: a request that is never answered is never given up.
NeverTimedOut == FALSE

TimedOut == since > TimeoutMs

SendNow == since > PeriodMs /\ (sendNext \/ TimedOut)

\* Mutant of NextFast: the cycle skips the last register.
NextFastShort == IF reg >= 4 THEN 3 ELSE reg

\* `if (reg > maxReqRegs) reg = REQ_REGSTART'
NextFast == IF reg > 4 THEN 3 ELSE reg

Asks(r) == asked' = IF Len(asked) < MaxAsked THEN Append(asked, r) ELSE asked

Request05 ==
  /\ requestReg05 = 0
  /\ Asks(5)
  /\ requestReg05' = Reg05Every
  /\ UNCHANGED reg

RequestFast ==
  /\ requestReg05 # 0
  /\ Asks(NextFast)
  /\ requestReg05' = requestReg05 - 1
  /\ reg' = NextFast + 1

Request ==
  /\ update = Polling
  /\ SendNow
  /\ since' = 0
  /\ sendNext' = FALSE
  /\ Request05 \/ RequestFast
  /\ update' = Waiting
  /\ UNCHANGED <<line, faults, bufferVars, dataVars, heardVars>>

NoRequest ==
  /\ update = Polling
  /\ ~SendNow
  /\ sendNext' = (sendNext \/ TimedOut)
  /\ update' = Waiting
  /\ UNCHANGED <<deviceVars, bufferVars, dataVars, reg, requestReg05, since, heardVars>>

----------------------------------------------------------------------------
Init ==
  /\ asked = <<>> /\ line = <<>> /\ faults = 0
  /\ buffer = [p \in 0 .. BufferLength - 1 |-> Noise] /\ wpos = 0
  /\ register = [r \in Registers |-> Blank]
  /\ length = [r \in Registers |-> 0]
  /\ reg = 3 /\ requestReg05 = 0 /\ sendNext = TRUE /\ since = 0
  /\ update = Waiting
  /\ heard = [r \in Registers |-> <<>>] /\ before = <<>>

AnswerOk == asked # <<>> /\ \E data \in Payloads[Head(asked)] : Answer("ok", data)
AnswerBadly == asked # <<>> /\ \E kind \in {"error", "sum", "end"} : Answer(kind, <<>>)

Device ==
  \/ AnswerOk
  \/ AnswerBadly
  \/ Silence \/ Disturbance \/ Overrun

Read == \E available \in 1 .. Len(line) : ReadLine(available)

Update ==
  \/ Read \/ ReadNothing
  \/ Skip \/ Corrupt \/ ErrorFrame
  \/ \E r \in Registers : OkFrame(r)
  \/ Shift \/ Request \/ NoRequest

(* The scan neither reads the queue nor the clock, so what arrives and the   *)
(* time that passes meanwhile may as well come just before it or after it.  *)
Next == Update \/ (update.step # "scanning" /\ (Tick \/ Device))

Spec == Init /\ [][Next]_vars

(* loop() calls update() for ever, and bytes on the wire arrive; the device *)
(* goes on answering, because only MaxFaults of its answers go astray.      *)
FairSpec ==
  Spec /\ WF_vars(Update) /\ SF_vars(Read) /\ WF_vars(Tick) /\ WF_vars(AnswerOk)

----------------------------------------------------------------------------
(* Properties. *)

FrameKinds == {"ok", "error", "sum", "end"}
AllData == UNION {Payloads[r] : r \in Registers}
FrameCells ==
  [kind : FrameKinds, r : Registers, data : {<<>>} \cup AllData, i : 0 .. FrameLength - 1]
StrayCells == {Stray(span) : span \in Strays \cup {0}}
Word == {Junk, 0} \cup UNION {Range(data) : data \in AllData}
Positions == 0 .. WposMod - 1

(* The types of the variables.  That wpos, which wraps, is never past the   *)
(* buffer is all that keeps the scan within it; the byte that is stored     *)
(* behind a full one has landed in register03 (ReadLine).                   *)
TypeOK ==
  /\ asked \in Seq(Registers) /\ Len(asked) <= MaxAsked
  /\ line \in Seq(FrameCells \cup StrayCells) /\ Len(line) <= MaxLine
  /\ faults \in 0 .. MaxFaults
  /\ buffer \in [0 .. BufferLength - 1 -> FrameCells \cup StrayCells]
  /\ wpos \in Positions
  /\ register \in [Registers -> [1 .. RegisterLength -> Word]]
  /\ length \in [Registers -> 0 .. 3 * RegisterLength]
  /\ reg \in 3 .. 5 /\ requestReg05 \in 0 .. Reg05Every
  /\ sendNext \in BOOLEAN /\ since \in 0 .. TimeoutMs + 1
  /\ \/ update \in {Waiting, Polling}
     \/ \E at \in 0 .. BufferLength, by \in 0 .. BufferLength : update = Scanning(at, by)

\* What lies behind the array is none of the register's.
Words(r) == [i \in 1 .. length[r] |-> IF i <= RegisterLength THEN register[r][i] ELSE Junk]
Copied(r) == heard[r] # <<>> => Words(r) = heard[r]

(* What keeping in step asks of the frames: that none has a byte 0xDD that,  *)
(* with the byte three behind it for a length, looks like the start of a    *)
(* frame that ends before its own does; and that none is longer than its    *)
(* register.  Neither is a thing the code sees to.                          *)
NoFrameWithin ==
  \A data \in AllData : \A i \in 1 .. FrameLength - 1 :
    Spans[data][i] = 0 \/ i + Spans[data][i] >= FrameLength
FitRegisters == \A data \in AllData : Len(data) <= RegisterLength

(* Between calls of update() the registers hold what the last good frame    *)
(* said, however its bytes were broken up on the way and whatever came with *)
(* it; 0x03, whose copy is cut at the length it had, unless the frame grew. *)
(* On an undisturbed line this is so of frames of the kind above, and not   *)
(* of others: a frame that comes in two pieces is searched for starts while *)
(* it waits for the second, and lost to one that is none.                   *)
LastCopy ==
  update # Waiting \/ /\ Copied(4) /\ Copied(5)
                      /\ Len(heard[3]) <= Len(before) => Copied(3)

(* The class "contains the last copy of reg 0x03, 0x04 and 0x05" - of 0x03  *)
(* as well, however long its frames are (it does not).                      *)
LastCopyOf03 == update = Waiting => Copied(3)

Unscanned == [j \in 1 .. wpos |-> buffer[j - 1]] \o line
Aligned(cells) ==
  /\ Len(cells) % FrameLength = 0
  /\ \A j \in DOMAIN cells : cells[j].i = (j - 1) % FrameLength

(* On an undisturbed line the driver keeps in step, with frames of the kind *)
(* above: what is left in the buffer is the beginning of the frame whose    *)
(* rest is still to be read.                                                *)
InStep == update = Waiting => wpos < FrameLength /\ Aligned(Unscanned)

(* Whatever befalls the answers, every register is asked for again.         *)
AskedFor(r) == Request /\ (IF requestReg05 = 0 THEN r = 5 ELSE r = NextFast)
EveryRegisterAsked == \A r \in Registers : []<><<AskedFor(r)>>_vars

(* As long as the device answers, with frames of the kind above, every      *)
(* register is refreshed.                                                   *)
Refreshed == \A r \in Registers : []<><<OkFrame(r)>>_vars

=============================================================================
