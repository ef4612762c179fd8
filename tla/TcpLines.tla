------------------------------ MODULE TcpLines ------------------------------
(***************************************************************************)
(* What a client of the NMEA TCP server sends (AsyncTcpClient::readInput,  *)
(* parseSentence, checkChecksum): lines, byte by byte, however TCP breaks  *)
(* them up, into a buffer of WIFICLIENT_MAX_INPUTBUFFER bytes.             *)
(*                                                                         *)
(* The i-th byte of a line of some kind is <<kind, i>>; a checksum is right*)
(* when just the bytes of one line that was sent with a right one are      *)
(* there.  checkChecksum() starts behind the first byte: of an empty line, *)
(* it looks at what the line before has left there.                        *)
(***************************************************************************)
EXTENDS Naturals, Sequences

CONSTANTS
  LineKinds,   \* [length, sums (its checksum is right), command (it begins with $PCDCM,)]
  InputBuffer, \* WIFICLIENT_MAX_INPUTBUFFER
  MaxSent      \* bound of the model: lines of a client

ASSUME LineAssumption ==
  /\ LineKinds \subseteq [length : Nat, sums : BOOLEAN, command : BOOLEAN]
  /\ InputBuffer \in Nat /\ InputBuffer > 2

VARIABLES
  inputBuffer, \* up to bpos
  behind,      \* what was there before, if bpos is 0
  fresh,       \* the buffer has never been written
  sending, at, \* the line the client is sending, and how far it is
  mode,
  recieved, badCommands, errors,
  good, wrong, empty,  \* history: lines of each sort that the client sent
  asked                \* history: one of the good ones was a command

counterVars == <<recieved, badCommands, errors>>
sentVars == <<good, wrong, empty, asked>>
lineVars == <<inputBuffer, behind, fresh, sending, at, mode, counterVars, sentVars>>

NoLine == [length |-> 0, sums |-> FALSE, command |-> FALSE]
Bytes(kind) == [i \in 1 .. kind.length |-> <<kind, i>>]

\* Mutant of HasRoom: the last byte there is room for is not used.
HasRoomTight == Len(inputBuffer) < InputBuffer - 3
HasRoom == Len(inputBuffer) < InputBuffer - 2

\* readInput(): a printable byte
Byte ==
  /\ good + wrong + empty < MaxSent
  /\ sending = NoLine => at = 0
  /\ \E kind \in (IF sending = NoLine THEN LineKinds ELSE {sending}) :
       /\ at < kind.length
       /\ sending' = kind
       /\ at' = at + 1
       /\ inputBuffer' = IF HasRoom THEN Append(inputBuffer, <<kind, at + 1>>) ELSE inputBuffer
  /\ fresh' = FALSE
  /\ UNCHANGED <<behind, mode, counterVars, sentVars>>

\* checkChecksum() of what parseSentence() finds
Looked == IF inputBuffer = <<>> THEN behind ELSE inputBuffer
Sums(text) == text # <<>> /\ text = Bytes(text[1][1]) /\ text[1][1].sums
\* The head of an empty line is zero, unless nothing was ever written there.
IsCommand(text) == text[1][1].command /\ (inputBuffer # <<>> \/ fresh)

\* parseSentence().  getNextField() finds no field: it stops at the `$' it begins with.
ParseSentence ==
  IF ~Sums(Looked)
    THEN errors' = errors + 1 /\ UNCHANGED <<mode, recieved, badCommands>>
    ELSE /\ recieved' = recieved + 1
         /\ mode' = IF IsCommand(Looked) THEN "seasmart" ELSE mode
         /\ badCommands' = IF IsCommand(Looked) THEN badCommands ELSE badCommands + 1
         /\ UNCHANGED errors

\* Mutant of Restarted: the next line goes on behind this one.
NotRestarted == UNCHANGED <<inputBuffer, behind>>
Restarted == inputBuffer' = <<>> /\ behind' = Looked

Fits(kind) == kind.length <= InputBuffer - 2

\* readInput(): the end of a line
EndLine ==
  /\ good + wrong + empty < MaxSent
  /\ at = sending.length
  /\ ParseSentence
  /\ Restarted
  /\ sending' = NoLine /\ at' = 0
  /\ LET right == sending.sums /\ Fits(sending)
     IN  /\ empty' = empty + (IF sending = NoLine THEN 1 ELSE 0)
         /\ good' = good + (IF right THEN 1 ELSE 0)
         /\ wrong' = wrong + (IF sending # NoLine /\ ~right THEN 1 ELSE 0)
         /\ asked' = (asked \/ (right /\ sending.command))
  \* An empty first line is read from memory that may hold a line of a client before.
  /\ fresh' = FALSE

\* The client is gone, and the next one gets its memory or other.
Reconnect ==
  /\ \/ behind' = Looked
     \/ behind' = <<>>
  /\ inputBuffer' = <<>> /\ fresh' = TRUE
  /\ sending' = NoLine /\ at' = 0
  /\ mode' = "nmea0183"
  /\ recieved' = 0 /\ badCommands' = 0 /\ errors' = 0
  /\ good' = 0 /\ wrong' = 0 /\ empty' = 0 /\ asked' = FALSE

LineStep == Byte \/ EndLine \/ Reconnect

LineInit ==
  /\ inputBuffer = <<>> /\ behind = <<>> /\ fresh = TRUE
  /\ sending = NoLine /\ at = 0
  /\ mode = "nmea0183"
  /\ recieved = 0 /\ badCommands = 0 /\ errors = 0
  /\ good = 0 /\ wrong = 0 /\ empty = 0 /\ asked = FALSE

----------------------------------------------------------------------------
\* Each line is taken by itself: whatever came before it, in pieces, too long or
\* broken off, a client of which no empty line was read is in SeaSmart mode exactly
\* when it has asked for it, and its lines are counted as what they are; an
\* empty line later on only makes one of the counts too high.
LinesStandAlone ==
  /\ recieved + errors = good + wrong + empty
  /\ recieved >= good /\ errors >= wrong
  /\ badCommands <= recieved
  /\ empty = 0 => (mode = "seasmart" <=> asked)
=============================================================================
