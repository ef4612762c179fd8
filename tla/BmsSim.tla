-------------------------------- MODULE BmsSim --------------------------------
(***************************************************************************)
(* JBDBmsSimulator as a stream (lib/jdbbms/jdb_bms_sim.cpp): it takes      *)
(* requests byte by byte and has its answers ready in a buffer, which the  *)
(* driver empties before it asks again.  What is in an answer is in        *)
(* JdbStore; here it is the register, or "error".                          *)
(***************************************************************************)
EXTENDS Naturals, Sequences

CONSTANT StrayBytes   \* that come between requests

VARIABLES
  sim,     \* rstate, reg, csum (its two bytes), the answers in the buffer
  owed     \* history: requests not answered as asked, since the last stray byte

bmsSimVars == <<sim, owed>>

SimRegisters == {"03", "04", "05"}

\* The low byte of the checksum of a request for a register, 0x10000 less the register
CheckSum == [r \in SimRegisters |-> CASE r = "03" -> "fd" [] r = "04" -> "fc" [] r = "05" -> "fb"]

\* requestRegister() of the driver
RequestBytes(r) == <<"dd", "a5", r, "00", "ff", CheckSum[r], "77">>

\* write() at the end of a request: createReg03Response() and its fellows, or
\* createErrorResponse()
Respond(s) ==
  IF s.reg \in SimRegisters /\ s.csum = <<"ff", CheckSum[s.reg]>> THEN s.reg ELSE "error"

\* Mutant of EndRequest: only a request for a register leaves the state.
EndOfKnown(s, b) ==
  IF b = "77" /\ Respond(s) # "error" THEN [s EXCEPT !.out = Append(@, Respond(s)), !.rstate = 0]
  ELSE s
EndRequest(s, b) ==
  IF b = "77" THEN [s EXCEPT !.out = Append(@, Respond(s)), !.rstate = 0] ELSE [s EXCEPT !.rstate = 0]

\* write(uint8_t)
WriteByte(s, b) ==
  CASE s.rstate = 0 /\ b = "dd" -> [s EXCEPT !.rstate = 1]
    [] s.rstate = 1             -> [s EXCEPT !.rstate = IF b = "a5" THEN 2 ELSE 0]
    [] s.rstate = 2             -> [s EXCEPT !.rstate = 3, !.reg = b]
    [] s.rstate = 3 /\ b = "00" -> [s EXCEPT !.rstate = 4]
    [] s.rstate = 4             -> [s EXCEPT !.rstate = 5, !.csum = <<b, @[2]>>]
    [] s.rstate = 5             -> [s EXCEPT !.rstate = 6, !.csum = <<@[1], b>>]
    [] s.rstate = 6             -> EndRequest(s, b)
    [] OTHER                    -> s

\* The bytes of a request, one after the other
Requested(s, r) ==
  LET after[n \in 0 .. 7] == IF n = 0 THEN s ELSE WriteByte(after[n - 1], RequestBytes(r)[n])
  IN  after[7]

\* The driver has read all there is and asks for a register.
Request(r) ==
  LET after == Requested([sim EXCEPT !.out = <<>>], r)
  IN  /\ sim' = after
      /\ owed' = IF after.out = <<r>> THEN 0 ELSE IF owed < 2 THEN owed + 1 ELSE owed

StrayByte(b) ==
  /\ sim' = WriteByte([sim EXCEPT !.out = <<>>], b)
  /\ owed' = 0

BmsSimStep == (\E r \in SimRegisters : Request(r)) \/ (\E b \in StrayBytes : StrayByte(b))

BmsSimInit ==
  /\ sim = [rstate |-> 0, reg |-> "00", csum |-> <<"00", "00">>, out |-> <<>>]
  /\ owed = 0

\* Whatever bytes have come before, even the start of a request or a whole one for
\* another register, at most one request is lost to them: the next is answered, once and
\* for the register asked.
RequestsAnswered == owed <= 1
=============================================================================
