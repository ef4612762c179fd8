--------------------------- MODULE SeasmartStream ---------------------------
(***************************************************************************)
(* The SeaSmart streams of the web server: the ring buffer of each HTTP    *)
(* response (lib/network/httpstream.cpp) and the list of the responses     *)
(* that want lines (lib/network/httpserver.cpp).                           *)
(*                                                                         *)
(* Three tasks meet here.  The loop task writes every line it sends into   *)
(* the ring of each listed response that accepts its PGN; async_tcp opens  *)
(* and closes responses and reads their rings; the loop or NimBLE task     *)
(* switches the server off.  The list is guarded by a mutex, which the     *)
(* writer holds for all its rings.  The rings are not: writer and reader   *)
(* of one ring run on two cores, and each access to it is a step.          *)
(***************************************************************************)
EXTENDS Integers, Sequences, SequencesExt

CONSTANTS
  Stream,        \* places in the heap for a response
  Pgn,           \* the PGNs of the messages sent
  Filters,       \* what requests may ask for: sets of PGNs, {} for all
  BufferLength,  \* SEASMART_BUFFER_LEN
  LineLengths,   \* lengths of an encoded message
  MaxChunk,      \* most the TCP window ever lets a call of _fillBuffer take
  MaxLines       \* bound of the model: messages sent

ASSUME StreamAssumption ==
  /\ BufferLength \in Nat \ {0, 1}
  /\ LineLengths \subseteq 1 .. BufferLength - 1   \* 1024 and 4096 in the code
  /\ MaxChunk \in Nat \ {0} /\ MaxLines \in Nat
  /\ Filters \subseteq SUBSET Pgn

VARIABLES
  \* WebServer
  list,          \* seasmartStreamsHead and what hangs on it
  \* each SeasmartResponseStream
  open,          \* the responses that exist
  pgns,          \* _pgns
  ring,          \* _buffer
  wpos, start,
  \* the tasks
  writer,        \* sendAsSeaSmart, on the loop task
  async,         \* async_tcp
  lines,         \* how many messages have been sent
  \* history
  written,       \* what was published in a ring
  received,      \* what its client was sent
  overrun        \* rings in which the writer has caught up with the reader

ringVars  == <<ring, wpos>>
readVars  == <<start, received>>
openVars  == <<list, open, pgns>>
ghostVars == <<written, overrun>>
vars == <<openVars, ringVars, readVars, writer, async, lines, ghostVars>>

\* The i-th character of a message; 0 is the line separator.
Char == [line : 1 .. MaxLines, i : 0 .. BufferLength]

Idle == [step |-> "idle"]
Accepts(s, pgn) == pgns[s] = {} \/ pgn \in pgns[s]
After(p) == (p + 1) % BufferLength

----------------------------------------------------------------------------
(* The loop task. *)

\* Mutant of MutexFree: the walk over the list does not hold the mutex.
NeverHeld == TRUE

\* seasmartMutex is held for the whole of sendSeaSmart.
MutexFree == writer.step \notin {"store", "advance"}

\* acceptSeaSmart decides whether the message is encoded at all.
Offer(pgn, length) ==
  /\ writer = Idle /\ lines < MaxLines
  /\ lines' = lines + 1
  /\ writer' = IF \E s \in Range(list) : Accepts(s, pgn)
               THEN [step |-> "encoded", pgn |-> pgn, length |-> length]
               ELSE Idle
  /\ UNCHANGED <<openVars, ringVars, readVars, async, ghostVars>>

\* What is left to do for the streams `to', the first of which the walk is at.
Writing(to, pgn, length) ==
  IF to = <<>> THEN Idle
  ELSE [step |-> "store", to |-> to, pgn |-> pgn, length |-> length, i |-> 1]

\* sendSeaSmart takes the mutex and walks the list as it is now.
SendBegin ==
  /\ writer.step = "encoded"
  /\ writer' = Writing(list, writer.pgn, writer.length)
  /\ UNCHANGED <<openVars, ringVars, readVars, async, lines, ghostVars>>

\* acceptPgn lets the walk pass over a stream.
Skip ==
  /\ writer.step = "store" /\ ~Accepts(Head(writer.to), writer.pgn)
  /\ writer' = Writing(Tail(writer.to), writer.pgn, writer.length)
  /\ UNCHANGED <<openVars, ringVars, readVars, async, lines, ghostVars>>

\* The characters of the message, then the separator.
Current == [line |-> lines, i |-> IF writer.i > writer.length THEN 0 ELSE writer.i]

\* `_buffer[wpos] = *bpos'
Store ==
  LET s == Head(writer.to) IN
  /\ writer.step = "store" /\ Accepts(s, writer.pgn)
  /\ ring' = [ring EXCEPT ![s][wpos[s]] = Current]
  /\ writer' = [writer EXCEPT !.step = "advance"]
  /\ UNCHANGED <<openVars, wpos, readVars, async, lines, ghostVars>>

\* `wpos = (wpos+1) % SEASMART_BUFFER_LEN', whatever the reader still has to read.
Advance ==
  LET s == Head(writer.to) IN
  /\ writer.step = "advance"
  /\ wpos' = [wpos EXCEPT ![s] = After(@)]
  /\ writer' = IF writer.i <= writer.length
               THEN [writer EXCEPT !.step = "store", !.i = @ + 1]
               ELSE Writing(Tail(writer.to), writer.pgn, writer.length)
  /\ written' = [written EXCEPT ![s] = Append(@, Current)]
  /\ overrun' = IF After(wpos[s]) = start[s] THEN overrun \cup {s} ELSE overrun
  /\ UNCHANGED <<openVars, ring, readVars, async, lines>>

----------------------------------------------------------------------------
(* async_tcp. *)

Opened(s) ==
  /\ wpos' = [wpos EXCEPT ![s] = 0]
  /\ start' = [start EXCEPT ![s] = 0]
  /\ written' = [written EXCEPT ![s] = <<>>]
  /\ received' = [received EXCEPT ![s] = <<>>]
  /\ overrun' = overrun \ {s}

\* addSeasmartResponse walks to the end.
Listed(s) == Append(list, s)

\* GET /api/seasmart
Open(s, filter) ==
  /\ async = Idle /\ MutexFree
  /\ s \notin open
  /\ open' = open \cup {s}
  /\ pgns' = [pgns EXCEPT ![s] = filter]
  /\ list' = Listed(s)
  /\ Opened(s)
  /\ UNCHANGED <<ring, writer, async, lines>>

\* Mutant of Available: the position after the last one written is read too.
AvailableNext(s) == start[s] # After(wpos[s])

Available(s) == start[s] # wpos[s]

\* _fillBuffer finds the ring empty (RESPONSE_TRY_AGAIN) or begins a chunk.
FillBegin(s) ==
  /\ async = Idle
  /\ s \in open
  /\ Available(s)
  /\ async' = [step |-> "copy", s |-> s, n |-> 1]
  /\ UNCHANGED <<openVars, ringVars, readVars, writer, lines, ghostVars>>

\* `buffer[i++] = _buffer[start]; start = (start+1) % SEASMART_BUFFER_LEN'
Copy ==
  LET s == async.s IN
  /\ async.step = "copy"
  /\ received' = [received EXCEPT ![s] = Append(@, ring[s][start[s]])]
  /\ start' = [start EXCEPT ![s] = After(@)]
  /\ async' = [async EXCEPT !.step = "test"]
  /\ UNCHANGED <<openVars, ringVars, writer, lines, ghostVars>>

\* `i < maxLen && start != wpos', for each window the connection may have.
FillOn ==
  /\ async.step = "test"
  /\ async.n < MaxChunk /\ Available(async.s)
  /\ async' = [async EXCEPT !.step = "copy", !.n = @ + 1]
  /\ UNCHANGED <<openVars, ringVars, readVars, writer, lines, ghostVars>>

FillEnd ==
  /\ async.step = "test"
  /\ async' = Idle
  /\ UNCHANGED <<openVars, ringVars, readVars, writer, lines, ghostVars>>

\* Mutant of Unlinked: the walk starts behind the head.
UnlinkedBehindHead(s) == IF list # <<>> /\ Head(list) = s THEN list ELSE RemoveFirst(list, s)

Unlinked(s) == RemoveFirst(list, s)

\* onDisconnect: removeSeasmartResponse, then the server deletes the response.
Unlink(s) ==
  /\ async = Idle /\ MutexFree
  /\ s \in open
  /\ list' = Unlinked(s)
  /\ async' = [step |-> "free", s |-> s]
  /\ UNCHANGED <<open, pgns, ringVars, readVars, writer, lines, ghostVars>>

Free ==
  /\ async.step = "free"
  /\ open' = open \ {async.s}
  /\ Opened(async.s)
  /\ async' = Idle
  /\ UNCHANGED <<list, pgns, ring, writer, lines>>

----------------------------------------------------------------------------
(* WebServer::end: the list is dropped, the responses stay. *)
End ==
  /\ MutexFree
  /\ list # <<>>
  /\ list' = <<>>
  /\ UNCHANGED <<open, pgns, ringVars, readVars, writer, async, lines, ghostVars>>

----------------------------------------------------------------------------
Nothing == [line |-> 1, i |-> 0]

Init ==
  /\ list = <<>> /\ open = {} /\ pgns = [s \in Stream |-> {}]
  /\ ring = [s \in Stream |-> [p \in 0 .. BufferLength - 1 |-> Nothing]]
  /\ wpos = [s \in Stream |-> 0] /\ start = [s \in Stream |-> 0]
  /\ writer = Idle /\ async = Idle /\ lines = 0
  /\ written = [s \in Stream |-> <<>>] /\ received = [s \in Stream |-> <<>>]
  /\ overrun = {}

Write ==
  \/ \E pgn \in Pgn, length \in LineLengths : Offer(pgn, length)
  \/ SendBegin \/ Skip \/ Store \/ Advance

Fill == (\E s \in Stream : FillBegin(s)) \/ Copy \/ FillOn \/ FillEnd

Connections ==
  \/ \E s \in Stream : Unlink(s) \/ \E filter \in Filters : Open(s, filter)
  \/ Free

Next == Write \/ Fill \/ Connections \/ End

Spec == Init /\ [][Next]_vars

(* loop() runs for ever; async_tcp asks each open response for more as long *)
(* as its client takes what it is sent.                                     *)
FairSpec ==
  /\ Spec
  /\ WF_vars(SendBegin \/ Skip \/ Store \/ Advance)
  /\ WF_vars(Copy \/ FillEnd \/ Free)
  /\ \A s \in Stream : SF_vars(FillBegin(s))

----------------------------------------------------------------------------
(* Properties. *)

(* The mutex does what it is for: no freed response is in the list or is    *)
(* being written to, and none is listed twice, whatever clients come and go *)
(* and whenever the server is switched off.                                 *)
ListSound ==
  /\ Range(list) \subseteq open
  /\ IsInjective(list)
  /\ writer.step \in {"store", "advance"} => Range(writer.to) \subseteq open

Channel == INSTANCE LineChannel WITH sent <- written, got <- received, broken <- overrun

(* The unlocked ring is a channel: as long as the writer has not caught up  *)
(* with the reader, the client gets every character once, in order and as   *)
(* it was written, however the two cores interleave.                        *)
StreamsKeepOrder == Channel!Spec

Owed(s) == s \in open \ overrun /\ Len(received[s]) < Len(written[s])

(* A client that keeps reading gets everything that was written for it.     *)
Delivered ==
  \A s \in Stream : Owed(s) ~> (s \notin open \/ s \in overrun
                                \/ Len(received[s]) = Len(written[s]))
=============================================================================
