-------------------------------- MODULE Feed ---------------------------------
(***************************************************************************)
(* The feed of NMEA 0183 sentences over HTTP: one BroadcastBuffer, written *)
(* by the loop task, and a ChunkedResponseStream with a position of its    *)
(* own for each client, read by async_tcp on the other core.  A character  *)
(* is its number in the order of writing; sentences and the ends of lines  *)
(* are written alike.                                                      *)
(***************************************************************************)
EXTENDS Integers

CONSTANTS
  FeedClients,
  BROADCAST_BUFFER_LEN,
  MaxFeed                  \* bound of the model: characters written

ASSUME FeedAssumption == BROADCAST_BUFFER_LEN \in Nat \ {0}

VARIABLES
  feed,      \* the buffer, wpos, characters written, and whether one waits for its wpos
  reader     \* of each client: _start; spos while it reads; what it should get next;
             \* whether it fell behind, and whether it got anything else

feedVars == <<feed, reader>>

FeedNext(position) == (position + 1) % BROADCAST_BUFFER_LEN

\* Mutant of Buffered: written behind the place that is published next.
BufferedAhead(buffer, wpos, n) == [buffer EXCEPT ![FeedNext(wpos)] = n]
\* _buffer[wpos] = *bpos
Buffered(buffer, wpos, n) == [buffer EXCEPT ![wpos] = n]

\* writeLine(), a character
WriteChar ==
  /\ ~feed.stored /\ feed.n < MaxFeed
  /\ feed' = [feed EXCEPT !.buffer = Buffered(@, feed.wpos, feed.n), !.stored = TRUE]
  /\ UNCHANGED reader

\* wpos = (wpos+1) % BROADCAST_BUFFER_LEN; a reader a whole buffer behind is lost.
Publish ==
  /\ feed.stored
  /\ feed' = [feed EXCEPT !.wpos = FeedNext(@), !.n = @ + 1, !.stored = FALSE]
  /\ reader' = [c \in FeedClients |->
       [reader[c] EXCEPT !.behind = @ \/ (reader[c].open /\ feed.n + 1 - reader[c].next >= BROADCAST_BUFFER_LEN)]]

\* GET /api/nmea0183: ChunkedResponseStream(), getStart()
OpenFeed(c) ==
  /\ ~reader[c].open
  /\ reader' = [reader EXCEPT ![c] = [open |-> TRUE, start |-> feed.wpos, spos |-> feed.wpos,
       reading |-> FALSE, next |-> feed.n, behind |-> FALSE, wrong |-> FALSE]]
  /\ UNCHANGED feed

CloseFeed(c) ==
  /\ reader[c].open /\ ~reader[c].reading
  /\ reader' = [reader EXCEPT ![c].open = FALSE]
  /\ UNCHANGED feed

\* _fillBuffer() and read(): spos starts from _start,
ReadBegin(c) ==
  /\ reader[c].open /\ ~reader[c].reading
  /\ reader' = [reader EXCEPT ![c].reading = TRUE, ![c].spos = reader[c].start]
  /\ UNCHANGED feed

\* takes a character at a time up to wpos,
ReadChar(c) ==
  /\ reader[c].reading /\ reader[c].spos # feed.wpos
  /\ reader' = [reader EXCEPT ![c].spos = FeedNext(@), ![c].next = @ + 1,
                              ![c].wrong = @ \/ feed.buffer[reader[c].spos] # reader[c].next]
  /\ UNCHANGED feed

\* and is kept; a read stops at wpos or when the chunk is full.
ReadEnd(c) ==
  /\ reader[c].reading
  /\ reader' = [reader EXCEPT ![c].reading = FALSE, ![c].start = reader[c].spos]
  /\ UNCHANGED feed

FeedStep ==
  \/ WriteChar \/ Publish
  \/ \E c \in FeedClients : OpenFeed(c) \/ CloseFeed(c) \/ ReadBegin(c) \/ ReadChar(c) \/ ReadEnd(c)

FeedInit ==
  /\ feed = [buffer |-> [i \in 0 .. BROADCAST_BUFFER_LEN - 1 |-> -1], wpos |-> 0, n |-> 0, stored |-> FALSE]
  /\ reader = [c \in FeedClients |-> [open |-> FALSE, start |-> 0, spos |-> 0, reading |-> FALSE,
                                     next |-> 0, behind |-> FALSE, wrong |-> FALSE]]

----------------------------------------------------------------------------
\* A client that keeps within the buffer gets every character written since it connected,
\* once and in order, however the two cores interleave and however far another client has
\* fallen behind.
FeedInOrder == \A c \in FeedClients : reader[c].open /\ ~reader[c].behind => ~reader[c].wrong
=============================================================================
