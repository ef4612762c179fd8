---------------------------- MODULE Parts_proofs ----------------------------
(***************************************************************************)
(* Proofs about the parts that Parts puts side by side, for every value of *)
(* their constants: each has an invariant of its own, which its steps keep *)
(* and the other parts leave alone.  Those of the network's switches and   *)
(* of the blocking server are in Network_proofs.                           *)
(***************************************************************************)
EXTENDS Parts, Network_proofs, RingTheorems, FiniteSetTheorems, SequenceTheorems,
        WellFoundedInduction

----------------------------------------------------------------------------
(* The feed over HTTP. *)

FeedReaders ==
  [open : BOOLEAN, start : Nat, spos : Nat, reading : BOOLEAN,
   next : Nat, behind : BOOLEAN, wrong : BOOLEAN]

FeedTypeOK ==
  /\ feed \in [buffer : [0 .. BROADCAST_BUFFER_LEN - 1 -> Int], wpos : Nat, n : Nat, stored : BOOLEAN]
  /\ reader \in [FeedClients -> FeedReaders]

\* The n-th character is published at place n, and is there before it is published.
WriterInv ==
  /\ feed.wpos = feed.n % BROADCAST_BUFFER_LEN
  /\ feed.stored => feed.buffer[feed.wpos] = feed.n

\* A client that is not behind finds all it has still to read.
ReaderInv(c) ==
  /\ reader[c].next <= feed.n /\ feed.n - reader[c].next < BROADCAST_BUFFER_LEN
  /\ (IF reader[c].reading THEN reader[c].spos ELSE reader[c].start)
       = reader[c].next % BROADCAST_BUFFER_LEN
  /\ \A k \in Nat : reader[c].next <= k /\ k < feed.n => feed.buffer[k % BROADCAST_BUFFER_LEN] = k
  /\ ~reader[c].wrong

FeedInv ==
  /\ FeedTypeOK /\ WriterInv
  /\ \A c \in FeedClients : reader[c].open /\ ~reader[c].behind => ReaderInv(c)

\* What a character read makes of a client is a client.
LEMMA ReaderTakes ==
  ASSUME NEW q \in FeedReaders, NEW spos \in Nat, NEW next \in Nat, NEW flaw \in BOOLEAN
  PROVE  /\ [q EXCEPT !.spos = spos, !.next = next, !.wrong = flaw] \in FeedReaders
         /\ [q EXCEPT !.spos = spos, !.next = next, !.wrong = flaw].open = q.open
         /\ [q EXCEPT !.spos = spos, !.next = next, !.wrong = flaw].behind = q.behind
BY DEF FeedReaders

\* The buffer is empty, and nobody has connected.
LEMMA FeedInitially == FeedInit => FeedInv
<1> SUFFICES ASSUME FeedInit PROVE FeedInv
  OBVIOUS
<1> USE FeedAssumption DEF FeedInit
<1>1. FeedTypeOK
  BY DEF FeedTypeOK, FeedReaders
<1>2. WriterInv
  BY PlaceSmall DEF WriterInv
<1>3. QED
  BY <1>1, <1>2 DEF FeedInv

\* writeLine() stores a character where no client has one to read.
LEMMA WriteCharKeeps == FeedInv /\ WriteChar => FeedInv'
<1> SUFFICES ASSUME FeedInv, WriteChar PROVE FeedInv'
  OBVIOUS
<1> USE FeedAssumption DEF FeedInv
<1>0. feed.n % BROADCAST_BUFFER_LEN \in 0 .. BROADCAST_BUFFER_LEN - 1
  BY Quotient DEF FeedTypeOK, FeedReaders
<1>1. /\ feed' = [feed EXCEPT !.buffer = [feed.buffer EXCEPT ![feed.wpos] = feed.n], !.stored = TRUE]
      /\ UNCHANGED reader
  BY DEF WriteChar, Buffered
<1>2. FeedTypeOK'
  <2>1. [feed.buffer EXCEPT ![feed.wpos] = feed.n] \in [0 .. BROADCAST_BUFFER_LEN - 1 -> Int]
    BY <1>0 DEF WriterInv, FeedTypeOK
  <2>2. QED
    BY <1>1, <2>1 DEF FeedTypeOK
<1>3. feed'.wpos = feed.wpos /\ feed'.n = feed.n
      /\ feed'.buffer = [feed.buffer EXCEPT ![feed.wpos] = feed.n]
  BY <1>1 DEF FeedTypeOK, FeedReaders
<1>4. WriterInv'
  BY <1>0, <1>3 DEF WriterInv, FeedTypeOK
<1>5. ASSUME NEW c \in FeedClients, reader[c].open, ~reader[c].behind PROVE ReaderInv(c)'
  <2>1. ReaderInv(c)
    BY <1>5
  <2>2. ASSUME NEW k \in Nat, reader[c].next <= k, k < feed.n
        PROVE feed'.buffer[k % BROADCAST_BUFFER_LEN] = k
    <3>1. reader[c].next \in Nat /\ feed.n \in Nat
      BY DEF FeedTypeOK, FeedReaders
    <3>2. k % BROADCAST_BUFFER_LEN # feed.n % BROADCAST_BUFFER_LEN
      BY <2>1, <2>2, <3>1, PlacesApart DEF ReaderInv
    <3>3. k % BROADCAST_BUFFER_LEN \in 0 .. BROADCAST_BUFFER_LEN - 1
      BY Quotient
    <3>4. QED
      BY <1>3, <2>1, <2>2, <3>2, <3>3 DEF WriterInv, ReaderInv, FeedTypeOK
  <2>3. QED
    BY <1>1, <1>3, <2>1, <2>2 DEF ReaderInv
<1>6. QED
  BY <1>1, <1>2, <1>4, <1>5

\* It is published, and who is a whole buffer behind is lost.
LEMMA PublishKeeps == FeedInv /\ Publish => FeedInv'
<1> SUFFICES ASSUME FeedInv, Publish PROVE FeedInv'
  OBVIOUS
<1> USE FeedAssumption DEF FeedInv
<1>1. /\ feed' = [feed EXCEPT !.wpos = FeedNext(feed.wpos), !.n = feed.n + 1, !.stored = FALSE]
      /\ reader' = [c \in FeedClients |->
           [reader[c] EXCEPT !.behind = reader[c].behind
              \/ (feed.n + 1 - reader[c].next >= BROADCAST_BUFFER_LEN /\ reader[c].open)]]
      /\ feed.stored
  BY DEF Publish
<1>2. feed.n \in Nat /\ feed.wpos = feed.n % BROADCAST_BUFFER_LEN
      /\ FeedNext(feed.wpos) = (feed.n + 1) % BROADCAST_BUFFER_LEN
      /\ (feed.n + 1) % BROADCAST_BUFFER_LEN \in 0 .. BROADCAST_BUFFER_LEN - 1
  <2>1. feed.n \in Nat /\ feed.n + 1 \in Nat
    BY DEF FeedTypeOK, FeedReaders
  <2>2. QED
    BY <2>1, Quotient, PlaceAfter DEF WriterInv, FeedNext
<1>3. feed'.wpos = FeedNext(feed.wpos) /\ feed'.n = feed.n + 1 /\ ~feed'.stored
      /\ feed'.buffer = feed.buffer
  BY <1>1 DEF FeedTypeOK, FeedReaders
<1>4. FeedTypeOK'
  <2>1. ASSUME NEW c \in FeedClients
        PROVE  [reader[c] EXCEPT !.behind = reader[c].behind
                 \/ (feed.n + 1 - reader[c].next >= BROADCAST_BUFFER_LEN /\ reader[c].open)]
                 \in FeedReaders
    BY DEF FeedTypeOK, FeedReaders
  <2>2. reader' \in [FeedClients -> FeedReaders]
    BY <1>1, <2>1 DEF FeedTypeOK
  <2>3. feed' \in [buffer : [0 .. BROADCAST_BUFFER_LEN - 1 -> Int], wpos : Nat, n : Nat,
                   stored : BOOLEAN]
    <3>1. FeedNext(feed.wpos) \in Nat /\ feed.n + 1 \in Nat
      BY <1>2
    <3>2. QED
      BY <1>1, <3>1 DEF FeedTypeOK
  <2>4. QED
    BY <2>2, <2>3 DEF FeedTypeOK
<1>5. WriterInv'
  BY <1>2, <1>3 DEF WriterInv
<1>6. ASSUME NEW c \in FeedClients, reader'[c].open, ~reader'[c].behind PROVE ReaderInv(c)'
  <2>1. /\ reader[c].open /\ ~reader[c].behind
        /\ feed.n + 1 - reader[c].next < BROADCAST_BUFFER_LEN
        /\ reader[c].next \in Nat
        /\ reader'[c].next = reader[c].next /\ reader'[c].reading = reader[c].reading
        /\ reader'[c].spos = reader[c].spos /\ reader'[c].start = reader[c].start
        /\ reader'[c].wrong = reader[c].wrong
    <3>1. /\ reader'[c] = [reader[c] EXCEPT !.behind = reader[c].behind
               \/ (feed.n + 1 - reader[c].next >= BROADCAST_BUFFER_LEN /\ reader[c].open)]
          /\ reader[c] \in FeedReaders
      BY <1>1 DEF FeedTypeOK
    <3>2. /\ reader'[c].open = reader[c].open
          /\ reader'[c].behind = (reader[c].behind
               \/ (feed.n + 1 - reader[c].next >= BROADCAST_BUFFER_LEN /\ reader[c].open))
      BY <3>1 DEF FeedReaders
    <3>3. /\ ~(feed.n + 1 - reader[c].next >= BROADCAST_BUFFER_LEN)
          /\ ~reader[c].behind /\ reader[c].open
      BY <1>6, <3>2
    <3>4. feed.n + 1 - reader[c].next < BROADCAST_BUFFER_LEN /\ reader[c].next \in Nat
      BY <1>2, <3>1, <3>3 DEF FeedReaders
    <3>5. QED
      BY <3>1, <3>3, <3>4 DEF FeedReaders
  <2>2. ReaderInv(c)
    BY <2>1
  <2>3. ASSUME NEW k \in Nat, reader[c].next <= k, k < feed.n + 1
        PROVE feed.buffer[k % BROADCAST_BUFFER_LEN] = k
    <3>1. k < feed.n \/ k = feed.n
      BY <1>2, <2>3
    <3>2. QED
      BY <1>1, <1>2, <2>2, <2>3, <3>1 DEF ReaderInv, WriterInv
  <2>4. QED
    BY <1>2, <1>3, <2>1, <2>2, <2>3 DEF ReaderInv
<1>7. QED
  BY <1>4, <1>5, <1>6

\* What a client does leaves the others as they are.
LEMMA ReaderKeeps ==
  ASSUME FeedInv, NEW c \in FeedClients, UNCHANGED feed,
         NEW r \in FeedReaders,
         reader' = [reader EXCEPT ![c] = r],
         r.open /\ ~r.behind => ReaderInv(c)'
  PROVE  FeedInv'
<1>1. FeedTypeOK' /\ WriterInv'
  BY DEF FeedInv, FeedTypeOK, FeedReaders, WriterInv
<1>2. ASSUME NEW d \in FeedClients, reader'[d].open /\ ~reader'[d].behind PROVE ReaderInv(d)'
  <2>1. CASE d = c
    BY <1>2, <2>1 DEF FeedInv, FeedTypeOK
  <2>2. CASE d # c
    BY <1>2, <2>2 DEF FeedInv, FeedTypeOK, ReaderInv
  <2>3. QED
    BY <2>1, <2>2
<1>3. QED
  BY <1>1, <1>2 DEF FeedInv

\* ChunkedResponseStream() begins at what is written next.
LEMMA OpenFeedKeeps == ASSUME NEW c \in FeedClients, FeedInv, OpenFeed(c) PROVE FeedInv'
<1> DEFINE r == [open |-> TRUE, start |-> feed.wpos, spos |-> feed.wpos,
                 reading |-> FALSE, next |-> feed.n, behind |-> FALSE, wrong |-> FALSE]
<1> USE FeedAssumption
<1>1. reader' = [reader EXCEPT ![c] = r] /\ UNCHANGED feed
  BY DEF OpenFeed
<1>2. feed.n \in Nat /\ feed.wpos \in Nat
      /\ r \in FeedReaders
  BY DEF FeedInv, FeedTypeOK, FeedReaders
<1>3. ReaderInv(c)'
  <2>1. reader'[c] = r
    BY <1>1 DEF FeedInv, FeedTypeOK
  <2>2. QED
    BY <1>1, <1>2, <2>1 DEF ReaderInv, FeedInv, WriterInv
<1>4. QED
  BY <1>1, <1>2, <1>3, ReaderKeeps

\* read() from its first character to the last, and what comes between two of them.
LEMMA ReadKeeps ==
  ASSUME NEW c \in FeedClients, FeedInv, CloseFeed(c) \/ ReadBegin(c) \/ ReadChar(c) \/ ReadEnd(c)
  PROVE  FeedInv'
<1> USE FeedAssumption DEF FeedReaders
<1>0. reader[c] \in FeedReaders /\ feed.n \in Nat /\ reader \in [FeedClients -> FeedReaders]
  BY DEF FeedInv, FeedTypeOK
<1>1. CASE CloseFeed(c)
  <2>1. reader' = [reader EXCEPT ![c] = [reader[c] EXCEPT !.open = FALSE]] /\ UNCHANGED feed
    BY <1>1 DEF CloseFeed
  <2>2. QED
    BY <1>0, <2>1, ReaderKeeps
<1>2. CASE ReadBegin(c)
  <2> DEFINE r == [reader[c] EXCEPT !.reading = TRUE, !.spos = reader[c].start]
  <2>1. reader' = [reader EXCEPT ![c] = r] /\ UNCHANGED feed /\ reader[c].open /\ ~reader[c].reading
    BY <1>0, <1>2 DEF ReadBegin
  <2>2. r.open /\ ~r.behind => ReaderInv(c)'
    BY <1>0, <2>1 DEF FeedInv, ReaderInv
  <2>3. QED
    BY <1>0, <2>1, <2>2, ReaderKeeps
<1>3. CASE ReadChar(c)
  <2> DEFINE r == [reader[c] EXCEPT !.spos = FeedNext(reader[c].spos), !.next = reader[c].next + 1,
                     !.wrong = reader[c].wrong \/ feed.buffer[reader[c].spos] # reader[c].next]
  <2>1. reader' = [reader EXCEPT ![c] = r] /\ UNCHANGED feed /\ reader[c].reading
        /\ reader[c].spos # feed.wpos
    BY <1>0, <1>3 DEF ReadChar
  <2>2. FeedNext(reader[c].spos) \in Nat
    <3>1. reader[c].spos + 1 \in Nat
      BY <1>0
    <3>2. QED
      BY <3>1, Quotient DEF FeedNext
  <2>3. ASSUME reader[c].open, ~reader[c].behind PROVE ReaderInv(c)'
    <3>1. ReaderInv(c) /\ reader[c].spos = reader[c].next % BROADCAST_BUFFER_LEN
      BY <2>1, <2>3 DEF FeedInv, ReaderInv
    <3>2. reader[c].next < feed.n
      BY <1>0, <2>1, <3>1 DEF FeedInv, ReaderInv, WriterInv
    <3>3. feed.buffer[reader[c].spos] = reader[c].next
      BY <1>0, <3>1, <3>2 DEF ReaderInv
    <3>4. FeedNext(reader[c].spos) = (reader[c].next + 1) % BROADCAST_BUFFER_LEN
      BY <1>0, <3>1, PlaceAfter DEF FeedNext
    <3>5. QED
      BY <1>0, <2>1, <2>2, <3>1, <3>2, <3>3, <3>4 DEF ReaderInv
  <2>4. (reader[c].wrong \/ feed.buffer[reader[c].spos] # reader[c].next) \in BOOLEAN
    OBVIOUS
  <2>5. r \in FeedReaders /\ r.open = reader[c].open /\ r.behind = reader[c].behind
    <3>1. reader[c].next + 1 \in Nat
      BY <1>0
    <3>2. QED
      BY <1>0, <2>2, <2>4, <3>1, ReaderTakes, Zenon
  <2> HIDE DEF r
  <2>6. QED
    BY <2>1, <2>3, <2>5, ReaderKeeps
<1>4. CASE ReadEnd(c)
  <2> DEFINE r == [reader[c] EXCEPT !.reading = FALSE, !.start = reader[c].spos]
  <2>1. reader' = [reader EXCEPT ![c] = r] /\ UNCHANGED feed /\ reader[c].reading
    BY <1>0, <1>4 DEF ReadEnd
  <2>2. r.open /\ ~r.behind => ReaderInv(c)'
    BY <1>0, <2>1 DEF FeedInv, ReaderInv
  <2>3. QED
    BY <1>0, <2>1, <2>2, ReaderKeeps
<1>5. QED
  BY <1>1, <1>2, <1>3, <1>4

\* Every step of the feed keeps the invariant.
LEMMA FeedInvariant == FeedInv /\ [FeedStep]_feedVars => FeedInv'
<1> SUFFICES ASSUME FeedInv, [FeedStep]_feedVars PROVE FeedInv'
  OBVIOUS
<1>1. CASE UNCHANGED feedVars
  BY <1>1 DEF feedVars, FeedInv, FeedTypeOK, WriterInv, ReaderInv
<1>2. CASE FeedStep
  BY <1>2, WriteCharKeeps, PublishKeeps, OpenFeedKeeps, ReadKeeps DEF FeedStep
<1>3. QED
  BY <1>1, <1>2

\* The invariant says what a client is promised.
LEMMA FeedInvHolds == FeedInv => FeedInOrder
BY DEF FeedInv, FeedInOrder, ReaderInv

----------------------------------------------------------------------------
(* Freeze frames, uploads and the counts of restarts. *)

StorageStep == FlashStep \/ BootStep

\* AlarmsFramed is inductive as it is: a bit that is set calls for a line with all that are.
LEMMA AlarmsInvariant == AlarmsFramed /\ [StorageStep]_storageVars => AlarmsFramed'
<1> SUFFICES ASSUME AlarmsFramed, [StorageStep]_storageVars PROVE AlarmsFramed'
  OBVIOUS
<1> USE DEF AlarmsFramed
<1>1. ASSUME NEW new \in SUBSET Alarms, Handle127489(new) PROVE AlarmsFramed'
  <2>1. CASE BitsSet(new) # {}
    BY <1>1, <2>1 DEF Handle127489, LogFreezeFrame, Logged
  <2>2. CASE BitsSet(new) = {}
    BY <1>1, <2>2 DEF Handle127489, BitsSet
  <2>3. QED
    BY <2>1, <2>2
<1>2. CASE ConsoleF
  BY <1>2 DEF ConsoleF, LogFreezeFrame
<1>3. CASE UNCHANGED frameVars
  BY <1>3 DEF frameVars
<1>4. ASSUME NEW reason \in Reasons, Restart(reason) PROVE AlarmsFramed'
  BY <1>4 DEF Restart
<1>5. CASE UNCHANGED storageVars
  BY <1>3, <1>5 DEF storageVars
<1>6. CASE FlashStep
  <2>1. ASSUME NEW r \in Uploads, Chunk(r) \/ Gone(r) PROVE UNCHANGED frameVars
    BY <2>1 DEF Chunk, Gone
  <2>2. ASSUME NEW path \in Paths, Delete(path) PROVE UNCHANGED frameVars
    BY <2>2 DEF Delete
  <2>3. QED
    BY <1>1, <1>2, <1>3, <1>6, <2>1, <2>2 DEF FlashStep
<1>7. CASE BootStep
  <2>1. CASE ConsoleC
    BY <1>3, <2>1 DEF ConsoleC
  <2>2. ASSUME NEW reason \in Reasons, ClearReason(reason) PROVE UNCHANGED frameVars
    BY <2>2 DEF ClearReason
  <2>3. QED
    BY <1>3, <1>4, <1>7, <2>1, <2>2 DEF BootStep
<1>8. QED
  BY <1>5, <1>6, <1>7 DEF StorageStep

\* AuditTrail too, with the types that say which counts an assignment leaves alone.
AuditTypeOK ==
  /\ nvs \in [Reasons -> Int]
  /\ counts \in [Reasons -> Int]
  /\ recorded \subseteq Reasons
AuditInv == AuditTypeOK /\ AuditTrail

LEMMA AuditInvariant == AuditInv /\ [StorageStep]_storageVars => AuditInv'
<1> SUFFICES ASSUME AuditInv, [StorageStep]_storageVars PROVE AuditInv'
  OBVIOUS
<1> USE DEF AuditInv, AuditTypeOK, AuditTrail
<1>1. CASE UNCHANGED bootVars
  BY <1>1 DEF bootVars
<1>2. CASE UNCHANGED storageVars
  BY <1>1, <1>2 DEF storageVars
<1>3. CASE FlashStep
  <2>1. ASSUME NEW new \in SUBSET Alarms, Handle127489(new) PROVE UNCHANGED bootVars
    BY <2>1 DEF Handle127489
  <2>2. ASSUME NEW r \in Uploads, Chunk(r) \/ Gone(r) PROVE UNCHANGED bootVars
    BY <2>2 DEF Chunk, Gone
  <2>3. ASSUME NEW path \in Paths, Delete(path) PROVE UNCHANGED bootVars
    BY <2>3 DEF Delete
  <2>4. ASSUME ConsoleF PROVE UNCHANGED bootVars
    BY <2>4 DEF ConsoleF
  <2>5. QED
    BY <1>1, <1>3, <2>1, <2>2, <2>3, <2>4 DEF FlashStep
<1>4. CASE BootStep
  <2>1. CASE ConsoleC
    BY <2>1 DEF ConsoleC
  <2>2. ASSUME NEW reason \in Reasons, ClearReason(reason) PROVE AuditInv'
    <3>1. counts' = [counts EXCEPT ![reason] = 0]
      BY <2>2 DEF ClearReason
    <3>2. CASE nvs' = [nvs EXCEPT ![reason] = 0] /\ recorded' = recorded \cup {reason}
      BY <3>1, <3>2
    <3>3. CASE recorded' = recorded \ {reason} /\ UNCHANGED nvs
      BY <3>1, <3>3
    <3>4. QED
      BY <2>2, <3>2, <3>3 DEF ClearReason
  <2>3. ASSUME NEW reason \in Reasons, Restart(reason) PROVE AuditInv'
    BY <2>3 DEF Restart, Recorded
  <2>4. QED
    BY <1>4, <2>1, <2>2, <2>3 DEF BootStep
<1>5. QED
  BY <1>2, <1>3, <1>4 DEF StorageStep

----------------------------------------------------------------------------
(* Uploads. *)

UploadStates ==
  [path : Paths \cup {"", "unsafe"}, got : 0 .. Chunks, open : BOOLEAN, code : Nat,
   opened : BOOLEAN, alone : BOOLEAN]

StoredFiles == Seq(Uploads \X Nat) \cup {None}

UploadTypeOK ==
  /\ files \in [Paths -> StoredFiles]
  /\ upload \in [Uploads -> UploadStates]

\* The chunks of request r up to the n-th.
ChunksOf(r, n) == [i \in 1 .. n |-> <<r, i>>]

\* An upload that has gone well so far has its file still open or is complete, and just its
\* chunks are there.
UploadInv(r) ==
  /\ upload[r].open => upload[r].path \in Paths
  /\ upload[r].got > 0 /\ upload[r].code < 400 /\ upload[r].opened /\ upload[r].alone =>
       /\ upload[r].open \/ upload[r].got = Chunks
       /\ upload[r].path \in Paths
       /\ files[upload[r].path] = ChunksOf(r, upload[r].got)

FilesInv == UploadTypeOK /\ \A r \in Uploads : UploadInv(r)

\* The fields of an upload.
LEMMA UploadFields ==
  ASSUME NEW u \in UploadStates
  PROVE  /\ u.got \in Nat /\ u.got <= Chunks /\ u.code \in Nat
         /\ u.open \in BOOLEAN /\ u.opened \in BOOLEAN /\ u.alone \in BOOLEAN
<1>1. u.got \in 0 .. Chunks
  BY DEF UploadStates
<1>2. u.code \in Nat /\ u.open \in BOOLEAN /\ u.opened \in BOOLEAN /\ u.alone \in BOOLEAN
  BY DEF UploadStates
<1>3. QED
  BY <1>1, <1>2, StorageAssumption

\* What there is of a request that has sent nothing yet.
LEMMA NoUploadType == NoUpload \in UploadStates
BY StorageAssumption DEF NoUpload, UploadStates

\* What Opened() makes of one whose path is not.
LEMMA NoUploadOther == [NoUpload EXCEPT !.path = "unsafe"] \in UploadStates
BY NoUploadType DEF UploadStates

\* What Opened() makes of a request whose path is safe.
LEMMA UploadOpened ==
  ASSUME NEW path \in Paths, NEW ok \in BOOLEAN, NEW code \in Nat, NEW alone \in BOOLEAN
  PROVE  [path |-> path, got |-> 0, open |-> ok, code |-> code, opened |-> ok, alone |-> alone]
           \in UploadStates
<1>1. 0 \in 0 .. Chunks
  BY StorageAssumption
<1>2. QED
  BY <1>1 DEF UploadStates

\* One more chunk behind those there are.
LEMMA NextChunk ==
  ASSUME NEW r \in Uploads, NEW n \in Nat
  PROVE  /\ ChunksOf(r, n) \in Seq(Uploads \X Nat)
         /\ Append(ChunksOf(r, n), <<r, n + 1>>) = ChunksOf(r, n + 1)
<1>1. ChunksOf(r, n) \in Seq(Uploads \X Nat) /\ Len(ChunksOf(r, n)) = n
  BY DEF ChunksOf
<1>2. Append(ChunksOf(r, n), <<r, n + 1>>) \in Seq(Uploads \X Nat)
  BY <1>1
<1>3. ChunksOf(r, n + 1) \in Seq(Uploads \X Nat) /\ Len(ChunksOf(r, n + 1)) = n + 1
  BY DEF ChunksOf
<1>4. \A i \in 1 .. n + 1 : Append(ChunksOf(r, n), <<r, n + 1>>)[i] = ChunksOf(r, n + 1)[i]
  BY <1>1 DEF ChunksOf
<1>5. Len(Append(ChunksOf(r, n), <<r, n + 1>>)) = n + 1
  BY <1>1
<1> DEFINE longer == Append(ChunksOf(r, n), <<r, n + 1>>)
           whole  == ChunksOf(r, n + 1)
<1> HIDE DEF longer, whole
<1>6. /\ longer \in Seq(Uploads \X Nat) /\ Len(longer) = n + 1
      /\ whole \in Seq(Uploads \X Nat) /\ Len(whole) = n + 1
      /\ \A i \in 1 .. n + 1 : longer[i] = whole[i]
  BY <1>2, <1>3, <1>4, <1>5 DEF longer, whole
<1>7. longer = whole
  BY <1>6, SeqEqual
<1>8. QED
  BY <1>1, <1>7 DEF longer, whole

\* What a request does to a file leaves those alone that nobody shares.
LEMMA OthersKeep ==
  ASSUME FilesInv, NEW r, NEW path, NEW q \in Uploads, q # r,
         upload'[q] = Shared(r, path)[q],
         files' \in [Paths -> StoredFiles],
         \A other \in Paths : other # path => files'[other] = files[other]
  PROVE  upload'[q] \in UploadStates /\ UploadInv(q)'
<1>1. upload[q] \in UploadStates /\ UploadInv(q)
  BY DEF FilesInv, UploadTypeOK
<1>2. upload'[q] = [upload[q] EXCEPT !.alone = upload[q].alone /\ upload[q].path # path]
  BY DEF Shared
<1>3. (upload[q].alone /\ upload[q].path # path) \in BOOLEAN
  OBVIOUS
<1>4. ASSUME NEW w \in BOOLEAN, NEW u, u = [upload[q] EXCEPT !.alone = w]
      PROVE  /\ u \in UploadStates /\ u.alone = w /\ u.open = upload[q].open
             /\ u.path = upload[q].path /\ u.got = upload[q].got
             /\ u.code = upload[q].code /\ u.opened = upload[q].opened
  BY <1>1, <1>4 DEF UploadStates
<1>5. /\ upload'[q] \in UploadStates
      /\ upload'[q].alone = (upload[q].alone /\ upload[q].path # path)
      /\ upload'[q].open = upload[q].open
      /\ upload'[q].path = upload[q].path /\ upload'[q].got = upload[q].got
      /\ upload'[q].code = upload[q].code /\ upload'[q].opened = upload[q].opened
  BY <1>2, <1>3, <1>4, Zenon
<1>6. upload'[q].alone => upload[q].alone /\ upload[q].path # path
  BY <1>5, Zenon
<1>7. QED
  BY <1>1, <1>5, <1>6 DEF UploadInv

\* What is left of a request that is deleted, or a restart.
LEMMA NoUploadIsFine ==
  ASSUME NEW r \in Uploads, upload'[r] = NoUpload
  PROVE  upload'[r] \in UploadStates /\ UploadInv(r)'
<1>1. NoUpload \in UploadStates
  BY NoUploadType
<1>2. NoUpload.got = 0 /\ ~NoUpload.open
  BY DEF NoUpload
<1>3. QED
  BY <1>1, <1>2 DEF UploadInv

\* A chunk, first or later, written or not.
LEMMA ChunkKeeps == ASSUME FilesInv, NEW r \in Uploads, Chunk(r) PROVE FilesInv'
<1> USE StorageAssumption
<1>0. upload[r] \in UploadStates /\ UploadInv(r)
  BY DEF FilesInv, UploadTypeOK
<1> DEFINE first == upload[r].got = 0
<1>1. PICK path \in (IF first THEN Paths \cup {"unsafe"} ELSE {upload[r].path}), ok \in BOOLEAN :
        LET begun == IF first THEN Opened(r, path, ok) ELSE upload[r]
            room  == IF first THEN begun.open /\ Free + Size(files[path]) > 0
                     ELSE begun.open /\ files[path] # None /\ Free > 0
        IN
        /\ upload[r].got < Chunks /\ (first \/ ok)
        /\ files' = Stored(r, begun, room)
        /\ upload' = [Shared(r, path) EXCEPT ![r] = Written(begun, room)]
  BY DEF Chunk
<1> DEFINE begun == IF first THEN Opened(r, path, ok) ELSE upload[r]
           room  == IF first THEN begun.open /\ Free + Size(files[path]) > 0
                    ELSE begun.open /\ files[path] # None /\ Free > 0
<1>2. /\ upload[r].got < Chunks
      /\ files' = Stored(r, begun, room)
      /\ upload' = [Shared(r, path) EXCEPT ![r] = Written(begun, room)]
  BY <1>1
<1>3. room \in BOOLEAN
  OBVIOUS
<1>4. /\ begun \in UploadStates /\ begun.got < Chunks /\ begun.path = path
      /\ begun.got > 0 => begun = upload[r]
      /\ begun.open => path \in Paths
      /\ begun.opened /\ begun.got = 0 => begun.open
      /\ room => begun.open /\ (begun.got > 0 => files[path] # None)
  <2>1. CASE first /\ path = "unsafe"
    <3>0. begun = [NoUpload EXCEPT !.path = "unsafe"]
      BY <2>1 DEF Opened
    <3>1. NoUpload = [path |-> "", got |-> 0, open |-> FALSE, code |-> 400,
                      opened |-> FALSE, alone |-> TRUE]
      BY DEF NoUpload
    <3>2. room => begun.open
      BY <2>1
    <3> HIDE DEF begun, room
    <3>3. begun \in UploadStates
      BY <3>0, NoUploadOther
    <3>4. begun.got = 0 /\ begun.path = path /\ begun.open = FALSE /\ begun.opened = FALSE
      BY <2>1, <3>0, <3>1
    <3>5. QED
      BY <3>2, <3>3, <3>4
  <2>2. CASE first /\ path # "unsafe"
    <3>1. path \in Paths
      BY <2>2
    <3>2. (\A q \in Uploads \ {r} : upload[q].path # path \/ ~upload[q].open) \in BOOLEAN
      OBVIOUS
    <3>3. (IF files[path] = None THEN 201 ELSE 200) \in Nat
      OBVIOUS
    <3>4. begun = [path |-> path, got |-> 0, open |-> ok,
                   code |-> IF files[path] = None THEN 201 ELSE 200, opened |-> ok,
                   alone |-> \A q \in Uploads \ {r} : upload[q].path # path \/ ~upload[q].open]
      BY <2>2 DEF Opened
    <3>5. begun \in UploadStates
      <4>1. \A code \in Nat : \A w \in BOOLEAN :
               [path |-> path, got |-> 0, open |-> ok, code |-> code, opened |-> ok, alone |-> w]
                 \in UploadStates
        BY <3>1, UploadOpened
      <4>2. \A w \in BOOLEAN :
               [path |-> path, got |-> 0, open |-> ok, code |-> IF files[path] = None THEN 201 ELSE 200,
                opened |-> ok, alone |-> w] \in UploadStates
        BY <3>3, <4>1
      <4> DEFINE w == \A q \in Uploads \ {r} : upload[q].path # path \/ ~upload[q].open
      <4>3. w \in BOOLEAN
        BY <3>2
      <4>4. begun = [path |-> path, got |-> 0, open |-> ok,
                     code |-> IF files[path] = None THEN 201 ELSE 200, opened |-> ok, alone |-> w]
        BY <3>4
      <4> HIDE DEF w
      <4>5. QED
        BY <4>2, <4>3, <4>4
    <3>6. begun.got = 0 /\ begun.path = path /\ begun.open = ok /\ begun.opened = ok
      BY <3>4
    <3>7. room => begun.open
      BY <2>2
    <3> HIDE DEF begun, room
    <3>8. QED
      BY <3>1, <3>5, <3>6, <3>7
  <2>3. CASE ~first
    <3>1. begun = upload[r] /\ path = upload[r].path
      BY <1>1, <2>3
    <3>2. room => begun.open /\ files[path] # None
      BY <2>3
    <3> HIDE DEF begun, room
    <3>3. QED
      BY <1>0, <1>2, <2>3, <3>1, <3>2 DEF UploadInv, UploadStates
  <2>4. QED
    BY <2>1, <2>2, <2>3
<1> HIDE DEF begun, room, first
<1> DEFINE file == IF begun.got = 0 THEN <<>> ELSE files[begun.path]
<1>5. /\ ~begun.open => files' = files
      /\ begun.open /\ room => files' = [files EXCEPT ![path] = Append(file, <<r, begun.got + 1>>)]
      /\ begun.open /\ ~room => files' = [files EXCEPT ![path] = file]
  BY <1>2, <1>4 DEF Stored
<1>6. files' \in [Paths -> StoredFiles] /\ \A other \in Paths : other # path => files'[other] = files[other]
  <2>1. files \in [Paths -> StoredFiles]
    BY DEF FilesInv, UploadTypeOK
  <2>2. begun.got \in Nat /\ begun.got + 1 \in Nat
    BY <1>4, UploadFields
  <2>3. begun.open => file \in StoredFiles
    BY <1>4, <2>1 DEF StoredFiles
  <2>4. room => file \in Seq(Uploads \X Nat)
    <3>1. CASE begun.got = 0
      BY <3>1
    <3>2. CASE begun.got > 0
      BY <1>4, <2>1, <3>2 DEF StoredFiles
    <3>3. QED
      BY <2>2, <3>1, <3>2
  <2> HIDE DEF file
  <2>5. ASSUME NEW f \in StoredFiles, path \in Paths, files' = [files EXCEPT ![path] = f]
        PROVE  /\ files' \in [Paths -> StoredFiles]
               /\ \A other \in Paths : other # path => files'[other] = files[other]
    BY <2>1, <2>5
  <2>6. CASE ~begun.open
    BY <1>5, <2>1, <2>6
  <2>7. CASE begun.open /\ room
    <3>1. Append(file, <<r, begun.got + 1>>) \in StoredFiles
      BY <2>2, <2>4, <2>7 DEF StoredFiles
    <3>2. QED
      BY <1>4, <1>5, <2>5, <2>7, <3>1
  <2>8. CASE begun.open /\ ~room
    BY <1>4, <1>5, <2>3, <2>5, <2>8
  <2>9. QED
    BY <2>6, <2>7, <2>8
<1>7. /\ upload'[r] = Written(begun, room)
      /\ \A q \in Uploads : q # r => upload'[q] = Shared(r, path)[q]
      /\ DOMAIN upload' = Uploads
  BY <1>2 DEF Shared
<1>8. upload'[r] \in UploadStates /\ UploadInv(r)'
  <2>1. begun \in UploadStates /\ begun.got < Chunks /\ begun.path = path
    BY <1>4
  <2>2. begun.got \in Nat /\ begun.code \in Nat
    BY <2>1, UploadFields
  <2>3. ASSUME NEW code \in Nat, NEW open \in BOOLEAN,
               upload'[r] = [begun EXCEPT !.got = begun.got + 1, !.code = code, !.open = open]
        PROVE  /\ upload'[r] \in UploadStates
               /\ upload'[r].path = path /\ upload'[r].got = begun.got + 1
               /\ upload'[r].code = code /\ upload'[r].open = open
               /\ upload'[r].opened = begun.opened /\ upload'[r].alone = begun.alone
    <3>1. ASSUME NEW v, v = [begun EXCEPT !.got = begun.got + 1, !.code = code, !.open = open]
          PROVE  /\ v \in UploadStates
                 /\ v.path = begun.path /\ v.got = begun.got + 1
                 /\ v.code = code /\ v.open = open
                 /\ v.opened = begun.opened /\ v.alone = begun.alone
      <4>1. begun.got + 1 \in 0 .. Chunks
        BY <2>1, <2>2
      <4>2. ASSUME NEW n \in 0 .. Chunks,
                   v = [begun EXCEPT !.got = n, !.code = code, !.open = open]
            PROVE  v \in UploadStates
        BY <2>1, <4>2 DEF UploadStates
      <4>3. ASSUME NEW n, v = [begun EXCEPT !.got = n, !.code = code, !.open = open]
            PROVE  /\ v.path = begun.path /\ v.got = n /\ v.code = code /\ v.open = open
                   /\ v.opened = begun.opened /\ v.alone = begun.alone
        BY <2>1, <4>3 DEF UploadStates
      <4>4. QED
        BY <3>1, <4>1, <4>2, <4>3, Zenon
    <3>2. QED
      BY <2>1, <2>3, <3>1, Zenon
  <2>4. CASE begun.open /\ room
    <3>1. (begun.open /\ room /\ begun.got + 1 < Chunks) \in BOOLEAN
      OBVIOUS
    <3>2. upload'[r] = [begun EXCEPT !.got = begun.got + 1, !.code = begun.code,
                          !.open = begun.open /\ room /\ begun.got + 1 < Chunks]
      BY <1>7, <2>4 DEF Written
    <3>3. /\ upload'[r] \in UploadStates /\ upload'[r].path = path
          /\ upload'[r].got = begun.got + 1 /\ upload'[r].code = begun.code
          /\ upload'[r].open = (begun.open /\ room /\ begun.got + 1 < Chunks)
          /\ upload'[r].opened = begun.opened /\ upload'[r].alone = begun.alone
      BY <2>2, <2>3, <3>1, <3>2, Zenon
    <3>4. path \in Paths
      BY <1>4, <2>4
    <3>5. files'[path] = Append(file, <<r, begun.got + 1>>)
      BY <1>5, <2>4, <3>4 DEF FilesInv, UploadTypeOK
    <3>6. upload'[r].open \/ upload'[r].got = Chunks
      <4>1. begun.got + 1 < Chunks \/ begun.got + 1 = Chunks
        BY <1>4, <2>2
      <4>2. begun.got + 1 < Chunks => upload'[r].open
        BY <2>4, <3>3, Zenon
      <4>3. QED
        BY <3>3, <4>1, <4>2
    <3>7. begun.code < 400 /\ begun.opened /\ begun.alone
            => Append(file, <<r, begun.got + 1>>) = ChunksOf(r, begun.got + 1)
      <4>1. CASE begun.got = 0
        <5>1. file = ChunksOf(r, 0)
          BY <4>1 DEF ChunksOf
        <5>2. ChunksOf(r, 0 + 1) = Append(ChunksOf(r, 0), <<r, 0 + 1>>)
          BY NextChunk
        <5>3. QED
          BY <4>1, <5>1, <5>2
      <4>2. CASE begun.got > 0
        <5>1. begun = upload[r] /\ file = files[path] /\ upload[r].path = path
          BY <1>4, <4>2
        <5>2. begun.code < 400 /\ begun.opened /\ begun.alone => file = ChunksOf(r, begun.got)
          BY <1>0, <4>2, <5>1 DEF UploadInv
        <5>3. QED
          BY <2>2, <5>2, NextChunk
      <4>3. QED
        BY <2>2, <4>1, <4>2
    <3>8. QED
      BY <3>3, <3>4, <3>5, <3>6, <3>7 DEF UploadInv
  <2>5. CASE begun.open /\ ~room
    <3>1. upload'[r] = [begun EXCEPT !.got = begun.got + 1, !.code = 500, !.open = FALSE]
      BY <1>7, <2>5 DEF Written
    <3>2. /\ upload'[r] \in UploadStates
          /\ upload'[r].code = 500 /\ upload'[r].open = FALSE
      <4>1. \A code \in Nat : upload'[r] = [begun EXCEPT !.got = begun.got + 1, !.code = code,
                                                          !.open = FALSE] =>
              /\ upload'[r] \in UploadStates
              /\ upload'[r].code = code /\ upload'[r].open = FALSE
        BY <2>3, Zenon
      <4>2. 500 \in Nat
        OBVIOUS
      <4>3. QED
        BY <3>1, <4>1, <4>2, Zenon
    <3>3. QED
      BY <3>2 DEF UploadInv
  <2>6. CASE ~begun.open
    <3>1. upload'[r] = [begun EXCEPT !.got = begun.got + 1, !.code = begun.code, !.open = FALSE]
      BY <1>7, <2>6 DEF Written
    <3>2. /\ upload'[r] \in UploadStates /\ upload'[r].open = FALSE
          /\ upload'[r].code = begun.code
          /\ upload'[r].opened = begun.opened /\ upload'[r].alone = begun.alone
      BY <2>2, <2>3, <3>1
    <3>3. ~(begun.code < 400 /\ begun.opened /\ begun.alone)
      <4>1. CASE begun.got = 0
        BY <1>4, <2>6, <4>1
      <4>2. CASE begun.got > 0
        BY <1>0, <1>4, <2>6, <4>2 DEF UploadInv
      <4>3. QED
        BY <2>2, <4>1, <4>2
    <3>4. QED
      BY <3>2, <3>3 DEF UploadInv
  <2>7. QED
    BY <2>4, <2>5, <2>6
<1>9. ASSUME NEW q \in Uploads PROVE upload'[q] \in UploadStates /\ UploadInv(q)'
  <2>1. CASE q = r
    BY <1>8, <2>1
  <2>2. CASE q # r
    BY <1>6, <1>7, <2>2, OthersKeep
  <2>3. QED
    BY <2>1, <2>2
<1>10. upload' \in [Uploads -> UploadStates]
  <2>1. upload' = [q \in Uploads |-> upload'[q]]
    BY <1>2 DEF Shared
  <2>2. QED
    BY <1>9, <2>1
<1>11. QED
  BY <1>6, <1>9, <1>10 DEF FilesInv, UploadTypeOK

\* A request is deleted, or a file.
LEMMA GoneKeeps == ASSUME FilesInv, NEW r \in Uploads, Gone(r) PROVE FilesInv'
<1>1. upload' = [upload EXCEPT ![r] = NoUpload] /\ files' = files
  BY DEF Gone
<1>2. ASSUME NEW q \in Uploads PROVE upload'[q] \in UploadStates /\ UploadInv(q)'
  <2>1. CASE q = r
    BY <1>1, <2>1, NoUploadIsFine DEF FilesInv, UploadTypeOK
  <2>2. CASE q # r
    BY <1>1, <2>2 DEF FilesInv, UploadTypeOK, UploadInv
  <2>3. QED
    BY <2>1, <2>2
<1>3. QED
  BY <1>1, <1>2 DEF FilesInv, UploadTypeOK

\* DELETE of a file, which may be one that an upload is writing.
LEMMA DeleteKeeps == ASSUME FilesInv, NEW path \in Paths, Delete(path) PROVE FilesInv'
<1>1. upload' = Shared("none", path) /\ files' = [files EXCEPT ![path] = None]
  BY DEF Delete
<1>2. files' \in [Paths -> StoredFiles] /\ \A other \in Paths : other # path => files'[other] = files[other]
  BY <1>1 DEF FilesInv, UploadTypeOK, StoredFiles
<1>3. \A q \in Uploads : upload'[q] \in UploadStates /\ UploadInv(q)'
  BY <1>1, <1>2, OthersKeep, StorageAssumption
<1>4. upload' \in [Uploads -> UploadStates]
  <2>1. upload' = [q \in Uploads |-> upload'[q]]
    BY <1>1 DEF Shared
  <2>2. QED
    BY <1>3, <2>1
<1>5. QED
  BY <1>2, <1>3, <1>4 DEF FilesInv, UploadTypeOK

\* Every step of the storage keeps the invariant of the files.
LEMMA FilesInvariant == FilesInv /\ [StorageStep]_storageVars => FilesInv'
<1> SUFFICES ASSUME FilesInv, [StorageStep]_storageVars PROVE FilesInv'
  OBVIOUS
<1>1. CASE UNCHANGED fileVars
  BY <1>1 DEF fileVars, FilesInv, UploadTypeOK, UploadInv
<1>2. CASE UNCHANGED storageVars
  BY <1>1, <1>2 DEF storageVars
<1>3. CASE FlashStep
  <2>1. ASSUME NEW new \in SUBSET Alarms, Handle127489(new) PROVE UNCHANGED fileVars
    BY <2>1 DEF Handle127489
  <2>2. ASSUME ConsoleF PROVE UNCHANGED fileVars
    BY <2>2 DEF ConsoleF
  <2>3. QED
    BY <1>1, <1>3, <2>1, <2>2, ChunkKeeps, GoneKeeps, DeleteKeeps DEF FlashStep
<1>4. CASE BootStep
  <2>1. ASSUME ConsoleC PROVE UNCHANGED fileVars
    BY <2>1 DEF ConsoleC
  <2>2. ASSUME NEW reason \in Reasons, ClearReason(reason) PROVE UNCHANGED fileVars
    BY <2>2 DEF ClearReason
  <2>3. ASSUME NEW reason \in Reasons, Restart(reason) PROVE FilesInv'
    <3>1. upload' = [r \in Uploads |-> NoUpload] /\ files' = files
      BY <2>3 DEF Restart
    <3>2. \A r \in Uploads : upload'[r] \in UploadStates /\ UploadInv(r)'
      BY <3>1, NoUploadIsFine
    <3>3. QED
      BY <3>1, <3>2 DEF FilesInv, UploadTypeOK
  <2>4. QED
    BY <1>1, <1>4, <2>1, <2>2, <2>3 DEF BootStep
<1>5. QED
  BY <1>2, <1>3, <1>4 DEF StorageStep

\* Nothing is in flash at first but the counts of boots before.
LEMMA StorageInitially == StorageInit => AlarmsFramed /\ AuditInv /\ FilesInv
<1> SUFFICES ASSUME StorageInit PROVE AlarmsFramed /\ AuditInv /\ FilesInv
  OBVIOUS
<1>1. AlarmsFramed /\ AuditInv
  BY DEF StorageInit, AlarmsFramed, AuditInv, AuditTypeOK, AuditTrail
<1>2. NoUpload \in UploadStates
  BY NoUploadType
<1>3. NoUpload.got = 0 /\ ~NoUpload.open
  BY DEF NoUpload
<1>4. UploadTypeOK
  BY <1>2 DEF StorageInit, UploadTypeOK, StoredFiles
<1>5. ASSUME NEW r \in Uploads PROVE UploadInv(r)
  BY <1>3 DEF StorageInit, UploadInv
<1>6. QED
  BY <1>1, <1>4, <1>5 DEF FilesInv

\* A complete upload is all there.
LEMMA FilesInvHolds == FilesInv => SavedIsWhole
<1> SUFFICES ASSUME FilesInv, NEW r \in Uploads,
                    upload[r].got = Chunks, upload[r].code < 400, upload[r].opened, upload[r].alone
             PROVE  files[upload[r].path] = [i \in 1 .. Chunks |-> <<r, i>>]
  BY DEF SavedIsWhole
<1>1. UploadInv(r) /\ upload[r].got > 0
  BY StorageAssumption DEF FilesInv
<1>2. QED
  BY <1>1 DEF UploadInv, ChunksOf

----------------------------------------------------------------------------
(* The lines a client sends. *)

LineTypeOK ==
  /\ sending \in LineKinds \cup {NoLine}
  /\ at \in Nat
  /\ recieved \in Nat /\ badCommands \in Nat /\ errors \in Nat
  /\ good \in Nat /\ wrong \in Nat /\ empty \in Nat
  /\ asked \in BOOLEAN

\* Of n bytes of a line, those there is room for.
Kept(n) == IF n <= InputBuffer - 2 THEN n ELSE InputBuffer - 2

\* The buffer holds the line that is being sent, as far as it fits, and nothing else.
BufferInv ==
  /\ at <= sending.length
  /\ at = 0 <=> sending = NoLine
  /\ inputBuffer = [i \in 1 .. Kept(at) |-> <<sending, i>>]

LinesInv == LineTypeOK /\ BufferInv /\ LinesStandAlone

\* A buffer that is started again holds nothing of a line.
LEMMA StartedAgain ==
  ASSUME NEW line
  PROVE  Kept(0) = 0 /\ [i \in 1 .. Kept(0) |-> <<line, i>>] = <<>>
<1>1. Kept(0) = 0
  BY LineAssumption DEF Kept
<1>2. [i \in 1 .. 0 |-> <<line, i>>] = <<>>
  OBVIOUS
<1>3. QED
  BY <1>1, <1>2

\* What EndLine and Reconnect leave of the buffer.
LEMMA Emptied ==
  ASSUME inputBuffer' = <<>>, sending' = NoLine, at' = 0
  PROVE  BufferInv'
<1>1. 0 <= NoLine.length
  BY DEF NoLine
<1>2. <<>> = [i \in 1 .. Kept(0) |-> <<NoLine, i>>]
  BY StartedAgain
<1>3. QED
  BY <1>1, <1>2 DEF BufferInv, Kept

\* Nothing has been sent.
LEMMA LinesInitially == LineInit => LinesInv
<1> SUFFICES ASSUME LineInit PROVE LinesInv
  OBVIOUS
<1> USE LineAssumption DEF LineInit
<1>1. LineTypeOK
  BY DEF LineTypeOK
<1>2. BufferInv
  BY StartedAgain DEF BufferInv, NoLine
<1>3. LinesStandAlone
  BY DEF LinesStandAlone
<1>4. QED
  BY <1>1, <1>2, <1>3 DEF LinesInv

\* The fields of a line.
LEMMA LineFields ==
  ASSUME NEW kind \in LineKinds \cup {NoLine}
  PROVE  kind.length \in Nat /\ kind.sums \in BOOLEAN /\ kind.command \in BOOLEAN
<1>1. NoLine \in [length : Nat, sums : BOOLEAN, command : BOOLEAN]
  BY DEF NoLine
<1>2. kind \in [length : Nat, sums : BOOLEAN, command : BOOLEAN]
  BY <1>1, LineAssumption
<1>3. QED
  BY <1>2

\* A byte goes behind those of the line, if there is room.
LEMMA ByteKeeps == LinesInv /\ Byte => LinesInv'
<1> SUFFICES ASSUME LinesInv, Byte PROVE LinesInv'
  OBVIOUS
<1>1. PICK kind \in (IF sending = NoLine THEN LineKinds ELSE {sending}) :
        /\ at < kind.length
        /\ sending' = kind
        /\ at' = at + 1
        /\ inputBuffer' = IF HasRoom THEN Append(inputBuffer, <<kind, at + 1>>) ELSE inputBuffer
  BY DEF Byte
<1>2. kind \in LineKinds /\ kind # NoLine /\ at \in Nat /\ kind.length \in Nat
  <2>1. kind \in LineKinds \cup {NoLine} /\ at \in Nat
    BY DEF LinesInv, LineTypeOK
  <2>2. kind # NoLine
    BY <1>1, <2>1 DEF NoLine
  <2>3. QED
    BY <2>1, <2>2, LineFields
<1>3. UNCHANGED <<recieved, badCommands, errors, good, wrong, empty, asked, mode>>
  BY DEF Byte, counterVars, sentVars
<1>4. LineTypeOK'
  BY <1>1, <1>2, <1>3 DEF LinesInv, LineTypeOK
<1>5. LinesStandAlone'
  BY <1>3 DEF LinesInv, LinesStandAlone
<1>6. inputBuffer = [i \in 1 .. Kept(at) |-> <<kind, i>>]
  <2>1. CASE at = 0
    <3>1. Kept(0) = 0
      BY LineAssumption DEF Kept
    <3>2. QED
      BY <2>1, <3>1 DEF LinesInv, BufferInv
  <2>2. CASE at # 0
    BY <1>1, <2>2 DEF LinesInv, BufferInv
  <2>3. QED
    BY <2>1, <2>2
<1>7. Kept(at) \in Nat /\ Kept(at + 1) = IF at < InputBuffer - 2 THEN Kept(at) + 1 ELSE Kept(at)
  BY <1>2, LineAssumption DEF Kept
<1>8. inputBuffer \in Seq(LineKinds \X Nat) /\ Len(inputBuffer) = Kept(at)
  BY <1>2, <1>6, <1>7
<1>9. HasRoom <=> at < InputBuffer - 2
  BY <1>2, <1>8, LineAssumption DEF HasRoom, Kept
<1>10. inputBuffer' = [i \in 1 .. Kept(at + 1) |-> <<kind, i>>]
  <2>1. CASE HasRoom
    <3>1. Kept(at) = at /\ Kept(at + 1) = at + 1
      BY <1>2, <1>9, <2>1, LineAssumption DEF Kept
    <3>2. inputBuffer' = Append(inputBuffer, <<kind, at + 1>>)
      BY <1>1, <2>1
    <3>3. Append(inputBuffer, <<kind, at + 1>>) = [i \in 1 .. at + 1 |-> <<kind, i>>]
      <4> DEFINE longer == [i \in 1 .. at + 1 |-> <<kind, i>>]
      <4>1. longer \in Seq(LineKinds \X Nat) /\ Len(longer) = at + 1
        BY <1>2
      <4>2. /\ Append(inputBuffer, <<kind, at + 1>>) \in Seq(LineKinds \X Nat)
            /\ Len(Append(inputBuffer, <<kind, at + 1>>)) = at + 1
        BY <1>2, <1>8, <3>1
      <4>3. \A i \in 1 .. at + 1 : Append(inputBuffer, <<kind, at + 1>>)[i] = longer[i]
        BY <1>2, <1>6, <1>8, <3>1
      <4> HIDE DEF longer
      <4>4. Append(inputBuffer, <<kind, at + 1>>) = longer
        BY <4>1, <4>2, <4>3, SeqEqual
      <4>5. QED
        BY <4>4 DEF longer
    <3>4. QED
      BY <3>1, <3>2, <3>3
  <2>2. CASE ~HasRoom
    BY <1>1, <1>6, <1>7, <1>9, <2>2
  <2>3. QED
    BY <2>1, <2>2
<1>11. BufferInv'
  <2>1. at + 1 <= kind.length /\ at + 1 # 0
    BY <1>1, <1>2
  <2>2. QED
    BY <1>1, <1>2, <1>10, <2>1 DEF BufferInv, Kept
<1>12. QED
  BY <1>4, <1>5, <1>11 DEF LinesInv

\* The checksum of a line is found right if and only if the line was sent with a right one
\* and there was room for it.
LEMMA LineIsLooked ==
  ASSUME LinesInv, sending # NoLine, at = sending.length
  PROVE  /\ inputBuffer # <<>> /\ Looked = inputBuffer
         /\ Looked[1][1] = sending
         /\ Sums(Looked) <=> sending.sums /\ Fits(sending)
<1>1. sending.length \in Nat /\ sending.length > 0
  BY LineFields DEF LinesInv, LineTypeOK, BufferInv
<1>2. Kept(at) \in Nat /\ Kept(at) > 0 /\ (Kept(at) = at <=> Fits(sending))
  BY <1>1, LineAssumption DEF Kept, Fits
<1>3. inputBuffer = [i \in 1 .. Kept(at) |-> <<sending, i>>]
  BY DEF LinesInv, BufferInv
<1>4. inputBuffer # <<>> /\ inputBuffer[1] = <<sending, 1>> /\ DOMAIN inputBuffer = 1 .. Kept(at)
  BY <1>2, <1>3
<1>5. Looked = inputBuffer
  BY <1>4 DEF Looked
<1>6. Looked[1][1] = sending
  BY <1>4, <1>5
<1>7. inputBuffer = Bytes(sending) <=> Fits(sending)
  <2>1. CASE Fits(sending)
    BY <1>2, <1>3, <2>1 DEF Bytes
  <2>2. CASE ~Fits(sending)
    <3>1. Kept(at) # sending.length /\ DOMAIN Bytes(sending) = 1 .. sending.length
      BY <1>2, <2>2 DEF Bytes
    <3>2. 1 .. Kept(at) # 1 .. sending.length
      BY <1>1, <1>2, <3>1
    <3>3. QED
      BY <1>4, <2>2, <3>1, <3>2
  <2>3. QED
    BY <2>1, <2>2
<1>8. QED
  BY <1>4, <1>5, <1>6, <1>7 DEF Sums

\* The end of a line is counted once on either side, and starts the next from nothing.
LEMMA EndLineKeeps == LinesInv /\ EndLine => LinesInv'
<1> SUFFICES ASSUME LinesInv, EndLine PROVE LinesInv'
  OBVIOUS
<1>1. /\ at = sending.length /\ ParseSentence
      /\ inputBuffer' = <<>> /\ sending' = NoLine /\ at' = 0
  BY DEF EndLine, Restarted
<1> DEFINE right == sending.sums /\ Fits(sending)
<1>2. /\ empty' = empty + (IF sending = NoLine THEN 1 ELSE 0)
      /\ good' = good + (IF right THEN 1 ELSE 0)
      /\ wrong' = wrong + (IF sending # NoLine /\ ~right THEN 1 ELSE 0)
      /\ asked' = (asked \/ (right /\ sending.command))
  BY DEF EndLine
<1>3. recieved \in Nat /\ badCommands \in Nat /\ errors \in Nat
      /\ good \in Nat /\ wrong \in Nat /\ empty \in Nat
  BY DEF LinesInv, LineTypeOK
<1>4. /\ recieved + errors = good + wrong + empty
      /\ recieved >= good /\ errors >= wrong /\ badCommands <= recieved
  BY DEF LinesInv, LinesStandAlone
<1>5. \/ ~Sums(Looked) /\ errors' = errors + 1 /\ UNCHANGED <<mode, recieved, badCommands>>
      \/ /\ Sums(Looked) /\ recieved' = recieved + 1 /\ UNCHANGED errors
         /\ mode' = IF IsCommand(Looked) THEN "seasmart" ELSE mode
         /\ badCommands' = badCommands \/ badCommands' = badCommands + 1
  BY <1>1 DEF ParseSentence
<1>6. BufferInv'
  BY <1>1, Emptied
<1>7. CASE sending = NoLine
  <2>1. ~right
    BY <1>7 DEF NoLine
  <2>2. empty' = empty + 1 /\ good' = good /\ wrong' = wrong
    BY <1>2, <1>3, <1>7, <2>1
  <2>3. LinesStandAlone'
    BY <1>3, <1>4, <1>5, <2>2 DEF LinesStandAlone
  <2>4. LineTypeOK'
    BY <1>1, <1>2, <1>3, <1>5, <2>2 DEF LineTypeOK
  <2>5. QED
    BY <1>6, <2>3, <2>4 DEF LinesInv
<1>8. CASE sending # NoLine
  <2>1. (Sums(Looked) <=> right) /\ (IsCommand(Looked) <=> sending.command)
    BY <1>1, <1>8, LineIsLooked DEF IsCommand
  <2> HIDE DEF right
  <2>2. empty' = empty /\ (right => good' = good + 1 /\ wrong' = wrong)
        /\ (~right => good' = good /\ wrong' = wrong + 1)
    BY <1>2, <1>3, <1>8
  <2>3. (mode' = "seasmart" <=> asked') \/ empty # 0
    BY <1>2, <1>5, <2>1 DEF LinesInv, LinesStandAlone
  <2>4. LinesStandAlone'
    BY <1>3, <1>4, <1>5, <2>1, <2>2, <2>3 DEF LinesStandAlone
  <2>5. LineTypeOK'
    BY <1>1, <1>2, <1>3, <1>5, <2>2 DEF LineTypeOK
  <2>6. QED
    BY <1>6, <2>4, <2>5 DEF LinesInv
<1>9. QED
  BY <1>7, <1>8

\* Every step of a client keeps the invariant.
LEMMA LinesInvariant == LinesInv /\ [LineStep]_lineVars => LinesInv'
<1> SUFFICES ASSUME LinesInv, [LineStep]_lineVars PROVE LinesInv'
  OBVIOUS
<1>1. CASE UNCHANGED lineVars
  BY <1>1 DEF lineVars, counterVars, sentVars, LinesInv, LineTypeOK, BufferInv, LinesStandAlone
<1>2. CASE Reconnect
  <2>1. LineTypeOK' /\ LinesStandAlone'
    <3>1. LineTypeOK'
      BY <1>2 DEF Reconnect, LineTypeOK
    <3>2. LinesStandAlone'
      BY <1>2 DEF Reconnect, LinesStandAlone
    <3>3. QED
      BY <3>1, <3>2
  <2>2. BufferInv'
    BY <1>2, Emptied DEF Reconnect
  <2>3. QED
    BY <2>1, <2>2 DEF LinesInv
<1>3. QED
  BY <1>1, <1>2, ByteKeeps, EndLineKeeps DEF LineStep

----------------------------------------------------------------------------
(* The way of a sentence. *)

RouteTypeOK ==
  /\ sinceSend \in [SentenceKinds -> 0 .. LongAgo]
  /\ sinceUpdate \in Nat /\ unseen \in Nat
  /\ heard \in [SentenceKinds -> [without : 0 .. LongAgo, before : BOOLEAN]]

\* A client has been without a sentence since it was sent last, or for less if it came later;
\* and who does not listen has heard nothing.
HeardInv(s) ==
  /\ heard[s].without <= sinceSend[s]
  /\ heard[s].before => heard[s].without = sinceSend[s] /\ Hears
  /\ ~Hears => heard[s].without = 0

RouteInv == RouteTypeOK /\ (\A s \in SentenceKinds : HeardInv(s)) /\ SentencesArrive

\* The longest period has passed long ago.
LEMMA LongAgoType == LongAgo \in Nat /\ 0 \in 0 .. LongAgo
BY PeriodsAssumption DEF LongAgo

\* A client that has just come.
LEMMA NothingHeardType ==
  /\ NothingHeard \in [SentenceKinds -> [without : 0 .. LongAgo, before : BOOLEAN]]
  /\ \A s \in SentenceKinds : NothingHeard[s].without = 0 /\ NothingHeard[s].before = FALSE
BY LongAgoType DEF NothingHeard

\* The clock starts.
LEMMA RouteInitially == RouteInit => RouteInv
<1> SUFFICES ASSUME RouteInit PROVE RouteInv
  OBVIOUS
<1>1. RouteTypeOK
  BY LongAgoType, NothingHeardType DEF RouteInit, RouteTypeOK
<1>2. ASSUME NEW s \in SentenceKinds PROVE HeardInv(s)
  BY NothingHeardType DEF RouteInit, HeardInv
<1>3. SentencesArrive
  BY DEF RouteInit, SentencesArrive
<1>4. QED
  BY <1>1, <1>2, <1>3 DEF RouteInv

\* Whatever is called for: what is due is sent, and what is not was sent within the period.
LEMMA CallForKeeps ==
  ASSUME RouteInv, NEW calls \in SUBSET SentenceKinds, CallFor(calls),
         UNCHANGED <<linked, listener>>
  PROVE  /\ sinceSend' \in [SentenceKinds -> 0 .. LongAgo]
         /\ heard' \in [SentenceKinds -> [without : 0 .. LongAgo, before : BOOLEAN]]
         /\ \A s \in SentenceKinds : HeardInv(s)'
         /\ mistimed' = {}
<1> DEFINE sent == {s \in calls : sinceSend[s] > SendPeriod(s)}
           late == {s \in calls : Hears /\ IF s \in sent THEN heard[s].before /\ ~Without(s)
                                                         ELSE Without(s)}
<1>1. /\ sinceSend' = [s \in SentenceKinds |-> IF s \in calls /\ Sent(s, sent) THEN 0 ELSE sinceSend[s]]
      /\ heard' = [s \in SentenceKinds |->
                    IF s \in sent /\ Hears THEN [without |-> 0, before |-> TRUE] ELSE heard[s]]
      /\ mistimed' = mistimed \cup late
  BY DEF CallFor
<1>2. sinceSend \in [SentenceKinds -> 0 .. LongAgo]
      /\ heard \in [SentenceKinds -> [without : 0 .. LongAgo, before : BOOLEAN]]
  BY DEF RouteInv, RouteTypeOK
<1>3. [without |-> 0, before |-> TRUE] \in [without : 0 .. LongAgo, before : BOOLEAN]
  BY LongAgoType
<1>4. Hears' <=> Hears
  BY DEF Hears
<1>5. ASSUME NEW s \in SentenceKinds PROVE HeardInv(s)'
  <2>1. HeardInv(s)
    BY DEF RouteInv
  <2>2. CASE s \in sent
    <3>1. sinceSend'[s] = 0
      BY <1>1, <2>2 DEF Sent
    <3>2. CASE Hears
      <4>1. heard'[s] = [without |-> 0, before |-> TRUE]
        BY <1>1, <2>2, <3>2
      <4>2. QED
        BY <1>4, <3>1, <3>2, <4>1 DEF HeardInv
    <3>3. CASE ~Hears
      <4>1. heard'[s] = heard[s]
        BY <1>1, <3>3
      <4>2. QED
        BY <1>4, <2>1, <3>1, <3>3, <4>1 DEF HeardInv
    <3>4. QED
      BY <3>2, <3>3
  <2>3. CASE s \notin sent
    <3>1. sinceSend'[s] = sinceSend[s] /\ heard'[s] = heard[s]
      BY <1>1, <2>3 DEF Sent
    <3>2. QED
      BY <1>4, <2>1, <3>1 DEF HeardInv
  <2>4. QED
    BY <2>2, <2>3
<1>6. late = {}
  <2>1. ASSUME NEW s \in calls, Hears PROVE ~(IF s \in sent THEN heard[s].before /\ ~Without(s)
                                                            ELSE Without(s))
    <3>1. HeardInv(s) /\ s \in SentenceKinds
      BY DEF RouteInv
    <3>2. sinceSend[s] \in Int /\ heard[s].without \in Int /\ SendPeriod(s) \in Int
      BY <1>2, <3>1, PeriodsAssumption, LongAgoType DEF SendPeriod
    <3>3. QED
      BY <3>1, <3>2 DEF HeardInv, Without
  <2>2. QED
    BY <2>1
<1>7. mistimed' = {}
  BY <1>1, <1>6 DEF RouteInv, SentencesArrive
<1>8. /\ sinceSend' \in [SentenceKinds -> 0 .. LongAgo]
      /\ heard' \in [SentenceKinds -> [without : 0 .. LongAgo, before : BOOLEAN]]
  BY <1>1, <1>2, <1>3, LongAgoType
<1>9. QED
  BY <1>5, <1>7, <1>8

\* The end of a handler: an input that is new flags the performance, so that it waits for no
\* longer than to the next message after the period.
LEMMA RouteEndKeeps ==
  ASSUME RouteInv, NEW calls \in SUBSET SentenceKinds, NEW flagged \in BOOLEAN,
         NEW changed \in BOOLEAN, changed => flagged, RouteEnd(calls, flagged, changed)
  PROVE  RouteInv'
<1> DEFINE due    == flagged /\ sinceUpdate >= CalculationPeriod
           oldest == IF unseen = LongAgo /\ changed THEN sinceUpdate ELSE unseen
           all    == calls \cup (IF due THEN Figures ELSE {})
<1>1. /\ CallFor(all) /\ UNCHANGED <<linked, listener>>
      /\ sinceUpdate' = IF due THEN 0 ELSE sinceUpdate
      /\ unseen' = IF due THEN LongAgo ELSE oldest
  BY DEF RouteEnd
<1>2. all \in SUBSET SentenceKinds
  BY DEF SentenceKinds
<1>3. sinceUpdate \in Nat /\ unseen \in Nat /\ LongAgo \in Nat /\ CalculationPeriod \in Nat
  BY LongAgoType, PeriodsAssumption DEF RouteInv, RouteTypeOK
<1>4. sinceUpdate' \in Nat /\ unseen' \in Nat
  BY <1>1, <1>3
<1>5. unseen' < CalculationPeriod \/ unseen' = LongAgo
  <2>1. unseen < CalculationPeriod \/ unseen = LongAgo
    BY DEF RouteInv, SentencesArrive
  <2>2. CASE due
    BY <1>1, <2>2
  <2>3. CASE ~due
    BY <1>1, <1>3, <2>1, <2>3
  <2>4. QED
    BY <2>2, <2>3
<1> HIDE DEF all
<1>6. /\ sinceSend' \in [SentenceKinds -> 0 .. LongAgo]
      /\ heard' \in [SentenceKinds -> [without : 0 .. LongAgo, before : BOOLEAN]]
      /\ \A s \in SentenceKinds : HeardInv(s)'
      /\ mistimed' = {}
  BY <1>1, <1>2, CallForKeeps
<1>7. QED
  BY <1>4, <1>5, <1>6 DEF RouteInv, RouteTypeOK, SentencesArrive, LongAgo

\* The handlers, one and all.
LEMMA RouteMessageKeeps == RouteInv /\ RouteMessage => RouteInv'
<1> SUFFICES ASSUME RouteInv, RouteMessage PROVE RouteInv'
  OBVIOUS
<1>1. ASSUME NEW calls \in SUBSET SentenceKinds, NEW r \in ReadingKinds,
             Compared(calls, r) \/ Updated(calls, r)
      PROVE  RouteInv'
  <2>1. (r = "new" => r # "same") /\ (r = "new" => r # "none")
    OBVIOUS
  <2>2. (r # "same") \in BOOLEAN /\ (r # "none") \in BOOLEAN /\ (r = "new") \in BOOLEAN
    OBVIOUS
  <2>3. ASSUME NEW flagged \in BOOLEAN, NEW changed \in BOOLEAN, changed => flagged,
               RouteEnd(calls, flagged, changed)
        PROVE  RouteInv'
    BY <2>3, RouteEndKeeps
  <2>4. CASE Compared(calls, r)
    BY <2>1, <2>2, <2>3, <2>4, Zenon DEF Compared
  <2>5. CASE Updated(calls, r)
    BY <2>1, <2>2, <2>3, <2>5, Zenon DEF Updated
  <2>6. QED
    BY <1>1, <2>4, <2>5
<1>2. ASSUME NEW calls \in SUBSET SentenceKinds, Passed(calls) PROVE RouteInv'
  BY <1>2, RouteEndKeeps DEF Passed
<1> USE DEF SentenceKinds, Navigation, Weather
<1>3. ASSUME NEW r \in ReadingKinds,
             \/ RouteVariation(r)
             \/ \E magnetic \in BOOLEAN : RouteHeading(magnetic, r)
             \/ RouteAttitude(r)
             \/ RouteWaterSpeed(r)
      PROVE  RouteInv'
  <2>1. {} \in SUBSET SentenceKinds /\ {"HDG", "HDM"} \in SUBSET SentenceKinds
        /\ {"HDT"} \in SUBSET SentenceKinds /\ {"XDR_ROLL"} \in SUBSET SentenceKinds
        /\ {"VHW"} \in SUBSET SentenceKinds
    OBVIOUS
  <2>2. CASE RouteVariation(r)
    BY <1>1, <2>1, <2>2, Zenon DEF RouteVariation
  <2>3. ASSUME NEW magnetic \in BOOLEAN, RouteHeading(magnetic, r) PROVE RouteInv'
    <3>1. CASE magnetic
      BY <1>1, <2>1, <2>3, <3>1, Zenon DEF RouteHeading
    <3>2. CASE ~magnetic
      BY <1>1, <2>1, <2>3, <3>2, Zenon DEF RouteHeading
    <3>3. QED
      BY <3>1, <3>2
  <2>4. CASE RouteAttitude(r)
    BY <1>1, <2>1, <2>4, Zenon DEF RouteAttitude
  <2>5. CASE RouteWaterSpeed(r)
    BY <1>1, <2>1, <2>5, Zenon DEF RouteWaterSpeed
  <2>6. QED
    BY <1>3, <2>2, <2>3, <2>4, <2>5
<1>4. ASSUME NEW r \in ReadingKinds,
             \/ \E apparent \in BOOLEAN : RouteWind(apparent, r)
             \/ RoutePressure(r)
             \/ RouteRudder(r)
      PROVE  RouteInv'
  <2>1. {} \in SUBSET SentenceKinds /\ {"VWR", "MWVR"} \in SUBSET SentenceKinds
        /\ {"VWT", "MWVT"} \in SUBSET SentenceKinds /\ {"XDR_BAROMETER"} \in SUBSET SentenceKinds
        /\ {"RSA"} \in SUBSET SentenceKinds
    OBVIOUS
  <2>2. ASSUME NEW apparent \in BOOLEAN, RouteWind(apparent, r) PROVE RouteInv'
    <3>1. CASE apparent
      BY <1>1, <2>1, <2>2, <3>1, Zenon DEF RouteWind
    <3>2. CASE ~apparent
      BY <1>2, <2>1, <2>2, <3>2, Zenon DEF RouteWind
    <3>3. QED
      BY <3>1, <3>2
  <2>3. CASE RoutePressure(r)
    <3>1. (IF r # "none" THEN {"XDR_BAROMETER"} ELSE {}) \in SUBSET SentenceKinds
      BY <2>1
    <3>2. QED
      BY <1>2, <2>3, <3>1, Zenon DEF RoutePressure
  <2>4. CASE RouteRudder(r)
    <3>1. (IF r # "none" THEN {"RSA"} ELSE {}) \in SUBSET SentenceKinds
      BY <2>1
    <3>2. QED
      BY <1>2, <2>4, <3>1, Zenon DEF RouteRudder
  <2>5. QED
    BY <1>4, <2>2, <2>3, <2>4
<1>5. CASE RouteDepth \/ RouteLog \/ RouteGnss \/ RoutePosition \/ RouteCogSog \/ RouteXte
  <2>1. {"DBT", "DPT"} \in SUBSET SentenceKinds /\ {"VLW"} \in SUBSET SentenceKinds
        /\ {"GGA", "GLL", "ZDA", "RMC"} \in SUBSET SentenceKinds
        /\ {"GLL", "RMC"} \in SUBSET SentenceKinds /\ {"VTG"} \in SUBSET SentenceKinds
        /\ {"XTE"} \in SUBSET SentenceKinds
    OBVIOUS
  <2>2. QED
    BY <1>2, <1>5, <2>1, Zenon
       DEF RouteDepth, RouteLog, RouteGnss, RoutePosition, RouteCogSog, RouteXte
<1>6. ASSUME NEW of \in BOOLEAN, RouteTemperature(of) \/ RouteTemperatureExt(of) PROVE RouteInv'
  <2>1. (IF of THEN {"MTW"} ELSE {}) \in SUBSET SentenceKinds
        /\ (IF of THEN {"XDR_TEMP_AIR", "MTA"} ELSE {}) \in SUBSET SentenceKinds
    OBVIOUS
  <2>2. QED
    BY <1>2, <1>6, <2>1, Zenon DEF RouteTemperature, RouteTemperatureExt
<1>7. QED
  BY <1>3, <1>4, <1>5, <1>6 DEF RouteMessage

\* The clock goes on for the stamps and for who listens alike.
LEMMA RouteTickKeeps == RouteInv /\ RouteTick => RouteInv'
<1> SUFFICES ASSUME RouteInv, RouteTick PROVE RouteInv'
  OBVIOUS
<1>1. LongAgo \in Nat /\ \A age \in 0 .. LongAgo : Later(age) \in 0 .. LongAgo
  BY LongAgoType DEF Later
<1>2. /\ sinceSend' = [s \in SentenceKinds |-> Later(sinceSend[s])]
      /\ sinceUpdate' = Later(sinceUpdate)
      /\ heard' = IF Hears THEN [s \in SentenceKinds |->
                                  [heard[s] EXCEPT !.without = Later(heard[s].without)]]
                           ELSE heard
      /\ UNCHANGED <<mistimed, unseen, linked, listener>>
  BY DEF RouteTick
<1>3. sinceSend \in [SentenceKinds -> 0 .. LongAgo] /\ sinceUpdate \in Nat
      /\ heard \in [SentenceKinds -> [without : 0 .. LongAgo, before : BOOLEAN]]
  BY DEF RouteInv, RouteTypeOK
<1>4. ASSUME NEW s \in SentenceKinds
      PROVE  /\ HeardInv(s)'
             /\ heard'[s] \in [without : 0 .. LongAgo, before : BOOLEAN]
  <2>1. HeardInv(s) /\ sinceSend[s] \in 0 .. LongAgo /\ sinceSend'[s] = Later(sinceSend[s])
        /\ heard[s] \in [without : 0 .. LongAgo, before : BOOLEAN]
        /\ heard[s].without \in 0 .. LongAgo
    BY <1>2, <1>3 DEF RouteInv
  <2>2. sinceSend'[s] \in 0 .. LongAgo /\ Later(heard[s].without) \in 0 .. LongAgo
        /\ Later(heard[s].without) <= sinceSend'[s]
        /\ (heard[s].without = sinceSend[s] => Later(heard[s].without) = sinceSend'[s])
    BY <1>1, <2>1 DEF HeardInv, Later
  <2>3. Hears' <=> Hears
    BY <1>2 DEF Hears
  <2>4. CASE Hears
    <3>1. heard'[s] = [heard[s] EXCEPT !.without = Later(heard[s].without)]
      BY <1>2, <2>4
    <3>2. /\ heard'[s] \in [without : 0 .. LongAgo, before : BOOLEAN]
          /\ heard'[s].without = Later(heard[s].without) /\ heard'[s].before = heard[s].before
      <4>1. ASSUME NEW w \in 0 .. LongAgo, heard'[s] = [heard[s] EXCEPT !.without = w]
            PROVE  /\ heard'[s] \in [without : 0 .. LongAgo, before : BOOLEAN]
                   /\ heard'[s].without = w /\ heard'[s].before = heard[s].before
        BY <2>1, <4>1
      <4>2. QED
        BY <2>2, <3>1, <4>1, Zenon
    <3>3. heard[s].before => heard[s].without = sinceSend[s]
      BY <2>1 DEF HeardInv
    <3>4. heard'[s].before => heard'[s].without = sinceSend'[s] /\ Hears'
      BY <2>2, <2>3, <2>4, <3>2, <3>3
    <3>5. heard'[s].without <= sinceSend'[s]
      BY <2>2, <3>2
    <3>6. HeardInv(s)'
      BY <2>3, <2>4, <3>4, <3>5 DEF HeardInv
    <3>7. QED
      BY <3>2, <3>6
  <2>5. CASE ~Hears
    <3>1. heard'[s] = heard[s]
      BY <1>2, <2>5
    <3>2. QED
      <4>1. heard[s].without = 0 /\ 0 <= sinceSend'[s]
        BY <1>1, <2>1, <2>2, <2>5 DEF HeardInv
      <4>2. HeardInv(s)'
        BY <2>1, <2>3, <2>5, <3>1, <4>1 DEF HeardInv
      <4>3. QED
        BY <2>1, <3>1, <4>2
  <2>6. QED
    BY <2>4, <2>5
<1>5. heard' \in [SentenceKinds -> [without : 0 .. LongAgo, before : BOOLEAN]]
  <2>1. heard' = [s \in SentenceKinds |-> heard'[s]]
    BY <1>2, <1>3
  <2>2. QED
    BY <1>4, <2>1
<1>6. RouteTypeOK'
  BY <1>1, <1>2, <1>3, <1>5 DEF RouteTypeOK, RouteInv, Later
<1>7. SentencesArrive'
  BY <1>2 DEF RouteInv, SentencesArrive
<1>8. QED
  BY <1>4, <1>6, <1>7 DEF RouteInv

\* Every step keeps the invariant.
LEMMA RouteInvariant == RouteInv /\ [RouteStep]_routeVars => RouteInv'
<1> SUFFICES ASSUME RouteInv, [RouteStep]_routeVars PROVE RouteInv'
  OBVIOUS
<1>1. CASE UNCHANGED routeVars
  BY <1>1 DEF routeVars, RouteInv, RouteTypeOK, HeardInv, Hears, SentencesArrive
<1>2. CASE RouteConnect \/ RouteCommand \/ RouteSwitch
  <2>1. heard' = NothingHeard /\ UNCHANGED <<sinceSend, sinceUpdate, mistimed, unseen>>
    BY <1>2 DEF RouteConnect, RouteCommand, RouteSwitch
  <2>2. RouteTypeOK' /\ SentencesArrive'
    <3>1. RouteTypeOK'
      BY <2>1, NothingHeardType DEF RouteInv, RouteTypeOK
    <3>2. SentencesArrive'
      BY <2>1 DEF RouteInv, SentencesArrive
    <3>3. QED
      BY <3>1, <3>2
  <2>3. ASSUME NEW s \in SentenceKinds PROVE HeardInv(s)'
    <3>1. sinceSend[s] \in 0 .. LongAgo /\ sinceSend'[s] = sinceSend[s]
      BY <2>1 DEF RouteInv, RouteTypeOK
    <3>2. heard'[s].without = 0 /\ heard'[s].before = FALSE
      BY <2>1, NothingHeardType
    <3>3. QED
      BY <3>1, <3>2, LongAgoType DEF HeardInv
  <2>4. QED
    BY <2>2, <2>3 DEF RouteInv
<1>3. QED
  BY <1>1, <1>2, RouteMessageKeeps, RouteTickKeeps DEF RouteStep

----------------------------------------------------------------------------
(* The simulator of the BMS. *)

SimBytes ==
  {"dd", "a5", "00", "ff", "77", "03", "04", "05", "fd", "fc", "fb", "error"} \cup StrayBytes
SimStates == [rstate : 0 .. 6, reg : SimBytes, csum : [1 .. 2 -> SimBytes], out : Seq(SimBytes)]

\* The bytes that stand for something are bytes.
LEMMA KnownBytes ==
  /\ {"dd", "a5", "00", "ff", "77", "03", "04", "05", "fd", "fc", "fb", "error"} \subseteq SimBytes
  /\ StrayBytes \subseteq SimBytes
BY DEF SimBytes

\* A request may only get lost to what came before it, and behind any request the simulator
\* waits for a new one.
SimInv ==
  /\ sim \in SimStates
  /\ owed \in 0 .. 1
  /\ owed = 1 => sim.rstate = 0

\* What one byte b makes of the state s, field by field
Moves(s, b, t) ==
  /\ t \in SimStates
  /\ s.rstate = 0 => t.rstate = (IF b = "dd" THEN 1 ELSE 0) /\ t.out = s.out
  /\ s.rstate = 1 => t.rstate = (IF b = "a5" THEN 2 ELSE 0) /\ t.out = s.out
  /\ s.rstate = 2 => t.rstate = 3 /\ t.reg = b /\ t.out = s.out
  /\ s.rstate = 3 => t.rstate = (IF b = "00" THEN 4 ELSE 3) /\ t.reg = s.reg /\ t.out = s.out
  /\ s.rstate = 4 => t.rstate = 5 /\ t.csum[1] = b /\ t.reg = s.reg /\ t.out = s.out
  /\ s.rstate = 5 => t.rstate = 6 /\ t.csum = <<s.csum[1], b>> /\ t.reg = s.reg /\ t.out = s.out
  /\ s.rstate = 6 => t.rstate = 0 /\ (b = "77" => t.out = Append(s.out, Respond(s)))

\* write() moves the simulator on that way.
LEMMA WriteByteMoves ==
  ASSUME NEW s \in SimStates, NEW b \in SimBytes
  PROVE  Moves(s, b, WriteByte(s, b))
<1> DEFINE t == WriteByte(s, b)
<1> SUFFICES Moves(s, b, t)
  OBVIOUS
<1> USE DEF Moves
<1> USE DEF SimStates
<1>0. CASE s.rstate = 0
  <2>1. t = IF b = "dd" THEN [s EXCEPT !.rstate = 1] ELSE s
    BY <1>0 DEF WriteByte
  <2>2. QED
    BY <1>0, <2>1
<1>1. CASE s.rstate = 1
  <2>1. t = [s EXCEPT !.rstate = IF b = "a5" THEN 2 ELSE 0]
    BY <1>1 DEF WriteByte
  <2>2. QED
    BY <1>1, <2>1
<1>2. CASE s.rstate = 2
  <2> DEFINE u == [s EXCEPT !.rstate = 3]
  <2>1. t = [s EXCEPT !.rstate = 3, !.reg = b]
    BY <1>2 DEF WriteByte
  <2>2. t = [u EXCEPT !.reg = b]
    BY <2>1
  <2>3. u \in SimStates /\ u.rstate = 3 /\ u.reg = s.reg /\ u.csum = s.csum /\ u.out = s.out
    OBVIOUS
  <2> HIDE DEF u
  <2>4. b \in SimBytes
    OBVIOUS
  <2>5. QED
    BY <1>2, <2>2, <2>3, <2>4
<1>3. CASE s.rstate = 3
  <2>1. t = IF b = "00" THEN [s EXCEPT !.rstate = 4] ELSE s
    BY <1>3 DEF WriteByte
  <2>2. QED
    BY <1>3, <2>1
<1>4. CASE s.rstate = 4
  <2> DEFINE u == [s EXCEPT !.rstate = 5]
  <2>1. t = [s EXCEPT !.rstate = 5, !.csum = <<b, s.csum[2]>>]
    BY <1>4 DEF WriteByte
  <2>2. t = [u EXCEPT !.csum = <<b, s.csum[2]>>]
    BY <2>1
  <2>3. u \in SimStates /\ u.rstate = 5 /\ u.reg = s.reg /\ u.csum = s.csum /\ u.out = s.out
    OBVIOUS
  <2> HIDE DEF u
  <2>4. <<b, s.csum[2]>> \in [1 .. 2 -> SimBytes]
    OBVIOUS
  <2>5. QED
    BY <1>4, <2>2, <2>3, <2>4
<1>5. CASE s.rstate = 5
  <2> DEFINE u == [s EXCEPT !.rstate = 6]
  <2>1. t = [s EXCEPT !.rstate = 6, !.csum = <<s.csum[1], b>>]
    BY <1>5 DEF WriteByte
  <2>2. t = [u EXCEPT !.csum = <<s.csum[1], b>>]
    BY <2>1
  <2>3. u \in SimStates /\ u.rstate = 6 /\ u.reg = s.reg /\ u.csum = s.csum /\ u.out = s.out
    OBVIOUS
  <2> HIDE DEF u
  <2>4. <<s.csum[1], b>> \in [1 .. 2 -> SimBytes]
    OBVIOUS
  <2>5. QED
    BY <1>5, <2>2, <2>3, <2>4
<1>6. CASE s.rstate = 6
  <2>1. t = EndRequest(s, b)
    BY <1>6 DEF WriteByte
  <2>2. Respond(s) \in SimBytes
    BY KnownBytes DEF Respond, SimRegisters
  <2> DEFINE answers == Append(s.out, Respond(s))
  <2>3. answers \in Seq(SimBytes)
    BY <2>2
  <2>4. t = [rstate |-> 0, reg |-> s.reg, csum |-> s.csum,
             out |-> IF b = "77" THEN answers ELSE s.out]
    BY <2>1 DEF EndRequest
  <2> HIDE DEF answers
  <2>5. t \in SimStates /\ t.rstate = 0 /\ (b = "77" => t.out = answers)
    BY <1>6, <2>3, <2>4
  <2>6. QED
    BY <1>6, <2>5 DEF answers
<1>7. QED
  BY <1>0, <1>1, <1>2, <1>3, <1>4, <1>5, <1>6

\* Whatever it waits for, the simulator is back at the start after the seven bytes of a
\* request, and if it was there before it has answered.
LEMMA RequestedEnds ==
  ASSUME NEW s \in SimStates, s.out = <<>>, NEW r \in SimRegisters
  PROVE  /\ Requested(s, r) \in SimStates
         /\ Requested(s, r).rstate = 0
         /\ s.rstate = 0 => Requested(s, r).out = <<r>>
<1> DEFINE Stepped(f) ==
             [n \in 0 .. 7 |-> IF n = 0 THEN s ELSE WriteByte(f[n - 1], RequestBytes(r)[n])]
           after == CHOOSE f : f = Stepped(f)
<1>1. Requested(s, r) = after[7]
  BY DEF Requested
<1>2. after = Stepped(after)
  <2> DEFINE s1 == WriteByte(s, "dd")
             s2 == WriteByte(s1, "a5")
             s3 == WriteByte(s2, r)
             s4 == WriteByte(s3, "00")
             s5 == WriteByte(s4, "ff")
             s6 == WriteByte(s5, CheckSum[r])
             s7 == WriteByte(s6, "77")
             run == [n \in 0 .. 7 |-> CASE n = 0 -> s [] n = 1 -> s1 [] n = 2 -> s2
                                        [] n = 3 -> s3 [] n = 4 -> s4 [] n = 5 -> s5
                                        [] n = 6 -> s6 [] n = 7 -> s7]
  <2> HIDE DEF s1, s2, s3, s4, s5, s6, s7
  <2>1. ASSUME NEW n \in 0 .. 7 PROVE run[n] = Stepped(run)[n]
    <3>1. n = 0 \/ n = 1 \/ n = 2 \/ n = 3 \/ n = 4 \/ n = 5 \/ n = 6 \/ n = 7
      OBVIOUS
    <3>2. QED
      BY <3>1 DEF RequestBytes, s1, s2, s3, s4, s5, s6, s7
  <2>2. run = Stepped(run)
    BY <2>1
  <2>3. QED
    BY <2>2
<1> HIDE DEF after
<1>3. /\ after[0] = s /\ after[1] = WriteByte(after[0], "dd")
      /\ after[2] = WriteByte(after[1], "a5") /\ after[3] = WriteByte(after[2], r)
      /\ after[4] = WriteByte(after[3], "00") /\ after[5] = WriteByte(after[4], "ff")
      /\ after[6] = WriteByte(after[5], CheckSum[r]) /\ after[7] = WriteByte(after[6], "77")
  BY <1>2 DEF RequestBytes
<1>4. /\ r \in {"03", "04", "05"} /\ CheckSum[r] \in {"fd", "fc", "fb"}
      /\ r \in SimBytes /\ CheckSum[r] \in SimBytes
      /\ "dd" \in SimBytes /\ "a5" \in SimBytes /\ "00" \in SimBytes 
      /\ "ff" \in SimBytes /\ "77" \in SimBytes
  BY KnownBytes DEF SimRegisters, CheckSum
<1> HIDE DEF Stepped
<1>5. /\ after[1] \in SimStates
      /\ s.rstate = 0 => after[1].rstate = 1 /\ after[1].out = <<>>
      /\ s.rstate = 1 => after[1].rstate = 0
      /\ s.rstate \in {2, 3} => after[1].rstate = 3
      /\ s.rstate \in {4, 5, 6} => after[1].rstate \in {5, 6, 0}
  <2>1. Moves(after[0], "dd", after[1])
    BY <1>3, <1>4, WriteByteMoves
  <2>2. QED
    BY <1>3, <1>4, <2>1 DEF Moves
<1>6. /\ after[2] \in SimStates
      /\ s.rstate = 0 => after[2].rstate = 2 /\ after[2].out = <<>>
      /\ s.rstate = 1 => after[2].rstate = 0
      /\ s.rstate \in {2, 3} => after[2].rstate = 3
      /\ s.rstate \in {4, 5, 6} => after[2].rstate \in {6, 0}
  <2>1. Moves(after[1], "a5", after[2])
    BY <1>3, <1>4, <1>5, WriteByteMoves
  <2>2. QED
    BY <1>4, <1>5, <2>1 DEF Moves
<1>7. /\ after[3] \in SimStates
      /\ s.rstate = 0 => after[3].rstate = 3 /\ after[3].out = <<>> /\ after[3].reg = r
      /\ s.rstate \in {1, 4, 5, 6} => after[3].rstate = 0
      /\ s.rstate \in {2, 3} => after[3].rstate = 3
  <2>1. Moves(after[2], r, after[3])
    BY <1>3, <1>4, <1>6, WriteByteMoves
  <2>2. QED
    BY <1>4, <1>6, <2>1 DEF Moves
<1>8. /\ after[4] \in SimStates
      /\ s.rstate = 0 => after[4].rstate = 4 /\ after[4].out = <<>> /\ after[4].reg = r
      /\ s.rstate \in {1, 4, 5, 6} => after[4].rstate = 0
      /\ s.rstate \in {2, 3} => after[4].rstate = 4
  <2>1. Moves(after[3], "00", after[4])
    BY <1>3, <1>4, <1>7, WriteByteMoves
  <2>2. QED
    BY <1>4, <1>7, <2>1 DEF Moves
<1>9. /\ after[5] \in SimStates
      /\ s.rstate = 0 => /\ after[5].rstate = 5 /\ after[5].out = <<>> /\ after[5].reg = r
                         /\ after[5].csum[1] = "ff"
      /\ s.rstate \in {1, 4, 5, 6} => after[5].rstate = 0
      /\ s.rstate \in {2, 3} => after[5].rstate = 5
  <2>1. Moves(after[4], "ff", after[5])
    BY <1>3, <1>4, <1>8, WriteByteMoves
  <2>2. QED
    BY <1>4, <1>8, <2>1 DEF Moves
<1>10. /\ after[6] \in SimStates
       /\ s.rstate = 0 => /\ after[6].rstate = 6 /\ after[6].out = <<>> /\ after[6].reg = r
                          /\ after[6].csum = <<"ff", CheckSum[r]>>
       /\ s.rstate \in {1, 4, 5, 6} => after[6].rstate = 0
       /\ s.rstate \in {2, 3} => after[6].rstate = 6
  <2>1. Moves(after[5], CheckSum[r], after[6])
    BY <1>3, <1>4, <1>9, WriteByteMoves
  <2>2. QED
    BY <1>4, <1>9, <2>1 DEF Moves
<1>11. after[7] \in SimStates /\ after[7].rstate = 0
  <2>1. after[6] \in SimStates /\ (s.rstate \in {0, 2, 3} \/ s.rstate \in {1, 4, 5, 6})
    BY <1>10 DEF SimStates
  <2>2. Moves(after[6], "77", WriteByte(after[6], "77"))
    BY <1>4, <2>1, WriteByteMoves
  <2>3. Moves(after[6], "77", after[7])
    BY <1>3, <2>2
  <2>4. after[6].rstate = 0 \/ after[6].rstate = 6
    BY <1>10, <2>1
  <2>5. QED
    BY <2>3, <2>4 DEF Moves
<1>12. ASSUME s.rstate = 0 PROVE after[7].out = <<r>>
  <2>1. after[6].reg = r /\ after[6].csum = <<"ff", CheckSum[r]>>
    BY <1>10, <1>12
  <2>2. Respond(after[6]) = r
    BY <2>1, Zenon DEF Respond
  <2>3. after[6] \in SimStates /\ after[6].rstate = 6 /\ after[6].out = <<>>
    BY <1>10, <1>12
  <2>4. Moves(after[6], "77", WriteByte(after[6], "77"))
    BY <1>4, <2>3, WriteByteMoves
  <2>5. after[7].out = Append(<<>>, r)
    BY <1>3, <2>2, <2>3, <2>4, Zenon DEF Moves
  <2>6. Append(<<>>, r) = <<r>>
    OBVIOUS
  <2>7. QED
    BY <2>5, <2>6
<1>13. QED
  BY <1>1, <1>11, <1>12

\* A request is lost only to what came before it.
LEMMA SimInvariant == SimInv /\ [BmsSimStep]_bmsSimVars => SimInv'
<1> SUFFICES ASSUME SimInv, [BmsSimStep]_bmsSimVars PROVE SimInv'
  OBVIOUS
<1> DEFINE read == [sim EXCEPT !.out = <<>>]
<1>1. read \in SimStates /\ read.out = <<>> /\ read.rstate = sim.rstate
  <2>1. <<>> \in Seq(SimBytes)
    OBVIOUS
  <2>2. QED
    BY <2>1 DEF SimInv, SimStates
<1>2. ASSUME NEW r \in SimRegisters, Request(r) PROVE SimInv'
  <2>1. sim' = Requested(read, r)
    BY <1>2 DEF Request
  <2>2. sim' \in SimStates /\ sim'.rstate = 0 /\ (sim.rstate = 0 => sim'.out = <<r>>)
    BY <1>1, <2>1, RequestedEnds
  <2>3. owed' = IF sim'.out = <<r>> THEN 0 ELSE IF owed < 2 THEN owed + 1 ELSE owed
    BY <1>2, <2>1 DEF Request
  <2>4. owed' \in 0 .. 1
    BY <2>2, <2>3 DEF SimInv
  <2>5. QED
    BY <2>2, <2>4 DEF SimInv, SimStates
<1>3. ASSUME NEW b \in StrayBytes, StrayByte(b) PROVE SimInv'
  <2>1. sim' = WriteByte(read, b) /\ owed' = 0
    BY <1>3 DEF StrayByte
  <2>2. sim' \in SimStates
    BY <1>1, <2>1, KnownBytes, WriteByteMoves DEF Moves
  <2>3. QED
    BY <2>1, <2>2 DEF SimInv, SimStates
<1>4. CASE UNCHANGED bmsSimVars
  BY <1>4 DEF bmsSimVars, SimInv
<1>5. QED
  BY <1>2, <1>3, <1>4 DEF BmsSimStep

\* At first it waits, and owes nothing.
LEMMA SimInitially == BmsSimInit => SimInv
<1> SUFFICES ASSUME BmsSimInit PROVE SimInv
  OBVIOUS
<1>1. <<"00", "00">> \in [1 .. 2 -> SimBytes] /\ "00" \in SimBytes /\ <<>> \in Seq(SimBytes)
  BY KnownBytes
<1>2. QED
  BY <1>1 DEF BmsSimInit, SimInv, SimStates

----------------------------------------------------------------------------
(* The logbook. *)

\* Not more than one file over the limit, and none over its cap
LogsInv ==
  /\ logs \in [DOMAIN logs -> Nat]
  /\ DOMAIN logs \subseteq Nat
  /\ IsFiniteSet(DOMAIN logs) /\ Cardinality(DOMAIN logs) <= LOGBOOK_MAX_DAYS + 1
  /\ \A day \in DOMAIN logs : logs[day] <= LOGBOOK_MAX_FILE_RECORDS

\* What a step may do to the files.
LogsStep ==
  LET kept == DOMAIN logs \cap DOMAIN logs'
      gone == DOMAIN logs \ DOMAIN logs'
  IN  /\ Cardinality(DOMAIN logs') <= LOGBOOK_MAX_DAYS + 1
      /\ \A old \in gone, new \in kept : old < new
      /\ gone # {} => Cardinality(kept) = LOGBOOK_MAX_DAYS
      /\ \A day \in kept : logs'[day] >= logs[day]
      /\ \A day \in DOMAIN logs' : logs'[day] <= LOGBOOK_MAX_FILE_RECORDS

\* Of some natural numbers one is the least.
LEMMA LeastExists ==
  ASSUME NEW S \in SUBSET Nat, S # {}
  PROVE  \E least \in S : \A other \in S : least <= other
<1> DEFINE Less == {pair \in Nat \X Nat : pair[1] < pair[2]}
<1>1. IsWellFoundedOn(Less, Nat)
  BY NatLessThanWellFounded DEF OpToRel
<1> HIDE DEF Less
<1>2. PICK least \in S : \A other \in S : ~ (<<other, least>> \in Less)
  BY <1>1, WFMin
<1>3. ASSUME NEW other \in S PROVE least <= other
  <2>1. other \in Nat /\ least \in Nat /\ <<other, least>> \in Nat \X Nat
    OBVIOUS
  <2>2. ~ (other < least)
    BY <1>2, <2>1 DEF Less
  <2>3. QED
    BY <2>1, <2>2
<1>4. QED
  BY <1>3

\* Of not more than one file over the limit the oldest goes, if there is one over.
LEMMA VictimsAreOldest ==
  ASSUME NEW names \in SUBSET Nat, IsFiniteSet(names),
         Cardinality(names) <= LOGBOOK_MAX_DAYS + 1
  PROVE  /\ Cardinality(names \ Victims(names)) <= LOGBOOK_MAX_DAYS
         /\ Victims(names) # {} => Cardinality(names \ Victims(names)) = LOGBOOK_MAX_DAYS
         /\ \A old \in Victims(names), new \in names \ Victims(names) : old < new
         /\ IsFiniteSet(names \ Victims(names))
<1>0. LOGBOOK_MAX_DAYS \in Nat /\ Cardinality(names) \in Nat
  BY LogbookAssumption, FS_CardinalityType
<1>1. ASSUME NEW day \in names
      PROVE  /\ Newer(day, names) \subseteq names \ {day}
             /\ IsFiniteSet(Newer(day, names)) /\ Cardinality(Newer(day, names)) \in Nat
             /\ Cardinality(Newer(day, names)) <= Cardinality(names) - 1
  <2>1. Newer(day, names) \subseteq names \ {day}
    BY DEF Newer
  <2>2. IsFiniteSet(names \ {day}) /\ Cardinality(names \ {day}) = Cardinality(names) - 1
    BY FS_RemoveElement
  <2>3. QED
    BY <2>1, <2>2, FS_Subset, FS_CardinalityType
<1>2. CASE Cardinality(names) <= LOGBOOK_MAX_DAYS
  <2>1. ASSUME NEW day \in Victims(names) PROVE FALSE
    <3>1. day \in names /\ Cardinality(Newer(day, names)) >= LOGBOOK_MAX_DAYS
      BY DEF Victims
    <3>2. QED
      BY <1>0, <1>1, <1>2, <3>1
  <2>2. names \ Victims(names) = names
    BY <2>1
  <2>3. QED
    BY <1>2, <2>1, <2>2
<1>3. CASE Cardinality(names) = LOGBOOK_MAX_DAYS + 1
  <2>1. names # {}
    BY <1>0, <1>3, FS_EmptySet
  <2>2. PICK oldest \in names : \A other \in names : oldest <= other
    BY <2>1, LeastExists
  <2>3. IsFiniteSet(names \ {oldest}) /\ Cardinality(names \ {oldest}) = LOGBOOK_MAX_DAYS
    BY <1>0, <1>3, FS_RemoveElement
  <2>4. Newer(oldest, names) = names \ {oldest}
    <3>1. \A other \in names : other > oldest <=> other # oldest
      BY <2>2
    <3>2. QED
      BY <3>1 DEF Newer
  <2>5. oldest \in Victims(names)
    BY <1>0, <2>3, <2>4 DEF Victims
  <2>6. ASSUME NEW day \in Victims(names) PROVE day = oldest
    <3>1. day \in names /\ Cardinality(Newer(day, names)) >= LOGBOOK_MAX_DAYS
      BY <2>6 DEF Victims
    <3>2. IsFiniteSet(names \ {day}) /\ Cardinality(names \ {day}) = LOGBOOK_MAX_DAYS
      <4>1. Cardinality(names \ {day}) = Cardinality(names) - 1 /\ IsFiniteSet(names \ {day})
        BY <3>1, FS_RemoveElement
      <4>2. QED
        BY <1>0, <1>3, <4>1
    <3>3. Newer(day, names) \subseteq names \ {day}
      BY <1>1, <3>1
    <3>4. Cardinality(Newer(day, names)) <= Cardinality(names \ {day})
      BY <3>2, <3>3, FS_Subset
    <3>5. Cardinality(Newer(day, names)) = Cardinality(names \ {day})
      BY <1>0, <1>1, <3>1, <3>2, <3>4
    <3>6. Newer(day, names) = names \ {day}
      BY <3>2, <3>3, <3>5, FS_Subset
    <3>7. oldest \notin Newer(day, names)
      BY <2>2, <3>1 DEF Newer
    <3>8. QED
      BY <3>6, <3>7
  <2>7. Victims(names) = {oldest}
    BY <2>5, <2>6
  <2>8. \A new \in names \ {oldest} : oldest < new
    BY <2>2
  <2>9. QED
    BY <2>3, <2>7, <2>8, <1>0
<1>4. QED
  BY <1>0, <1>2, <1>3

\* As long as the directory is within one pass, rotateLogFiles() sees all of it.
LEMMA RotationIsComplete ==
  ASSUME LogsInv, NEW kept \in RotateLogFiles
  PROVE  kept = Restrict(logs, DOMAIN logs \ Victims(DOMAIN logs))
<1> DEFINE found == DOMAIN logs
           scan == Min({Cardinality(found), MAX_SCAN})
<1>1. Cardinality(found) \in Nat /\ Cardinality(found) <= MAX_SCAN /\ MAX_SCAN \in Nat
  BY LogbookAssumption, FS_CardinalityType DEF LogsInv
<1>2. scan = Cardinality(found)
  <2>1. \E least \in {Cardinality(found), MAX_SCAN} :
            \A other \in {Cardinality(found), MAX_SCAN} : least <= other
    BY <1>1
  <2>2. /\ scan \in {Cardinality(found), MAX_SCAN}
        /\ \A y \in {Cardinality(found), MAX_SCAN} : scan <= y
    BY <2>1 DEF Min
  <2>3. QED
    BY <1>1, <2>2
<1>3. PICK names \in kSubset(scan, found) : kept = Restrict(logs, found \ Victims(names))
  BY DEF RotateLogFiles
<1>4. names \in SUBSET found /\ Cardinality(names) = Cardinality(found)
  BY <1>2, <1>3 DEF kSubset
<1>5. names = found
  BY <1>4, FS_Subset DEF LogsInv
<1>6. QED
  BY <1>3, <1>5

\* Whatever day comes, log() leaves the files as they have to be.
LEMMA LogKeeps ==
  ASSUME LogsInv, NEW day \in Days, Log(day)
  PROVE  LogsStep /\ LogsInv'
<1>0. /\ day \in Nat /\ LOGBOOK_MAX_DAYS \in Nat /\ LOGBOOK_MAX_FILE_RECORDS \in Nat
      /\ LOGBOOK_MAX_FILE_RECORDS >= 2
  BY LogbookAssumption
<1>1. CASE LogNext(day)
  <2>1. DOMAIN logs' = DOMAIN logs
    BY <1>1 DEF LogNext
  <2>2. /\ day \in DOMAIN logs /\ logs[day] < LOGBOOK_MAX_FILE_RECORDS
        /\ logs' = [logs EXCEPT ![day] = logs[day] + 1]
    BY <1>1 DEF LogNext
  <2>3. \A d \in DOMAIN logs : logs'[d] \in Nat /\ logs'[d] >= logs[d]
                               /\ logs'[d] <= LOGBOOK_MAX_FILE_RECORDS
    BY <1>0, <2>2 DEF LogsInv
  <2>4. logs' \in [DOMAIN logs' -> Nat]
    BY <2>1, <2>2, <2>3
  <2>5. QED
    BY <2>1, <2>3, <2>4 DEF LogsInv, LogsStep
<1>2. CASE LogFirst(day)
  <2>1. PICK kept \in RotateLogFiles :
          \/ logs' = kept
          \/ logs' = [d \in DOMAIN kept \cup {day} |-> IF d = day THEN 2 ELSE kept[d]]
    BY <1>2 DEF LogFirst
  <2> DEFINE victims == Victims(DOMAIN logs)
             left == DOMAIN logs \ victims
  <2>2. kept = [d \in left |-> logs[d]]
    BY RotationIsComplete DEF Restrict
  <2>3. /\ IsFiniteSet(left) /\ Cardinality(left) <= LOGBOOK_MAX_DAYS
        /\ victims # {} => Cardinality(left) = LOGBOOK_MAX_DAYS
        /\ \A old \in victims, new \in left : old < new
    BY VictimsAreOldest DEF LogsInv
  <2>4. Cardinality(left) \in Nat
    BY <2>3, FS_CardinalityType
  <2>5. day \notin DOMAIN logs
    BY <1>2 DEF LogFirst
  <2>6. victims \subseteq DOMAIN logs
    BY DEF Victims
  <2> HIDE DEF victims
  <2>7. DOMAIN logs' = left \/ DOMAIN logs' = left \cup {day}
    BY <2>1, <2>2
  <2>8. IsFiniteSet(DOMAIN logs') /\ Cardinality(DOMAIN logs') <= LOGBOOK_MAX_DAYS + 1
    <3>1. IsFiniteSet(left \cup {day}) /\ Cardinality(left \cup {day}) = Cardinality(left) + 1
      BY <2>3, <2>5, FS_AddElement
    <3>2. QED
      BY <1>0, <2>3, <2>4, <2>7, <3>1
  <2>9. DOMAIN logs \cap DOMAIN logs' = left /\ DOMAIN logs \ DOMAIN logs' = victims
    BY <2>5, <2>6, <2>7
  <2>10. \A d \in left : logs'[d] = logs[d]
    BY <2>1, <2>2, <2>5
  <2>11. \A d \in DOMAIN logs' : d \in left \/ (d = day /\ logs'[d] = 2)
    BY <2>1, <2>2, <2>5, <2>7
  <2>12. \A d \in DOMAIN logs' : logs'[d] \in Nat /\ logs'[d] <= LOGBOOK_MAX_FILE_RECORDS
    BY <1>0, <2>10, <2>11 DEF LogsInv
  <2>13. logs' \in [DOMAIN logs' -> Nat]
    BY <2>1, <2>2, <2>12
  <2>14. DOMAIN logs' \subseteq Nat
    BY <1>0, <2>7 DEF LogsInv
  <2>15. LogsInv'
    BY <2>8, <2>12, <2>13, <2>14 DEF LogsInv
  <2>16. \A d \in left : logs'[d] >= logs[d]
    BY <2>10 DEF LogsInv
  <2>17. LogsStep
    BY <2>3, <2>8, <2>9, <2>12, <2>16 DEF LogsStep
  <2>18. QED
    BY <2>15, <2>17
<1>3. QED
  BY <1>1, <1>2 DEF Log

\* Each step of the logbook keeps the files in order.
LEMMA LogsInvariant ==
  LogsInv /\ [LogbookStep]_logbookVars => LogsInv' /\ (LogsStep \/ logs' = logs)
<1> SUFFICES ASSUME LogsInv, [LogbookStep]_logbookVars
             PROVE  LogsInv' /\ (LogsStep \/ logs' = logs)
  OBVIOUS
<1>1. CASE logs' = logs
  BY <1>1 DEF LogsInv
<1>2. CASE \E day \in Days : Log(day)
  BY <1>2, LogKeeps
<1>3. QED
  BY <1>1, <1>2 DEF LogbookStep, OtherWrites, logbookVars

\* There are no files at first.
LEMMA LogsInitially == LogbookInit => LogsInv
<1> SUFFICES ASSUME LogbookInit PROVE LogsInv
  OBVIOUS
<1>1. DOMAIN logs = {} /\ logs \in [DOMAIN logs -> Nat]
  BY DEF LogbookInit
<1>2. QED
  BY <1>1, FS_EmptySet, LogbookAssumption DEF LogsInv

----------------------------------------------------------------------------
(* The polar table and the figures. *)

\* The entries are those of the whole part of the value looked up last.
PolarInv ==
  /\ axis \in {polar_tws, polar_twa} /\ x \in Nat /\ warm \in BOOLEAN
  /\ lastV = x \div 2
  /\ IF warm THEN idx = findIndexes(lastV, axis) ELSE lastV = 0

\* The tables start at zero.
LEMMA AxesStartAtZero ==
  ASSUME NEW a \in {polar_tws, polar_twa}
  PROVE  a \in Seq(Nat) /\ Len(a) \in Nat \ {0} /\ a[1] = 0
<1>1. polar_tws \in Seq(Nat) /\ Len(polar_tws) = 17 /\ polar_tws[1] = 0
  BY DEF polar_tws
<1>2. polar_twa \in Seq(Nat) /\ Len(polar_twa) = 24 /\ polar_twa[1] = 0
  BY DEF polar_twa
<1>3. QED
  BY <1>1, <1>2

\* findIndexes() finds an entry that is not above the value, and one behind it that is, or
\* the last.
LEMMA IndexesBracket ==
  ASSUME NEW a \in Seq(Nat), Len(a) \in Nat \ {0}, a[1] = 0, NEW v \in Nat
  PROVE  LET found == findIndexes(v, a)
         IN  /\ found[1] \in 0 .. Len(a) - 1 /\ found[2] \in 0 .. Len(a) - 1
             /\ a[found[1] + 1] <= v
             /\ v < a[found[2] + 1] \/ found[2] = Cardinality(DOMAIN a) - 1
<1>0. DOMAIN a = 1 .. Len(a) /\ Cardinality(DOMAIN a) = Len(a)
      /\ \A i \in 1 .. Len(a) : a[i] \in Nat
  <2>1. DOMAIN a = 1 .. Len(a) /\ \A i \in 1 .. Len(a) : a[i] \in Nat
    OBVIOUS
  <2>2. Cardinality(1 .. Len(a)) = Len(a)
    <3>1. 1 \in Int /\ Len(a) \in Int /\ ~ (1 > Len(a))
      OBVIOUS
    <3>2. Cardinality(1 .. Len(a)) = IF 1 > Len(a) THEN 0 ELSE Len(a) - 1 + 1
      BY <3>1, FS_Interval
    <3>3. QED
      BY <3>1, <3>2
  <2>3. QED
    BY <2>1, <2>2
<1>1. CASE Above(v, a) = {}
  <2>1. findIndexes(v, a) = <<Len(a) - 1, Len(a) - 1>>
    BY <1>0, <1>1 DEF findIndexes
  <2>2. a[Len(a)] <= v
    BY <1>0, <1>1 DEF Above
  <2>3. QED
    BY <1>0, <2>1, <2>2
<1>2. CASE Above(v, a) # {}
  <2> DEFINE least == Min(Above(v, a))
  <2>1. Above(v, a) \subseteq Nat
    BY <1>0 DEF Above
  <2>2. \E i \in Above(v, a) : \A j \in Above(v, a) : i <= j
    BY <1>2, <2>1, LeastExists
  <2>3. least \in Above(v, a) /\ \A j \in Above(v, a) : least <= j
    BY <2>2 DEF Min
  <2> HIDE DEF least
  <2>4. least \in 1 .. Len(a) /\ a[least] > v
    BY <1>0, <2>3 DEF Above
  <2>5. least # 1
    BY <1>0, <2>4
  <2>6. least - 1 \in 1 .. Len(a) /\ least - 1 \notin Above(v, a)
    BY <2>3, <2>4, <2>5, <2>1
  <2>7. a[least - 1] <= v
    BY <1>0, <2>6 DEF Above
  <2>8. findIndexes(v, a) = <<least - 2, least - 1>>
    <3>1. findIndexes(v, a) =
            IF least - 1 = 0 THEN <<0, 0>> ELSE <<least - 1 - 1, least - 1>>
      BY <1>2, Zenon DEF findIndexes, least
    <3>2. least - 1 # 0 /\ least - 1 - 1 = least - 2
      BY <2>4, <2>5
    <3>3. QED
      BY <3>1, <3>2
  <2>9. QED
    BY <1>0, <2>4, <2>5, <2>6, <2>7, <2>8
<1>3. QED
  BY <1>1, <1>2

\* Each look-up leaves the entries of its value.
LEMMA PolarInvariant == PolarInv /\ [PolarStep]_polarVars => PolarInv'
<1> SUFFICES ASSUME PolarInv, [PolarStep]_polarVars PROVE PolarInv'
  OBVIOUS
<1>1. CASE UNCHANGED polarVars
  BY <1>1 DEF polarVars, PolarInv
<1>2. ASSUME NEW half \in 0 .. MaxHalf, LookUp(half) PROVE PolarInv'
  <2>1. half \in Nat /\ half \div 2 \in Nat
    BY MaxHalfAssumption
  <2>2. /\ axis' = axis /\ x' = half /\ lastV' = half \div 2 /\ warm' = (warm \/ half >= 2)
        /\ idx' = IF half \div 2 # lastV THEN findIndexes(half \div 2, axis) ELSE idx
    BY <1>2 DEF LookUp, Update
  <2>3. warm \in BOOLEAN /\ axis \in {polar_tws, polar_twa}
    BY DEF PolarInv
  <2>4. warm' \in BOOLEAN
    BY <2>2, <2>3
  <2>5. CASE half \div 2 # lastV
    <3>1. idx' = findIndexes(lastV', axis')
      BY <2>2, <2>5
    <3>2. ~warm' => lastV' = 0
      <4>1. half < 2 => half \div 2 = 0
        BY <2>1
      <4>2. ~warm' => ~ (half >= 2)
        BY <2>2
      <4>3. QED
        BY <2>1, <2>2, <4>1, <4>2
    <3>3. QED
      BY <2>1, <2>2, <2>3, <2>4, <3>1, <3>2 DEF PolarInv
  <2>6. CASE half \div 2 = lastV
    <3>1. warm' => warm
      BY <2>1, <2>2, <2>6 DEF PolarInv
    <3>2. IF warm' THEN idx' = findIndexes(lastV', axis') ELSE lastV' = 0
      BY <2>2, <2>6, <3>1 DEF PolarInv
    <3>3. QED
      BY <2>1, <2>2, <2>3, <2>4, <3>2 DEF PolarInv
  <2>7. QED
    BY <2>5, <2>6
<1>3. QED
  BY <1>1, <1>2 DEF PolarStep

\* Which lie on either side of it.
LEMMA PolarInvHolds == PolarInv => PolarBrackets
<1> SUFFICES ASSUME PolarInv, warm
             PROVE  /\ 2 * axis[idx[1] + 1] <= x
                    /\ x <= 2 * axis[idx[2] + 1] \/ idx[2] = Cardinality(DOMAIN axis) - 1
  BY DEF PolarBrackets
<1>1. axis \in {polar_tws, polar_twa} /\ x \in Nat /\ idx = findIndexes(x \div 2, axis)
  BY DEF PolarInv
<1>2. axis \in Seq(Nat) /\ Len(axis) \in Nat \ {0} /\ axis[1] = 0 /\ x \div 2 \in Nat
  BY <1>1, AxesStartAtZero
<1>3. /\ idx[1] \in 0 .. Len(axis) - 1 /\ idx[2] \in 0 .. Len(axis) - 1
      /\ axis[idx[1] + 1] <= x \div 2
      /\ x \div 2 < axis[idx[2] + 1] \/ idx[2] = Cardinality(DOMAIN axis) - 1
  BY <1>1, <1>2, IndexesBracket
<1>4. axis[idx[1] + 1] \in Nat /\ axis[idx[2] + 1] \in Nat
  <2>1. idx[1] + 1 \in 1 .. Len(axis) /\ idx[2] + 1 \in 1 .. Len(axis)
    <3>1. idx[1] \in 0 .. Len(axis) - 1 /\ idx[2] \in 0 .. Len(axis) - 1
      BY <1>3
    <3>2. \A i \in 0 .. Len(axis) - 1 : i + 1 \in 1 .. Len(axis)
      BY <1>2
    <3>3. QED
      BY <3>1, <3>2
  <2>2. \A i \in 1 .. Len(axis) : axis[i] \in Nat
    BY <1>2
  <2>3. QED
    BY <2>1, <2>2
<1>5. 2 * (x \div 2) <= x /\ x <= 2 * (x \div 2) + 1
  BY <1>1
<1>6. \A low \in Nat : low <= x \div 2 => 2 * low <= x
  BY <1>1, <1>5
<1>7. \A high \in Nat : x \div 2 < high => x <= 2 * high
  BY <1>1, <1>2, <1>5
<1>8. QED
  BY <1>3, <1>4, <1>6, <1>7

\* No value has been looked up at first.
LEMMA PolarInitially == PolarInit => PolarInv
<1>1. 0 \in Nat /\ 0 = 0 \div 2
  OBVIOUS
<1>2. QED
  BY <1>1, Zenon DEF PolarInit, PolarInv

\* Each calculation leaves figures of its own inputs, whatever was there before.
LEMMA PerformanceInvariant ==
  PerformanceFresh /\ [PerformanceStep]_performanceVars => PerformanceFresh'
<1> SUFFICES ASSUME PerformanceFresh, [PerformanceStep]_performanceVars PROVE PerformanceFresh'
  OBVIOUS
<1>1. CASE UNCHANGED performanceVars
  BY <1>1 DEF performanceVars, PerformanceFresh
<1>2. ASSUME NEW inputs \in SUBSET PerformanceInputs, UpdatePerformance(inputs)
      PROVE  PerformanceFresh'
  <2>1. given' = inputs
    BY <1>2 DEF UpdatePerformance
  <2>2. PICK fast \in BOOLEAN, found \in BOOLEAN, real \in BOOLEAN :
          LET wind    == IF HasWind THEN WindOutputs(fast, found, real) ELSE {}
              heading == IF HasWind /\ "hdm" \in inputs THEN HeadingOutputs(found) ELSE {}
          IN  result' = [output \in Outputs |->
                CASE output = "leeway"           -> "now"
                  [] output \in wind \cup heading -> From(Inputs(output))
                  [] output \in Reset \ (wind \cup heading) -> "none"
                  [] OTHER -> IF result[output] = "none" THEN "none" ELSE "old"]
    BY <1>2 DEF UpdatePerformance
  <2> DEFINE wind    == IF HasWind THEN WindOutputs(fast, found, real) ELSE {}
             heading == IF HasWind /\ "hdm" \in inputs THEN HeadingOutputs(found) ELSE {}
  <2>3. wind \cup heading # {} => HasWind
    OBVIOUS
  <2>4. "hdm" \notin inputs => heading = {}
    OBVIOUS
  <2>9. "leeway" \notin wind \cup heading \cup Reset
    BY DEF WindOutputs, HeadingOutputs, ViaVariation, Reset
  <2>5. wind \cap (ViaVariation \cup {"windDirectionMagnetic"}) = {}
    BY DEF WindOutputs, ViaVariation
  <2> HIDE DEF wind, heading
  <2>6. ASSUME NEW output \in Outputs
        PROVE  result'[output] =
                 CASE output = "leeway"           -> "now"
                   [] output \in wind \cup heading -> From(Inputs(output))
                   [] output \in Reset \ (wind \cup heading) -> "none"
                   [] OTHER                       -> IF result[output] = "none" THEN "none" ELSE "old"
    BY <2>2 DEF wind, heading
  <2>7. ASSUME NEW output \in Outputs
        PROVE  /\ result'[output] = "old" => output = "tws"
               /\ result'[output] = "invented" =>
                    "aws" \notin inputs \/ (output \in ViaVariation /\ "variation" \notin inputs)
               /\ result'[output] = "now" /\ output # "leeway" => {"awa", "stw"} \subseteq inputs
    <3>1. CASE output = "leeway"
      <4>1. result'[output] = "now"
        BY <2>6, <2>9, <3>1
      <4>2. QED
        BY <3>1, <4>1
    <3>2. CASE output # "leeway" /\ output \in wind \cup heading
      <4>1. result'[output] = From(Inputs(output))
        BY <2>6, <3>2
      <4>2. {"awa", "stw"} \subseteq inputs
        BY <2>1, <2>3, <3>2 DEF HasWind
      <4>3. Inputs(output) \subseteq inputs \/ "aws" \notin inputs
            \/ (output \in ViaVariation /\ "variation" \notin inputs)
        <5>1. CASE output \in ViaVariation \/ output = "windDirectionMagnetic"
          <6>1. "hdm" \in inputs
            BY <2>4, <2>5, <3>2, <5>1
          <6>2. QED
            BY <5>1, <6>1 DEF Inputs, ViaVariation
        <5>2. CASE ~ (output \in ViaVariation \/ output = "windDirectionMagnetic")
          BY <4>2, <5>2 DEF Inputs
        <5>3. QED
          BY <5>1, <5>2
      <4>4. QED
        BY <2>1, <4>1, <4>2, <4>3 DEF From
    <3>3. CASE output # "leeway" /\ output \notin wind \cup heading /\ output \in Reset
      <4>1. result'[output] = "none"
        BY <2>6, <3>3
      <4>2. QED
        BY <4>1
    <3>4. CASE output # "leeway" /\ output \notin wind \cup heading /\ output \notin Reset
      <4>1. result'[output] \in {"none", "old"}
        BY <2>6, <2>9, <3>4
      <4>2. output = "tws"
        BY <3>4 DEF Reset
      <4>3. QED
        BY <4>1, <4>2
    <3>5. QED
      BY <3>1, <3>2, <3>3, <3>4
  <2>8. QED
    BY <2>1, <2>7 DEF PerformanceFresh
<1>3. QED
  BY <1>1, <1>2 DEF PerformanceStep

\* There are none at first.
LEMMA PerformanceInitially == PerformanceInit => PerformanceFresh
BY DEF PerformanceInit, PerformanceFresh

----------------------------------------------------------------------------
(* The shunts. *)

Units == {0, ServiceUnit, EngineUnit}
Values == [unit : Units, what : Whats \cup {"none", "unread", "absent", "short"}]
Read(figures) == figures[0] \notin {Unread, Short}
Frames ==
  [unit : Units, what : Whats \cup {"none"}, kind : Kinds, is : {"whole", "begun", "cut"}]
MasterStates ==
  {"idle", "recieve", "ok", "timeout", "overflow", "wrongUnit", "wrongFunction", "exception",
   "crcFail"}
ShuntStates == [command : Whats \cup {"none"}, age : Nat, shown : [Registers -> Values]]
ModbusStates ==
  [units : [Shunts -> Units], state : MasterStates, request : [shunt : Shunts, what : Whats],
   got : Nat, age : Nat, wire : Seq(Frames), mixed : BOOLEAN, shunts : [Shunts -> ShuntStates]]

\* What a shunt shows is its own, and its voltage while no two requests met.
OwnValues(m) ==
  \A shunt \in Shunts :
    Read(m.shunts[shunt].shown) =>
      /\ m.shunts[shunt].shown[0].unit = m.units[shunt]
      /\ m.mixed \/ m.shunts[shunt].shown[0].what = "voltage"

\* While no two requests met, the wire has nothing but what was asked for last.
AsAsked(m, frame) == ~m.mixed /\ frame.is # "cut" => frame.what = m.request.what
WireAsAsked(m) == \A i \in DOMAIN m.wire : AsAsked(m, m.wire[i])

\* The shunt that has asked knows what for.
Knows(m) == m.shunts[m.request.shunt].command = m.request.what

ShuntInv(m) ==
  /\ m \in ModbusStates
  /\ OwnValues(m) /\ WireAsAsked(m)
  /\ m.state = "recieve" => Knows(m)

\* What is cut is a frame as before.
LEMMA CutIsFrame ==
  ASSUME NEW frame \in Frames
  PROVE  Cut(frame) \in Frames /\ Cut(frame).is = "cut"
<1> DEFINE t == [frame EXCEPT !.is = "cut"]
<1>1. t \in Frames /\ t.is = "cut"
  BY DEF Frames
<1>2. Cut(frame) = [t EXCEPT !.what = "none"]
  BY DEF Cut, Frames
<1> HIDE DEF t
<1>3. QED
  BY <1>1, <1>2 DEF Frames

\* What has begun and is cut is a wire as before.
LEMMA BegunIsWire ==
  ASSUME NEW wire \in Seq(Frames)
  PROVE  Begun(wire) \in Seq(Frames) /\ (wire = <<>> => Begun(wire) = <<>>)
<1>1. \A i \in DOMAIN wire : wire[i] \in Frames
  OBVIOUS
<1>2. \A i \in DOMAIN wire : Cut(wire[i]) \in Frames
  BY <1>1, CutIsFrame
<1>3. DOMAIN Begun(wire) = 1 .. Len(wire)
  BY DEF Begun
<1>4. \A i \in 1 .. Len(wire) : Begun(wire)[i] \in Frames
  BY <1>1, <1>2 DEF Begun
<1>5. QED
  BY <1>3, <1>4 DEF Begun

\* A request makes of the state a state, with the command of one shunt changed.
LEMMA SendRequestMoves ==
  ASSUME NEW m \in ModbusStates, NEW shunt \in Shunts, NEW what \in Whats,
         NEW answer \in Kinds \cup {NoAnswer}
  PROVE  LET t == SendRequest(m, shunt, what, answer)
         IN  /\ t \in ModbusStates
             /\ t.units = m.units /\ t.request = [shunt |-> shunt, what |-> what]
             /\ t.shunts = [m.shunts EXCEPT ![shunt].command = what]
             /\ m.mixed \/ m.wire # <<>> => t.mixed
             /\ m.wire = <<>> => \A i \in DOMAIN t.wire : t.wire[i].what = what
<1> DEFINE frame == [unit |-> m.units[shunt], what |-> what, kind |-> answer, is |-> "whole"]
           sent == IF answer = NoAnswer \/ Len(m.wire) = MaxAnswers THEN <<>> ELSE <<frame>>
           t == SendRequest(m, shunt, what, answer)
           wire == Begun(m.wire) \o sent
           demanded == [shunt |-> shunt, what |-> what]
           shunts == [m.shunts EXCEPT ![shunt].command = what]
           mixed == m.mixed \/ m.wire # <<>>
<1>1. t = [m EXCEPT !.state = "recieve", !.request = demanded, !.got = 0, !.age = 0,
                    !.mixed = mixed, !.wire = wire, !.shunts = shunts]
  BY DEF SendRequest, ModbusStates
<1>2. shunts \in [Shunts -> ShuntStates]
  <2>1. m.shunts \in [Shunts -> ShuntStates]
    BY DEF ModbusStates
  <2>2. [m.shunts[shunt] EXCEPT !.command = what] \in ShuntStates
    BY <2>1 DEF ShuntStates
  <2>3. QED
    BY <2>1, <2>2
<1>3. sent \in Seq(Frames) /\ \A i \in DOMAIN sent : sent[i].what = what
  <2>1. answer # NoAnswer => frame \in Frames
    BY DEF Frames, ModbusStates
  <2>2. QED
    BY <2>1
<1>4. wire \in Seq(Frames) /\ (m.wire = <<>> => wire = sent)
  <2>1. m.wire \in Seq(Frames)
    BY DEF ModbusStates
  <2>2. Begun(m.wire) \in Seq(Frames) /\ (m.wire = <<>> => Begun(m.wire) = <<>>)
    BY <2>1, BegunIsWire
  <2> HIDE DEF sent
  <2>3. QED
    BY <1>3, <2>2
<1>5. mixed \in BOOLEAN
  OBVIOUS
<1>6. demanded \in [shunt : Shunts, what : Whats]
  OBVIOUS
<1>7. /\ t \in ModbusStates
      /\ t.units = m.units /\ t.request = demanded /\ t.shunts = shunts /\ t.mixed = mixed
      /\ t.wire = wire
  <2> HIDE DEF mixed, wire, shunts, demanded, t
  <2>1. QED
    BY <1>1, <1>2, <1>4, <1>5, <1>6 DEF ModbusStates, MasterStates
<1>8. QED
  BY <1>3, <1>4, <1>7

\* A request keeps the invariant.
LEMMA SendRequestKeeps ==
  ASSUME NEW m, ShuntInv(m), NEW shunt \in Shunts, NEW what \in Whats,
         NEW answer \in Kinds \cup {NoAnswer}
  PROVE  ShuntInv(SendRequest(m, shunt, what, answer))
<1> DEFINE t == SendRequest(m, shunt, what, answer)
<1>1. m \in ModbusStates /\ OwnValues(m)
  BY DEF ShuntInv
<1>2. /\ t \in ModbusStates
      /\ t.units = m.units /\ t.request = [shunt |-> shunt, what |-> what]
      /\ t.shunts = [m.shunts EXCEPT ![shunt].command = what]
      /\ m.mixed \/ m.wire # <<>> => t.mixed
      /\ m.wire = <<>> => \A i \in DOMAIN t.wire : t.wire[i].what = what
  BY <1>1, SendRequestMoves
<1> HIDE DEF t
<1>3. \A other \in Shunts : t.shunts[other].shown = m.shunts[other].shown
  BY <1>1, <1>2 DEF ModbusStates, ShuntStates
<1>4. Knows(t)
  BY <1>1, <1>2 DEF Knows, ModbusStates, ShuntStates
<1>5. OwnValues(t)
  BY <1>1, <1>2, <1>3 DEF OwnValues
<1>6. WireAsAsked(t)
  BY <1>2 DEF WireAsAsked, AsAsked
<1>7. QED
  BY <1>2, <1>4, <1>5, <1>6 DEF ShuntInv, t

\* read() and readStats() ask or do nothing.
LEMMA ShuntReadKeeps ==
  ASSUME NEW m, ShuntInv(m), NEW shunt \in Shunts, NEW answer \in Kinds \cup {NoAnswer}
  PROVE  ShuntInv(ShuntRead(m, shunt, answer)) /\ ShuntInv(ShuntStats(m, shunt, answer))
<1>1. "voltage" \in Whats /\ "stats1" \in Whats
  BY DEF Whats
<1>2. ShuntInv(SendRequest(m, shunt, "voltage", answer))
      /\ ShuntInv(SendRequest(m, shunt, "stats1", answer))
  BY <1>1, SendRequestKeeps
<1>3. QED
  BY <1>2 DEF ShuntRead, ShuntStats

\* What the master has heard does not matter to the invariant, nor does its state while it
\* does not wait.
LEMMA StateKeeps ==
  ASSUME NEW m, ShuntInv(m), NEW state \in MasterStates \ {"recieve"}
  PROVE  ShuntInv([m EXCEPT !.state = state])
<1> DEFINE t == [m EXCEPT !.state = state]
<1>1. /\ t \in ModbusStates /\ t.state = state
      /\ t.units = m.units /\ t.request = m.request /\ t.shunts = m.shunts /\ t.mixed = m.mixed
      /\ t.wire = m.wire
  BY DEF ShuntInv, ModbusStates
<1> HIDE DEF t
<1>2. OwnValues(t) /\ WireAsAsked(t)
  BY <1>1 DEF ShuntInv, OwnValues, WireAsAsked, AsAsked
<1>3. QED
  BY <1>1, <1>2 DEF ShuntInv, t

LEMMA GotKeeps ==
  ASSUME NEW m, ShuntInv(m), NEW got \in Nat
  PROVE  LET t == [m EXCEPT !.got = got]
         IN  /\ ShuntInv(t) /\ (Knows(m) => Knows(t))
             /\ t.units = m.units /\ t.request = m.request /\ t.mixed = m.mixed
<1> DEFINE t == [m EXCEPT !.got = got]
<1>1. /\ t \in ModbusStates /\ t.state = m.state
      /\ t.units = m.units /\ t.request = m.request /\ t.shunts = m.shunts /\ t.mixed = m.mixed
      /\ t.wire = m.wire
  BY DEF ShuntInv, ModbusStates
<1> HIDE DEF t
<1>2. OwnValues(t) /\ WireAsAsked(t) /\ (Knows(m) => Knows(t))
  BY <1>1 DEF ShuntInv, OwnValues, WireAsAsked, AsAsked, Knows
<1>3. QED
  BY <1>1, <1>2 DEF ShuntInv, t

\* A wire with nothing but what was asked for keeps the invariant, and the request too.
LEMMA WireKeeps ==
  ASSUME NEW m, ShuntInv(m), NEW wire \in Seq(Frames),
         \A i \in DOMAIN wire : AsAsked(m, wire[i])
  PROVE  LET t == [m EXCEPT !.wire = wire]
         IN  /\ ShuntInv(t) /\ t.state = m.state
             /\ t.units = m.units /\ t.request = m.request /\ t.mixed = m.mixed
<1> DEFINE t == [m EXCEPT !.wire = wire]
<1>1. /\ t \in ModbusStates /\ t.state = m.state
      /\ t.units = m.units /\ t.request = m.request /\ t.shunts = m.shunts /\ t.mixed = m.mixed
      /\ t.wire = wire
  BY DEF ShuntInv, ModbusStates
<1> HIDE DEF t
<1>2. OwnValues(t) /\ WireAsAsked(t) /\ (Knows(m) => Knows(t))
  BY <1>1 DEF ShuntInv, OwnValues, WireAsAsked, AsAsked, Knows
<1>3. QED
  BY <1>1, <1>2 DEF ShuntInv, t

\* So do shunts that show what is their own and know what they have asked for.
LEMMA ShuntsKeep ==
  ASSUME NEW m, ShuntInv(m), NEW shunts \in [Shunts -> ShuntStates],
         \A shunt \in Shunts :
           Read(shunts[shunt].shown) =>
             /\ shunts[shunt].shown[0].unit = m.units[shunt]
             /\ m.mixed \/ shunts[shunt].shown[0].what = "voltage",
         m.state = "recieve" => shunts[m.request.shunt].command = m.request.what
  PROVE  ShuntInv([m EXCEPT !.shunts = shunts])
<1> DEFINE t == [m EXCEPT !.shunts = shunts]
<1>1. /\ t \in ModbusStates /\ t.state = m.state
      /\ t.units = m.units /\ t.request = m.request /\ t.shunts = shunts /\ t.mixed = m.mixed
      /\ t.wire = m.wire
  BY DEF ShuntInv, ModbusStates
<1> HIDE DEF t
<1>2. OwnValues(t) /\ WireAsAsked(t) /\ (t.state = "recieve" => Knows(t))
  BY <1>1 DEF ShuntInv, OwnValues, WireAsAsked, AsAsked, Knows
<1>3. QED
  BY <1>1, <1>2 DEF ShuntInv, t

\* Pieces that come off the wire leave nothing on it that was not there before.
LEMMA TakenKeeps ==
  ASSUME NEW m, ShuntInv(m), m.wire # <<>>, NEW upTo \in 0 .. Pieces
  PROVE  LET t == Taken(m, upTo)
         IN  /\ ShuntInv(t) /\ t.state = m.state
             /\ t.units = m.units /\ t.request = m.request /\ t.mixed = m.mixed
<1> DEFINE wire == m.wire
           frame == wire[1]
<1>1. m \in ModbusStates /\ wire \in Seq(Frames) /\ frame \in Frames /\ Len(wire) >= 1
  <2>1. m \in ModbusStates
    BY DEF ShuntInv
  <2>2. wire \in Seq(Frames)
    BY <2>1 DEF ModbusStates
  <2>3. QED
    BY <2>1, <2>2
<1>2. \A i \in DOMAIN wire : AsAsked(m, wire[i])
  BY DEF ShuntInv, WireAsAsked
<1>3. /\ Tail(wire) \in Seq(Frames)
      /\ \A i \in DOMAIN Tail(wire) : AsAsked(m, Tail(wire)[i])
  BY <1>1, <1>2
<1>4. ASSUME NEW other \in Frames, AsAsked(m, other)
      PROVE  LET changed == [wire EXCEPT ![1] = other]
             IN  changed \in Seq(Frames) /\ \A i \in DOMAIN changed : AsAsked(m, changed[i])
  BY <1>1, <1>2, <1>4
<1> DEFINE stopped == Cut(frame)
           begun == [frame EXCEPT !.is = "begun"]
<1>5. stopped \in Frames /\ AsAsked(m, stopped)
  BY <1>1, CutIsFrame DEF AsAsked
<1>6. begun \in Frames /\ (frame.is # "cut" => AsAsked(m, begun))
  <2>1. begun \in Frames /\ begun.what = frame.what
    BY <1>1 DEF Frames
  <2>2. AsAsked(m, frame)
    BY <1>1, <1>2
  <2> HIDE DEF begun
  <2>3. QED
    BY <2>1, <2>2 DEF AsAsked
<1>7. Taken(m, upTo) \in
        {m, [m EXCEPT !.wire = Tail(wire)], [m EXCEPT !.wire = [wire EXCEPT ![1] = stopped]]}
        \cup (IF frame.is # "cut" THEN {[m EXCEPT !.wire = [wire EXCEPT ![1] = begun]]} ELSE {})
  <2>1. [m EXCEPT !.wire = Tail(@)] = [m EXCEPT !.wire = Tail(wire)]
    BY <1>1 DEF ModbusStates
  <2>2. [m EXCEPT !.wire[1] = Cut(@)] = [m EXCEPT !.wire = [wire EXCEPT ![1] = stopped]]
    BY <1>1 DEF ModbusStates
  <2>3. frame.is # "cut" =>
          [m EXCEPT !.wire[1].is = IF @ = "cut" THEN @ ELSE "begun"]
            = [m EXCEPT !.wire = [wire EXCEPT ![1] = begun]]
    BY <1>1 DEF ModbusStates
  <2>4. frame.is = "cut" => [m EXCEPT !.wire[1].is = IF @ = "cut" THEN @ ELSE "begun"] = m
    BY <1>1 DEF ModbusStates, Frames
  <2>5. QED
    BY <2>1, <2>2, <2>3, <2>4 DEF Taken
<1> HIDE DEF wire, frame, stopped, begun
<1> DEFINE Same(t) ==
             /\ ShuntInv(t) /\ t.state = m.state
             /\ t.units = m.units /\ t.request = m.request /\ t.mixed = m.mixed
<1>8. ASSUME NEW other \in Seq(Frames), \A i \in DOMAIN other : AsAsked(m, other[i])
      PROVE  Same([m EXCEPT !.wire = other])
  BY <1>8, WireKeeps
<1>9. Same(m)
  OBVIOUS
<1> HIDE DEF Same
<1>10. Same([m EXCEPT !.wire = Tail(wire)])
  BY <1>3, <1>8
<1>11. Same([m EXCEPT !.wire = [wire EXCEPT ![1] = stopped]])
  BY <1>4, <1>5, <1>8
<1>12. frame.is # "cut" => Same([m EXCEPT !.wire = [wire EXCEPT ![1] = begun]])
  BY <1>4, <1>6, <1>8
<1>13. Same(Taken(m, upTo))
  BY <1>7, <1>9, <1>10, <1>11, <1>12
<1>14. QED
  BY <1>13 DEF Same

\* An answer that is the asked shunt's, and to what was asked, is shown as its own.
LEMMA OnResponseKeeps ==
  ASSUME NEW m, ShuntInv(m), m.state # "recieve", Knows(m),
         NEW answer \in Kinds \cup {NoAnswer}, NEW figures \in [Registers -> Values],
         Read(figures) =>
           /\ figures[0].unit = m.units[m.request.shunt]
           /\ m.mixed \/ figures[0].what = m.request.what
  PROVE  ShuntInv(OnResponse(m, figures, answer))
<1> DEFINE shunt == m.request.shunt
           command == m.shunts[shunt].command
           shown == [m.shunts EXCEPT ![shunt] =
                       [command |-> "none", age |-> 0, shown |-> figures]]
           done == [m.shunts EXCEPT ![shunt].command = "none"]
<1>1. m \in ModbusStates /\ shunt \in Shunts /\ command = m.request.what /\ OwnValues(m)
  BY DEF ShuntInv, ModbusStates, Knows
<1>2. m.shunts \in [Shunts -> ShuntStates]
  BY <1>1 DEF ModbusStates
<1>3. CASE command = "voltage"
  <2>1. shown \in [Shunts -> ShuntStates]
    <3>1. [command |-> "none", age |-> 0, shown |-> figures] \in ShuntStates
      BY DEF ShuntStates
    <3>2. QED
      BY <1>2, <3>1
  <2>2. \A other \in Shunts :
          Read(shown[other].shown) =>
            /\ shown[other].shown[0].unit = m.units[other]
            /\ m.mixed \/ shown[other].shown[0].what = "voltage"
    BY <1>1, <1>2, <1>3 DEF OwnValues
  <2>3. OnResponse(m, figures, answer) = [m EXCEPT !.shunts = shown]
    BY <1>1, <1>3 DEF OnResponse, ModbusStates
  <2> HIDE DEF shown
  <2>4. QED
    BY <2>1, <2>2, <2>3, ShuntsKeep
<1>4. CASE command = "stats1"
  <2>1. OnResponse(m, figures, answer) = SendRequest(m, shunt, "stats2", answer)
    BY <1>4 DEF OnResponse
  <2>2. QED
    BY <1>1, <2>1, SendRequestKeeps DEF Whats
<1>5. CASE command \notin {"voltage", "stats1"}
  <2>1. done \in [Shunts -> ShuntStates]
    <3>1. [m.shunts[shunt] EXCEPT !.command = "none"] \in ShuntStates
      BY <1>1, <1>2 DEF ShuntStates
    <3>2. QED
      BY <1>2, <3>1
  <2>2. \A other \in Shunts : done[other].shown = m.shunts[other].shown
    BY <1>1, <1>2 DEF ShuntStates
  <2>3. OnResponse(m, figures, answer) = [m EXCEPT !.shunts = done]
    BY <1>1, <1>5 DEF OnResponse, ModbusStates
  <2> HIDE DEF done
  <2>4. QED
    BY <1>1, <2>1, <2>2, <2>3, ShuntsKeep DEF OwnValues
<1>6. QED
  BY <1>3, <1>4, <1>5

\* However the pieces are judged.
LEMMA EvaluatedKeeps ==
  ASSUME NEW m, ShuntInv(m), m.state = "recieve", NEW frame \in Frames, AsAsked(m, frame),
         NEW upTo \in 0 .. Pieces, NEW luckyCrc \in BOOLEAN,
         NEW answer \in Kinds \cup {NoAnswer}
  PROVE  ShuntInv(Evaluated(m, frame, upTo, luckyCrc, answer))
<1> DEFINE read == [m EXCEPT !.got = upTo]
           ok == [read EXCEPT !.state = "ok"]
           responses == Int16Responses(frame, upTo)
           taken == OnResponse(ok, responses, answer)
<1>1. upTo \in Nat /\ Knows(m)
  BY DEF Pieces, ShuntInv
<1>2. /\ ShuntInv(read) /\ Knows(read)
      /\ read.units = m.units /\ read.request = m.request /\ read.mixed = m.mixed
  BY <1>1, GotKeeps
<1> HIDE DEF read
<1>3. \A state \in MasterStates \ {"recieve"} : ShuntInv([read EXCEPT !.state = state])
  BY <1>2, StateKeeps
<1>4. Belongs(m, frame) => ShuntInv([taken EXCEPT !.state = "idle"])
  <2> SUFFICES ASSUME Belongs(m, frame) PROVE ShuntInv([taken EXCEPT !.state = "idle"])
    OBVIOUS
  <2>1. /\ ShuntInv(ok) /\ ok.state # "recieve" /\ Knows(ok)
        /\ ok.units = m.units /\ ok.request = m.request /\ ok.mixed = m.mixed
    <3>1. ShuntInv(ok)
      BY <1>3 DEF MasterStates
    <3>2. QED
      BY <1>2, <3>1 DEF ShuntInv, ModbusStates, Knows
  <2> HIDE DEF ok
  <2>2. responses \in [Registers -> Values]
    <3>1. \A register \in Registers : Int16Response(frame, upTo, register) \in Values
      BY DEF Int16Response, Values, Frames, Unavailable, Short, Units, Registers, NumRegisters,
             Pieces
    <3>2. QED
      BY <3>1 DEF Int16Responses
  <2>3. Read(responses) =>
          /\ responses[0].unit = ok.units[ok.request.shunt]
          /\ ok.mixed \/ responses[0].what = ok.request.what
    <3>1. responses[0] = Int16Response(frame, upTo, 0)
      BY DEF Int16Responses, Registers
    <3>2. responses[0] = IF upTo < Pieces THEN Short
                         ELSE [unit |-> frame.unit, what |-> frame.what]
      BY <3>1 DEF Int16Response, NumRegisters, Pieces
    <3>3. QED
      BY <2>1, <3>2 DEF Read, Belongs, AsAsked
  <2> HIDE DEF responses
  <2>4. ShuntInv(taken)
    BY <2>1, <2>2, <2>3, OnResponseKeeps
  <2> HIDE DEF taken
  <2>5. QED
    BY <2>4, StateKeeps DEF MasterStates
<1>5. \A state \in {"overflow", "wrongUnit", "wrongFunction", "exception", "crcFail"} :
        ShuntInv([read EXCEPT !.state = state])
  BY <1>3 DEF MasterStates
<1>6. Evaluated(m, frame, upTo, luckyCrc, answer) \in
        {read}
        \cup {[read EXCEPT !.state = state] :
                state \in {"overflow", "wrongUnit", "wrongFunction", "exception", "crcFail"}}
        \cup (IF Belongs(m, frame) THEN {[taken EXCEPT !.state = "idle"]} ELSE {})
  BY DEF Evaluated, Frames, Kinds, read
<1> HIDE DEF taken
<1>7. QED
  BY <1>2, <1>4, <1>5, <1>6

\* read() of the master with n pieces there
LEMMA ReadResponseKeeps ==
  ASSUME NEW m, ShuntInv(m), NEW n \in 0 .. Pieces, m.wire = <<>> => n = 0,
         NEW luckyCrc \in BOOLEAN, NEW answer \in Kinds \cup {NoAnswer}
  PROVE  ShuntInv(ReadResponse(m, n, luckyCrc, answer))
<1> DEFINE came == IF m.state = "recieve" THEN m.got + n ELSE n
           piece == IF came > Pieces THEN Pieces ELSE came
           rest == Taken(m, piece)
           frame == Head(m.wire)
<1>1. m \in ModbusStates /\ m.got \in Nat /\ m.age \in Nat /\ m.wire \in Seq(Frames)
  BY DEF ShuntInv, ModbusStates
<1>2. piece \in 0 .. Pieces
  BY <1>1 DEF Pieces
<1> HIDE DEF piece
<1>3. ASSUME n # 0
      PROVE  /\ ShuntInv(rest) /\ rest.state = m.state
             /\ m.state = "recieve" => ShuntInv(Evaluated(rest, frame, piece, luckyCrc, answer))
  <2>1. /\ ShuntInv(rest) /\ rest.state = m.state
        /\ rest.request = m.request /\ rest.mixed = m.mixed
    BY <1>2, <1>3, TakenKeeps
  <2> HIDE DEF rest
  <2>2. frame \in Frames /\ AsAsked(m, frame)
    BY <1>1, <1>3 DEF ShuntInv, WireAsAsked
  <2>3. AsAsked(rest, frame)
    BY <2>1, <2>2 DEF AsAsked
  <2> HIDE DEF frame
  <2>4. QED
    BY <1>2, <2>1, <2>2, <2>3, EvaluatedKeeps
<1>4. ShuntInv([m EXCEPT !.state = "timeout"])
  BY StateKeeps DEF MasterStates
<1> HIDE DEF rest, frame
<1>5. m.state = "recieve" => m.age > ModbusTimeout \/ m.age <= ModbusTimeout
  BY <1>1, ModbusAssumption
<1>6. m.age > ModbusTimeout => ~(m.age <= ModbusTimeout)
  BY <1>1, ModbusAssumption
<1>7. ReadResponse(m, n, luckyCrc, answer) \in
        {m, [m EXCEPT !.state = "timeout"]}
        \cup (IF n # 0 THEN {rest} ELSE {})
        \cup (IF n # 0 /\ m.state = "recieve"
              THEN {Evaluated(rest, frame, piece, luckyCrc, answer)} ELSE {})
  BY <1>5, <1>6 DEF ReadResponse, rest, frame, piece
<1>8. QED
  BY <1>3, <1>4, <1>7

\* The shunts grow older, and show and know what they did.
LEMMA TickKeeps == ShuntInv(modbus) /\ ModbusTick => ShuntInv(modbus')
<1> SUFFICES ASSUME ShuntInv(modbus), ModbusTick PROVE ShuntInv(modbus')
  OBVIOUS
<1> DEFINE Aged(age, bound) == IF age = bound THEN age ELSE age + 1
           age == Aged(modbus.age, ModbusTimeout + 1)
           m == [modbus EXCEPT !.age = age]
           shunts == [shunt \in Shunts |->
                        [modbus.shunts[shunt] EXCEPT !.age = Aged(@, EnabledFor)]]
<1>1. modbus \in ModbusStates /\ modbus.age \in Nat
  BY DEF ShuntInv, ModbusStates
<1>2. age \in Nat
  BY <1>1
<1>3. modbus' = [m EXCEPT !.shunts = shunts]
  BY <1>1 DEF ModbusTick, ModbusStates
<1>4. /\ m \in ModbusStates /\ m.state = modbus.state
      /\ m.units = modbus.units /\ m.request = modbus.request /\ m.shunts = modbus.shunts
      /\ m.mixed = modbus.mixed /\ m.wire = modbus.wire
  <2> HIDE DEF age
  <2>1. QED
    BY <1>1, <1>2 DEF ModbusStates
<1> HIDE DEF m, age
<1>5. ShuntInv(m)
  BY <1>4 DEF ShuntInv, OwnValues, WireAsAsked, AsAsked, Knows
<1>6. \A shunt \in Shunts :
        /\ shunts[shunt] \in ShuntStates
        /\ shunts[shunt].shown = m.shunts[shunt].shown
        /\ shunts[shunt].command = m.shunts[shunt].command
  BY <1>4 DEF ModbusStates, ShuntStates
<1>7. shunts \in [Shunts -> ShuntStates]
  BY <1>6
<1> HIDE DEF shunts
<1>8. m.request.shunt \in Shunts
  BY <1>4 DEF ModbusStates
<1>9. \A shunt \in Shunts :
        Read(shunts[shunt].shown) =>
          /\ shunts[shunt].shown[0].unit = m.units[shunt]
          /\ m.mixed \/ shunts[shunt].shown[0].what = "voltage"
  BY <1>5, <1>6 DEF ShuntInv, OwnValues
<1>10. m.state = "recieve" => shunts[m.request.shunt].command = m.request.what
  BY <1>5, <1>6, <1>8 DEF ShuntInv, Knows
<1>11. QED
  BY <1>3, <1>5, <1>7, <1>9, <1>10, ShuntsKeep

\* Every step keeps the invariant.
LEMMA ShuntInvariant == ShuntInv(modbus) /\ [ModbusStep]_modbusVars => ShuntInv(modbus')
<1> SUFFICES ASSUME ShuntInv(modbus), [ModbusStep]_modbusVars PROVE ShuntInv(modbus')
  OBVIOUS
<1>1. CASE ModbusRead
  <2>1. PICK n \in IF modbus.wire = <<>> THEN {0} ELSE 0 .. Pieces,
             answer \in Kinds \cup {NoAnswer} :
          \E luckyCrc \in {FALSE, modbus.got + n = 2} :
            modbus' = ShuntRead(ShuntRead(ReadResponse(modbus, n, luckyCrc, answer),
                                          "service", answer), "engine", answer)
    BY <1>1 DEF ModbusRead
  <2>2. PICK luckyCrc \in BOOLEAN :
            modbus' = ShuntRead(ShuntRead(ReadResponse(modbus, n, luckyCrc, answer),
                                          "service", answer), "engine", answer)
    BY <2>1
  <2> DEFINE taken == ReadResponse(modbus, n, luckyCrc, answer)
             demanded == ShuntRead(taken, "service", answer)
  <2>3. ShuntInv(taken)
    BY ReadResponseKeeps DEF Pieces
  <2> HIDE DEF taken
  <2>4. ShuntInv(demanded)
    BY <2>3, ShuntReadKeeps DEF Shunts
  <2> HIDE DEF demanded
  <2>5. ShuntInv(ShuntRead(demanded, "engine", answer))
    BY <2>4, ShuntReadKeeps DEF Shunts
  <2>6. QED
    BY <2>2, <2>5 DEF demanded, taken
<1>2. CASE ModbusReadStats
  <2>1. PICK answer \in Kinds \cup {NoAnswer} :
          modbus' = ShuntStats(ShuntStats(modbus, "service", answer), "engine", answer)
    BY <1>2 DEF ModbusReadStats
  <2> DEFINE demanded == ShuntStats(modbus, "service", answer)
  <2>2. ShuntInv(demanded)
    BY ShuntReadKeeps DEF Shunts
  <2> HIDE DEF demanded
  <2>3. ShuntInv(ShuntStats(demanded, "engine", answer))
    BY <2>2, ShuntReadKeeps DEF Shunts
  <2>4. QED
    BY <2>1, <2>3 DEF demanded
<1>3. CASE ModbusTick
  BY <1>3, TickKeeps
<1>4. CASE UNCHANGED modbusVars
  BY <1>4 DEF modbusVars
<1>5. QED
  BY <1>1, <1>2, <1>3, <1>4 DEF ModbusStep

\* At first nothing is shown, asked for or under way.
LEMMA ShuntsInitially == ModbusInit => ShuntInv(modbus)
<1> SUFFICES ASSUME ModbusInit PROVE ShuntInv(modbus)
  OBVIOUS
<1>1. modbus \in ModbusStates
  BY DEF ModbusInit, ModbusStates, ShuntStates, Values, Units, Whats, Shunts, MasterStates,
         Unread, Registers
<1>2. modbus.wire = <<>> /\ modbus.state = "idle"
      /\ \A shunt \in Shunts : ~Read(modbus.shunts[shunt].shown)
  BY DEF ModbusInit, Read, Registers
<1>3. QED
  BY <1>1, <1>2 DEF ShuntInv, OwnValues, WireAsAsked

\* What the invariant says of the shunts is what is shown and sent.
LEMMA ShuntInvHolds == ShuntInv(modbus) => ShuntsTruthful
BY DEF ShuntInv, OwnValues, OwnVoltage, Read, Knows, ShuntsTruthful, DcStatus, Enabled

----------------------------------------------------------------------------
(* The HTTP server. *)

\* What AnswersTrue says of the answers to a request r and of what was done, with the files
\* there are then and CAN open or not; and what it says of an upload, mounted or not.
TrueAnswers(r, answers, did, inFlash, open) ==
  LET silent == \/ r.route = "GET:/*" /\ r.arg \notin inFlash
                \/ r.route = "POST:/api/fs.json" /\ r.arg = "unknown"
      code   == answers[1].code
      ok     == Len(answers) = 1 /\ code = 200
  IN  /\ Len(answers) = 1 \/ (answers = <<>> /\ silent)
      /\ did \notin {"nothing", "written"} => ok /\ r.admin
      /\ did = "deleted" => r.arg \notin inFlash /\ r.arg # "/config.txt"
      /\ ok /\ r.route = "POST:/api/seasmart" => did = "sent" \/ ~open
      /\ ok /\ (r.route = "GET:/config.txt" \/ isProtectedPath(r.arg)) => r.admin
      /\ r.origin => \A i \in DOMAIN answers :
                        answers[i].cors \/ (r.route = "GET:/config.txt" /\ r.admin)

TrueUpload(r, answers, inFlash, inPlace) ==
  r.route = "POST:/api/fs.json?upload" /\ answers[1].code \in {200, 201} =>
    r.admin /\ (r.arg \in inFlash \/ ~inPlace)

\* The former of an outcome, which may have removed the file
TrueOutcome(r, outcome) ==
  TrueAnswers(r, outcome.answers, outcome.did,
              IF outcome.did = "deleted" THEN webFiles \ {r.arg} ELSE webFiles, busOpen)

\* What a request may ask for, by its route.
LEMMA RequestForms ==
  ASSUME NEW r \in WebRequests
  PROVE  /\ r.admin \in BOOLEAN /\ r.origin \in BOOLEAN
         /\ \/ r.route \in PlainRoutes /\ r.arg = Absent
            \/ r.route = "GET:/api/layout.json" /\ r.arg \in {Absent, "invalid", "/layout-a.json"}
            \/ r.route = "GET:/*"
            \/ /\ r.route = "POST:/api/seasmart"
               /\ r.arg \in {Absent, "malformed", "denied", "allowed"}
            \/ r.route = "POST:/api/fs.json" /\ r.arg \in {Absent, "unknown"}
            \/ r.route = "POST:/api/fs.json?delete"
            \/ r.route = "POST:/api/fs.json?upload"
<1> DEFINE plain == UNION {WebRequest(route, {Absent}) : route \in PlainRoutes}
           layouts ==
             WebRequest("GET:/api/layout.json", {Absent, "invalid", "/layout-a.json"})
           pages == WebRequest("GET:/*", WebPaths \ {"/config.txt", NotAbsolute})
           messages ==
             WebRequest("POST:/api/seasmart", {Absent, "malformed", "denied", "allowed"})
           operations == WebRequest("POST:/api/fs.json", {Absent, "unknown"})
           deletions == WebRequest("POST:/api/fs.json?delete", WebPaths \cup {Absent})
           sendings == WebRequest("POST:/api/fs.json?upload", WebPaths \cup {Absent})
<1>0. WebRequests =
        plain \cup layouts \cup pages \cup messages \cup operations \cup deletions \cup sendings
  BY DEF WebRequests
<1> HIDE DEF plain, layouts, pages, messages, operations, deletions, sendings
<1>1. \/ r \in plain \/ r \in layouts \/ r \in pages \/ r \in messages \/ r \in operations
      \/ r \in deletions \/ r \in sendings
  BY <1>0
<1>2. \A route, args :
        r \in WebRequest(route, args) =>
          r.route = route /\ r.arg \in args /\ r.admin \in BOOLEAN /\ r.origin \in BOOLEAN
  BY DEF WebRequest
<1>3. CASE r \in plain
  <2>1. PICK route \in PlainRoutes : r \in WebRequest(route, {Absent})
    BY <1>3, Zenon DEF plain
  <2>2. QED
    BY <1>2, <2>1
<1>4. CASE r \in layouts
  BY <1>2, <1>4 DEF layouts
<1>5. CASE r \in pages
  BY <1>2, <1>5 DEF pages
<1>6. CASE r \in messages
  BY <1>2, <1>6 DEF messages
<1>7. CASE r \in operations
  BY <1>2, <1>7 DEF operations
<1>8. CASE r \in deletions
  BY <1>2, <1>8 DEF deletions
<1>9. CASE r \in sendings
  BY <1>2, <1>9 DEF sendings
<1>10. QED
  BY <1>1, <1>3, <1>4, <1>5, <1>6, <1>7, <1>8, <1>9

\* One answer is true if it is given for what was done, to whom it may be given.
LEMMA OneAnswerIsTrue ==
  ASSUME NEW r, NEW code, NEW cors, NEW did, NEW inFlash, NEW open,
         did \notin {"nothing", "written"} => code = 200 /\ r.admin,
         did = "deleted" => r.arg \notin inFlash /\ r.arg # "/config.txt",
         code = 200 /\ r.route = "POST:/api/seasmart" => did = "sent" \/ ~open,
         code = 200 /\ (r.route = "GET:/config.txt" \/ isProtectedPath(r.arg)) => r.admin,
         r.origin => cors \/ (r.route = "GET:/config.txt" /\ r.admin)
  PROVE  TrueAnswers(r, <<[code |-> code, cors |-> cors]>>, did, inFlash, open)
<1> DEFINE answers == <<[code |-> code, cors |-> cors]>>
<1>1. Len(answers) = 1 /\ DOMAIN answers = {1} /\ answers[1].code = code /\ answers[1].cors = cors
  OBVIOUS
<1> HIDE DEF answers
<1>2. TrueAnswers(r, answers, did, inFlash, open)
  BY <1>1 DEF TrueAnswers
<1>3. QED
  BY <1>2 DEF answers

\* No answer is true where there is none.
LEMMA SilenceIsTrue ==
  ASSUME NEW r, \/ r.route = "GET:/*" /\ r.arg \notin webFiles
                \/ r.route = "POST:/api/fs.json" /\ r.arg = "unknown"
  PROVE  TrueOutcome(r, Silence)
<1>1. Silence.answers = <<>> /\ Silence.did = "nothing" /\ Len(<<>>) = 0 /\ DOMAIN <<>> = {}
  BY DEF Silence
<1>2. QED
  BY <1>1 DEF TrueOutcome, TrueAnswers

\* An answer alone is true if it does not give away what is protected.
LEMMA JustIsTrue ==
  ASSUME NEW r, NEW code,
         code = 200 => /\ r.route # "POST:/api/seasmart"
                       /\ r.admin \/ (r.route # "GET:/config.txt" /\ ~isProtectedPath(r.arg))
  PROVE  TrueOutcome(r, Just(Send(r, code)))
<1>1. Just(Send(r, code)).answers = <<[code |-> code, cors |-> r.origin]>>
      /\ Just(Send(r, code)).did = "nothing"
  BY DEF Just, Send
<1>2. TrueAnswers(r, <<[code |-> code, cors |-> r.origin]>>, "nothing", webFiles, busOpen)
  BY OneAnswerIsTrue
<1>3. QED
  BY <1>1, <1>2 DEF TrueOutcome

\* So is what an administrator may ask for, and the 401 to anybody else.
LEMMA GatedIsTrue ==
  ASSUME NEW r, NEW outcome, r.admin => TrueOutcome(r, outcome)
  PROVE  TrueOutcome(r, Gated(r, outcome))
<1>1. TrueOutcome(r, Just(Send(r, 401)))
  BY JustIsTrue
<1>2. QED
  BY <1>1 DEF Gated

\* So is what an administrator has done.
LEMMA DoneIsTrue ==
  ASSUME NEW r, NEW did, r.admin, did # "nothing",
         did = "deleted" => r.arg # "/config.txt",
         r.route = "POST:/api/seasmart" => did = "sent" \/ ~busOpen
  PROVE  TrueOutcome(r, Done(Send(r, 200), did))
<1> DEFINE inFlash == IF did = "deleted" THEN webFiles \ {r.arg} ELSE webFiles
<1>1. Done(Send(r, 200), did).answers = <<[code |-> 200, cors |-> r.origin]>>
      /\ Done(Send(r, 200), did).did = did
  BY DEF Done, Send
<1>2. did = "deleted" => r.arg \notin inFlash
  OBVIOUS
<1> HIDE DEF inFlash
<1>3. TrueAnswers(r, <<[code |-> 200, cors |-> r.origin]>>, did, inFlash, busOpen)
  BY <1>2, OneAnswerIsTrue
<1>4. QED
  BY <1>1, <1>3 DEF TrueOutcome, inFlash

\* POST of a message to the bus
LEMMA PostSeasmartIsTrue ==
  ASSUME NEW r, r.route = "POST:/api/seasmart", r.arg \in {Absent, "malformed", "denied", "allowed"}
  PROVE  TrueOutcome(r, PostSeasmart(r))
<1> DEFINE code == HandleSeasmartMsg(r.arg)
           did == IF code = 200 /\ busOpen THEN "sent" ELSE "nothing"
           outcome == IF r.arg = Absent THEN Just(Send(r, 404)) ELSE Done(Send(r, code), did)
<1>1. TrueOutcome(r, Just(Send(r, 404)))
  BY JustIsTrue
<1>2. ASSUME r.admin PROVE TrueOutcome(r, Done(Send(r, code), did))
  <2>1. Done(Send(r, code), did).answers = <<[code |-> code, cors |-> r.origin]>>
        /\ Done(Send(r, code), did).did = did
    BY DEF Done, Send
  <2>2. did # "nothing" => code = 200
    OBVIOUS
  <2>3. did # "deleted" /\ (code = 200 => did = "sent" \/ ~busOpen)
    OBVIOUS
  <2> HIDE DEF did, code
  <2>4. TrueAnswers(r, <<[code |-> code, cors |-> r.origin]>>, did, webFiles, busOpen)
    BY <1>2, <2>2, <2>3, OneAnswerIsTrue
  <2>5. QED
    BY <2>1, <2>3, <2>4 DEF TrueOutcome
<1> HIDE DEF did, code
<1>3. r.admin => TrueOutcome(r, outcome)
  BY <1>1, <1>2
<1>4. PostSeasmart(r) = Gated(r, outcome)
  BY DEF PostSeasmart, code, did
<1> HIDE DEF outcome
<1>5. QED
  BY <1>3, <1>4, GatedIsTrue

\* POST of an operation on the files
LEMMA PostFsIsTrue ==
  ASSUME NEW r, NEW kept \in {200, 201, 400, 500}, r.route \in FsRoutes,
         r.route = "POST:/api/fs.json" => r.arg \in {Absent, "unknown"}
  PROVE  TrueOutcome(r, PostFs(r, kept))
<1> DEFINE outcome ==
             CASE r.route = "POST:/api/fs.json?delete" -> DeleteFile(r)
               [] r.route = "POST:/api/fs.json?upload" -> AnswerUpload(r, kept)
               [] OTHER -> IF r.arg = Absent THEN Just(Send(r, 400)) ELSE Silence
<1>1. \A code \in {200, 201, 400, 404, 500} : r.admin => TrueOutcome(r, Just(Send(r, code)))
  BY JustIsTrue DEF FsRoutes
<1>2. ASSUME r.admin, r.route = "POST:/api/fs.json?delete" PROVE TrueOutcome(r, outcome)
  <2>1. outcome = DeleteFile(r)
    BY <1>2
  <2>2. isSafeWritablePath(r.arg) => TrueOutcome(r, Done(Send(r, 200), "deleted"))
    BY <1>2, DoneIsTrue DEF isSafeWritablePath
  <2>3. QED
    BY <1>1, <1>2, <2>1, <2>2 DEF DeleteFile
<1>3. ASSUME r.admin, r.route = "POST:/api/fs.json?upload" PROVE TrueOutcome(r, outcome)
  <2>1. outcome = AnswerUpload(r, kept)
    BY <1>3
  <2>2. QED
    BY <1>1, <1>3, <2>1 DEF AnswerUpload
<1>4. ASSUME r.admin, r.route = "POST:/api/fs.json" PROVE TrueOutcome(r, outcome)
  <2>1. outcome = IF r.arg = Absent THEN Just(Send(r, 400)) ELSE Silence
    BY <1>4
  <2>2. r.arg # Absent => TrueOutcome(r, Silence)
    BY <1>4, SilenceIsTrue
  <2>3. QED
    BY <1>1, <1>4, <2>1, <2>2
<1>5. r.admin => TrueOutcome(r, outcome)
  BY <1>2, <1>3, <1>4 DEF FsRoutes
<1>6. PostFs(r, kept) = Gated(r, outcome)
  BY DEF PostFs
<1> HIDE DEF outcome
<1>7. QED
  BY <1>5, <1>6, GatedIsTrue

\* GET of the configuration, and of a page
LEMMA GetConfigIsTrue ==
  ASSUME NEW r, r.route = "GET:/config.txt"
  PROVE  TrueOutcome(r, GetConfig(r))
<1> DEFINE code == IF "/config.txt" \in webFiles THEN 200 ELSE 404
           outcome == Just(SendBare(code))
<1>1. outcome.answers = <<[code |-> code, cors |-> FALSE]>> /\ outcome.did = "nothing"
  BY DEF Just, SendBare
<1>2. GetConfig(r) = Gated(r, outcome)
  BY DEF GetConfig
<1> HIDE DEF code, outcome
<1>3. r.admin => TrueAnswers(r, <<[code |-> code, cors |-> FALSE]>>, "nothing", webFiles, busOpen)
  BY OneAnswerIsTrue
<1>4. r.admin => TrueOutcome(r, outcome)
  BY <1>1, <1>3 DEF TrueOutcome
<1>5. QED
  BY <1>2, <1>4, GatedIsTrue

LEMMA GetPageIsTrue ==
  ASSUME NEW r, r.route = "GET:/*"
  PROVE  TrueOutcome(r, GetPage(r))
<1> DEFINE body == IF r.arg \in webFiles THEN Just(Send(r, 200)) ELSE Silence
<1>1. r.admin \/ ~isProtectedPath(r.arg) => TrueOutcome(r, body)
  BY JustIsTrue, SilenceIsTrue
<1>2. GetPage(r) = IF isProtectedPath(r.arg) THEN Gated(r, body) ELSE body
  BY DEF GetPage
<1> HIDE DEF body
<1>3. QED
  BY <1>1, <1>2, GatedIsTrue

\* Whatever route it comes by.
LEMMA HandledIsTrue ==
  ASSUME NEW r \in WebRequests, NEW kept \in {200, 201, 400, 500}
  PROVE  TrueOutcome(r, Handled(r, kept))
<1> USE RequestForms
<1>1. CASE r.route \in PlainRoutes
  <2>1. r.arg = Absent /\ ~isProtectedPath(r.arg)
    BY <1>1 DEF PlainRoutes, StreamRoutes, TextRoutes, StatusRoutes, isProtectedPath, Absent,
                Climbing
  <2>2. r.route # "GET:/config.txt" =>
          TrueOutcome(r, Just(Send(r, 200))) /\ TrueOutcome(r, Just(Send(r, 404)))
    BY <1>1, <2>1, JustIsTrue DEF PlainRoutes, StreamRoutes, TextRoutes, StatusRoutes
  <2>3. r.route # "GET:/config.txt" =>
          /\ TrueOutcome(r, Gated(r, Just(Send(r, 200))))
          /\ TrueOutcome(r, Gated(r, Just(Send(r, 404))))
    BY <2>2, GatedIsTrue
  <2>4. r.route = "POST:/api/reboot.json" => TrueOutcome(r, Reboot(r))
    BY DoneIsTrue, GatedIsTrue DEF Reboot
  <2>5. r.route = "GET:/config.txt" => TrueOutcome(r, GetConfig(r))
    BY GetConfigIsTrue
  <2>6. Handled(r, kept) \in
          IF r.route = "GET:/config.txt" THEN {GetConfig(r)}
          ELSE IF r.route = "POST:/api/reboot.json" THEN {Reboot(r)}
          ELSE {Just(Send(r, 200)), Just(Send(r, 404)),
                Gated(r, Just(Send(r, 200))), Gated(r, Just(Send(r, 404)))}
    BY <1>1 DEF Handled, PlainRoutes, StreamRoutes, TextRoutes, StatusRoutes, FsRoutes,
                GetText, GetLogin, GetStatus, ListLayouts, ListFiles, NotFound
  <2>7. QED
    BY <2>2, <2>3, <2>4, <2>5, <2>6
<1>2. CASE r.route = "GET:/api/layout.json"
  <2>1. Handled(r, kept) = GetLayout(r)
    BY <1>2 DEF Handled, StreamRoutes, TextRoutes, StatusRoutes, FsRoutes
  <2>2. r.arg \in {Absent, "invalid", "/layout-a.json"}
    BY <1>2 DEF PlainRoutes, StreamRoutes, TextRoutes, StatusRoutes
  <2>3. ~isProtectedPath(r.arg)
    BY <2>2 DEF isProtectedPath, Absent, Climbing
  <2>4. \A code \in {200, 400, 404} : TrueOutcome(r, Just(Send(r, code)))
    BY <1>2, <2>3, JustIsTrue
  <2>5. QED
    BY <2>1, <2>4 DEF GetLayout
<1>3. CASE r.route = "GET:/*"
  <2>1. Handled(r, kept) = GetPage(r)
    BY <1>3 DEF Handled, StreamRoutes, TextRoutes, StatusRoutes, FsRoutes
  <2>2. QED
    BY <1>3, <2>1, GetPageIsTrue
<1>4. CASE r.route = "POST:/api/seasmart"
  <2>1. Handled(r, kept) = PostSeasmart(r)
    BY <1>4 DEF Handled, StreamRoutes, TextRoutes, StatusRoutes, FsRoutes
  <2>2. r.arg \in {Absent, "malformed", "denied", "allowed"}
    BY <1>4 DEF PlainRoutes, StreamRoutes, TextRoutes, StatusRoutes
  <2>3. QED
    BY <1>4, <2>1, <2>2, PostSeasmartIsTrue
<1>5. CASE r.route \in FsRoutes
  <2>1. Handled(r, kept) = PostFs(r, kept)
    BY <1>5 DEF Handled, StreamRoutes, TextRoutes, StatusRoutes, FsRoutes
  <2>2. r.route = "POST:/api/fs.json" => r.arg \in {Absent, "unknown"}
    BY DEF PlainRoutes, StreamRoutes, TextRoutes, StatusRoutes
  <2>3. QED
    BY <1>5, <2>1, <2>2, PostFsIsTrue
<1>6. QED
  BY <1>1, <1>2, <1>3, <1>4, <1>5 DEF FsRoutes

\* No handler says of itself that it has written a file.
LEMMA HandledWritesNothing ==
  ASSUME NEW r \in WebRequests, NEW kept
  PROVE  Handled(r, kept).did # "written"
<1>1. \A answer, what : /\ Just(answer).did = "nothing" /\ Silence.did = "nothing"
                        /\ Done(answer, what).did = what
  BY DEF Just, Silence, Done
<1>2. \A outcome : outcome.did # "written" => Gated(r, outcome).did # "written"
  BY <1>1 DEF Gated
<1>3. PostSeasmart(r).did # "written"
  BY <1>1, <1>2 DEF PostSeasmart
<1>4. DeleteFile(r).did # "written"
  BY <1>1 DEF DeleteFile
<1>5. PostFs(r, kept).did # "written"
  BY <1>1, <1>2, <1>4 DEF PostFs, AnswerUpload
<1>6. GetLayout(r).did # "written" /\ NotFound(r).did # "written" /\ GetText(r).did # "written"
  BY <1>1 DEF GetLayout, NotFound, GetText
<1>7. /\ GetLogin(r).did # "written" /\ GetStatus(r).did # "written"
      /\ ListFiles(r).did # "written" /\ ListLayouts(r).did # "written"
  BY <1>1, <1>2 DEF GetLogin, GetStatus, ListFiles, ListLayouts
<1>8. Reboot(r).did # "written" /\ GetConfig(r).did # "written"
  BY <1>1, <1>2 DEF Reboot, GetConfig
<1>9. GetPage(r).did # "written"
  BY <1>1, <1>2 DEF GetPage
<1>10. QED
  BY <1>3, <1>5, <1>6, <1>7, <1>8, <1>9 DEF Handled

\* An upload is answered with success only to the administrator, and if its path was good: the
\* file is there if it could be opened.
LEMMA UploadIsTrue ==
  ASSUME NEW r \in WebRequests, NEW kept \in KeptCodes(r), NEW inFlash,
         WritesFile(r) => r.arg \in inFlash
  PROVE  TrueUpload(r, Handled(r, kept).answers, inFlash, mounted)
<1> SUFFICES ASSUME r.route = "POST:/api/fs.json?upload",
                    Handled(r, kept).answers[1].code \in {200, 201}
             PROVE  r.admin /\ (r.arg \in inFlash \/ ~mounted)
  BY DEF TrueUpload
<1>1. Handled(r, kept) = Gated(r, AnswerUpload(r, kept))
  BY DEF Handled, PostFs, StreamRoutes, TextRoutes, StatusRoutes, FsRoutes
<1>2. \A code : Just(Send(r, code)).answers[1].code = code
  BY DEF Just, Send
<1>3. r.admin /\ kept \in {200, 201}
  BY <1>1, <1>2 DEF Gated, AnswerUpload
<1>4. Uploading(r)
  BY <1>3 DEF KeptCodes
<1>5. QED
  BY <1>3, <1>4 DEF WritesFile

\* What is true of an upload's answer stays so when its file has been written.
LEMMA WrittenIsTrue ==
  ASSUME NEW r, NEW outcome, NEW inFlash,
         r.route = "POST:/api/fs.json?upload", TrueOutcome(r, outcome)
  PROVE  TrueAnswers(r, outcome.answers, "written", inFlash, busOpen)
BY DEF TrueOutcome, TrueAnswers

\* What is served is answered truly, and what happens elsewhere serves nobody.
LEMMA AnswersInvariant == AnswersTrue /\ [WebStep]_webVars => AnswersTrue'
<1> SUFFICES ASSUME AnswersTrue, [WebStep]_webVars PROVE AnswersTrue'
  OBVIOUS
<1>1. CASE Elsewhere
  BY <1>1 DEF Elsewhere, AnswersTrue
<1>2. ASSUME NEW r \in WebRequests, Serve(r) PROVE AnswersTrue'
  <2>0. PICK kept \in KeptCodes(r) :
          LET outcome == Handled(r, kept)
              did     == IF WritesFile(r) THEN "written" ELSE outcome.did
          IN  /\ served' = [request |-> r, answers |-> outcome.answers, did |-> did]
              /\ webFiles' = CASE did = "deleted" -> webFiles \ {r.arg}
                               [] did = "written" -> webFiles \cup {r.arg}
                               [] OTHER           -> webFiles
    BY <1>2, Zenon DEF Serve
  <2> DEFINE outcome == Handled(r, kept)
             did     == IF WritesFile(r) THEN "written" ELSE outcome.did
  <2>1. TrueOutcome(r, outcome)
    BY HandledIsTrue DEF KeptCodes
  <2>2. /\ served' = [request |-> r, answers |-> outcome.answers, did |-> did]
        /\ webFiles' = CASE did = "deleted" -> webFiles \ {r.arg}
                         [] did = "written" -> webFiles \cup {r.arg}
                         [] OTHER           -> webFiles
        /\ busOpen' = busOpen /\ mounted' = mounted
    BY <1>2, <2>0 DEF Serve
  <2>3. /\ WritesFile(r) => did = "written"
        /\ ~WritesFile(r) => did = outcome.did /\ did # "written"
    BY HandledWritesNothing
  <2>4. TrueUpload(r, outcome.answers, webFiles', mounted')
    BY <2>2, <2>3, UploadIsTrue
  <2> HIDE DEF outcome, did
  <2>5. ASSUME WritesFile(r)
        PROVE  TrueAnswers(r, outcome.answers, did, webFiles', busOpen')
    <3>1. r.route = "POST:/api/fs.json?upload"
      BY <2>5 DEF WritesFile, Uploading
    <3>2. did = "written" /\ webFiles' = webFiles \cup {r.arg}
      BY <2>2, <2>3, <2>5
    <3>3. QED
      BY <2>1, <2>2, <3>1, <3>2, WrittenIsTrue
  <2>6. ASSUME ~WritesFile(r)
        PROVE  TrueAnswers(r, outcome.answers, did, webFiles', busOpen')
    <3>1. webFiles' = IF outcome.did = "deleted" THEN webFiles \ {r.arg} ELSE webFiles
      BY <2>2, <2>3, <2>6
    <3>2. TrueAnswers(r, outcome.answers, did, webFiles', busOpen')
      BY <2>1, <2>2, <2>3, <2>6, <3>1 DEF TrueOutcome
    <3>3. QED
      BY <3>2
  <2>7. TrueAnswers(r, outcome.answers, did, webFiles', busOpen')
    BY <2>5, <2>6
  <2>8. served'.request = r /\ served'.answers = outcome.answers /\ served'.did = did
    BY <2>2
  <2>9. /\ TrueAnswers(served'.request, served'.answers, served'.did, webFiles', busOpen')
        /\ TrueUpload(served'.request, served'.answers, webFiles', mounted')
    BY <2>4, <2>7, <2>8
  <2>10. QED
    BY <2>9, Zenon DEF AnswersTrue, TrueAnswers, TrueUpload
<1>3. CASE UNCHANGED webVars
  BY <1>3 DEF webVars, AnswersTrue
<1>4. QED
  BY <1>1, <1>2, <1>3 DEF WebStep

\* At first nobody has been served.
LEMMA AnswersInitially == WebInit => AnswersTrue
BY DEF WebInit, AnswersTrue

----------------------------------------------------------------------------
(* The archive. *)

OfInstance == {"engine", "fluidLevel", "dcBattery"}
SlotStates ==
  [source : CollectorSources \cup {NoOne}, instance : Instances \cup Nat, age : 0 .. Never,
   said : [MessageParts -> Instances \cup {NoOne}]]
HeardStates == [age : [Tables -> 0 .. Never], taken : BOOLEAN, periods : SUBSET Nat]
HistoryStates ==
  [history : [0 .. HistoryLength - 1 -> SUBSET Nat], currentSlot : -1 .. HistoryLength - 1,
   pmean : SUBSET Nat, period : Nat]
SlotsOf(table) == 1 .. MaxSources[table]

WantedOK ==
  /\ wanted.tables \in {{table} : table \in Tables} \cup {{"possition", "gnss"}}
  /\ wanted.instance \in Instances
StoreOK ==
  /\ store = [table \in Tables |-> store[table]]
  /\ \A table \in Tables : store[table] \in [SlotsOf(table) -> SlotStates]

\* Slot i of a table, if it is in use: by index it keeps its number, and until one is taken
\* over what it was told is of its instance.
SlotInv(table, i) ==
  LET slot == store[table][i]
  IN  IF slot.source = NoOne THEN slot = FreeSlot
      ELSE /\ table \in ByIndex => slot.instance = i
           /\ table \in ByInstance => slot.instance \in Instances
           /\ table \in ByInstance /\ ~heardOf.taken =>
                \A part \in MessageParts : slot.said[part] \in {NoOne, slot.instance}

\* A slot holds a message as young as the last one.
Holds(table, i) ==
  /\ store[table][i].source # NoOne /\ store[table][i].age <= heardOf.age[table]
  /\ table \in OfInstance => store[table][i].instance = wanted.instance \/ heardOf.taken
TableInv(table) == heardOf.age[table] = Never \/ \E i \in SlotsOf(table) : Holds(table, i)

\* Who is turned away finds no slot that is old or its own.
LostInv ==
  lost # <<>> =>
    \E table \in Tables, source \in CollectorSources :
      /\ lost = <<table, source>>
      /\ \A i \in SlotsOf(table) :
           /\ store[table][i].age <= StaleAfter
           /\ table \in ByIndex => store[table][i].source # source

\* The entries of the history are of periods that have the same place.
HistoryInv ==
  /\ heardOf.periods \subseteq 0 .. pressureLog.period
  /\ \A place \in 0 .. HistoryLength - 1 :
       \A term \in pressureLog.history[place] :
         term % HistoryLength = place /\ term <= pressureLog.period
  /\ pressureLog.currentSlot # -1 =>
       pressureLog.pmean = pressureLog.history[pressureLog.currentSlot]
  /\ \A term \in heardOf.periods :
       term > pressureLog.period - HistoryLength =>
         term \in pressureLog.history[term % HistoryLength]

CollectorInv ==
  /\ WantedOK /\ StoreOK
  /\ heardOf \in HeardStates /\ pressureLog \in HistoryStates
  /\ \A table \in Tables : TableInv(table) /\ \A i \in SlotsOf(table) : SlotInv(table, i)
  /\ LostInv /\ HistoryInv

\* Which tables there are, as far as it matters.
LEMMA TableNames ==
  /\ Tables = ByIndex \cup ByInstance /\ ByIndex \cap ByInstance = {}
  /\ OfInstance \subseteq ByInstance /\ "pressure" \in ByInstance
  /\ "pressure" \notin OfInstance
  /\ "possition" \in ByIndex /\ "gnss" \in ByIndex
BY DEF Tables, ByIndex, ByInstance, OfInstance

LEMMA CollectorNumbers ==
  /\ Never \in Nat /\ StaleAfter \in Nat /\ Never = StaleAfter + 1 /\ 0 \in 0 .. Never
  /\ NoOne \in Nat /\ NoOne \notin CollectorSources /\ NoOne \notin Instances
  /\ HistoryLength \in Nat \ {0}
  /\ \A table \in Tables : MaxSources[table] \in Nat /\ MaxSources[table] \in 1 .. 254
BY CollectorAssumption DEF Never, NoOne

LEMMA FreeSlotIsOne ==
  /\ FreeSlot \in SlotStates /\ FreeSlot.source = NoOne /\ FreeSlot.age = Never
  /\ \A part \in MessageParts : FreeSlot.said[part] = NoOne
BY CollectorNumbers DEF FreeSlot, SlotStates

LEMMA SlotFields ==
  ASSUME NEW slot \in SlotStates
  PROVE  /\ slot.source \in CollectorSources \cup {NoOne} /\ slot.instance \in Instances \cup Nat
         /\ slot.age \in 0 .. Never /\ slot.said \in [MessageParts -> Instances \cup {NoOne}]
BY DEF SlotStates

\* A slot after a message
SlotSaved(slot, table, i, parts, source, instance) ==
  [Used(slot, source, KeyIn(table, i, instance)) EXCEPT
     !.said = [part \in MessageParts |-> IF part \in parts THEN instance ELSE @[part]]]

LEMMA SlotIsSaved ==
  ASSUME NEW table \in Tables, NEW i \in SlotsOf(table), NEW parts, NEW source \in CollectorSources,
         NEW instance \in Instances \cup {NoOne}, table \in ByInstance => instance \in Instances,
         NEW slot \in SlotStates
  PROVE  LET new == SlotSaved(slot, table, i, parts, source, instance)
         IN  /\ new \in SlotStates /\ new.source = source /\ new.age = 0
             /\ new.instance = IF slot.source = NoOne THEN KeyIn(table, i, instance)
                               ELSE slot.instance
             /\ \A part \in MessageParts : new.said[part] \in {instance, slot.said[part]}
<1> DEFINE key == KeyIn(table, i, instance)
           used == Used(slot, source, key)
           told == [part \in MessageParts |-> IF part \in parts THEN instance ELSE used.said[part]]
           new == [used EXCEPT !.said = told]
<1>1. key \in Instances \cup Nat
  BY TableNames, CollectorNumbers DEF KeyIn, SlotsOf
<1> HIDE DEF key
<1>2. /\ used \in SlotStates /\ used.source = source /\ used.age = 0 /\ used.said = slot.said
      /\ used.instance = IF slot.source = NoOne THEN key ELSE slot.instance
  <2> DEFINE ours == [slot EXCEPT !.source = source]
             named == [ours EXCEPT !.instance = key]
  <2>1. /\ ours \in SlotStates /\ ours.source = source /\ ours.said = slot.said
        /\ ours.instance = slot.instance
    BY DEF SlotStates
  <2> HIDE DEF ours
  <2>2. /\ named \in SlotStates /\ named.source = source /\ named.said = slot.said
        /\ named.instance = key
    BY <1>1, <2>1 DEF SlotStates
  <2> HIDE DEF named
  <2>3. \A any \in SlotStates :
          LET young == [any EXCEPT !.age = 0]
          IN  /\ young \in SlotStates /\ young.source = any.source /\ young.age = 0
              /\ young.said = any.said /\ young.instance = any.instance
    BY CollectorNumbers DEF SlotStates
  <2>4. used = IF slot.source = NoOne THEN [named EXCEPT !.age = 0] ELSE [ours EXCEPT !.age = 0]
    BY DEF Used, ours, named
  <2> HIDE DEF used
  <2>5. QED
    BY <2>1, <2>2, <2>3, <2>4
<1>3. told \in [MessageParts -> Instances \cup {NoOne}]
      /\ \A part \in MessageParts : told[part] \in {instance, slot.said[part]}
  BY <1>2, SlotFields
<1>4. SlotSaved(slot, table, i, parts, source, instance) = new
  BY DEF SlotSaved, used, key
<1> HIDE DEF used, told
<1>5. /\ new \in SlotStates /\ new.source = source /\ new.age = 0 /\ new.said = told
      /\ new.instance = IF slot.source = NoOne THEN key ELSE slot.instance
  BY <1>2, <1>3 DEF SlotStates
<1>6. QED
  BY <1>3, <1>4, <1>5 DEF key

\* What a message does to the slot that takes it, and to what is remembered of it
Saved(table, i, source, instance) ==
  LET old == store[table][i]
      new == store'[table][i]
  IN  /\ lost' = <<>> /\ StoreOK'
      /\ new.source = source /\ new.age = 0
      /\ new.instance = IF old.source = NoOne THEN KeyIn(table, i, instance) ELSE old.instance
      /\ \A part \in MessageParts : new.said[part] \in {instance, old.said[part]}
      /\ \A other \in Tables : \A j \in SlotsOf(other) :
           other # table \/ j # i => store'[other][j] = store[other][j]
      /\ heardOf' \in HeardStates
      /\ \A other \in Tables \ {table} : heardOf'.age[other] = heardOf.age[other]
      /\ heardOf'.age[table] =
           IF table \in ByIndex \/ instance = wanted.instance THEN 0 ELSE heardOf.age[table]
      /\ heardOf.taken => heardOf'.taken
      /\ ~heardOf'.taken /\ old.source # NoOne =>
           old.source = source /\ old.instance = KeyIn(table, i, instance)
      /\ heardOf'.periods = IF table = "pressure" THEN heardOf.periods \cup {pressureLog.period}
                            ELSE heardOf.periods

\* A message finds a slot or is turned away.
TurnedAway(table, source) ==
  /\ lost' = <<table, source>> /\ UNCHANGED <<store, heardOf>>
  /\ \A i \in SlotsOf(table) :
       /\ store[table][i].age <= StaleAfter
       /\ table \in ByIndex => store[table][i].source # source

LEMMA PlaceIsThere ==
  ASSUME CollectorInv, NEW table \in Tables, NEW source, NEW instance
  PROVE  \/ Place(table, source, instance) \in SlotsOf(table)
         \/ /\ Place(table, source, instance) = 0
            /\ \A i \in SlotsOf(table) :
                 /\ store[table][i].age <= StaleAfter
                 /\ table \in ByIndex => store[table][i].source # source
<1> DEFINE slots == store[table]
           mine == {i \in DOMAIN slots :
                      \/ slots[i].source = NoOne
                      \/ slots[i].source = source /\ slots[i].instance = KeyIn(table, i, instance)}
           old == {i \in DOMAIN slots : slots[i].age > StaleAfter}
<1>1. DOMAIN slots = SlotsOf(table) /\ \A i \in SlotsOf(table) : slots[i] \in SlotStates
  BY DEF CollectorInv, StoreOK
<1>2. mine \in SUBSET Nat /\ old \in SUBSET Nat
      /\ mine \subseteq SlotsOf(table) /\ old \subseteq SlotsOf(table)
  BY <1>1, CollectorNumbers DEF SlotsOf
<1>3. ASSUME NEW S \in SUBSET Nat, S # {} PROVE Min(S) \in S
  BY <1>3, LeastExists DEF Min
<1>4. Place(table, source, instance) =
        CASE mine # {} -> Min(mine) [] mine = {} /\ old # {} -> Min(old) [] OTHER -> 0
  BY DEF Place
<1>5. CASE mine # {} \/ old # {}
  <2> HIDE DEF mine, old
  <2>1. QED
    BY <1>2, <1>3, <1>4, <1>5
<1>6. CASE mine = {} /\ old = {}
  <2>1. Place(table, source, instance) = 0
    BY <1>4, <1>6
  <2>2. ASSUME NEW i \in SlotsOf(table)
        PROVE  slots[i].age <= StaleAfter /\ (table \in ByIndex => slots[i].source # source)
    <3>1. i \notin mine /\ i \notin old /\ slots[i].age \in 0 .. Never
      BY <1>1, <1>6, SlotFields
    <3>2. slots[i].age <= StaleAfter
      BY <1>1, <3>1, CollectorNumbers
    <3>3. slots[i].source # NoOne /\ SlotInv(table, i)
      BY <1>1, <3>1 DEF CollectorInv
    <3>4. table \in ByIndex => slots[i].instance = KeyIn(table, i, instance)
      BY <3>3 DEF SlotInv, KeyIn
    <3>5. QED
      BY <1>1, <3>1, <3>2, <3>4
  <2>3. QED
    BY <2>1, <2>2
<1>7. QED
  BY <1>5, <1>6

LEMMA SaveMoves ==
  ASSUME CollectorInv, NEW table \in Tables, NEW parts, NEW source \in CollectorSources,
         NEW instance \in Instances \cup {NoOne}, table \in ByInstance => instance \in Instances,
         Save(table, parts, source, instance)
  PROVE  \/ TurnedAway(table, source)
         \/ \E i \in SlotsOf(table) : Saved(table, i, source, instance)
<1> DEFINE i == Place(table, source, instance)
<1>0. 0 \notin SlotsOf(table)
  BY DEF SlotsOf
<1>1. CASE i = 0
  <2>1. \A j \in SlotsOf(table) :
          /\ store[table][j].age <= StaleAfter
          /\ table \in ByIndex => store[table][j].source # source
    BY <1>0, <1>1, PlaceIsThere
  <2>2. lost' = <<table, source>> /\ UNCHANGED <<store, heardOf>>
    BY <1>1 DEF Save
  <2>3. QED
    BY <2>1, <2>2 DEF TurnedAway
<1>2. CASE i # 0
  <2> DEFINE old == store[table][i]
             new == SlotSaved(old, table, i, parts, source, instance)
             key == KeyIn(table, i, instance)
  <2>1. i \in SlotsOf(table)
    BY <1>2, PlaceIsThere
  <2>2. /\ lost' = <<>> /\ store' = [store EXCEPT ![table][i] = new]
        /\ heardOf' = [heardOf EXCEPT
             !.age[table] = IF table \in ByIndex \/ instance = wanted.instance THEN 0 ELSE @,
             !.taken = @ \/ (old.source # NoOne /\ <<old.source, old.instance>> # <<source, key>>),
             !.periods = IF table = "pressure" THEN @ \cup {pressureLog.period} ELSE @]
    BY <1>2 DEF Save, SlotSaved
  <2> HIDE DEF i
  <2>3. old \in SlotStates /\ store[table] \in [SlotsOf(table) -> SlotStates]
    BY <2>1 DEF CollectorInv, StoreOK
  <2>4. /\ new \in SlotStates /\ new.source = source /\ new.age = 0
        /\ new.instance = IF old.source = NoOne THEN key ELSE old.instance
        /\ \A part \in MessageParts : new.said[part] \in {instance, old.said[part]}
    BY <2>1, <2>3, SlotIsSaved
  <2> HIDE DEF new, key
  <2>5. /\ StoreOK' /\ store'[table][i] = new
        /\ \A other \in Tables : \A j \in SlotsOf(other) :
             other # table \/ j # i => store'[other][j] = store[other][j]
    <3> DEFINE slots == [store[table] EXCEPT ![i] = new]
    <3>1. slots \in [SlotsOf(table) -> SlotStates] /\ slots[i] = new
          /\ \A j \in SlotsOf(table) : j # i => slots[j] = store[table][j]
      BY <2>1, <2>3, <2>4
    <3>2. store' = [store EXCEPT ![table] = slots]
      BY <2>2
    <3> HIDE DEF slots
    <3>3. store = [any \in Tables |-> store[any]]
          /\ \A any \in Tables : store[any] \in [SlotsOf(any) -> SlotStates]
      BY DEF CollectorInv, StoreOK
    <3>4. DOMAIN store = Tables
      BY <3>3
    <3>5. /\ store' = [any \in Tables |-> store'[any]] /\ store'[table] = slots
          /\ \A any \in Tables : any # table => store'[any] = store[any]
      BY <3>2, <3>3, <3>4
    <3>6. \A any \in Tables : store'[any] \in [SlotsOf(any) -> SlotStates]
      BY <3>1, <3>3, <3>5
    <3>7. QED
      BY <3>1, <3>5, <3>6 DEF StoreOK, SlotsOf
  <2>6. /\ heardOf' \in HeardStates
        /\ \A other \in Tables \ {table} : heardOf'.age[other] = heardOf.age[other]
        /\ heardOf'.age[table] =
             IF table \in ByIndex \/ instance = wanted.instance THEN 0 ELSE heardOf.age[table]
        /\ heardOf'.taken = (heardOf.taken \/
             (old.source # NoOne /\ <<old.source, old.instance>> # <<source, key>>))
        /\ heardOf'.periods = IF table = "pressure" THEN heardOf.periods \cup {pressureLog.period}
                              ELSE heardOf.periods
    <3> DEFINE age == IF table \in ByIndex \/ instance = wanted.instance THEN 0
                      ELSE heardOf.age[table]
               ages == [heardOf.age EXCEPT ![table] = age]
               took == heardOf.taken \/
                         (old.source # NoOne /\ <<old.source, old.instance>> # <<source, key>>)
               periods == IF table = "pressure" THEN heardOf.periods \cup {pressureLog.period}
                          ELSE heardOf.periods
    <3>1. /\ heardOf.age \in [Tables -> 0 .. Never] /\ heardOf.taken \in BOOLEAN
          /\ heardOf.periods \in SUBSET Nat /\ pressureLog.period \in Nat
          /\ heardOf = [age |-> heardOf.age, taken |-> heardOf.taken, periods |-> heardOf.periods]
      BY DEF CollectorInv, HeardStates, HistoryStates
    <3>2. age \in 0 .. Never
      BY <3>1, CollectorNumbers
    <3> HIDE DEF age
    <3>3. ages \in [Tables -> 0 .. Never] /\ ages[table] = age
          /\ \A other \in Tables \ {table} : ages[other] = heardOf.age[other]
      BY <3>1, <3>2
    <3>4. periods \in SUBSET Nat
      BY <3>1
    <3>5. took \in BOOLEAN
      BY <3>1
    <3>6. heardOf' = [age |-> ages, taken |-> took, periods |-> periods]
      BY <2>2, <3>1 DEF age
    <3> HIDE DEF ages, took, periods
    <3>7. heardOf' \in HeardStates
      BY <3>3, <3>4, <3>5, <3>6 DEF HeardStates
    <3>8. heardOf'.age = ages /\ heardOf'.taken = took /\ heardOf'.periods = periods
      BY <3>6
    <3>9. QED
      BY <3>3, <3>7, <3>8 DEF age, took, periods
  <2>7. <<old.source, old.instance>> = <<source, key>> =>
          old.source = source /\ old.instance = key
    OBVIOUS
  <2> HIDE DEF old
  <2>8. Saved(table, i, source, instance)
    BY <2>2, <2>4, <2>5, <2>6, <2>7 DEF Saved, old, key
  <2>9. QED
    BY <2>1, <2>8
<1>3. QED
  BY <1>1, <1>2

\* What CollectorInv says of the slots alone
SlotsInv ==
  /\ StoreOK /\ heardOf \in HeardStates
  /\ \A table \in Tables : TableInv(table) /\ \A i \in SlotsOf(table) : SlotInv(table, i)

\* The slot a message takes is a slot as it should be, and so are the others.
LEMMA SavedKeeps ==
  ASSUME CollectorInv, NEW table \in Tables, NEW i \in SlotsOf(table),
         NEW source \in CollectorSources, NEW instance \in Instances \cup {NoOne},
         table \in ByInstance => instance \in Instances,
         Saved(table, i, source, instance), wanted' = wanted
  PROVE  SlotsInv'
<1> DEFINE old == store[table][i]
           new == store'[table][i]
           key == KeyIn(table, i, instance)
<1>1. /\ StoreOK' /\ heardOf' \in HeardStates /\ heardOf \in HeardStates
      /\ new.source = source /\ new.age = 0
      /\ new.instance = IF old.source = NoOne THEN key ELSE old.instance
      /\ \A part \in MessageParts : new.said[part] \in {instance, old.said[part]}
      /\ heardOf.taken => heardOf'.taken
      /\ ~heardOf'.taken /\ old.source # NoOne => old.source = source /\ old.instance = key
      /\ heardOf'.age[table] =
           IF table \in ByIndex \/ instance = wanted.instance THEN 0 ELSE heardOf.age[table]
  BY DEF Saved, CollectorInv
<1>2. /\ \A other \in Tables : \A j \in SlotsOf(other) :
           other # table \/ j # i => store'[other][j] = store[other][j]
      /\ \A other \in Tables \ {table} : heardOf'.age[other] = heardOf.age[other]
  BY DEF Saved
<1>3. /\ \A other \in Tables : TableInv(other)
      /\ \A other \in Tables : \A j \in SlotsOf(other) : SlotInv(other, j)
  BY DEF CollectorInv
<1>4. /\ table \in ByIndex => key = i
      /\ table \in ByInstance => key = instance
  BY TableNames DEF KeyIn
<1>5. heardOf.taken \in BOOLEAN /\ heardOf'.taken \in BOOLEAN
      /\ heardOf.age \in [Tables -> 0 .. Never] /\ heardOf'.age \in [Tables -> 0 .. Never]
  BY <1>1 DEF HeardStates
<1>6. IF old.source = NoOne THEN old = FreeSlot
      ELSE /\ table \in ByIndex => old.instance = i
           /\ table \in ByInstance => old.instance \in Instances
           /\ table \in ByInstance /\ ~heardOf.taken =>
                \A part \in MessageParts : old.said[part] \in {NoOne, old.instance}
  BY <1>3 DEF SlotInv
<1> HIDE DEF key
<1>7. SlotInv(table, i)'
  <2>1. new.source # NoOne
    BY <1>1, CollectorNumbers
  <2>2. table \in ByIndex => new.instance = i
    BY <1>1, <1>4, <1>6
  <2>3. table \in ByInstance => new.instance \in Instances
    BY <1>1, <1>4, <1>6
  <2>4. ASSUME table \in ByInstance, ~heardOf'.taken, NEW part \in MessageParts
        PROVE  new.said[part] \in {NoOne, new.instance}
    <3>1. new.said[part] \in {instance, old.said[part]}
      BY <1>1
    <3>2. CASE old.source = NoOne
      BY <1>1, <1>4, <1>6, <2>4, <3>1, <3>2, FreeSlotIsOne
    <3>3. CASE old.source # NoOne
      BY <1>1, <1>4, <1>6, <2>4, <3>1, <3>3
    <3>4. QED
      BY <3>2, <3>3
  <2>5. QED
    BY <2>1, <2>2, <2>3, <2>4 DEF SlotInv
<1>8. ASSUME NEW other \in Tables, NEW j \in SlotsOf(other), other # table \/ j # i
      PROVE  SlotInv(other, j)'
  <2>1. SlotInv(other, j) /\ store'[other][j] = store[other][j]
    BY <1>2, <1>3, <1>8
  <2>2. QED
    BY <1>1, <2>1 DEF SlotInv
<1>9. ASSUME NEW other \in Tables, other # table PROVE TableInv(other)'
  <2>1. heardOf'.age[other] = heardOf.age[other] /\ TableInv(other)
    BY <1>2, <1>3, <1>9
  <2>2. ASSUME NEW j \in SlotsOf(other), Holds(other, j) PROVE Holds(other, j)'
    <3>1. store'[other][j] = store[other][j]
      BY <1>2, <1>9
    <3>2. QED
      BY <1>1, <2>1, <2>2, <3>1 DEF Holds
  <2>3. QED
    BY <2>1, <2>2 DEF TableInv, SlotsOf
<1>10. TableInv(table)'
  <2>1. new.source # NoOne /\ new.age = 0
    BY <1>1, CollectorNumbers
  <2>2. heardOf'.age[table] \in 0 .. Never
    BY <1>5
  <2>3. CASE table \in ByIndex \/ instance = wanted.instance
    <3>1. table \in OfInstance => new.instance = wanted.instance \/ heardOf'.taken
      BY <1>1, <1>4, <2>3, TableNames
    <3>2. Holds(table, i)'
      BY <2>1, <2>2, <3>1, CollectorNumbers DEF Holds
    <3>3. QED
      BY <3>2 DEF TableInv, SlotsOf
  <2>4. CASE ~(table \in ByIndex \/ instance = wanted.instance)
    <3>1. heardOf'.age[table] = heardOf.age[table] /\ TableInv(table)
      BY <1>1, <1>3, <2>4
    <3>2. ASSUME NEW j \in SlotsOf(table), Holds(table, j) PROVE Holds(table, j)'
      <4>1. CASE j = i
        <5>1. table \in OfInstance => new.instance = wanted.instance \/ heardOf'.taken
          BY <1>1, <3>2, <4>1 DEF Holds
        <5>2. QED
          BY <2>1, <2>2, <4>1, <5>1, CollectorNumbers DEF Holds
      <4>2. CASE j # i
        <5>1. store'[table][j] = store[table][j]
          BY <1>2, <4>2
        <5>2. QED
          BY <1>1, <3>1, <3>2, <5>1 DEF Holds
      <4>3. QED
        BY <4>1, <4>2
    <3>3. QED
      BY <3>1, <3>2 DEF TableInv, SlotsOf
  <2>5. QED
    BY <2>3, <2>4
<1>11. QED
  BY <1>1, <1>7, <1>8, <1>9, <1>10 DEF SlotsInv, SlotsOf

\* So are they all when a message is turned away.
LEMMA TurnedAwayKeeps ==
  ASSUME CollectorInv, NEW table \in Tables, NEW source \in CollectorSources,
         TurnedAway(table, source), wanted' = wanted
  PROVE  SlotsInv' /\ LostInv'
<1>1. SlotsInv'
  BY DEF TurnedAway, CollectorInv, SlotsInv, StoreOK, SlotsOf, TableInv, Holds, SlotInv
<1>2. /\ lost' = <<table, source>>
      /\ \A i \in SlotsOf(table) :
           /\ store'[table][i].age <= StaleAfter
           /\ table \in ByIndex => store'[table][i].source # source
  BY DEF TurnedAway
<1>3. QED
  BY <1>1, <1>2 DEF LostInv, SlotsOf

\* A message is one of some table, and the history is that of the pressure.
LEMMA MessageIsSaved ==
  ASSUME CollectorMessage
  PROVE  \E table \in Tables, parts \in SUBSET MessageParts, source \in CollectorSources,
            instance \in Instances \cup {NoOne} :
           /\ table \in ByInstance => instance \in Instances
           /\ Save(table, parts, source, instance)
           /\ pressureLog' = IF table = "pressure" /\ lost' = <<>> THEN StoreHistory(pressureLog)
                             ELSE pressureLog
<1> DEFINE Message(table, parts, source, instance) ==
             /\ table \in ByInstance => instance \in Instances
             /\ Save(table, parts, source, instance)
             /\ pressureLog' = IF table = "pressure" /\ lost' = <<>> THEN StoreHistory(pressureLog)
                               ELSE pressureLog
           Some == \E table \in Tables, parts \in SUBSET MessageParts, source \in CollectorSources,
                      instance \in Instances \cup {NoOne} : Message(table, parts, source, instance)
<1>1. ASSUME NEW s \in CollectorSources, NEW table \in ByIndex, SaveAll(table, s, NoOne) PROVE Some
  <2>1. table # "pressure" /\ table \in Tables /\ table \notin ByInstance
    BY TableNames
  <2>2. Message(table, MessageParts, s, NoOne)
    BY <1>1, <2>1 DEF SaveAll
  <2> HIDE DEF Message
  <2>3. QED
    BY <2>1, <2>2
<1>2. ASSUME NEW s \in CollectorSources, NEW table \in ByInstance, table # "pressure",
             NEW i \in Instances, NEW parts \in SUBSET MessageParts,
             Save(table, parts, s, i), UNCHANGED pressureLog
      PROVE  Some
  <2>1. Message(table, parts, s, i) /\ table \in Tables
    BY <1>2, TableNames
  <2> HIDE DEF Message
  <2>2. QED
    BY <2>1
<1>3. ASSUME NEW s \in CollectorSources, NEW i \in Instances, Pressure(s, i) PROVE Some
  <2>1. Message("pressure", MessageParts, s, i) /\ "pressure" \in Tables
    BY <1>3, TableNames DEF Pressure
  <2> HIDE DEF Message
  <2>2. QED
    BY <2>1
<1> HIDE DEF Some
<1>4. PICK s \in CollectorSources :
        \/ Attitude(s) \/ Heading(s) \/ COGSOG(s) \/ GNSS(s) \/ EnvironmentalParameters(s)
        \/ OutsideEnvironmental(s) \/ Speed(s) \/ WaterDepth(s) \/ MagneticVariation(s)
        \/ DistanceLog(s) \/ LatLon(s)
        \/ \E i \in Instances :
             \/ FluidLevel(s, i) \/ Temperature(s, i) \/ TemperatureExt(s, i) \/ Humidity(s, i)
             \/ DCBatteryStatus(s, i) \/ Rudder(s, i) \/ Xte(s, i) \/ WindSpeed(s, i)
             \/ Leeway(s, i)
             \/ EngineRapid(s, i) \/ EngineDynamicParameters(s, i) \/ Pressure(s, i)
  BY DEF CollectorMessage
<1>5. ASSUME \/ Attitude(s) \/ Heading(s) \/ COGSOG(s) \/ GNSS(s) \/ EnvironmentalParameters(s)
             \/ OutsideEnvironmental(s) \/ Speed(s) \/ WaterDepth(s) \/ MagneticVariation(s)
             \/ DistanceLog(s) \/ LatLon(s)
      PROVE  \E table \in ByIndex : SaveAll(table, s, NoOne)
  BY <1>5 DEF Attitude, Heading, COGSOG, GNSS, EnvironmentalParameters, OutsideEnvironmental, Speed,
     WaterDepth, MagneticVariation, DistanceLog, LatLon, ByIndex
<1>6. ASSUME NEW i \in Instances,
             \/ FluidLevel(s, i) \/ Temperature(s, i) \/ TemperatureExt(s, i) \/ Humidity(s, i)
             \/ DCBatteryStatus(s, i) \/ Rudder(s, i) \/ Xte(s, i) \/ WindSpeed(s, i)
             \/ Leeway(s, i)
      PROVE  \E table \in ByInstance \ {"pressure"} : SaveAll(table, s, i)
  BY <1>6 DEF FluidLevel, Temperature, TemperatureExt, Humidity, DCBatteryStatus, Rudder, Xte,
     WindSpeed, Leeway, ByInstance
<1>7. ASSUME NEW i \in Instances, EngineRapid(s, i) \/ EngineDynamicParameters(s, i)
      PROVE  \E parts \in SUBSET MessageParts : Save("engine", parts, s, i) /\ UNCHANGED pressureLog
  BY <1>7 DEF EngineRapid, EngineDynamicParameters, MessageParts
<1>8. "engine" \in ByInstance /\ "engine" # "pressure" /\ MessageParts \in SUBSET MessageParts
  BY DEF ByInstance
<1>9. ASSUME NEW i \in Instances, NEW table \in ByInstance \ {"pressure"}, SaveAll(table, s, i)
      PROVE  Some
  BY <1>2, <1>8, <1>9 DEF SaveAll
<1>10. Some
  BY <1>1, <1>2, <1>3, <1>4, <1>5, <1>6, <1>7, <1>8, <1>9
<1>11. QED
  BY <1>10 DEF Some

\* A pressure that is saved is in the history of its period.
LEMMA HistoryKeeps ==
  ASSUME CollectorInv, pressureLog' = StoreHistory(pressureLog),
         heardOf'.periods = heardOf.periods \cup {pressureLog.period}
  PROVE  pressureLog' \in HistoryStates /\ HistoryInv'
<1> DEFINE now == pressureLog.period
           slot == now % HistoryLength
           mean == IF slot = pressureLog.currentSlot THEN pressureLog.pmean \cup {now} ELSE {now}
           places == [pressureLog.history EXCEPT ![slot] = mean]
<1>1. /\ now \in Nat /\ HistoryLength \in Nat \ {0}
      /\ pressureLog.history \in [0 .. HistoryLength - 1 -> SUBSET Nat]
      /\ pressureLog.pmean \in SUBSET Nat /\ pressureLog.currentSlot \in -1 .. HistoryLength - 1
      /\ pressureLog = [history |-> pressureLog.history, currentSlot |-> pressureLog.currentSlot,
                        pmean |-> pressureLog.pmean, period |-> now]
  BY CollectorNumbers DEF CollectorInv, HistoryStates
<1>2. slot \in 0 .. HistoryLength - 1
  BY <1>1, Quotient
<1>3. pressureLog' = [history |-> places, currentSlot |-> slot, pmean |-> mean, period |-> now]
  BY <1>1 DEF StoreHistory
<1>4. /\ heardOf.periods \subseteq 0 .. now
      /\ \A place \in 0 .. HistoryLength - 1 :
           \A term \in pressureLog.history[place] : term % HistoryLength = place /\ term <= now
      /\ pressureLog.currentSlot # -1 =>
           pressureLog.pmean = pressureLog.history[pressureLog.currentSlot]
      /\ \A term \in heardOf.periods :
           term > now - HistoryLength => term \in pressureLog.history[term % HistoryLength]
  BY DEF CollectorInv, HistoryInv
<1>5. mean \in SUBSET Nat /\ now \in mean
      /\ \A term \in mean : term % HistoryLength = slot /\ term <= now
  BY <1>1, <1>2, <1>4
<1> HIDE DEF mean
<1>6. places \in [0 .. HistoryLength - 1 -> SUBSET Nat] /\ places[slot] = mean
      /\ \A place \in 0 .. HistoryLength - 1 :
           place # slot => places[place] = pressureLog.history[place]
  BY <1>1, <1>2, <1>5
<1> HIDE DEF places, slot
<1>7. pressureLog' \in HistoryStates
  BY <1>1, <1>2, <1>3, <1>5, <1>6 DEF HistoryStates
<1>8. /\ pressureLog'.history = places /\ pressureLog'.currentSlot = slot
      /\ pressureLog'.pmean = mean /\ pressureLog'.period = now
  BY <1>3
<1>9. heardOf'.periods \subseteq 0 .. now
  BY <1>1, <1>4
<1>10. ASSUME NEW place \in 0 .. HistoryLength - 1, NEW term \in places[place]
       PROVE  term % HistoryLength = place /\ term <= now
  BY <1>4, <1>5, <1>6
<1>11. ASSUME NEW term \in heardOf'.periods, term > now - HistoryLength
       PROVE  term \in places[term % HistoryLength]
  <2>1. term \in Nat /\ term <= now /\ term % HistoryLength \in 0 .. HistoryLength - 1
    <3>1. term \in 0 .. now
      BY <1>9
    <3>2. term \in Nat /\ term <= now
      BY <1>1, <3>1
    <3>3. QED
      BY <1>1, <3>2, Quotient
  <2>2. CASE term = now
    BY <1>5, <1>6, <2>2 DEF slot
  <2>3. CASE term # now
    <3>1. term < now /\ now < term + HistoryLength
      BY <1>1, <1>11, <2>1, <2>3
    <3>2. term % HistoryLength # slot
      BY <1>1, <2>1, <3>1, PlacesApart DEF slot
    <3>3. term \in heardOf.periods
      BY <1>11, <2>3
    <3>4. term \in pressureLog.history[term % HistoryLength]
      BY <1>4, <1>11, <3>3
    <3>5. QED
      BY <1>6, <2>1, <3>2, <3>4
  <2>4. QED
    BY <2>2, <2>3
<1>12. QED
  BY <1>6, <1>7, <1>8, <1>9, <1>10, <1>11 DEF HistoryInv

\* A message keeps the invariant.
LEMMA MessageKeeps == CollectorInv /\ CollectorMessage => CollectorInv'
<1> SUFFICES ASSUME CollectorInv, CollectorMessage PROVE CollectorInv'
  OBVIOUS
<1>1. PICK table \in Tables, parts \in SUBSET MessageParts, source \in CollectorSources,
           instance \in Instances \cup {NoOne} :
        /\ table \in ByInstance => instance \in Instances
        /\ Save(table, parts, source, instance)
        /\ pressureLog' = IF table = "pressure" /\ lost' = <<>> THEN StoreHistory(pressureLog)
                          ELSE pressureLog
  BY MessageIsSaved
<1>2. wanted' = wanted /\ WantedOK'
  BY <1>1 DEF Save, CollectorInv, WantedOK
<1>3. ASSUME pressureLog' = pressureLog, heardOf'.periods = heardOf.periods
      PROVE  pressureLog' \in HistoryStates /\ HistoryInv'
  BY <1>3 DEF CollectorInv, HistoryInv
<1>4. CASE TurnedAway(table, source)
  <2>1. lost' # <<>> /\ heardOf' = heardOf
    BY <1>4 DEF TurnedAway
  <2>2. SlotsInv' /\ LostInv'
    BY <1>2, <1>4, TurnedAwayKeeps
  <2>3. pressureLog' \in HistoryStates /\ HistoryInv'
    BY <1>1, <1>3, <2>1
  <2>4. QED
    BY <1>2, <2>2, <2>3 DEF CollectorInv, SlotsInv
<1>5. ASSUME NEW i \in SlotsOf(table), Saved(table, i, source, instance) PROVE CollectorInv'
  <2>1. SlotsInv'
    BY <1>1, <1>2, <1>5, SavedKeeps
  <2>2. lost' = <<>> /\ LostInv'
    BY <1>5 DEF Saved, LostInv
  <2>3. heardOf'.periods = IF table = "pressure" THEN heardOf.periods \cup {pressureLog.period}
                           ELSE heardOf.periods
    BY <1>5 DEF Saved
  <2>4. pressureLog' \in HistoryStates /\ HistoryInv'
    BY <1>1, <1>3, <2>2, <2>3, HistoryKeeps
  <2>5. QED
    BY <1>2, <2>1, <2>2, <2>4 DEF CollectorInv, SlotsInv
<1>6. QED
  BY <1>1, <1>4, <1>5, SaveMoves

\* Nothing gets younger with time.
LEMMA OlderKeeps ==
  /\ \A age \in 0 .. Never : Older(age) \in 0 .. Never
  /\ \A age \in 0 .. Never, other \in 0 .. Never : age <= other => Older(age) <= Older(other)
  /\ Older(Never) = Never
BY CollectorNumbers DEF Older

\* Time passes over all slots alike.
LEMMA TickKeepsCollector == CollectorInv /\ CollectorTick => CollectorInv'
<1> SUFFICES ASSUME CollectorInv, CollectorTick PROVE CollectorInv'
  OBVIOUS
<1>1. /\ store' = [table \in Tables |->
            [i \in DOMAIN store[table] |-> [store[table][i] EXCEPT !.age = Older(@)]]]
      /\ heardOf' = [heardOf EXCEPT !.age = [table \in Tables |-> Older(@[table])]]
      /\ lost' = <<>> /\ wanted' = wanted
      /\ pressureLog' = pressureLog \/ pressureLog' = [pressureLog EXCEPT !.period = @ + 1]
  BY DEF CollectorTick
<1>2. \A table \in Tables : store[table] \in [SlotsOf(table) -> SlotStates]
  BY DEF CollectorInv, StoreOK
<1>3. ASSUME NEW slot \in SlotStates
      PROVE  LET new == [slot EXCEPT !.age = Older(@)]
             IN  /\ new \in SlotStates /\ new.source = slot.source /\ new.age = Older(slot.age)
                 /\ new.instance = slot.instance /\ new.said = slot.said
                 /\ slot = FreeSlot => new = FreeSlot
  BY OlderKeeps DEF SlotStates, FreeSlot
<1>4. \A table \in Tables : \A i \in SlotsOf(table) :
        /\ store'[table][i] \in SlotStates /\ store'[table][i].source = store[table][i].source
        /\ store'[table][i].age = Older(store[table][i].age)
        /\ store'[table][i].instance = store[table][i].instance
        /\ store'[table][i].said = store[table][i].said
        /\ store[table][i] = FreeSlot => store'[table][i] = FreeSlot
        /\ store[table][i].age \in 0 .. Never
  <2> SUFFICES ASSUME NEW table \in Tables, NEW i \in SlotsOf(table)
               PROVE  /\ store'[table][i] \in SlotStates
                      /\ store'[table][i].source = store[table][i].source
                      /\ store'[table][i].age = Older(store[table][i].age)
                      /\ store'[table][i].instance = store[table][i].instance
                      /\ store'[table][i].said = store[table][i].said
                      /\ store[table][i] = FreeSlot => store'[table][i] = FreeSlot
                      /\ store[table][i].age \in 0 .. Never
    OBVIOUS
  <2> DEFINE slot == store[table][i]
             new == [slot EXCEPT !.age = Older(@)]
  <2>1. slot \in SlotStates /\ store'[table][i] = new
    BY <1>1, <1>2
  <2> HIDE DEF slot
  <2>2. /\ new \in SlotStates /\ new.source = slot.source /\ new.age = Older(slot.age)
        /\ new.instance = slot.instance /\ new.said = slot.said
        /\ slot = FreeSlot => new = FreeSlot
    BY <1>3, <2>1
  <2> HIDE DEF new
  <2>3. slot.age \in 0 .. Never
    BY <2>1, SlotFields
  <2>4. QED
    BY <2>1, <2>2, <2>3 DEF slot
<1>5. StoreOK'
  <2>1. \A table \in Tables : store'[table] \in [SlotsOf(table) -> SlotStates]
    <3>1. ASSUME NEW table \in Tables PROVE store'[table] \in [SlotsOf(table) -> SlotStates]
      <4>1. store'[table] = [i \in SlotsOf(table) |-> [store[table][i] EXCEPT !.age = Older(@)]]
        BY <1>1, <1>2
      <4>2. \A i \in SlotsOf(table) : [store[table][i] EXCEPT !.age = Older(@)] \in SlotStates
        BY <1>2, <1>3
      <4>3. QED
        BY <4>1, <4>2
    <3>2. QED
      BY <3>1
  <2>2. store' = [table \in Tables |-> store'[table]]
    BY <1>1
  <2>3. QED
    BY <2>1, <2>2 DEF StoreOK, SlotsOf
<1>6. /\ heardOf' \in HeardStates /\ heardOf'.taken = heardOf.taken
      /\ heardOf'.periods = heardOf.periods
      /\ \A table \in Tables : heardOf'.age[table] = Older(heardOf.age[table])
      /\ heardOf.age \in [Tables -> 0 .. Never]
  <2> DEFINE ages == [table \in Tables |-> Older(heardOf.age[table])]
  <2>1. heardOf \in HeardStates /\ heardOf.age \in [Tables -> 0 .. Never]
    BY DEF CollectorInv, HeardStates
  <2>2. ages \in [Tables -> 0 .. Never]
    BY <2>1, OlderKeeps
  <2>3. heardOf' = [heardOf EXCEPT !.age = ages]
    BY <1>1
  <2>4. \A table \in Tables : ages[table] = Older(heardOf.age[table])
    OBVIOUS
  <2> HIDE DEF ages
  <2>5. heardOf' \in HeardStates /\ heardOf'.age = ages /\ heardOf'.taken = heardOf.taken
        /\ heardOf'.periods = heardOf.periods
    BY <2>1, <2>2, <2>3 DEF HeardStates
  <2>6. QED
    BY <2>1, <2>4, <2>5
<1>7. ASSUME NEW table \in Tables, NEW i \in SlotsOf(table) PROVE SlotInv(table, i)'
  <2>1. SlotInv(table, i)
    BY DEF CollectorInv
  <2>2. QED
    BY <1>4, <1>6, <2>1 DEF SlotInv
<1>8. ASSUME NEW table \in Tables PROVE TableInv(table)'
  <2>1. TableInv(table)
    BY DEF CollectorInv
  <2>2. ASSUME heardOf.age[table] = Never PROVE heardOf'.age[table] = Never
    BY <1>6, <2>2, OlderKeeps
  <2>3. ASSUME NEW i \in SlotsOf(table), Holds(table, i) PROVE Holds(table, i)'
    <3>1. store[table][i].age \in 0 .. Never /\ heardOf.age[table] \in 0 .. Never
      BY <1>4, <1>6
    <3>2. store[table][i].age <= heardOf.age[table]
      BY <2>3 DEF Holds
    <3>3. Older(store[table][i].age) <= Older(heardOf.age[table])
      BY <3>1, <3>2, OlderKeeps
    <3>4. store'[table][i].age <= heardOf'.age[table]
      BY <1>4, <1>6, <3>3
    <3>5. QED
      BY <1>1, <1>4, <1>6, <2>3, <3>4 DEF Holds
  <2>4. QED
    BY <2>1, <2>2, <2>3 DEF TableInv, SlotsOf
<1>9. pressureLog' \in HistoryStates /\ HistoryInv'
  <2>1. HistoryInv /\ pressureLog \in HistoryStates
    BY DEF CollectorInv
  <2>2. CASE pressureLog' = pressureLog
    BY <1>6, <2>1, <2>2 DEF HistoryInv
  <2>3. CASE pressureLog' = [pressureLog EXCEPT !.period = @ + 1]
    <3>1. /\ pressureLog' \in HistoryStates /\ pressureLog'.history = pressureLog.history
          /\ pressureLog'.currentSlot = pressureLog.currentSlot
          /\ pressureLog'.pmean = pressureLog.pmean
          /\ pressureLog'.period = pressureLog.period + 1 /\ pressureLog.period \in Nat
          /\ pressureLog.history \in [0 .. HistoryLength - 1 -> SUBSET Nat]
      BY <2>1, <2>3 DEF HistoryStates
    <3>2. heardOf'.periods \subseteq 0 .. pressureLog'.period
      BY <1>6, <2>1, <3>1 DEF HistoryInv
    <3>3. ASSUME NEW place \in 0 .. HistoryLength - 1, NEW term \in pressureLog.history[place]
          PROVE  term % HistoryLength = place /\ term <= pressureLog.period + 1
      <4>1. term \in Nat /\ term % HistoryLength = place /\ term <= pressureLog.period
        BY <2>1, <3>1 DEF HistoryInv
      <4>2. QED
        BY <3>1, <4>1
    <3>4. ASSUME NEW term \in heardOf.periods, term > pressureLog.period + 1 - HistoryLength
          PROVE  term \in pressureLog.history[term % HistoryLength]
      <4>1. term \in Nat /\ term > pressureLog.period - HistoryLength
        BY <2>1, <3>1, <3>4, CollectorNumbers DEF HistoryInv
      <4>2. QED
        BY <2>1, <4>1 DEF HistoryInv
    <3>5. pressureLog.currentSlot # -1 =>
            pressureLog.pmean = pressureLog.history[pressureLog.currentSlot]
      BY <2>1 DEF HistoryInv
    <3>6. \A place \in 0 .. HistoryLength - 1 : \A term \in pressureLog'.history[place] :
            term % HistoryLength = place /\ term <= pressureLog'.period
      BY <3>1, <3>3
    <3>7. pressureLog'.currentSlot # -1 =>
            pressureLog'.pmean = pressureLog'.history[pressureLog'.currentSlot]
      BY <3>1, <3>5
    <3>8. ASSUME NEW term \in heardOf'.periods, term > pressureLog'.period - HistoryLength
          PROVE  term \in pressureLog'.history[term % HistoryLength]
      <4>1. term \in heardOf.periods /\ pressureLog'.period = pressureLog.period + 1
            /\ pressureLog'.history = pressureLog.history
        BY <1>6, <3>1, <3>8
      <4>2. pressureLog'.period - HistoryLength = pressureLog.period + 1 - HistoryLength
        BY <3>1, <4>1, CollectorNumbers
      <4>3. term > pressureLog.period + 1 - HistoryLength
        BY <3>8, <4>2
      <4>4. QED
        BY <3>4, <4>1, <4>3
    <3>9. QED
      BY <3>1, <3>2, <3>6, <3>7, <3>8 DEF HistoryInv
  <2>4. QED
    BY <1>1, <2>2, <2>3
<1>10. WantedOK' /\ LostInv'
  BY <1>1 DEF CollectorInv, WantedOK, LostInv
<1>11. QED
  BY <1>5, <1>6, <1>7, <1>8, <1>9, <1>10 DEF CollectorInv, SlotsOf

\* At first no slot is in use.
LEMMA CollectorInitially == CollectorInit => CollectorInv
<1> SUFFICES ASSUME CollectorInit PROVE CollectorInv
  OBVIOUS
<1>1. WantedOK /\ LostInv
  BY DEF CollectorInit, WantedOK, LostInv
<1>2. store = [table \in Tables |-> [i \in SlotsOf(table) |-> FreeSlot]]
  BY DEF CollectorInit, SlotsOf
<1>3. StoreOK /\ \A table \in Tables : \A i \in SlotsOf(table) : store[table][i] = FreeSlot
  BY <1>2, FreeSlotIsOne DEF StoreOK
<1>4. heardOf = [age |-> [table \in Tables |-> Never], taken |-> FALSE, periods |-> {}]
  BY DEF CollectorInit
<1>5. heardOf \in HeardStates /\ heardOf.periods = {}
      /\ \A table \in Tables : heardOf.age[table] = Never
  BY <1>4, CollectorNumbers DEF HeardStates
<1>6. \A table \in Tables : TableInv(table) /\ \A i \in SlotsOf(table) : SlotInv(table, i)
  BY <1>3, <1>5, FreeSlotIsOne DEF TableInv, SlotInv
<1>7. /\ pressureLog \in HistoryStates /\ pressureLog.currentSlot = -1
      /\ \A place \in 0 .. HistoryLength - 1 : pressureLog.history[place] = {}
  BY CollectorNumbers DEF CollectorInit, HistoryStates
<1>8. HistoryInv
  BY <1>5, <1>7 DEF HistoryInv
<1>9. QED
  BY <1>1, <1>3, <1>5, <1>6, <1>7, <1>8 DEF CollectorInv

(* The pages. *)

LoopStates ==
  [table : Tables \cup {"none"}, bound : Nat, id : {"none", "slot", "instance", "both", "unset"}]
RecordStates ==
  [id : Instances \cup Nat, age : 0 .. Never, said : [MessageParts -> Instances \cup {NoOne}]]
PageStates ==
  [format : {"none", "csv", "json"}, shown : LoopStates, next : Nat, records : Seq(RecordStates),
   asOf : 0 .. Never]

\* A loop goes over all slots of its table, but for the two that end before.
LoopOK(format, shown) ==
  /\ shown.table \in Tables /\ shown.bound <= MaxSources[shown.table]
  /\ shown.id = "instance" => shown.table \in ByInstance
  /\ \/ shown.bound = MaxSources[shown.table]
     \/ shown.table = "possition" /\ shown.bound = MaxSources["log"]
     \/ format = "csv" /\ shown.table = "heading" /\ shown.bound = MaxSources["speed"]

\* As young as the last message there was when the page was asked for
OldRecord == \E n \in DOMAIN page.records : page.records[n].age <= page.asOf
OldSlot(i) ==
  LET slot == store[page.shown.table][i] IN slot.source # NoOne /\ slot.age <= page.asOf

\* A message as young as the last one is on the page, or in a slot that is still to come.
PageInv ==
  page.format # "none" =>
    /\ LoopOK(page.format, page.shown)
    /\ page.next \in 1 .. page.shown.bound + 1
    /\ \/ page.asOf = Never \/ OldRecord
       \/ \E i \in SlotsOf(page.shown.table) : i >= page.next /\ OldSlot(i)
    /\ page.shown.id = "instance" /\ ~heardOf.taken =>
         \A n \in DOMAIN page.records : \A part \in MessageParts :
           page.records[n].said[part] \in {NoOne, page.records[n].id}

ArchiveInv == CollectorInv /\ page \in PageStates /\ PageInv

\* All loops there are
LEMMA LoopsAreOK ==
  ASSUME NEW format \in DOMAIN ArchivePages, NEW loops \in ArchivePages[format], NEW shown \in loops
  PROVE  format \in {"csv", "json"} /\ shown \in LoopStates /\ LoopOK(format, shown)
<1> DEFINE Good(kind, one) == one \in LoopStates /\ LoopOK(kind, one)
<1>1. ASSUME NEW table \in Tables, NEW bound \in Nat, NEW id \in {"slot", "instance", "both", "unset"},
             bound = MaxSources[table], id = "instance" => table \in ByInstance, NEW kind
      PROVE  Good(kind, Loop(table, bound, id))
  BY <1>1 DEF LoopStates, Loop, LoopOK
<1>2. /\ {"fluidLevel", "engine", "temperature", "temperatureExt", "humidity", "pressure",
          "dcBattery", "rudder", "xte", "wind", "leeway"} \subseteq ByInstance
      /\ {"attitude", "heading", "cogSog", "gnss", "environmentalParams", "outsideEnvironmental",
          "speed", "waterDepth", "variation", "log", "possition"} \subseteq Tables
  BY DEF Tables, ByIndex, ByInstance
<1>3. ByInstance \subseteq Tables /\ \A table \in Tables : MaxSources[table] \in Nat
  BY TableNames, CollectorNumbers
<1>4. /\ \A table \in Tables : Good("csv", CsvSlots(table)) /\ Good("json", Json(table))
      /\ \A table \in ByInstance : Good("csv", CsvInstances(table))
  <2>1. ASSUME NEW table \in Tables
        PROVE  Good("csv", CsvSlots(table)) /\ Good("json", Json(table))
               /\ (table \in ByInstance => Good("csv", CsvInstances(table)))
    <3> HIDE DEF Good
    <3>1. QED
      BY <1>1, <1>3 DEF CsvSlots, Json, CsvInstances
  <2> HIDE DEF Good
  <2>2. QED
    BY <1>3, <2>1
<1>5. /\ Good("csv", Loop("heading", MaxSources["speed"], "slot"))
      /\ Good("csv", Loop("possition", MaxSources["log"], "slot"))
      /\ Good("json", Loop("possition", MaxSources["log"], "both"))
  BY <1>2, <1>3, DataOutputAssumption DEF LoopStates, Loop, LoopOK
<1>6. /\ Good("csv", Loop("temperatureExt", MaxSources["temperature"], "instance"))
      /\ Good("json", Loop("temperatureExt", MaxSources["temperature"], "both"))
      /\ Good("csv", Loop("leeway", MaxSources["log"], "instance"))
      /\ Good("json", Loop("leeway", MaxSources["log"], "both"))
  <2> HIDE DEF Good
  <2>1. QED
    BY <1>1, <1>2, <1>3, DataOutputAssumption
<1> HIDE DEF Good
<1>6a. Good("csv", HumidityLoop) /\ Good("json", HumidityLoop)
  BY <1>1, <1>2, <1>3 DEF HumidityLoop
<1>7. \A one \in EngineCsv : Good("csv", one)
  BY <1>2, <1>3, <1>4 DEF EngineCsv
<1>8. \A one \in BoatCsv : Good("csv", one)
  BY <1>2, <1>3, <1>4, <1>5 DEF BoatCsv
<1>9. \A one \in NavigationCsv \cup EnvironmentCsv : Good("csv", one)
  BY <1>2, <1>3, <1>4, <1>6a DEF NavigationCsv, EnvironmentCsv
<1>10. \A one \in TemperatureCsv \cup XteCsv \cup MagneticVariationCsv : Good("csv", one)
  BY <1>2, <1>3, <1>4, <1>6 DEF TemperatureCsv, XteCsv, MagneticVariationCsv
<1>11. \A one \in WindSpeedCsv \cup LogCsv \cup LatLonCsv \cup LeewayCsv : Good("csv", one)
  BY <1>2, <1>3, <1>4, <1>5, <1>6 DEF WindSpeedCsv, LogCsv, LatLonCsv, LeewayCsv
<1>12. \A one \in EngineJson \cup BoatJson \cup NavigationJson : Good("json", one)
  BY <1>2, <1>3, <1>4 DEF EngineJson, BoatJson, NavigationJson
<1>13. \A one \in EnvironmentJson \cup TemperatureJson \cup XteJson : Good("json", one)
  BY <1>2, <1>3, <1>4, <1>6, <1>6a DEF EnvironmentJson, TemperatureJson, XteJson
<1>14. \A one \in MagneticVariationJson \cup WindSpeedJson \cup LogJson : Good("json", one)
  BY <1>2, <1>3, <1>4 DEF MagneticVariationJson, WindSpeedJson, LogJson
<1>15. \A one \in LatLonJson \cup LeewayJson : Good("json", one)
  BY <1>5, <1>6 DEF LatLonJson, LeewayJson
<1>16. CASE format = "csv"
  <2>1. loops \in {EngineCsv, BoatCsv, NavigationCsv, EnvironmentCsv, TemperatureCsv, XteCsv,
                   MagneticVariationCsv, WindSpeedCsv, LogCsv, LatLonCsv, LeewayCsv}
    BY <1>16 DEF ArchivePages
  <2>2. Good("csv", shown)
    BY <1>7, <1>8, <1>9, <1>10, <1>11, <2>1
  <2>3. QED
    BY <1>16, <2>2 DEF Good
<1>17. CASE format = "json"
  <2>1. loops \in {EngineJson, BoatJson, NavigationJson, EnvironmentJson, TemperatureJson, XteJson,
                   MagneticVariationJson, WindSpeedJson, LogJson, LatLonJson, LeewayJson}
    BY <1>17 DEF ArchivePages
  <2>2. Good("json", shown)
    BY <1>12, <1>13, <1>14, <1>15, <2>1
  <2>3. QED
    BY <1>17, <2>2 DEF Good
<1>19. format \in {"csv", "json"}
  BY DEF ArchivePages
<1>20. QED
  BY <1>16, <1>17, <1>19

LEMMA PageFields ==
  ASSUME page \in PageStates
  PROVE  /\ page.format \in {"none", "csv", "json"} /\ page.shown \in LoopStates
         /\ page.shown.bound \in Nat /\ page.next \in Nat
         /\ page.records \in Seq(RecordStates) /\ page.asOf \in 0 .. Never
BY DEF PageStates, LoopStates

\* A page that is asked for finds the last message in one of the slots.
LEMMA StartPageKeeps == ArchiveInv /\ StartPage => ArchiveInv'
<1> SUFFICES ASSUME ArchiveInv, StartPage PROVE ArchiveInv'
  OBVIOUS
<1>1. CollectorInv' /\ CollectorInv /\ heardOf' = heardOf /\ store' = store
  BY DEF StartPage, ArchiveInv, collectorVars, CollectorInv, WantedOK, StoreOK, TableInv, Holds,
     SlotInv, LostInv, HistoryInv
<1>2. PICK format \in {"csv", "json"}, shown \in LoopStates :
        /\ LoopOK(format, shown)
        /\ page' = [format |-> format, shown |-> shown, next |-> 1, records |-> <<>>,
                    asOf |-> heardOf.age[shown.table]]
  BY LoopsAreOK DEF StartPage
<1>3. format \in {"csv", "json"} /\ shown \in LoopStates /\ LoopOK(format, shown)
  BY <1>2
<1>4. shown.table \in Tables /\ shown.bound \in Nat
  BY <1>3 DEF LoopOK, LoopStates
<1>5. heardOf.age[shown.table] \in 0 .. Never
  BY <1>1, <1>4 DEF CollectorInv, HeardStates
<1>6. <<>> \in Seq(RecordStates) /\ DOMAIN <<>> = {}
  OBVIOUS
<1>7. page' \in PageStates /\ page'.format = format /\ page'.shown = shown /\ page'.next = 1
      /\ page'.records = <<>> /\ page'.asOf = heardOf.age[shown.table]
  BY <1>2, <1>3, <1>5, <1>6 DEF PageStates
<1>8. \/ page'.asOf = Never
      \/ \E i \in SlotsOf(page'.shown.table) : i >= page'.next /\ OldSlot(i)'
  <2>1. TableInv(shown.table)
    BY <1>1, <1>4 DEF CollectorInv
  <2>2. CASE heardOf.age[shown.table] = Never
    BY <1>7, <2>2
  <2>3. ASSUME NEW i \in SlotsOf(shown.table), Holds(shown.table, i)
        PROVE  i \in SlotsOf(page'.shown.table) /\ i >= page'.next /\ OldSlot(i)'
    BY <1>1, <1>7, <2>3 DEF Holds, OldSlot, SlotsOf
  <2>4. QED
    BY <2>1, <2>2, <2>3 DEF TableInv
<1>9. page'.next \in 1 .. page'.shown.bound + 1
  BY <1>4, <1>7
<1>10. PageInv'
  BY <1>3, <1>6, <1>7, <1>8, <1>9 DEF PageInv, LoopOK, SlotsOf
<1>11. QED
  BY <1>1, <1>7, <1>10 DEF ArchiveInv, PageStates

\* Nothing is lost while the collector stands still.
LEMMA CollectorStands == CollectorInv /\ UNCHANGED collectorVars => CollectorInv'
BY DEF collectorVars, CollectorInv, WantedOK, StoreOK, TableInv, Holds, SlotInv, LostInv, HistoryInv

\* Whatever is saved, what is on the page stays and what is to come gets no older.
LEMMA PageKeepsMessage == ArchiveInv /\ CollectorMessage /\ UNCHANGED page => ArchiveInv'
<1> SUFFICES ASSUME ArchiveInv, CollectorMessage, UNCHANGED page PROVE ArchiveInv'
  OBVIOUS
<1>1. CollectorInv /\ CollectorInv' /\ page \in PageStates /\ PageInv
  BY MessageKeeps DEF ArchiveInv
<1>2. PICK table \in Tables, parts \in SUBSET MessageParts, source \in CollectorSources,
           instance \in Instances \cup {NoOne} :
        /\ table \in ByInstance => instance \in Instances
        /\ Save(table, parts, source, instance)
  BY MessageIsSaved
<1>3. \/ TurnedAway(table, source)
      \/ \E i \in SlotsOf(table) : Saved(table, i, source, instance)
  BY <1>1, <1>2, SaveMoves
<1>4. ASSUME page.format # "none", NEW j \in SlotsOf(page.shown.table), OldSlot(j) PROVE OldSlot(j)'
  <2>1. page.shown.table \in Tables /\ page.asOf \in 0 .. Never
    BY <1>1, <1>4 DEF PageInv, LoopOK, PageStates
  <2>2. CASE TurnedAway(table, source)
    BY <1>4, <2>2 DEF TurnedAway, OldSlot
  <2>3. ASSUME NEW i \in SlotsOf(table), Saved(table, i, source, instance) PROVE OldSlot(j)'
    <3>1. CASE page.shown.table = table /\ j = i
      <4>1. store'[table][i].source = source /\ store'[table][i].age = 0
        BY <2>3 DEF Saved
      <4>2. QED
        BY <2>1, <3>1, <4>1, CollectorNumbers DEF OldSlot
    <3>2. CASE page.shown.table # table \/ j # i
      <4>1. store'[page.shown.table][j] = store[page.shown.table][j]
        BY <1>4, <2>1, <2>3, <3>2 DEF Saved
      <4>2. QED
        BY <1>4, <4>1 DEF OldSlot
    <3>3. QED
      BY <3>1, <3>2
  <2>4. QED
    BY <1>3, <2>2, <2>3
<1>5. heardOf.taken => heardOf'.taken
  BY <1>3 DEF TurnedAway, Saved
<1>6. PageInv'
  <2>1. CASE page.format = "none"
    BY <2>1 DEF PageInv
  <2>2. CASE page.format # "none"
    <3>1. \/ page'.asOf = Never \/ OldRecord'
          \/ \E i \in SlotsOf(page'.shown.table) : i >= page'.next /\ OldSlot(i)'
      BY <1>1, <1>4, <2>2 DEF PageInv, OldRecord
    <3>2. page' = page /\ LoopOK(page.format, page.shown)
      BY <1>1, <2>2 DEF PageInv
    <3>3. QED
      BY <1>1, <1>5, <2>2, <3>1, <3>2 DEF PageInv, LoopOK, SlotsOf
  <2>3. QED
    BY <2>1, <2>2
<1>7. QED
  BY <1>1, <1>6 DEF ArchiveInv, PageStates

\* A slot in use is one with an instance.
LEMMA UsedIsActive ==
  ASSUME CollectorInv, NEW table \in Tables, NEW i \in SlotsOf(table),
         store[table][i].source # NoOne
  PROVE  Active(store[table][i])
<1>1. SlotInv(table, i)
  BY DEF CollectorInv
<1>2. i # NoOne
  BY CollectorNumbers DEF SlotsOf, NoOne
<1>3. store[table][i].instance # NoOne
  BY <1>1, <1>2, TableNames, CollectorNumbers DEF SlotInv
<1>4. QED
  BY <1>3 DEF Active

\* The record of the slot that was still to come takes its place.
LEMMA AppendKeeps == ArchiveInv /\ AppendRecord => ArchiveInv'
<1> SUFFICES ASSUME ArchiveInv, AppendRecord PROVE ArchiveInv'
  OBVIOUS
<1> DEFINE table == page.shown.table
           i == page.next
           slot == store[table][i]
<1>0. PICK shownAs \in Numbers(page.shown.id, i, slot) :
        page' = [page EXCEPT !.next = i + 1,
                   !.records = IF page.format = "json" \/ Active(slot)
                               THEN Append(@, [id |-> shownAs, age |-> slot.age,
                                               said |-> slot.said])
                               ELSE @]
  BY Zenon DEF AppendRecord
<1> DEFINE record == [id |-> shownAs, age |-> slot.age, said |-> slot.said]
           shows == page.format = "json" \/ Active(slot)
           records == IF shows THEN Append(page.records, record) ELSE page.records
<1>1. CollectorInv /\ page \in PageStates /\ PageInv /\ page.format # "none" /\ ~Finished
  BY DEF ArchiveInv, AppendRecord
<1>2. CollectorInv' /\ heardOf' = heardOf /\ store' = store
  <2>1. UNCHANGED collectorVars
    BY DEF AppendRecord
  <2>2. QED
    BY <1>1, <2>1, CollectorStands DEF collectorVars
<1>3. page' = [page EXCEPT !.next = i + 1, !.records = records]
  BY <1>0
<1>4. /\ page.records \in Seq(RecordStates) /\ page.next \in Nat /\ page.shown.bound \in Nat
      /\ page.asOf \in 0 .. Never
  BY <1>1 DEF PageStates, LoopStates
<1>5. LoopOK(page.format, page.shown) /\ i \in 1 .. page.shown.bound + 1
  BY <1>1 DEF PageInv
<1>6. table \in Tables /\ page.shown.bound <= MaxSources[table] /\ i <= page.shown.bound
  BY <1>1, <1>4, <1>5 DEF LoopOK, Finished, LastVisited
<1>7. i \in SlotsOf(table) /\ i \in 1 .. page.shown.bound /\ i + 1 \in 1 .. page.shown.bound + 1
  BY <1>4, <1>5, <1>6, CollectorNumbers DEF SlotsOf
<1>8. slot \in SlotStates /\ SlotInv(table, i)
  BY <1>1, <1>6, <1>7 DEF CollectorInv, StoreOK
<1>9. record \in RecordStates
  <2>1. shownAs \in Instances \cup Nat
    BY <1>0, <1>4, <1>8, SlotFields DEF Numbers
  <2>2. QED
    BY <1>8, <2>1, SlotFields DEF RecordStates
<1>10. /\ records \in Seq(RecordStates)
       /\ \A m \in DOMAIN page.records : m \in DOMAIN records /\ records[m] = page.records[m]
       /\ shows => /\ Len(page.records) + 1 \in DOMAIN records
                   /\ records[Len(page.records) + 1] = record
       /\ \A n \in DOMAIN records : n \in DOMAIN page.records \/ (records[n] = record /\ shows)
  <2> HIDE DEF record, shows
  <2>1. CASE shows
    <3>1. records = Append(page.records, record)
      BY <2>1
    <3>2. QED
      BY <1>4, <1>9, <2>1, <3>1
  <2>2. CASE ~shows
    BY <1>4, <2>2
  <2>3. QED
    BY <2>1, <2>2
<1> HIDE DEF records, record, shows
<1>11. /\ page' \in PageStates /\ page'.format = page.format /\ page'.shown = page.shown
       /\ page'.next = i + 1 /\ page'.records = records /\ page'.asOf = page.asOf
  <2> DEFINE next == [page EXCEPT !.next = i + 1]
  <2>1. /\ next \in PageStates /\ next.format = page.format /\ next.shown = page.shown
        /\ next.next = i + 1 /\ next.asOf = page.asOf
    BY <1>1, <1>4 DEF PageStates
  <2>2. page' = [next EXCEPT !.records = records]
    BY <1>3
  <2> HIDE DEF next
  <2>3. QED
    BY <1>10, <2>1, <2>2 DEF PageStates
<1>12. ASSUME OldRecord PROVE OldRecord'
  <2>1. PICK n \in DOMAIN page.records : page.records[n].age <= page.asOf
    BY <1>12 DEF OldRecord
  <2>2. n \in DOMAIN records /\ records[n] = page.records[n]
    BY <1>10
  <2>3. n \in DOMAIN page'.records /\ page'.records[n].age <= page'.asOf
    BY <1>11, <2>1, <2>2
  <2>4. QED
    BY <2>3 DEF OldRecord
<1>13. ASSUME NEW j \in SlotsOf(table), j >= i, OldSlot(j)
       PROVE  OldRecord' \/ \E k \in SlotsOf(table) : k >= i + 1 /\ OldSlot(k)'
  <2>1. CASE j = i
    <3>1. slot.source # NoOne /\ slot.age <= page.asOf
      BY <1>13, <2>1 DEF OldSlot
    <3>2. shows
      BY <1>1, <1>6, <1>7, <3>1, UsedIsActive DEF shows
    <3>3. record.age <= page.asOf
      BY <3>1 DEF record
    <3>4. Len(page.records) + 1 \in DOMAIN records /\ records[Len(page.records) + 1] = record
      BY <1>10, <3>2
    <3>5. \E n \in DOMAIN page'.records : page'.records[n].age <= page'.asOf
      BY <1>11, <3>3, <3>4
    <3>6. QED
      BY <3>5 DEF OldRecord
  <2>2. CASE j # i
    <3>1. j >= i + 1
      BY <1>4, <1>13, <2>2, CollectorNumbers DEF SlotsOf
    <3>2. OldSlot(j)'
      BY <1>2, <1>11, <1>13 DEF OldSlot
    <3>3. QED
      BY <3>1, <3>2
  <2>3. QED
    BY <2>1, <2>2
<1>14. \/ page'.asOf = Never \/ OldRecord'
       \/ \E j \in SlotsOf(table) : j >= i + 1 /\ OldSlot(j)'
  <2>1. \/ page.asOf = Never \/ OldRecord
        \/ \E j \in SlotsOf(table) : j >= i /\ OldSlot(j)
    BY <1>1 DEF PageInv
  <2>2. QED
    BY <1>11, <1>12, <1>13, <2>1
<1>15. ASSUME page.shown.id = "instance", ~heardOf.taken, NEW n \in DOMAIN records,
              NEW part \in MessageParts
       PROVE  records[n].said[part] \in {NoOne, records[n].id}
  <2>1. CASE n \in DOMAIN page.records
    <3>1. page.records[n].said[part] \in {NoOne, page.records[n].id}
      BY <1>1, <1>15, <2>1 DEF PageInv
    <3>2. records[n] = page.records[n]
      BY <1>10, <2>1
    <3>3. QED
      BY <3>1, <3>2
  <2>2. CASE records[n] = record
    <3>1. record.id = slot.instance /\ record.said = slot.said
      BY <1>0, <1>15 DEF record, Numbers
    <3>2. table \in ByInstance
      BY <1>5, <1>15 DEF LoopOK
    <3>3. slot.said[part] \in {NoOne, slot.instance}
      BY <1>8, <1>15, <3>2, FreeSlotIsOne DEF SlotInv
    <3> HIDE DEF slot
    <3>4. QED
      BY <2>2, <3>1, <3>3
  <2>3. QED
    BY <1>10, <1>15, <2>1, <2>2
<1>16. PageInv'
  <2>1. LoopOK(page'.format, page'.shown)
    BY <1>5, <1>11
  <2>2. page'.next \in 1 .. page'.shown.bound + 1
    BY <1>7, <1>11
  <2>3. \/ page'.asOf = Never \/ OldRecord'
        \/ \E j \in SlotsOf(page'.shown.table) : j >= page'.next /\ OldSlot(j)'
    BY <1>11, <1>14
  <2>4. page'.shown.id = "instance" /\ ~heardOf'.taken =>
          \A n \in DOMAIN page'.records : \A part \in MessageParts :
            page'.records[n].said[part] \in {NoOne, page'.records[n].id}
    BY <1>2, <1>11, <1>15
  <2>5. QED
    BY <2>1, <2>2, <2>3, <2>4 DEF PageInv, LoopOK, SlotsOf
<1>17. QED
  BY <1>2, <1>11, <1>16 DEF ArchiveInv, PageStates

\* The page gets older as the slots do.
LEMMA PageKeepsTick ==
  ASSUME ArchiveInv, CollectorTick,
         page' = [page EXCEPT !.records = OlderRecords(@), !.asOf = Older(@)]
  PROVE  ArchiveInv'
<1> DEFINE records == OlderRecords(page.records)
<1>1. CollectorInv /\ CollectorInv' /\ page \in PageStates /\ PageInv
  BY TickKeepsCollector DEF ArchiveInv
<1>2. /\ page.records \in Seq(RecordStates) /\ page.asOf \in 0 .. Never
      /\ Older(page.asOf) \in 0 .. Never
  BY <1>1, PageFields, OlderKeeps
<1>3. ASSUME NEW any \in RecordStates
      PROVE  LET new == [any EXCEPT !.age = Older(@)]
             IN  /\ new \in RecordStates /\ new.id = any.id /\ new.said = any.said
                 /\ new.age = Older(any.age) /\ any.age \in 0 .. Never
  BY OlderKeeps DEF RecordStates
<1>4. /\ DOMAIN records = DOMAIN page.records /\ DOMAIN page.records = 1 .. Len(page.records)
      /\ Len(page.records) \in Nat
  BY <1>2 DEF OlderRecords
<1>5. ASSUME NEW n \in DOMAIN page.records
      PROVE  /\ records[n] \in RecordStates /\ records[n].id = page.records[n].id
             /\ records[n].said = page.records[n].said
             /\ records[n].age = Older(page.records[n].age) /\ page.records[n].age \in 0 .. Never
  <2> DEFINE any == page.records[n]
  <2>1. any \in RecordStates
    BY <1>2
  <2>2. records[n] = [any EXCEPT !.age = Older(@)]
    BY DEF OlderRecords
  <2> HIDE DEF any, records
  <2>3. /\ records[n] \in RecordStates /\ records[n].id = any.id /\ records[n].said = any.said
        /\ records[n].age = Older(any.age) /\ any.age \in 0 .. Never
    BY <1>3, <2>1, <2>2
  <2>4. QED
    BY <2>3 DEF any
<1>6. records \in Seq(RecordStates)
  <2>1. records \in [1 .. Len(page.records) -> RecordStates]
    BY <1>4, <1>5 DEF OlderRecords
  <2> HIDE DEF records
  <2>2. QED
    BY <1>4, <2>1
<1> HIDE DEF records
<1>7. /\ page' \in PageStates /\ page'.format = page.format /\ page'.shown = page.shown
      /\ page'.next = page.next /\ page'.records = records /\ page'.asOf = Older(page.asOf)
  <2> DEFINE aged == [page EXCEPT !.records = records]
  <2>1. /\ aged \in PageStates /\ aged.format = page.format /\ aged.shown = page.shown
        /\ aged.next = page.next /\ aged.asOf = page.asOf /\ aged.records = records
    BY <1>1, <1>6 DEF PageStates
  <2>2. page' = [aged EXCEPT !.asOf = Older(page.asOf)]
    BY DEF records
  <2> HIDE DEF aged
  <2>3. QED
    BY <1>2, <2>1, <2>2 DEF PageStates
<1>8. ASSUME page.asOf = Never PROVE page'.asOf = Never
  BY <1>7, <1>8, OlderKeeps
<1>9. ASSUME OldRecord PROVE OldRecord'
  <2>1. PICK n \in DOMAIN page.records : page.records[n].age <= page.asOf
    BY <1>9 DEF OldRecord
  <2>2. Older(page.records[n].age) <= Older(page.asOf)
    BY <1>2, <1>5, <2>1, OlderKeeps
  <2>3. n \in DOMAIN page'.records /\ page'.records[n].age <= page'.asOf
    BY <1>4, <1>5, <1>7, <2>2
  <2>4. QED
    BY <2>3 DEF OldRecord
<1>10. ASSUME NEW i \in SlotsOf(page.shown.table), page.shown.table \in Tables, OldSlot(i)
       PROVE  OldSlot(i)'
  <2> DEFINE slot == store[page.shown.table][i]
             new == store'[page.shown.table][i]
  <2>1. slot \in SlotStates
    BY <1>1, <1>10 DEF CollectorInv, StoreOK
  <2>2. new = [slot EXCEPT !.age = Older(@)]
    <3>1. store' = [table \in Tables |->
                      [j \in DOMAIN store[table] |-> [store[table][j] EXCEPT !.age = Older(@)]]]
      BY DEF CollectorTick
    <3>2. DOMAIN store[page.shown.table] = SlotsOf(page.shown.table)
      BY <1>1, <1>10 DEF CollectorInv, StoreOK
    <3>3. QED
      BY <1>10, <3>1, <3>2
  <2>3. slot.source # NoOne /\ slot.age <= page.asOf
    BY <1>10 DEF OldSlot
  <2> HIDE DEF slot, new
  <2>4. new.source = slot.source /\ new.age = Older(slot.age) /\ slot.age \in 0 .. Never
    BY <2>1, <2>2 DEF SlotStates
  <2>5. Older(slot.age) <= Older(page.asOf)
    BY <1>2, <2>3, <2>4, OlderKeeps
  <2>6. new.source # NoOne /\ new.age <= page'.asOf
    BY <1>7, <2>3, <2>4, <2>5
  <2>7. QED
    BY <1>7, <2>6 DEF OldSlot, new
<1>11. heardOf'.taken = heardOf.taken
  <2>1. heardOf \in HeardStates
    BY <1>1 DEF CollectorInv
  <2>2. QED
    BY <2>1 DEF CollectorTick, HeardStates
<1>12. PageInv'
  <2>1. CASE page.format = "none"
    BY <1>7, <2>1 DEF PageInv
  <2>2. CASE page.format # "none"
    <3>1. LoopOK(page'.format, page'.shown) /\ page'.next \in 1 .. page'.shown.bound + 1
          /\ page.shown.table \in Tables
      BY <1>1, <1>7, <2>2 DEF PageInv, LoopOK
    <3>2. \/ page'.asOf = Never \/ OldRecord'
          \/ \E i \in SlotsOf(page.shown.table) : i >= page.next /\ OldSlot(i)'
      BY <1>1, <1>8, <1>9, <1>10, <2>2, <3>1 DEF PageInv
    <3>3. ASSUME page.shown.id = "instance", ~heardOf.taken, NEW n \in DOMAIN page'.records,
                 NEW part \in MessageParts
          PROVE  page'.records[n].said[part] \in {NoOne, page'.records[n].id}
      <4>1. n \in DOMAIN page.records
        BY <1>4, <1>7, <3>3
      <4>2. page.records[n].said[part] \in {NoOne, page.records[n].id}
        BY <1>1, <2>2, <3>3, <4>1 DEF PageInv
      <4>3. QED
        BY <1>5, <1>7, <4>1, <4>2
    <3>4. QED
      BY <1>7, <1>11, <3>1, <3>2, <3>3 DEF PageInv, LoopOK, SlotsOf
  <2>3. QED
    BY <2>1, <2>2
<1>13. QED
  BY <1>1, <1>7, <1>12 DEF ArchiveInv, PageStates

LEMMA ArchiveInvariant == ArchiveInv /\ [DataOutputStep]_dataOutputVars => ArchiveInv'
<1> SUFFICES ASSUME ArchiveInv, [DataOutputStep]_dataOutputVars PROVE ArchiveInv'
  OBVIOUS
<1>1. CASE UNCHANGED dataOutputVars
  BY <1>1 DEF dataOutputVars, collectorVars, ArchiveInv, CollectorInv, WantedOK, StoreOK, TableInv,
     Holds, SlotInv, LostInv, HistoryInv, PageInv, OldRecord, OldSlot
<1>2. CASE DataOutputStep
  BY <1>2, StartPageKeeps, AppendKeeps, PageKeepsMessage, PageKeepsTick DEF DataOutputStep
<1>3. QED
  BY <1>1, <1>2

\* At first no page is asked for.
LEMMA ArchiveInitially == DataOutputInit => ArchiveInv
<1> SUFFICES ASSUME DataOutputInit PROVE ArchiveInv
  OBVIOUS
<1>1. CollectorInv
  BY CollectorInitially DEF DataOutputInit
<1>2. page = [format |-> "none", shown |-> [table |-> "none", bound |-> 0, id |-> "none"],
              next |-> 1, records |-> <<>>, asOf |-> Never]
  BY DEF DataOutputInit, NoPage, Loop
<1>3. page \in PageStates /\ page.format = "none"
  BY <1>2, CollectorNumbers DEF PageStates, LoopStates
<1>4. QED
  BY <1>1, <1>3 DEF ArchiveInv, PageInv

\* Who asks a table gets the newest of it, and of the instance asked for, where that matters.
LEMMA NewestIsFresh ==
  ASSUME CollectorInv, NEW table \in Tables, ~(heardOf.taken /\ table \in ByInstance)
  PROVE  /\ Newest(table).age \in 0 .. Never /\ Newest(table).age <= heardOf.age[table]
         /\ Newest(table).source = NoOne => heardOf.age[table] = Never
         /\ table \in OfInstance =>
              \A part \in MessageParts : Newest(table).said[part] \in {NoOne, wanted.instance}
<1> DEFINE slots == store[table]
           all == Candidates(table)
           newest == {i \in all : \A j \in all : slots[i].age <= slots[j].age}
<1>1. /\ heardOf.age[table] \in 0 .. Never /\ heardOf.taken \in BOOLEAN
      /\ slots \in [SlotsOf(table) -> SlotStates]
      /\ TableInv(table) /\ \A i \in SlotsOf(table) : SlotInv(table, i)
  BY DEF CollectorInv, HeardStates, StoreOK
<1>2. table \in OfInstance => ~heardOf.taken /\ table \in ByInstance
  BY <1>1, TableNames
<1>3. \A i \in SlotsOf(table) :
        i \in all <=> /\ slots[i].source # NoOne
                      /\ table \in OfInstance => slots[i].instance = wanted.instance
  BY <1>1 DEF Candidates, OfInstance
<1>4. all \subseteq SlotsOf(table)
  BY <1>1 DEF Candidates
<1>5. heardOf.age[table] = Never \/ \E i \in all : slots[i].age <= heardOf.age[table]
  BY <1>1, <1>2, <1>3 DEF TableInv, Holds
<1>6. \A i \in all : slots[i] \in SlotStates /\ slots[i].age \in 0 .. Never
  BY <1>1, <1>4, SlotFields
<1>7. Newest(table) = IF all = {} THEN FreeSlot ELSE slots[Min(newest)]
  BY DEF Newest
<1> HIDE DEF all
<1>8. CASE all = {}
  <2>1. Newest(table) = FreeSlot /\ heardOf.age[table] = Never
    BY <1>5, <1>7, <1>8
  <2>2. QED
    BY <2>1, FreeSlotIsOne, CollectorNumbers
<1>9. CASE all # {}
  <2> DEFINE ages == {slots[i].age : i \in all}
             first == Min(newest)
  <2>1. ages \in SUBSET Nat /\ ages # {}
    BY <1>6, <1>9, CollectorNumbers
  <2>2. PICK least \in ages : \A other \in ages : least <= other
    BY <2>1, LeastExists
  <2>3. newest # {} /\ newest \in SUBSET Nat
    <3>1. PICK i \in all : least = slots[i].age
      BY <2>2
    <3>2. \A j \in all : slots[i].age <= slots[j].age
      BY <2>2, <3>1
    <3>3. i \in newest
      BY <3>1, <3>2
    <3>4. SlotsOf(table) \subseteq Nat
      BY CollectorNumbers DEF SlotsOf
    <3>5. newest \subseteq SlotsOf(table)
      BY <1>4
    <3> HIDE DEF newest
    <3>6. QED
      BY <3>3, <3>4, <3>5
  <2> HIDE DEF ages
  <2>4. first \in newest
    <3> HIDE DEF newest
    <3>1. QED
      BY <2>3, LeastExists DEF Min
  <2>5. first \in all /\ \A j \in all : slots[first].age <= slots[j].age
    BY <2>4
  <2>6. Newest(table) = slots[first]
    BY <1>7, <1>9
  <2> HIDE DEF first
  <2>7. slots[first].age \in 0 .. Never /\ slots[first].age <= heardOf.age[table]
    BY <1>1, <1>5, <1>6, <2>5, CollectorNumbers
  <2>8. slots[first].source # NoOne
    BY <1>3, <1>4, <2>5
  <2>9. ASSUME table \in OfInstance, NEW part \in MessageParts
        PROVE  slots[first].said[part] \in {NoOne, wanted.instance}
    <3>1. slots[first].instance = wanted.instance /\ SlotInv(table, first)
      BY <1>1, <1>3, <1>4, <2>5, <2>9
    <3>2. QED
      BY <1>2, <2>8, <2>9, <3>1 DEF SlotInv
  <2>10. QED
    BY <2>6, <2>7, <2>8, <2>9
<1>10. QED
  BY <1>8, <1>9

\* Of two tables the newer reading is as new as either's.
LEMMA LatLongIsFresh ==
  ASSUME CollectorInv
  PROVE  LatLong.age <= heardOf.age["possition"] /\ LatLong.age <= heardOf.age["gnss"]
<1> DEFINE here == Newest("possition")
           there == Newest("gnss")
<1>1. /\ here.age \in 0 .. Never /\ here.age <= heardOf.age["possition"]
      /\ here.source = NoOne => heardOf.age["possition"] = Never
  BY TableNames, NewestIsFresh
<1>2. /\ there.age \in 0 .. Never /\ there.age <= heardOf.age["gnss"]
      /\ there.source = NoOne => heardOf.age["gnss"] = Never
  BY TableNames, NewestIsFresh
<1>3. heardOf.age["possition"] \in 0 .. Never /\ heardOf.age["gnss"] \in 0 .. Never
  BY TableNames DEF CollectorInv, HeardStates
<1>4. LatLong = IF there.source = NoOne \/ (here.source # NoOne /\ here.age < there.age)
                THEN here ELSE there
  BY DEF LatLong
<1> HIDE DEF here, there
<1>5. QED
  BY <1>1, <1>2, <1>3, <1>4, CollectorNumbers

\* Two numbers of the same place are whole rings apart.
LEMMA SamePlace ==
  ASSUME NEW m \in Nat, NEW n \in Nat, NEW size \in Nat \ {0}, m % size = n % size
  PROVE  (m - n) % size = 0
<1> DEFINE k == m \div size - n \div size
<1>1. m = size * (m \div size) + (m % size) /\ n = size * (n \div size) + (n % size)
      /\ m \div size \in Int /\ n \div size \in Int /\ m % size \in Int
  BY Quotient
<1>2. m - n = size * (m \div size) - size * (n \div size)
  BY <1>1
<1>3. k \in Int /\ m - n = size * k
  BY <1>1, <1>2
<1> HIDE DEF k
<1>4. (size * k) % size = 0
  BY <1>3
<1>5. QED
  BY <1>3, <1>4

\* What is asked for is fresh.
LEMMA CollectorIsFresh == CollectorInv => CollectorFresh
<1> SUFFICES ASSUME CollectorInv PROVE CollectorFresh
  OBVIOUS
<1>1. heardOf \in HeardStates /\ pressureLog \in HistoryStates /\ WantedOK /\ LostInv /\ HistoryInv
      /\ StoreOK
  BY DEF CollectorInv
<1>2. ASSUME NEW table \in wanted.tables \ {"wind"}, ~(heardOf.taken /\ table \in ByInstance)
      PROVE  LET shown == CASE table = "pressure" -> FirstPressure
                            [] "possition" \in wanted.tables /\ "gnss" \in wanted.tables -> LatLong
                            [] OTHER -> Newest(table)
             IN  /\ shown.age <= heardOf.age[table]
                 /\ table \in OfInstance =>
                      \A part \in MessageParts : shown.said[part] \in {NoOne, wanted.instance}
  <2> DEFINE both == "possition" \in wanted.tables /\ "gnss" \in wanted.tables
             shown == CASE table = "pressure" -> FirstPressure
                        [] both -> LatLong
                        [] OTHER -> Newest(table)
  <2> SUFFICES /\ shown.age <= heardOf.age[table]
               /\ table \in OfInstance =>
                    \A part \in MessageParts : shown.said[part] \in {NoOne, wanted.instance}
    BY Zenon
  <2>1. table \in Tables /\ (both => table \in {"possition", "gnss"})
    BY <1>1, TableNames DEF WantedOK
  <2>2. table \notin {"possition", "gnss"} \/ (table # "pressure" /\ table \notin OfInstance)
    BY DEF OfInstance
  <2>3. CASE table = "pressure"
    <3>1. shown = store["pressure"][1] /\ SlotsOf("pressure") = {1}
      BY <2>1, <2>2, <2>3, CollectorAssumption DEF FirstPressure, SlotsOf
    <3>2. TableInv("pressure") /\ "pressure" \in Tables /\ "pressure" \notin OfInstance
      BY TableNames DEF CollectorInv
    <3>3. store["pressure"][1].age \in 0 .. Never /\ heardOf.age["pressure"] \in 0 .. Never
      BY <1>1, <3>1, <3>2, SlotFields DEF StoreOK, HeardStates
    <3>4. store["pressure"][1].age <= heardOf.age["pressure"]
      BY <3>1, <3>2, <3>3, CollectorNumbers DEF TableInv, Holds
    <3> HIDE DEF shown
    <3>5. QED
      BY <2>3, <3>1, <3>2, <3>4
  <2>4. CASE table # "pressure" /\ both
    <3>1. shown = LatLong /\ table \in {"possition", "gnss"} /\ table \notin OfInstance
      BY <2>1, <2>2, <2>4
    <3>2. LatLong.age <= heardOf.age[table]
      BY <3>1, LatLongIsFresh
    <3> HIDE DEF shown
    <3>3. QED
      BY <3>1, <3>2
  <2>5. CASE table # "pressure" /\ ~both
    <3>1. shown = Newest(table)
      BY <2>5
    <3> HIDE DEF shown
    <3>2. QED
      BY <1>2, <2>1, <3>1, NewestIsFresh
  <2>6. QED
    BY <2>3, <2>4, <2>5
<1>3. ASSUME lost # <<>>, NEW i \in DOMAIN store[lost[1]]
      PROVE  /\ store[lost[1]][i].age <= StaleAfter
             /\ lost[1] \in ByIndex => store[lost[1]][i].source # lost[2]
  <2>1. PICK table \in Tables, source \in CollectorSources :
          /\ lost = <<table, source>>
          /\ \A j \in SlotsOf(table) :
               /\ store[table][j].age <= StaleAfter
               /\ table \in ByIndex => store[table][j].source # source
    BY <1>1, <1>3 DEF LostInv
  <2>2. lost[1] = table /\ lost[2] = source
    BY <2>1
  <2>3. i \in SlotsOf(table)
    BY <1>1, <1>3, <2>2 DEF StoreOK
  <2>4. QED
    BY <2>1, <2>2, <2>3
<1>4. ASSUME NEW term \in DOMAIN Iterated \cap heardOf.periods
      PROVE  /\ term \in Iterated[term]
             /\ \A other \in Iterated[term] : (term - other) % HistoryLength = 0
  <2> DEFINE now == pressureLog.period
             oldest == Max({0, now + 1 - HistoryLength})
  <2>1. now \in Nat /\ HistoryLength \in Nat \ {0}
        /\ pressureLog.history \in [0 .. HistoryLength - 1 -> SUBSET Nat]
    BY <1>1, CollectorNumbers DEF HistoryStates
  <2>2. oldest \in Int /\ oldest >= 0 /\ oldest >= now + 1 - HistoryLength
    <3> DEFINE bound == now + 1 - HistoryLength
    <3>1. bound \in Int
      BY <2>1
    <3> HIDE DEF bound
    <3>2. \E most \in {0, bound} : \A any \in {0, bound} : most >= any
      BY <3>1
    <3>3. Max({0, bound}) \in {0, bound} /\ \A any \in {0, bound} : Max({0, bound}) >= any
      BY <3>2 DEF Max
    <3>4. QED
      BY <3>1, <3>3 DEF bound
  <2> HIDE DEF oldest
  <2>3. term \in oldest .. now /\ Iterated[term] = pressureLog.history[term % HistoryLength]
    BY DEF Iterated, oldest
  <2>4. term \in Nat /\ term > now - HistoryLength /\ term \in heardOf.periods
    BY <2>1, <2>2, <2>3
  <2>5. term % HistoryLength \in 0 .. HistoryLength - 1
    BY <2>1, <2>4, Quotient
  <2>6. term \in Iterated[term]
    BY <1>1, <2>3, <2>4 DEF HistoryInv
  <2>7. ASSUME NEW other \in Iterated[term] PROVE (term - other) % HistoryLength = 0
    <3>1. other \in Nat /\ other % HistoryLength = term % HistoryLength
      BY <1>1, <2>1, <2>3, <2>5, <2>7 DEF HistoryInv
    <3>2. QED
      BY <2>1, <2>4, <3>1, SamePlace
  <2>8. QED
    BY <2>6, <2>7
<1>5. QED
  BY <1>2, <1>3, <1>4 DEF CollectorFresh, OfInstance

\* A page that is finished has been to every slot but those no loop of it goes to.
LEMMA PagesAreFresh == ArchiveInv => PagesFresh
<1> SUFFICES ASSUME ArchiveInv, Finished PROVE
             /\ \/ page.asOf = Never
                \/ \E i \in Unvisited(page.shown.table) : store[page.shown.table][i].source # NoOne
                \/ \E n \in DOMAIN page.records : page.records[n].age <= page.asOf
             /\ page.shown.id = "instance" /\ ~heardOf.taken =>
                  \A n \in DOMAIN page.records : \A part \in MessageParts :
                    page.records[n].said[part] \in {NoOne, page.records[n].id}
  BY DEF PagesFresh
<1> DEFINE table == page.shown.table
<1>1. /\ page.format # "none" /\ page.next > page.shown.bound
      /\ PageInv /\ page \in PageStates /\ StoreOK
  BY DEF ArchiveInv, CollectorInv, Finished, LastVisited
<1>2. LoopOK(page.format, page.shown) /\ page.next \in Nat /\ page.shown.bound \in Nat
  BY <1>1, PageFields DEF PageInv
<1>3. table \in Tables /\ DOMAIN store[table] = SlotsOf(table)
  BY <1>1, <1>2 DEF LoopOK, StoreOK
<1>4. ASSUME NEW i \in SlotsOf(table), i >= page.next, OldSlot(i)
      PROVE  \E j \in Unvisited(table) : store[table][j].source # NoOne
  <2>1. i \in Nat /\ i > page.shown.bound /\ i <= MaxSources[table]
    BY <1>1, <1>2, <1>3, <1>4, CollectorNumbers DEF SlotsOf
  <2>2. \/ table = "possition" /\ page.shown.bound = MaxSources["log"]
        \/ page.format = "csv" /\ table = "heading" /\ page.shown.bound = MaxSources["speed"]
    BY <1>2, <1>3, <2>1, CollectorNumbers DEF LoopOK
  <2>3. i \in Unvisited(table)
    <3>1. CASE table = "possition" /\ page.shown.bound = MaxSources["log"]
      BY <1>3, <2>1, <3>1 DEF Unvisited
    <3>2. CASE page.format = "csv" /\ table = "heading" /\ page.shown.bound = MaxSources["speed"]
      BY <1>3, <2>1, <3>2 DEF Unvisited
    <3>3. QED
      BY <2>2, <3>1, <3>2
  <2>4. QED
    BY <1>4, <2>3 DEF OldSlot
<1>5. QED
  BY <1>1, <1>4 DEF PageInv, OldRecord

----------------------------------------------------------------------------
(* BLE payloads. *)

LEMMA PayloadNumbers ==
  ASSUME NEW r \in [cells : CellCounts, ntcs : NtcCounts, len03 : Lengths03, len04 : Lengths04]
  PROVE  /\ r.cells \in Nat /\ r.ntcs \in Nat /\ r.len03 \in Nat /\ r.len04 \in Nat
         /\ Cells(r) \in 0 .. 16 /\ Cells(r) <= r.cells
         /\ Ntcs(r) \in 0 .. 5 /\ Ntcs(r) <= r.ntcs
<1>1. CellCounts \subseteq Nat /\ NtcCounts \subseteq Nat
  BY PayloadAssumption
<1>2. Lengths03 \subseteq Nat /\ Lengths04 \subseteq Nat
  BY PayloadAssumption
<1>3. r.cells \in Nat /\ r.ntcs \in Nat /\ r.len03 \in Nat /\ r.len04 \in Nat
  BY <1>1, <1>2
<1>4. QED
  BY <1>3 DEF Cells, Ntcs, AtMost

LEMMA JoinedBytes ==
  ASSUME NEW S, NEW s \in Seq(S), NEW t \in Seq(S)
  PROVE  /\ s \o t \in Seq(S) /\ Len(s \o t) = Len(s) + Len(t)
         /\ \A i \in 1 .. Len(s) : (s \o t)[i] = s[i]
         /\ \A i \in Len(s) + 1 .. Len(s) + Len(t) : (s \o t)[i] = t[i - Len(s)]
OBVIOUS

\* What setBatteryState() puts together when the registers hold what 0x03 says there is, c cells
\* and n temperatures.
Whole(c, n) ==
  Part("head", 15) \o CountByte(c) \o Part("cell", 2 * c) \o CountByte(n) \o Part("ntc", 2 * n)

\* The documented table, for a payload.
LaidOut(bytes, c, n) ==
  /\ Len(bytes) = 17 + 2 * c + 2 * n
  /\ bytes[16] = [part |-> "count", at |-> c] /\ bytes[17 + 2 * c] = [part |-> "count", at |-> n]
  /\ \A i \in 17 .. 16 + 2 * c : bytes[i].part = "cell"

LEMMA BatteryLayout ==
  ASSUME NEW c \in 0 .. 16, NEW n \in 0 .. 5
  PROVE  LaidOut(Whole(c, n), c, n)
<1>0. c \in Nat /\ n \in Nat /\ 2 * c \in Nat /\ 2 * n \in Nat
  OBVIOUS
<1> DEFINE Octets == [part : {"head", "cell", "ntc", "count"}, at : Nat]
<1> DEFINE head   == Part("head", 15)
           count  == CountByte(c)
           cells  == Part("cell", 2 * c)
           ntc    == CountByte(n)
           temps  == Part("ntc", 2 * n)
           first  == head \o count
           second == first \o cells
           third  == second \o ntc
<1>1. c \in Nat /\ n \in Nat /\ 2 * c \in Nat /\ 2 * n \in Nat
  OBVIOUS
<1>2. /\ head \in Seq(Octets) /\ Len(head) = 15
      /\ cells \in Seq(Octets) /\ Len(cells) = 2 * c
      /\ \A i \in 1 .. 2 * c : cells[i].part = "cell"
      /\ temps \in Seq(Octets) /\ Len(temps) = 2 * n
  BY <1>1 DEF Part
<1>3. /\ count \in Seq(Octets) /\ Len(count) = 1 /\ count[1] = [part |-> "count", at |-> c]
      /\ ntc \in Seq(Octets) /\ Len(ntc) = 1 /\ ntc[1] = [part |-> "count", at |-> n]
  BY <1>1 DEF CountByte
<1>4. Whole(c, n) = third \o temps
  BY DEF Whole
<1> HIDE DEF Octets, head, count, cells, ntc, temps
<1>5. /\ first \in Seq(Octets) /\ Len(first) = 16 /\ first[16] = [part |-> "count", at |-> c]
  <2>0. head \in Seq(Octets) /\ count \in Seq(Octets)
    BY <1>2, <1>3
  <2>1. /\ first \in Seq(Octets) /\ Len(first) = Len(head) + Len(count)
        /\ \A i \in 1 .. Len(head) : first[i] = head[i]
        /\ \A i \in Len(head) + 1 .. Len(head) + Len(count) : first[i] = count[i - Len(head)]
    BY <2>0, JoinedBytes, Zenon
  <2> HIDE DEF first
  <2>2. QED
    BY <1>2, <1>3, <2>1
<1> HIDE DEF first
<1>6. /\ second \in Seq(Octets) /\ Len(second) = 16 + 2 * c /\ second[16] = first[16]
      /\ \A i \in 17 .. 16 + 2 * c : second[i] = cells[i - 16]
  <2>0. first \in Seq(Octets) /\ cells \in Seq(Octets)
    BY <1>2, <1>5
  <2>1. /\ second \in Seq(Octets) /\ Len(second) = Len(first) + Len(cells)
        /\ \A i \in 1 .. Len(first) : second[i] = first[i]
        /\ \A i \in Len(first) + 1 .. Len(first) + Len(cells) : second[i] = cells[i - Len(first)]
    BY <2>0, JoinedBytes, Zenon
  <2> HIDE DEF second
  <2>2. QED
    BY <1>1, <1>2, <1>5, <2>1
<1> HIDE DEF second
<1>7. /\ third \in Seq(Octets) /\ Len(third) = 17 + 2 * c
      /\ third[17 + 2 * c] = [part |-> "count", at |-> n]
      /\ \A i \in 16 .. 16 + 2 * c : third[i] = second[i]
  <2>0. second \in Seq(Octets) /\ ntc \in Seq(Octets)
    BY <1>3, <1>6
  <2>1. /\ third \in Seq(Octets) /\ Len(third) = Len(second) + Len(ntc)
        /\ \A i \in 1 .. Len(second) : third[i] = second[i]
        /\ \A i \in Len(second) + 1 .. Len(second) + Len(ntc) : third[i] = ntc[i - Len(second)]
    BY <2>0, JoinedBytes, Zenon
  <2> HIDE DEF third
  <2>2. QED
    BY <1>1, <1>3, <1>6, <2>1
<1> HIDE DEF third
<1>8. /\ Len(Whole(c, n)) = 17 + 2 * c + 2 * n
      /\ \A i \in 16 .. 17 + 2 * c : Whole(c, n)[i] = third[i]
  <2>0. third \in Seq(Octets) /\ temps \in Seq(Octets)
    BY <1>2, <1>4, <1>7
  <2>1. /\ Len(third \o temps) = Len(third) + Len(temps)
        /\ \A i \in 1 .. Len(third) : (third \o temps)[i] = third[i]
    BY <2>0, JoinedBytes, Zenon
  <2>2. Len(third) = 17 + 2 * c /\ Len(temps) = 2 * n
    BY <1>2, <1>7
  <2>3. /\ Len(Whole(c, n)) = 17 + 2 * c + 2 * n
        /\ \A i \in 1 .. 17 + 2 * c : Whole(c, n)[i] = third[i]
    BY <1>4, <2>1, <2>2, Zenon
  <2>4. \A i \in 16 .. 17 + 2 * c : i \in 1 .. 17 + 2 * c
    BY <1>1
  <2>5. QED
    BY <2>3, <2>4, Zenon
<1>9. \A i \in 16 .. 16 + 2 * c : Whole(c, n)[i] = second[i]
  BY <1>1, <1>7, <1>8
<1>10. \A i \in 17 .. 16 + 2 * c : Whole(c, n)[i].part = "cell"
  <2> SUFFICES ASSUME NEW i \in 17 .. 16 + 2 * c PROVE Whole(c, n)[i].part = "cell"
    OBVIOUS
  <2>0. i \in 16 .. 16 + 2 * c /\ i - 16 \in 1 .. 2 * c
    BY <1>1
  <2>1. Whole(c, n)[i] = cells[i - 16] /\ i - 16 \in 1 .. 2 * c
    BY <1>6, <1>9, <2>0, Zenon
  <2>2. QED
    BY <1>2, <2>1
<1>11. Whole(c, n)[16] = [part |-> "count", at |-> c]
  BY <1>1, <1>5, <1>6, <1>9
<1>12. Whole(c, n)[17 + 2 * c] = [part |-> "count", at |-> n]
  BY <1>1, <1>7, <1>8
<1>13. QED
  BY <1>8, <1>10, <1>11, <1>12 DEF LaidOut

\* No payload outgrows the buffer, whatever the registers hold.
LEMMA BatteryFits ==
  ASSUME NEW r \in [cells : CellCounts, ntcs : NtcCounts, len03 : Lengths03, len04 : Lengths04]
  PROVE  /\ Len(Battery(r)) <= BufferLen
         /\ ~(TotalLen(r) > BufferLen)
<1> DEFINE Octets == [part : {"head", "cell", "ntc", "count"}, at : Nat]
           c     == Cells(r)
           n     == Ntcs(r)
           head  == Part("head", 15)
           count == CountByte(c)
           ntc   == CountByte(n)
           cells == IF 2 * c <= r.len04 THEN Part("cell", 2 * c) ELSE <<>>
           temps == IF 23 + 2 * n <= r.len03 THEN Part("ntc", 2 * n) ELSE <<>>
<1>1. c \in 0 .. 16 /\ n \in 0 .. 5 /\ 2 * c \in 0 .. 32 /\ 2 * n \in 0 .. 10
  BY PayloadNumbers
<1>2. (2 * c) % 2^8 = 2 * c /\ TotalLen(r) = 17 + 2 * c + 2 * n
  BY <1>1 DEF TotalLen
<1>3. Battery(r) = head \o count \o cells \o ntc \o temps
  BY <1>2 DEF Battery
<1> HIDE DEF c, n
<1>4. head \in Seq(Octets) /\ Len(head) = 15
  BY DEF Part
<1>5. /\ count \in Seq(Octets) /\ Len(count) = 1
      /\ ntc \in Seq(Octets) /\ Len(ntc) = 1
  BY <1>1 DEF CountByte
<1>6. /\ Part("cell", 2 * c) \in Seq(Octets) /\ Len(Part("cell", 2 * c)) = 2 * c
      /\ Part("ntc", 2 * n) \in Seq(Octets) /\ Len(Part("ntc", 2 * n)) = 2 * n
  BY <1>1 DEF Part
<1>7. <<>> \in Seq(Octets) /\ Len(<<>>) = 0
  OBVIOUS
<1> HIDE DEF Octets
<1>8. cells \in Seq(Octets) /\ temps \in Seq(Octets)
  BY <1>6, <1>7
<1>9. Len(cells) \in {0, 2 * c} /\ Len(temps) \in {0, 2 * n}
  BY <1>6, <1>7
<1> HIDE DEF head, count, ntc, cells, temps
<1>10. /\ head \in Seq(Octets) /\ count \in Seq(Octets) /\ ntc \in Seq(Octets)
       /\ cells \in Seq(Octets) /\ temps \in Seq(Octets)
  BY <1>4, <1>5, <1>8
<1>11. /\ head \o count \in Seq(Octets)
       /\ Len(head \o count) = Len(head) + Len(count)
  BY <1>10, JoinedBytes, Zenon
<1>12. /\ head \o count \o cells \in Seq(Octets)
       /\ Len(head \o count \o cells) = Len(head \o count) + Len(cells)
  BY <1>10, <1>11, JoinedBytes, Zenon
<1>13. /\ head \o count \o cells \o ntc \in Seq(Octets)
       /\ Len(head \o count \o cells \o ntc) = Len(head \o count \o cells) + Len(ntc)
  BY <1>10, <1>12, JoinedBytes, Zenon
<1>14. Len(Battery(r)) = Len(head \o count \o cells \o ntc) + Len(temps)
  BY <1>3, <1>10, <1>13, JoinedBytes, Zenon
<1>15. ASSUME NEW long \in {0, 2 * c}, NEW short \in {0, 2 * n}
       PROVE  15 + 1 + long + 1 + short <= BufferLen
  BY <1>1 DEF BufferLen
<1>16. Len(Battery(r)) = 15 + 1 + Len(cells) + 1 + Len(temps)
  BY <1>4, <1>5, <1>11, <1>12, <1>13, <1>14, Zenon
<1>17. Len(Battery(r)) <= BufferLen
  BY <1>9, <1>15, <1>16, Zenon
<1>18. ~(TotalLen(r) > BufferLen)
  BY <1>1, <1>2 DEF BufferLen
<1>19. QED
  BY <1>17, <1>18

\* When the registers are of one pack the payload is the whole of it.
LEMMA BatteryOfOnePack ==
  ASSUME NEW r \in [cells : CellCounts, ntcs : NtcCounts, len03 : Lengths03, len04 : Lengths04],
         OnePack(r)
  PROVE  /\ Cells(r) \in 0 .. 16 /\ Ntcs(r) \in 0 .. 5 /\ r.len03 >= 23
         /\ Battery(r) = Whole(Cells(r), Ntcs(r))
<1>1. /\ r.cells \in Nat /\ r.ntcs \in Nat /\ r.len03 \in Nat /\ r.len04 \in Nat
      /\ r.len04 >= 2 * r.cells /\ r.len03 >= 23 + 2 * r.ntcs
  BY PayloadNumbers DEF OnePack
<1>2. /\ Cells(r) \in 0 .. 16 /\ Cells(r) <= r.cells
      /\ Ntcs(r) \in 0 .. 5 /\ Ntcs(r) <= r.ntcs
  BY PayloadNumbers
<1>3. (2 * Cells(r)) % 2^8 = 2 * Cells(r) /\ 2 * Cells(r) <= r.len04 /\ 23 + 2 * Ntcs(r) <= r.len03
  BY <1>1, <1>2
<1>4. (IF (2 * Cells(r)) % 2^8 <= r.len04 THEN Part("cell", (2 * Cells(r)) % 2^8) ELSE <<>>)
        = Part("cell", 2 * Cells(r))
  BY <1>3
<1>5. (IF 23 + 2 * Ntcs(r) <= r.len03 THEN Part("ntc", 2 * Ntcs(r)) ELSE <<>>)
        = Part("ntc", 2 * Ntcs(r))
  BY <1>3
<1>6. Battery(r) = Whole(Cells(r), Ntcs(r))
  BY <1>4, <1>5, Zenon DEF Battery, Whole
<1>7. QED
  BY <1>1, <1>2, <1>6

LEMMA SetBatteryKeeps ==
  ASSUME BatteryReadable,
         NEW r \in [cells : CellCounts, ntcs : NtcCounts, len03 : Lengths03, len04 : Lengths04],
         setBatteryState(r)
  PROVE  BatteryReadable'
<1>1. Len(payload') <= BufferLen
  BY BatteryFits DEF setBatteryState, BatteryReadable
<1>2. ASSUME OnePack(r)
      PROVE  /\ payload'[16].part = "count" /\ payload'[17 + 2 * payload'[16].at].part = "count"
             /\ Len(payload') = 17 + 2 * payload'[16].at
                                + 2 * payload'[17 + 2 * payload'[16].at].at
             /\ \A i \in 17 .. (17 + 2 * payload'[16].at) - 1 : payload'[i].part = "cell"
  <2> DEFINE c == Cells(r)
             n == Ntcs(r)
  <2>1. /\ c \in 0 .. 16 /\ n \in 0 .. 5 /\ payload' = Battery(r)
        /\ Battery(r) = Whole(c, n)
    <3>1. r.len03 \in Nat /\ r.len03 >= 23
      BY <1>2, BatteryOfOnePack, PayloadNumbers
    <3>2. ~(r.len03 < 23 \/ TotalLen(r) > BufferLen)
      BY <3>1, BatteryFits
    <3>3. payload' = Battery(r)
      BY <3>2 DEF setBatteryState
    <3>4. QED
      BY <1>2, <3>3, BatteryOfOnePack
  <2> HIDE DEF c, n
  <2>2. /\ Len(payload') = 17 + 2 * c + 2 * n
        /\ payload'[16] = [part |-> "count", at |-> c]
        /\ payload'[17 + 2 * c] = [part |-> "count", at |-> n]
        /\ \A i \in 17 .. 16 + 2 * c : payload'[i].part = "cell"
    <3>1. LaidOut(Whole(c, n), c, n)
      BY <2>1, BatteryLayout
    <3>2. LaidOut(payload', c, n)
      BY <2>1, <3>1
    <3>3. QED
      BY <3>2 DEF LaidOut
  <2>3. payload'[16].at = c /\ payload'[16].part = "count"
    BY <2>2
  <2>4. payload'[17 + 2 * c].at = n /\ payload'[17 + 2 * c].part = "count"
    BY <2>2
  <2>5. (17 + 2 * c) - 1 = 16 + 2 * c
    BY <2>1
  <2>6. QED
    BY <2>2, <2>3, <2>4, <2>5, Zenon
<1>3. registers' = r
  BY DEF setBatteryState
<1>4. QED
  BY <1>1, <1>2, <1>3, Zenon DEF BatteryReadable

LEMMA WriteNumberKeeps ==
  ASSUME NEW v \in Tenths, WriteNumber(v)
  PROVE  NumbersKept'
<1>1. number'.value = v /\ number'.nav = NavU16(v) /\ number'.engine = EngineU16(v) /\ v \in Nat
  BY PayloadAssumption DEF WriteNumber
<1>2. ASSUME v < 655345
      PROVE  /\ 10 * EngineU16(v) - v \in -4 .. 5 /\ v - 10 * NavU16(v) \in 0 .. 9
             /\ 2^16 - 1 \notin {NavU16(v), EngineU16(v)}
  <2>1. (v \div 10) % 2^16 = v \div 10 /\ ((v + 5) \div 10) % 2^16 = (v + 5) \div 10
    BY <1>1, <1>2
  <2>2. v \div 10 < 65535 /\ (v + 5) \div 10 < 65535
    BY <1>1, <1>2
  <2>3. 10 * ((v + 5) \div 10) - v \in -4 .. 5 /\ v - 10 * (v \div 10) \in 0 .. 9
    BY <1>1
  <2>4. QED
    BY <1>1, <2>1, <2>2, <2>3 DEF NavU16, EngineU16
<1>3. QED
  BY <1>1, <1>2 DEF NumbersKept

LEMMA PayloadsInvariant ==
  PayloadsReadable /\ [BatteryStep \/ NumberStep]_payloadVars => PayloadsReadable'
<1> SUFFICES ASSUME PayloadsReadable, [BatteryStep \/ NumberStep]_payloadVars
             PROVE  PayloadsReadable'
  OBVIOUS
<1>1. CASE UNCHANGED payloadVars
  BY <1>1 DEF payloadVars, PayloadsReadable, BatteryReadable, NumbersKept
<1>2. CASE BatteryStep
  <2>1. BatteryReadable'
    BY <1>2, SetBatteryKeeps DEF BatteryStep, PayloadsReadable
  <2>2. NumbersKept'
    BY <1>2 DEF BatteryStep, setBatteryState, PayloadsReadable, NumbersKept
  <2>3. QED
    BY <2>1, <2>2 DEF PayloadsReadable
<1>3. CASE NumberStep
  <2>1. NumbersKept'
    BY <1>3, WriteNumberKeeps DEF NumberStep
  <2>2. BatteryReadable'
    BY <1>3 DEF NumberStep, WriteNumber, PayloadsReadable, BatteryReadable
  <2>3. QED
    BY <2>1, <2>2 DEF PayloadsReadable
<1>4. QED
  BY <1>1, <1>2, <1>3

LEMMA PayloadsInitially == PayloadInit => PayloadsReadable
<1> SUFFICES ASSUME PayloadInit PROVE PayloadsReadable
  OBVIOUS
<1>1. BatteryReadable
  BY DEF PayloadInit, BatteryReadable, BufferLen
<1>2. NumbersKept
  BY DEF PayloadInit, NumbersKept
<1>3. QED
  BY <1>1, <1>2 DEF PayloadsReadable

----------------------------------------------------------------------------
(* The DNS and the echo server. *)

\* A reply is what the query calls for.
LEMMA RepliesAreRight ==
  ASSUME NEW q \in Query
  PROVE  /\ Reply(q).code = "NoError" => q.name.rest \notin NamesElsewhere
         /\ Reply(q).code # "none" => ~q.response
         /\ (/\ ~q.response /\ q.whole /\ q.opcode = "query" /\ q.questions = 1 /\ q.records = 0
             /\ q.name.rest \in DomainNames) =>
               Reply(q).code = "NoError" /\ Reply(q).body[2] = "A"
         /\ Reply(q).code # "none" /\ q.records = 0 =>
              Len(Reply(q).body) = Reply(q).questions + Reply(q).answers + Reply(q).records
<1>1. CASE q.response
  BY <1>1 DEF Reply, NoReply
<1>2. CASE ~q.response /\ RequestIncludesOnlyOneQuestion(q) /\ ~q.whole
  BY <1>2 DEF Reply, NoReply
<1>3. CASE /\ ~q.response /\ RequestIncludesOnlyOneQuestion(q) /\ q.whole /\ q.opcode = "query"
           /\ Matches(q.name)
  <2>1. Reply(q) = ReplyWithIP(q)
    BY <1>3 DEF Reply
  <2>2. q.questions = 1
    BY <1>3 DEF RequestIncludesOnlyOneQuestion
  <2>3. q.name.rest \notin NamesElsewhere
    BY <1>3, RespondersAssumption DEF Matches
  <2>4. QED
    BY <1>3, <2>1, <2>2, <2>3 DEF ReplyWithIP
<1>4. CASE /\ ~q.response /\ ~(RequestIncludesOnlyOneQuestion(q) /\ ~q.whole)
           /\ ~(/\ RequestIncludesOnlyOneQuestion(q) /\ q.whole /\ q.opcode = "query"
                /\ Matches(q.name))
  <2>1. Reply(q) = ReplyWithCustomCode(q)
    BY <1>4 DEF Reply
  <2>2. ~(/\ q.whole /\ q.opcode = "query" /\ q.questions = 1 /\ q.records = 0
          /\ q.name.rest \in DomainNames)
    BY <1>4 DEF RequestIncludesOnlyOneQuestion, Matches
  <2>3. QED
    BY <1>4, <2>1, <2>2 DEF ReplyWithCustomCode
<1>5. QED
  BY <1>1, <1>2, <1>3, <1>4

LEMMA Beginning ==
  ASSUME NEW S, NEW s \in Seq(S), NEW n \in 1 .. Len(s)
  PROVE  /\ SubSeq(s, 1, n) \in Seq(S) /\ Len(SubSeq(s, 1, n)) = n
         /\ \A i \in 1 .. n : SubSeq(s, 1, n)[i] = s[i]
OBVIOUS

DnsInv ==
  asking.query # NoQuery => asking.query \in Query /\ asking.reply = Reply(asking.query)

EchoStates ==
  [is : {"open", "closed"}, sent : Seq(EchoBytes), queued : Seq(EchoBytes), echoed : Seq(EchoBytes),
   idle : Nat]
NoLineEnd(text) == \A i \in DOMAIN text : text[i] # LineEnd

\* All that was sent is echoed or queued, but what comes after a line end, which closes the
\* connection.
EchoInv ==
  /\ echo \in EchoStates
  /\ \/ NoLineEnd(echo.sent) /\ echo.echoed \o echo.queued = echo.sent
     \/ /\ echo.is = "closed" /\ echo.queued = <<>>
        /\ \E line \in DOMAIN echo.sent :
             FirstLineEnd(echo.sent, line) /\ echo.echoed = SubSeq(echo.sent, 1, line)

RespondersInv == DnsInv /\ EchoInv

\* A text with a first line end in its second part has that one.
LEMMA FirstLineEndBehind ==
  ASSUME NEW s \in Seq(EchoBytes), NEW t \in Seq(EchoBytes), NEW end \in 1 .. Len(t),
         NoLineEnd(s), FirstLineEnd(t, end)
  PROVE  /\ Len(s) + end \in DOMAIN (s \o t) /\ FirstLineEnd(s \o t, Len(s) + end)
         /\ SubSeq(s \o t, 1, Len(s) + end) = s \o SubSeq(t, 1, end)
<1> DEFINE both == s \o t
           part == SubSeq(t, 1, end)
           line == Len(s) + end
<1>1. /\ both \in Seq(EchoBytes) /\ Len(both) = Len(s) + Len(t)
      /\ \A i \in 1 .. Len(s) + Len(t) : both[i] = IF i <= Len(s) THEN s[i] ELSE t[i - Len(s)]
  BY ConcatProperties, Zenon
<1>2. /\ Len(s) \in Nat /\ Len(t) \in Nat /\ line \in 1 .. Len(both) /\ line - Len(s) = end
      /\ DOMAIN both = 1 .. Len(both) /\ DOMAIN s = 1 .. Len(s)
  BY <1>1
<1>3. /\ part \in Seq(EchoBytes) /\ Len(part) = end
      /\ \A i \in 1 .. end : part[i] = t[i]
  BY <1>2
<1> HIDE DEF both, part
<1>4. FirstLineEnd(both, line)
  <2>1. both[line] = LineEnd
    BY <1>1, <1>2 DEF FirstLineEnd
  <2>2. ASSUME NEW j \in 1 .. line - 1
        PROVE  both[j] # LineEnd
    <3>1. CASE j <= Len(s)
      <4>1. j \in DOMAIN s /\ both[j] = s[j]
        BY <1>1, <1>2, <3>1
      <4>2. QED
        BY <4>1 DEF NoLineEnd
    <3>2. CASE j > Len(s)
      <4>1. both[j] = t[j - Len(s)] /\ j - Len(s) \in 1 .. end - 1
        BY <1>1, <1>2, <3>2
      <4>2. QED
        BY <4>1 DEF FirstLineEnd
    <3>3. QED
      BY <1>2, <3>1, <3>2
  <2>3. QED
    BY <2>1, <2>2 DEF FirstLineEnd
<1>5. /\ s \o part \in Seq(EchoBytes) /\ Len(s \o part) = Len(s) + Len(part)
      /\ \A i \in 1 .. Len(s) + Len(part) :
           (s \o part)[i] = IF i <= Len(s) THEN s[i] ELSE part[i - Len(s)]
  BY <1>3, ConcatProperties, Zenon
<1>6. /\ SubSeq(both, 1, line) \in Seq(EchoBytes) /\ Len(SubSeq(both, 1, line)) = line
      /\ \A i \in 1 .. line : SubSeq(both, 1, line)[i] = both[i]
  BY <1>1, <1>2, Beginning, Zenon
<1>7. ASSUME NEW i \in 1 .. line
      PROVE  SubSeq(both, 1, line)[i] = (s \o part)[i]
  <2>1. SubSeq(both, 1, line)[i] = IF i <= Len(s) THEN s[i] ELSE t[i - Len(s)]
    BY <1>1, <1>2, <1>6
  <2>2. (s \o part)[i] = IF i <= Len(s) THEN s[i] ELSE part[i - Len(s)]
    BY <1>2, <1>3, <1>5
  <2>3. CASE i <= Len(s)
    BY <2>1, <2>2, <2>3
  <2>4. CASE ~(i <= Len(s))
    <3>1. i - Len(s) \in 1 .. end
      BY <1>2, <2>4
    <3>2. part[i - Len(s)] = t[i - Len(s)]
      BY <1>3, <3>1
    <3>3. QED
      BY <2>1, <2>2, <2>4, <3>2
  <2>5. QED
    BY <2>3, <2>4
<1>8. SubSeq(both, 1, line) = s \o part
  BY <1>3, <1>5, <1>6, <1>7, SeqEqual
<1>9. QED
  BY <1>2, <1>4, <1>8 DEF both, part

LEMMA Associative == \A S : \A s, t, u \in Seq(S) : (s \o t) \o u = s \o (t \o u)
BY ConcatAssociative, Zenon

LEMMA EchoAssociative ==
  ASSUME NEW s \in Seq(EchoBytes), NEW t \in Seq(EchoBytes), NEW u \in Seq(EchoBytes)
  PROVE  (s \o t) \o u = s \o (t \o u)
BY Associative

LEMMA SegmentKeeps == EchoInv /\ EchoSegment => EchoInv'
<1> SUFFICES ASSUME EchoInv, EchoSegment PROVE EchoInv'
  OBVIOUS
<1>1. PICK n \in 1 .. MaxEcho - Len(echo.sent) :
        \E segment \in [1 .. n -> EchoBytes] : OnEchoData(segment)
  BY DEF EchoSegment
<1>2. PICK segment \in [1 .. n -> EchoBytes] : OnEchoData(segment)
  BY <1>1
<1> DEFINE all == echo.sent \o segment
           e == [echo EXCEPT !.sent = all, !.idle = 0]
<1>3. /\ echo \in EchoStates /\ echo.is = "open" /\ NoLineEnd(echo.sent)
      /\ echo.echoed \o echo.queued = echo.sent
  BY DEF EchoInv, EchoSegment
<1>4. /\ echo.sent \in Seq(EchoBytes) /\ echo.queued \in Seq(EchoBytes)
      /\ echo.echoed \in Seq(EchoBytes)
  BY <1>3 DEF EchoStates
<1>5. n \in Nat /\ segment \in Seq(EchoBytes) /\ Len(segment) = n /\ DOMAIN segment = 1 .. n
  <2>1. MaxEcho \in Nat /\ Len(echo.sent) \in Nat
    BY <1>4, RespondersAssumption
  <2>2. n \in Nat
    BY <1>1, <2>1
  <2>3. QED
    BY <1>2, <2>2
<1>6. /\ all \in Seq(EchoBytes) /\ Len(all) = Len(echo.sent) + Len(segment)
      /\ \A i \in 1 .. Len(echo.sent) + Len(segment) :
           all[i] = IF i <= Len(echo.sent) THEN echo.sent[i] ELSE segment[i - Len(echo.sent)]
  BY <1>4, <1>5, ConcatProperties, Zenon
<1> HIDE DEF all
<1>7. /\ e \in EchoStates /\ e.is = "open" /\ e.sent = all /\ e.queued = echo.queued
      /\ e.echoed = echo.echoed
  BY <1>3, <1>6 DEF EchoStates
<1> HIDE DEF e
<1>8. CASE (\A i \in 1 .. n : segment[i] # LineEnd) /\ echo' = [e EXCEPT !.queued = @ \o segment]
  <2>1. echo.queued \o segment \in Seq(EchoBytes)
    BY <1>4, <1>5, ConcatProperties, Zenon
  <2>2. /\ echo' \in EchoStates /\ echo'.sent = all /\ echo'.echoed = echo.echoed
        /\ echo'.queued = echo.queued \o segment
    BY <1>7, <1>8, <2>1 DEF EchoStates
  <2>3. echo.echoed \o (echo.queued \o segment) = all
    <3>1. (echo.echoed \o echo.queued) \o segment = echo.echoed \o (echo.queued \o segment)
      <4>1. segment \in Seq(EchoBytes)
        BY <1>5
      <4>2. QED
        BY <1>4, <4>1, EchoAssociative
    <3>2. QED
      BY <1>3, <3>1 DEF all
  <2>4. NoLineEnd(all)
    <3> SUFFICES ASSUME NEW i \in 1 .. Len(echo.sent) + Len(segment) PROVE all[i] # LineEnd
      BY <1>6 DEF NoLineEnd
    <3>1. CASE i <= Len(echo.sent)
      <4>1. i \in DOMAIN echo.sent /\ all[i] = echo.sent[i]
        BY <1>4, <1>6, <3>1
      <4>2. QED
        BY <1>3, <4>1 DEF NoLineEnd
    <3>2. CASE i > Len(echo.sent)
      <4>1. i - Len(echo.sent) \in 1 .. n /\ all[i] = segment[i - Len(echo.sent)]
        BY <1>4, <1>5, <1>6, <3>2
      <4>2. QED
        BY <1>8, <4>1
    <3>3. QED
      BY <1>4, <3>1, <3>2
  <2>5. QED
    BY <2>2, <2>3, <2>4, Zenon DEF EchoInv
<1>9. ASSUME NEW end \in 1 .. n, FirstLineEnd(segment, end), echo' = EchoedLine(e, segment, end)
      PROVE  EchoInv'
  <2> DEFINE got == echo.sent \o SubSeq(segment, 1, end)
  <2>1. SubSeq(segment, 1, end) \in Seq(EchoBytes)
    BY <1>5
  <2>2. got \in Seq(EchoBytes)
    BY <1>4, <2>1, ConcatProperties, Zenon
  <2>3. /\ Len(echo.sent) + end \in DOMAIN all /\ FirstLineEnd(all, Len(echo.sent) + end)
        /\ SubSeq(all, 1, Len(echo.sent) + end) = got
    BY <1>3, <1>4, <1>5, <1>9, FirstLineEndBehind, Zenon DEF all
  <2>4. (e.echoed \o e.queued) \o SubSeq(segment, 1, end) = got
    BY <1>3, <1>7
  <2> HIDE DEF got
  <2>5. echo' = [e EXCEPT !.is = "closed", !.queued = <<>>, !.echoed = got]
    BY <1>9, <2>4 DEF EchoedLine
  <2>6. /\ echo' \in EchoStates /\ echo'.is = "closed" /\ echo'.queued = <<>>
        /\ echo'.sent = all /\ echo'.echoed = got
    <3> DEFINE e1 == [e EXCEPT !.is = "closed"]
               e2 == [e1 EXCEPT !.queued = <<>>]
    <3>1. e1 \in EchoStates /\ e1.is = "closed" /\ e1.sent = all
      BY <1>7 DEF EchoStates
    <3>2. echo' = [e2 EXCEPT !.echoed = got]
      BY <1>7, <2>5 DEF EchoStates
    <3> HIDE DEF e1
    <3>3. <<>> \in Seq(EchoBytes)
      OBVIOUS
    <3>4. e2 \in EchoStates /\ e2.is = "closed" /\ e2.sent = all /\ e2.queued = <<>>
      BY <3>1, <3>3 DEF EchoStates
    <3> HIDE DEF e2
    <3>5. QED
      BY <2>2, <3>2, <3>4 DEF EchoStates
  <2>7. QED
    BY <2>3, <2>6, Zenon DEF EchoInv
<1>10. \/ (\A i \in 1 .. n : segment[i] # LineEnd) /\ echo' = [e EXCEPT !.queued = @ \o segment]
       \/ \E end \in 1 .. n : FirstLineEnd(segment, end) /\ echo' = EchoedLine(e, segment, end)
  BY <1>2, <1>5, Zenon DEF OnEchoData, e, all
<1>11. QED
  BY <1>8, <1>9, <1>10

LEMMA EchoKeeps == EchoInv /\ EchoStep => EchoInv'
<1> SUFFICES ASSUME EchoInv, EchoStep PROVE EchoInv'
  OBVIOUS
<1>1. CASE EchoSegment
  BY <1>1, SegmentKeeps
<1>2. /\ echo \in EchoStates
      /\ echo.sent \in Seq(EchoBytes) /\ echo.queued \in Seq(EchoBytes)
      /\ echo.echoed \in Seq(EchoBytes)
  BY DEF EchoInv, EchoStates
<1>3. CASE EchoDrains
  <2> DEFINE out == echo.echoed \o echo.queued
  <2>1. NoLineEnd(echo.sent) /\ out = echo.sent
    BY <1>3 DEF EchoInv, EchoDrains
  <2>2. echo' = [echo EXCEPT !.echoed = out, !.queued = <<>>]
    BY <1>3 DEF EchoDrains
  <2>3. out \in Seq(EchoBytes) /\ <<>> \in Seq(EchoBytes) /\ out \o <<>> = out
    BY <1>2, <2>1, ConcatEmptySeq
  <2> HIDE DEF out
  <2>4. /\ echo' \in EchoStates /\ echo'.sent = echo.sent /\ echo'.echoed = out
        /\ echo'.queued = <<>>
    BY <1>2, <2>2, <2>3 DEF EchoStates
  <2>5. QED
    BY <2>1, <2>3, <2>4, Zenon DEF EchoInv
<1>4. CASE EchoTick
  <2>1. /\ echo' \in EchoStates /\ echo'.sent = echo.sent /\ echo'.echoed = echo.echoed
        /\ echo'.queued = echo.queued
    BY <1>2, <1>4 DEF EchoTick, EchoStates
  <2>2. NoLineEnd(echo.sent) /\ echo.echoed \o echo.queued = echo.sent
    BY <1>4 DEF EchoTick, EchoInv
  <2>3. QED
    BY <2>1, <2>2, Zenon DEF EchoInv
<1>5. CASE EchoAgain
  BY <1>5 DEF EchoAgain, EchoInv, NewEcho, EchoStates, NoLineEnd
<1>6. QED
  BY <1>1, <1>3, <1>4, <1>5 DEF EchoStep

LEMMA RespondersInvariant ==
  RespondersInv /\ [HandleUDP \/ EchoStep]_respondersVars => RespondersInv'
<1> SUFFICES ASSUME RespondersInv, [HandleUDP \/ EchoStep]_respondersVars PROVE RespondersInv'
  OBVIOUS
<1>1. CASE UNCHANGED respondersVars
  BY <1>1 DEF respondersVars, RespondersInv, DnsInv, EchoInv
<1>2. CASE HandleUDP
  <2>1. EchoInv'
    BY <1>2 DEF HandleUDP, RespondersInv, EchoInv
  <2>2. DnsInv'
    BY <1>2 DEF HandleUDP, DnsInv
  <2>3. QED
    BY <2>1, <2>2 DEF RespondersInv
<1>3. CASE EchoStep
  <2>1. EchoInv'
    BY <1>3, EchoKeeps DEF RespondersInv
  <2>2. UNCHANGED asking
    <3>1. CASE EchoSegment
      BY <3>1 DEF EchoSegment
    <3>2. CASE EchoDrains \/ EchoTick \/ EchoAgain
      BY <3>2 DEF EchoDrains, EchoTick, EchoAgain
    <3>3. QED
      BY <1>3, <3>1, <3>2 DEF EchoStep
  <2>3. QED
    BY <2>1, <2>2 DEF RespondersInv, DnsInv
<1>4. QED
  BY <1>1, <1>2, <1>3

LEMMA RespondersInitially == RespondersInit => RespondersInv
<1> SUFFICES ASSUME RespondersInit PROVE RespondersInv
  OBVIOUS
<1>1. DnsInv
  BY DEF RespondersInit, DnsInv
<1>2. EchoInv
  BY DEF RespondersInit, EchoInv, NewEcho, EchoStates, NoLineEnd
<1>3. QED
  BY <1>1, <1>2 DEF RespondersInv

LEMMA RespondersInvHolds == RespondersInv => RespondersAnswer
<1> SUFFICES ASSUME RespondersInv PROVE RespondersAnswer
  OBVIOUS
<1>1. /\ echo.sent \in Seq(EchoBytes) /\ echo.queued \in Seq(EchoBytes)
      /\ echo.echoed \in Seq(EchoBytes)
  BY DEF RespondersInv, EchoInv, EchoStates
<1>2. CASE NoLineEnd(echo.sent) /\ echo.echoed \o echo.queued = echo.sent
  <2>1. IsPrefix(echo.echoed \o echo.queued, echo.sent)
    BY <1>1, <1>2 DEF IsPrefix
  <2>2. \A line \in DOMAIN echo.sent : ~FirstLineEnd(echo.sent, line)
    BY <1>2 DEF NoLineEnd, FirstLineEnd
  <2>3. QED
    BY <2>1, <2>2, RepliesAreRight DEF RespondersInv, DnsInv, RespondersAnswer
<1>3. ASSUME echo.is = "closed", echo.queued = <<>>, NEW line \in DOMAIN echo.sent,
             FirstLineEnd(echo.sent, line), echo.echoed = SubSeq(echo.sent, 1, line)
      PROVE  RespondersAnswer
  <2>1. echo.echoed \o echo.queued = echo.echoed
    BY <1>1, <1>3, ConcatEmptySeq
  <2>2. line \in 1 .. Len(echo.sent) /\ Len(echo.sent) \in Nat /\ Len(echo.echoed) = line
    BY <1>1, <1>3
  <2>3. SubSeq(echo.echoed, 1, Len(echo.echoed)) = echo.echoed
    BY <1>1, SubSeqFull, Zenon
  <2>4. IsPrefix(echo.echoed \o echo.queued, echo.sent)
    BY <1>3, <2>1, <2>2, <2>3 DEF IsPrefix
  <2>5. ASSUME NEW other \in DOMAIN echo.sent, FirstLineEnd(echo.sent, other)
        PROVE  other = line
    <3>1. other \in 1 .. Len(echo.sent)
      BY <1>1
    <3>2. /\ echo.sent[line] = LineEnd /\ \A j \in 1 .. line - 1 : echo.sent[j] # LineEnd
          /\ echo.sent[other] = LineEnd /\ \A j \in 1 .. other - 1 : echo.sent[j] # LineEnd
      BY <1>3, <2>5 DEF FirstLineEnd
    <3>3. ~(other \in 1 .. line - 1) /\ ~(line \in 1 .. other - 1)
      BY <3>2
    <3>4. QED
      BY <2>2, <3>1, <3>3
  <2>6. QED
    BY <1>3, <2>4, <2>5, RepliesAreRight DEF RespondersInv, DnsInv, RespondersAnswer
<1>4. QED
  BY <1>2, <1>3 DEF RespondersInv, EchoInv

----------------------------------------------------------------------------
(* The web socket for PGNs. *)

SentStates == [pgn : WsPgns, age : 0 .. Long, at : WsPgns \cup {NoPgn}]
WsSlotStates == [used : BOOLEAN, client : WsPeers \cup {GonePeer}, pgn : WsPgns \cup {NoPgn}]
WsKnownStates ==
  [now : WsPgns \cup {NoPgn}, connected : SUBSET WsPeers,
   last : [WsPgns -> 0 .. Long], again : BOOLEAN, full : BOOLEAN, skipped : BOOLEAN]

\* The list has the newest first and, unless more were sent than it holds, the last of each PGN
\* that was sent within the debounce; that is so until an entry is skipped.
KeptList ==
  /\ pgnsent \in Seq(SentStates) /\ Len(pgnsent) <= MaxTracking /\ wsKnown \in WsKnownStates
  /\ \A i, j \in DOMAIN pgnsent : i <= j => pgnsent[i].age <= pgnsent[j].age
  /\ ~wsKnown.full =>
       \A pgn \in {any \in WsPgns : wsKnown.last[any] <= Debounce} :
         \E i \in DOMAIN pgnsent : pgnsent[i].pgn = pgn /\ pgnsent[i].age = wsKnown.last[pgn]
  /\ wsKnown.again => wsKnown.full
ListInv == wsKnown \in WsKnownStates /\ (wsKnown.skipped \/ KeptList)

\* A slot holds a connected client or is free, or its client is just being taken out of it.
WsSlotsInv ==
  /\ wsClients \in [1 .. MaxWsClients -> WsSlotStates]
  /\ tasksRun =>
       /\ \A i \in 1 .. MaxWsClients : ~wsClients[i].used => wsClients[i].client = GonePeer
       /\ \A i \in 1 .. MaxWsClients :
            wsClients[i].client # GonePeer => wsClients[i].client \in wsKnown.connected
       /\ \A i, j \in 1 .. MaxWsClients :
            wsClients[i].client # GonePeer /\ wsClients[i].client = wsClients[j].client => i = j

WebSocketInv == ListInv /\ WsSlotsInv

LEMMA WebSocketNumbers ==
  /\ Debounce \in Nat /\ Long = Debounce + 1 /\ MaxTracking \in Nat \ {0} /\ MaxWsClients \in Nat
  /\ GonePeer \notin WsPeers
BY PgnWebSocketAssumption DEF Long, GonePeer

\* A PGN that was sent within the debounce is found among those the list is cut down to.
LEMMA FoundAgain ==
  ASSUME KeptList, NEW n \in 0 .. Len(pgnsent), Recent(n), ~wsKnown.full,
         NEW pgn \in WsPgns, wsKnown.last[pgn] <= Debounce
  PROVE  \E i \in 1 .. n : pgnsent[i].pgn = pgn /\ pgnsent[i].age = wsKnown.last[pgn]
<1>1. PICK i \in DOMAIN pgnsent : pgnsent[i].pgn = pgn /\ pgnsent[i].age = wsKnown.last[pgn]
  BY DEF KeptList
<1>2. /\ pgnsent \in Seq(SentStates) /\ Len(pgnsent) \in Nat /\ DOMAIN pgnsent = 1 .. Len(pgnsent)
      /\ n \in Nat
  BY DEF KeptList
<1>3. i \in 1 .. n
  <2> SUFFICES ASSUME i > n PROVE FALSE
    BY <1>1, <1>2
  <2>1. n + 1 \in DOMAIN pgnsent /\ n + 1 <= i
    BY <1>1, <1>2
  <2>2. pgnsent[n + 1].age > Debounce
    BY <1>2, <2>1 DEF Recent
  <2>3. pgnsent[n + 1].age <= pgnsent[i].age
    BY <1>1, <2>1 DEF KeptList
  <2>4. pgnsent[n + 1].age \in Nat /\ pgnsent[i].age \in Nat /\ Debounce \in Nat
    <3>1. pgnsent[n + 1] \in SentStates /\ pgnsent[i] \in SentStates
      BY <1>1, <1>2, <2>1
    <3>2. 0 .. Long \subseteq Nat
      BY WebSocketNumbers
    <3>3. QED
      BY <3>1, <3>2, WebSocketNumbers DEF SentStates
  <2>5. pgnsent[i].age <= Debounce
    BY <1>1
  <2>6. \A younger, older, limit \in Nat :
          ~(younger > limit /\ younger <= older /\ older <= limit)
    OBVIOUS
  <2>7. QED
    BY <2>2, <2>3, <2>4, <2>5, <2>6, Zenon
<1>4. QED
  BY <1>1, <1>3

\* record() shifts the list and puts the PGN in front of it.
LEMMA Concatenation ==
  \A S : \A s, t \in Seq(S) :
    /\ s \o t \in Seq(S) /\ Len(s \o t) = Len(s) + Len(t)
    /\ \A i \in 1 .. Len(s) + Len(t) : (s \o t)[i] = IF i <= Len(s) THEN s[i] ELSE t[i - Len(s)]
BY ConcatProperties, Zenon

LEMMA SentConcatenation ==
  ASSUME NEW s \in Seq(SentStates), NEW t \in Seq(SentStates)
  PROVE  /\ s \o t \in Seq(SentStates) /\ Len(s \o t) = Len(s) + Len(t)
         /\ \A i \in 1 .. Len(s) + Len(t) :
              (s \o t)[i] = IF i <= Len(s) THEN s[i] ELSE t[i - Len(s)]
BY Concatenation

LEMMA RecordShifts ==
  ASSUME KeptList, NEW n \in 0 .. Len(pgnsent), NEW pgn \in WsPgns,
         ~Skips(SubSeq(pgnsent, 1, n), pgn),
         NEW list, list = Remembered(SubSeq(pgnsent, 1, n), pgn)
  PROVE  /\ list \in Seq(SentStates) /\ Len(list) \in 1 .. MaxTracking /\ Len(list) <= n + 1
         /\ n < MaxTracking => Len(list) = n + 1
         /\ list[1] = [pgn |-> pgn, age |-> 0, at |-> wsKnown.now]
         /\ \A i \in 2 .. Len(list) : i - 1 \in DOMAIN pgnsent /\ list[i] = pgnsent[i - 1]
<1> DEFINE recent == SubSeq(pgnsent, 1, n)
           kept   == IF Len(recent) < MaxTracking THEN Len(recent) ELSE Len(recent) - 1
           rest   == SubSeq(recent, 1, kept)
           first  == <<[pgn |-> pgn, age |-> 0, at |-> wsKnown.now]>>
<1>1. /\ pgnsent \in Seq(SentStates) /\ Len(pgnsent) \in Nat /\ n \in Nat
      /\ DOMAIN pgnsent = 1 .. Len(pgnsent) /\ Len(pgnsent) <= MaxTracking
      /\ MaxTracking \in Nat \ {0}
  BY WebSocketNumbers DEF KeptList
<1>2. /\ recent \in Seq(SentStates) /\ Len(recent) = n
      /\ \A i \in 1 .. n : recent[i] = pgnsent[i]
  BY <1>1
<1> HIDE DEF recent
<1>3. /\ kept \in 0 .. n /\ kept < MaxTracking
      /\ n < MaxTracking => kept = n
  BY <1>1, <1>2
<1> HIDE DEF kept
<1>4. /\ rest \in Seq(SentStates) /\ Len(rest) = kept
      /\ \A i \in 1 .. kept : rest[i] = recent[i]
  BY <1>1, <1>2, <1>3
<1> HIDE DEF rest
<1>5. /\ first \in Seq(SentStates) /\ Len(first) = 1
      /\ first[1] = [pgn |-> pgn, age |-> 0, at |-> wsKnown.now]
  BY WebSocketNumbers DEF SentStates, KeptList, WsKnownStates
<1> HIDE DEF first
<1>6. list = first \o rest
  <2>1. GapsFilled(recent, pgn) = recent
    BY DEF GapsFilled, recent
  <2>2. QED
    BY <2>1 DEF first, rest, kept, Remembered, recent
<1>7. /\ list \in Seq(SentStates) /\ Len(list) = Len(first) + Len(rest)
      /\ \A i \in 1 .. Len(first) + Len(rest) :
           list[i] = IF i <= Len(first) THEN first[i] ELSE rest[i - Len(first)]
  <2>1. first \in Seq(SentStates) /\ rest \in Seq(SentStates)
    BY <1>4, <1>5
  <2>2. /\ first \o rest \in Seq(SentStates) /\ Len(first \o rest) = Len(first) + Len(rest)
        /\ \A i \in 1 .. Len(first) + Len(rest) :
             (first \o rest)[i] = IF i <= Len(first) THEN first[i] ELSE rest[i - Len(first)]
    BY <2>1, SentConcatenation
  <2>3. QED
    BY <1>6, <2>2, Zenon
<1>8. /\ Len(list) = kept + 1 /\ kept \in Nat
      /\ \A i \in 1 .. kept + 1 : list[i] = IF i <= 1 THEN first[i] ELSE rest[i - 1]
  BY <1>1, <1>3, <1>4, <1>5, <1>7
<1>9. list[1] = [pgn |-> pgn, age |-> 0, at |-> wsKnown.now]
  BY <1>5, <1>8
<1>10. ASSUME NEW i \in 2 .. Len(list)
       PROVE  i - 1 \in DOMAIN pgnsent /\ list[i] = pgnsent[i - 1]
  <2>1. /\ i - 1 \in 1 .. kept /\ i - 1 \in 1 .. n /\ n <= Len(pgnsent)
        /\ i \in 1 .. kept + 1 /\ ~(i <= 1)
    BY <1>1, <1>3, <1>8
  <2>2. list[i] = rest[i - 1]
    BY <1>8, <2>1
  <2>3. QED
    BY <1>1, <1>2, <1>4, <2>1, <2>2
<1>11. QED
  BY <1>1, <1>3, <1>7, <1>8, <1>9, <1>10

LEMMA ShouldSendKeepsList ==
  ASSUME KeptList, NEW pgn \in WsPgns, ShouldSend(pgn), ~wsKnown'.skipped
  PROVE  KeptList'
<1>1. PICK n \in 0 .. Len(pgnsent) :
        Recent(n) /\ SendDebounced(n, pgn)
  BY DEF ShouldSend
<1>2. CASE UNCHANGED <<pgnsent, granted, wsKnown>>
  BY <1>2 DEF KeptList
<1>3. CASE /\ \A i \in 1 .. n : pgnsent[i].pgn # pgn
           /\ pgnsent' = Remembered(SubSeq(pgnsent, 1, n), pgn)
           /\ wsKnown' = [wsKnown EXCEPT !.again = @ \/ wsKnown.last[pgn] <= Debounce,
                                         !.last[pgn] = 0,
                                         !.full = @ \/ n = MaxTracking,
                                         !.skipped = @ \/ Skips(SubSeq(pgnsent, 1, n), pgn)]
  <2>0. ~Skips(SubSeq(pgnsent, 1, n), pgn) /\ ~wsKnown.skipped
    BY <1>3 DEF KeptList, WsKnownStates
  <2>1. /\ pgnsent' \in Seq(SentStates) /\ Len(pgnsent') \in 1 .. MaxTracking
        /\ Len(pgnsent') <= n + 1 /\ (n < MaxTracking => Len(pgnsent') = n + 1)
        /\ pgnsent'[1] = [pgn |-> pgn, age |-> 0, at |-> wsKnown.now]
        /\ \A i \in 2 .. Len(pgnsent') : i - 1 \in DOMAIN pgnsent /\ pgnsent'[i] = pgnsent[i - 1]
    BY <1>3, <2>0, RecordShifts
  <2>2. /\ wsKnown \in WsKnownStates /\ pgnsent \in Seq(SentStates) /\ Len(pgnsent) <= MaxTracking
        /\ MaxTracking \in Nat \ {0} /\ Debounce \in Nat /\ Len(pgnsent) \in Nat /\ n \in Nat
        /\ DOMAIN pgnsent = 1 .. Len(pgnsent) /\ DOMAIN pgnsent' = 1 .. Len(pgnsent')
    BY <2>1, WebSocketNumbers DEF KeptList
  <2>3. wsKnown'.last = [wsKnown.last EXCEPT ![pgn] = 0]
    BY <1>3, <2>2 DEF WsKnownStates
  <2>4. /\ wsKnown'.again = (wsKnown.again \/ wsKnown.last[pgn] <= Debounce)
        /\ wsKnown'.full = (wsKnown.full \/ n = MaxTracking)
        /\ wsKnown'.connected = wsKnown.connected
    BY <1>3, <2>2 DEF WsKnownStates
  <2>5. wsKnown' \in WsKnownStates
    <3>1. [wsKnown.last EXCEPT ![pgn] = 0] \in [WsPgns -> 0 .. Long]
      BY <2>2 DEF WsKnownStates, Long
    <3>2. /\ wsKnown.again \in BOOLEAN /\ wsKnown.full \in BOOLEAN
          /\ wsKnown.connected \in SUBSET WsPeers
          /\ wsKnown.now \in WsPgns \cup {NoPgn}
      BY <2>2 DEF WsKnownStates
    <3>3. wsKnown' = [now |-> wsKnown.now, connected |-> wsKnown.connected,
                      last |-> [wsKnown.last EXCEPT ![pgn] = 0],
                      again |-> wsKnown.again \/ wsKnown.last[pgn] <= Debounce,
                      full |-> wsKnown.full \/ n = MaxTracking, skipped |-> FALSE]
      BY <1>3, <2>0, <2>2 DEF WsKnownStates
    <3>4. QED
      BY <3>1, <3>2, <3>3 DEF WsKnownStates
  <2>6. wsKnown'.again => wsKnown'.full
    <3>1. CASE wsKnown.full
      BY <2>4, <3>1
    <3>2. CASE ~wsKnown.full
      <4>1. ~wsKnown.again
        BY <3>2 DEF KeptList
      <4>2. ~(wsKnown.last[pgn] <= Debounce)
        BY <1>1, <1>3, <3>2, FoundAgain
      <4>3. QED
        BY <2>4, <4>1, <4>2
    <3>3. QED
      BY <3>1, <3>2
  <2>7. ASSUME ~wsKnown'.full, NEW other \in WsPgns, wsKnown'.last[other] <= Debounce
        PROVE  \E i \in DOMAIN pgnsent' :
                 pgnsent'[i].pgn = other /\ pgnsent'[i].age = wsKnown'.last[other]
    <3>1. ~wsKnown.full /\ n < MaxTracking
      <4>1. ~wsKnown.full /\ n # MaxTracking
        BY <2>4, <2>7
      <4>2. n <= MaxTracking
        BY <2>2
      <4>3. QED
        BY <2>2, <4>1, <4>2
    <3>2. CASE other = pgn
      <4>1. wsKnown'.last[other] = 0
        BY <2>2, <2>3, <3>2 DEF WsKnownStates
      <4>2. 1 \in DOMAIN pgnsent' /\ pgnsent'[1].pgn = pgn /\ pgnsent'[1].age = 0
        <5>1. /\ Len(pgnsent') \in 1 .. MaxTracking
              /\ pgnsent'[1] = [pgn |-> pgn, age |-> 0, at |-> wsKnown.now]
          BY <2>1
        <5>2. 1 \in 1 .. Len(pgnsent')
          BY <2>2, <5>1
        <5>3. QED
          BY <2>2, <5>1, <5>2
      <4>3. QED
        BY <3>2, <4>1, <4>2
    <3>3. CASE other # pgn
      <4>1. wsKnown'.last[other] = wsKnown.last[other]
        BY <2>2, <2>3, <3>3 DEF WsKnownStates
      <4>2. PICK i \in 1 .. n : pgnsent[i].pgn = other /\ pgnsent[i].age = wsKnown.last[other]
        BY <1>1, <2>7, <3>1, <4>1, FoundAgain
      <4>3. i + 1 \in DOMAIN pgnsent' /\ i + 1 \in 2 .. Len(pgnsent') /\ i + 1 - 1 = i
        BY <2>1, <2>2, <3>1, <4>2
      <4>4. pgnsent'[i + 1] = pgnsent[i]
        BY <2>1, <4>3
      <4>5. QED
        BY <4>1, <4>2, <4>3, <4>4
    <3>4. QED
      BY <3>2, <3>3
  <2>8. ASSUME NEW i \in DOMAIN pgnsent', NEW j \in DOMAIN pgnsent', i <= j
        PROVE  pgnsent'[i].age <= pgnsent'[j].age
    <3>1. pgnsent'[j].age \in Nat
      <4>1. pgnsent'[j] \in SentStates
        BY <2>1, <2>8
      <4>2. 0 .. Long \subseteq Nat
        BY WebSocketNumbers
      <4>3. QED
        BY <4>1, <4>2 DEF SentStates
    <3>2. CASE i = 1
      BY <2>1, <3>1, <3>2
    <3>3. CASE i # 1
      <4>1. i \in 2 .. Len(pgnsent') /\ j \in 2 .. Len(pgnsent')
        BY <2>2, <2>8, <3>3
      <4>2. /\ i - 1 \in DOMAIN pgnsent /\ pgnsent'[i] = pgnsent[i - 1]
            /\ j - 1 \in DOMAIN pgnsent /\ pgnsent'[j] = pgnsent[j - 1] /\ i - 1 <= j - 1
        BY <2>1, <2>8, <4>1
      <4>3. QED
        BY <4>2 DEF KeptList
    <3>4. QED
      BY <3>2, <3>3
  <2>9. Len(pgnsent') <= MaxTracking
    <3>1. Len(pgnsent') \in 1 .. MaxTracking
      BY <2>1
    <3>2. QED
      BY <2>2, <3>1
  <2>10. QED
    BY <2>1, <2>5, <2>6, <2>7, <2>8, <2>9 DEF KeptList
<1>4. QED
  BY <1>1, <1>2, <1>3 DEF SendDebounced

\* What is sent leaves the history a history, and the list as it was kept unless it is skipped.
LEMMA ShouldSendKeeps ==
  ASSUME ListInv, NEW pgn \in WsPgns, ShouldSend(pgn)
  PROVE  ListInv' /\ wsKnown'.connected = wsKnown.connected
<1>1. PICK n \in 0 .. Len(pgnsent) : Recent(n) /\ SendDebounced(n, pgn)
  BY DEF ShouldSend
<1>2. wsKnown \in WsKnownStates
  BY DEF ListInv
<1>3. /\ wsKnown' \in WsKnownStates /\ wsKnown'.connected = wsKnown.connected
      /\ wsKnown.skipped => wsKnown'.skipped
  <2>1. CASE UNCHANGED wsKnown
    BY <1>2, <2>1
  <2>2. CASE wsKnown' = [wsKnown EXCEPT !.again = @ \/ wsKnown.last[pgn] <= Debounce,
                                        !.last[pgn] = 0,
                                        !.full = @ \/ n = MaxTracking,
                                        !.skipped = @ \/ Skips(SubSeq(pgnsent, 1, n), pgn)]
    <3> DEFINE lasts == [wsKnown.last EXCEPT ![pgn] = 0]
               again == wsKnown.again \/ wsKnown.last[pgn] <= Debounce
               full == wsKnown.full \/ n = MaxTracking
               skipped == wsKnown.skipped \/ Skips(SubSeq(pgnsent, 1, n), pgn)
    <3>1. wsKnown' = [now |-> wsKnown.now, connected |-> wsKnown.connected,
                      last |-> lasts,
                      again |-> again, full |-> full, skipped |-> skipped]
      BY <1>2, <2>2 DEF WsKnownStates
    <3>2. lasts \in [WsPgns -> 0 .. Long]
      BY <1>2, WebSocketNumbers DEF WsKnownStates
    <3>3. again \in BOOLEAN /\ full \in BOOLEAN /\ skipped \in BOOLEAN
          /\ (wsKnown.skipped => skipped)
      OBVIOUS
    <3> HIDE DEF lasts, again, full, skipped
    <3>4. QED
      BY <1>2, <3>1, <3>2, <3>3 DEF WsKnownStates
  <2>3. QED
    BY <1>1, <2>1, <2>2 DEF SendDebounced
<1>4. QED
  BY <1>3, ShouldSendKeepsList DEF ListInv

\* Time makes the last of each PGN older, and changes of the history nothing else.
SentAge(age) == IF age = Long THEN age ELSE age + 1

LEMMA WebSocketTickAges ==
  ASSUME wsKnown \in WsKnownStates, PgnWebSocketTick
  PROVE  /\ wsKnown' \in WsKnownStates
         /\ wsKnown'.full = wsKnown.full /\ wsKnown'.again = wsKnown.again
         /\ wsKnown'.skipped = wsKnown.skipped /\ wsKnown'.connected = wsKnown.connected
         /\ \A pgn \in WsPgns :
              wsKnown.last[pgn] \in 0 .. Long /\ wsKnown'.last[pgn] = SentAge(wsKnown.last[pgn])
<1> DEFINE ages == [pgn \in WsPgns |-> SentAge(wsKnown.last[pgn])]
<1>1. PICK now \in {NoPgn} \cup WsPgns : wsKnown' = [wsKnown EXCEPT !.last = ages, !.now = now]
  BY Zenon DEF PgnWebSocketTick, SentAge
<1>2. \A pgn \in WsPgns : wsKnown.last[pgn] \in 0 .. Long
  BY DEF WsKnownStates
<1>3. \A age \in 0 .. Long : SentAge(age) \in 0 .. Long
  BY WebSocketNumbers DEF SentAge
<1>4. ages \in [WsPgns -> 0 .. Long]
  BY <1>2, <1>3
<1>5. \A pgn \in WsPgns : ages[pgn] = SentAge(wsKnown.last[pgn])
  OBVIOUS
<1> HIDE DEF ages
<1>6. QED
  BY <1>1, <1>2, <1>4, <1>5 DEF WsKnownStates

LEMMA WebSocketTickKeepsList == KeptList /\ PgnWebSocketTick => KeptList'
<1> SUFFICES ASSUME KeptList, PgnWebSocketTick PROVE KeptList'
  OBVIOUS
<1> DEFINE Ages(age) == SentAge(age)
<1>1. pgnsent' = [i \in DOMAIN pgnsent |-> [pgnsent[i] EXCEPT !.age = Ages(@)]]
  BY DEF PgnWebSocketTick, SentAge
<1>2. /\ pgnsent \in Seq(SentStates) /\ wsKnown \in WsKnownStates /\ Len(pgnsent) <= MaxTracking
      /\ Debounce \in Nat /\ Long = Debounce + 1
      /\ Len(pgnsent) \in Nat /\ DOMAIN pgnsent = 1 .. Len(pgnsent)
  BY WebSocketNumbers DEF KeptList
<1>3. ASSUME NEW age \in 0 .. Long
      PROVE  /\ Ages(age) \in 0 .. Long /\ (Ages(age) <= Debounce => age <= Debounce)
             /\ \A older \in 0 .. Long : age <= older => Ages(age) <= Ages(older)
  BY <1>2 DEF SentAge
<1> HIDE DEF Ages
<1>4. ASSUME NEW i \in DOMAIN pgnsent
      PROVE  /\ pgnsent[i] \in SentStates /\ pgnsent[i].age \in 0 .. Long
             /\ pgnsent'[i] \in SentStates /\ pgnsent'[i].pgn = pgnsent[i].pgn
             /\ pgnsent'[i].age = Ages(pgnsent[i].age)
  <2>1. pgnsent[i] \in SentStates
    BY <1>2
  <2>2. pgnsent[i].age \in 0 .. Long
    BY <2>1 DEF SentStates
  <2>3. pgnsent'[i] = [pgnsent[i] EXCEPT !.age = Ages(pgnsent[i].age)]
    BY <1>1
  <2>4. QED
    BY <1>3, <2>1, <2>2, <2>3 DEF SentStates
<1>5. /\ pgnsent' \in Seq(SentStates) /\ Len(pgnsent') = Len(pgnsent)
      /\ DOMAIN pgnsent' = DOMAIN pgnsent
  <2>1. pgnsent' \in [1 .. Len(pgnsent) -> SentStates]
    BY <1>1, <1>2, <1>4
  <2>2. QED
    BY <1>2, <2>1
<1>6. /\ wsKnown' \in WsKnownStates
      /\ wsKnown'.full = wsKnown.full /\ wsKnown'.again = wsKnown.again
      /\ \A pgn \in WsPgns :
           wsKnown.last[pgn] \in 0 .. Long /\ wsKnown'.last[pgn] = Ages(wsKnown.last[pgn])
  BY <1>2, WebSocketTickAges DEF Ages
<1>7. ASSUME NEW i \in DOMAIN pgnsent', NEW j \in DOMAIN pgnsent', i <= j
      PROVE  pgnsent'[i].age <= pgnsent'[j].age
  <2>1. i \in DOMAIN pgnsent /\ j \in DOMAIN pgnsent
    BY <1>5
  <2>2. pgnsent[i].age <= pgnsent[j].age
    BY <1>7, <2>1 DEF KeptList
  <2>3. QED
    BY <1>3, <1>4, <2>1, <2>2
<1>8. ASSUME ~wsKnown'.full, NEW pgn \in WsPgns, wsKnown'.last[pgn] <= Debounce
      PROVE  \E i \in DOMAIN pgnsent' :
               pgnsent'[i].pgn = pgn /\ pgnsent'[i].age = wsKnown'.last[pgn]
  <2>1. ~wsKnown.full /\ wsKnown.last[pgn] <= Debounce
    BY <1>3, <1>6, <1>8
  <2>2. PICK i \in DOMAIN pgnsent : pgnsent[i].pgn = pgn /\ pgnsent[i].age = wsKnown.last[pgn]
    BY <2>1 DEF KeptList
  <2>3. QED
    BY <1>4, <1>5, <1>6, <2>2
<1>9. wsKnown'.again => wsKnown'.full
  BY <1>6 DEF KeptList
<1>10. QED
  BY <1>2, <1>5, <1>6, <1>7, <1>8, <1>9 DEF KeptList

LEMMA WebSocketTickKeeps ==
  ListInv /\ PgnWebSocketTick => ListInv' /\ wsKnown'.connected = wsKnown.connected
BY WebSocketTickAges, WebSocketTickKeepsList DEF ListInv

\* Who is connected is not in the list.
LEMMA ConnectedChanges ==
  ASSUME ListInv, UNCHANGED pgnsent, wsKnown' \in WsKnownStates,
         wsKnown'.last = wsKnown.last, wsKnown'.full = wsKnown.full,
         wsKnown'.again = wsKnown.again, wsKnown'.skipped = wsKnown.skipped
  PROVE  ListInv'
BY DEF ListInv, KeptList

LEMMA AddClientKeeps ==
  ASSUME WebSocketInv, tasksRun, NEW peer \in WsPeers, AddClient(peer)
  PROVE  WebSocketInv'
<1>1. /\ wsKnown \in WsKnownStates /\ wsClients \in [1 .. MaxWsClients -> WsSlotStates]
      /\ ListInv /\ WsSlotsInv
  BY DEF WebSocketInv, ListInv, WsSlotsInv
<1>2. /\ wsKnown' = [wsKnown EXCEPT !.connected = wsKnown.connected \cup {peer}]
      /\ peer \notin wsKnown.connected /\ UNCHANGED <<pgnsent, tasksRun>>
  BY DEF AddClient
<1>3. ListInv' /\ wsKnown'.connected = wsKnown.connected \cup {peer}
  <2>1. /\ wsKnown' \in WsKnownStates /\ wsKnown'.connected = wsKnown.connected \cup {peer}
        /\ wsKnown'.last = wsKnown.last /\ wsKnown'.full = wsKnown.full
        /\ wsKnown'.again = wsKnown.again /\ wsKnown'.skipped = wsKnown.skipped
    BY <1>1, <1>2 DEF WsKnownStates
  <2>2. QED
    BY <1>1, <1>2, <2>1, ConnectedChanges
<1>4. CASE UNCHANGED wsClients
  BY <1>1, <1>2, <1>3, <1>4 DEF WsSlotsInv, WebSocketInv
<1>5. ASSUME NEW i \in DOMAIN wsClients \ InUse,
             wsClients' = TakenSlot(i, peer)
      PROVE  WebSocketInv'
  <2> DEFINE slot == [wsClients[i] EXCEPT !.used = TRUE, !.client = peer]
  <2>1. i \in 1 .. MaxWsClients /\ wsClients[i] \in WsSlotStates /\ ~wsClients[i].used
    BY <1>1 DEF InUse
  <2>2. slot \in WsSlotStates /\ slot.used = TRUE /\ slot.client = peer
    BY <2>1 DEF WsSlotStates
  <2>3. wsClients' = [wsClients EXCEPT ![i] = slot]
    BY <1>5 DEF TakenSlot
  <2> HIDE DEF slot
  <2>4. /\ wsClients' \in [1 .. MaxWsClients -> WsSlotStates] /\ wsClients'[i] = slot
        /\ \A j \in 1 .. MaxWsClients : j # i => wsClients'[j] = wsClients[j]
    BY <1>1, <2>1, <2>2, <2>3
  <2>5. \A j \in 1 .. MaxWsClients : wsClients[j].client # peer
    BY <1>1, <1>2, WebSocketNumbers DEF WsSlotsInv
  <2>6. WsSlotsInv'
    BY <1>1, <1>2, <1>3, <2>1, <2>2, <2>4, <2>5 DEF WsSlotsInv
  <2>7. QED
    BY <1>3, <2>6 DEF WebSocketInv
<1>6. QED
  BY <1>4, <1>5 DEF AddClient

LEMMA RemoveClientKeeps ==
  ASSUME WebSocketInv, tasksRun, NEW peer \in WsPeers, RemoveClient(peer)
  PROVE  WebSocketInv'
<1> DEFINE of    == {i \in DOMAIN wsClients : wsClients[i].client = peer}
           free  == {i \in DOMAIN wsClients : wsClients[i].client = GonePeer}
           found == \E i \in of : \A j \in free : i < j
<1>1. /\ wsKnown \in WsKnownStates /\ wsClients \in [1 .. MaxWsClients -> WsSlotStates]
      /\ ListInv /\ WsSlotsInv
  BY DEF WebSocketInv, ListInv, WsSlotsInv
<1>2. /\ wsKnown' = [wsKnown EXCEPT !.connected = wsKnown.connected \ {peer}]
      /\ tasksRun' = (found \/ (of = {} /\ free = {})) /\ UNCHANGED pgnsent
      /\ wsClients' = IF found THEN [i \in DOMAIN wsClients |->
                                       IF i \in of THEN [wsClients[i] EXCEPT !.client = GonePeer]
                                       ELSE wsClients[i]]
                      ELSE wsClients
  BY DEF RemoveClient
<1>3. ListInv' /\ wsKnown'.connected = wsKnown.connected \ {peer}
  <2>1. /\ wsKnown' \in WsKnownStates /\ wsKnown'.connected = wsKnown.connected \ {peer}
        /\ wsKnown'.last = wsKnown.last /\ wsKnown'.full = wsKnown.full
        /\ wsKnown'.again = wsKnown.again /\ wsKnown'.skipped = wsKnown.skipped
    BY <1>1, <1>2 DEF WsKnownStates
  <2>2. QED
    BY <1>1, <1>2, <2>1, ConnectedChanges
<1>4. \A i \in 1 .. MaxWsClients : i \in of <=> wsClients[i].client = peer
  BY <1>1
<1> HIDE DEF found
<1>5. CASE ~found
  <2>1. UNCHANGED wsClients /\ (tasksRun' => of = {})
    BY <1>2, <1>5
  <2>2. WsSlotsInv'
    BY <1>1, <1>3, <1>4, <2>1 DEF WsSlotsInv
  <2>3. QED
    BY <1>3, <2>2 DEF WebSocketInv
<1>6. CASE found
  <2>1. ASSUME NEW i \in 1 .. MaxWsClients
        PROVE  /\ wsClients'[i] \in WsSlotStates /\ wsClients'[i].used = wsClients[i].used
               /\ wsClients'[i].client = IF wsClients[i].client = peer THEN GonePeer
                                         ELSE wsClients[i].client
    BY <1>1, <1>2, <1>4, <1>6 DEF WsSlotStates
  <2>2. wsClients' \in [1 .. MaxWsClients -> WsSlotStates]
    BY <1>1, <1>2, <1>6, <2>1
  <2>3. WsSlotsInv'
    BY <1>1, <1>3, <2>1, <2>2 DEF WsSlotsInv
  <2>4. QED
    BY <1>3, <2>3 DEF WebSocketInv
<1>7. QED
  BY <1>5, <1>6

\* The PGNs of a slot say nothing of its client.
LEMMA SlotPgnsChange ==
  ASSUME WebSocketInv, tasksRun, NEW old, NEW new \in WsPgns \cup {NoPgn}, NEW peer \in WsPeers,
         ChangePgn(peer, old, new)
  PROVE  WebSocketInv'
<1> DEFINE mine == {i \in InUse : wsClients[i].client = peer}
           to == {j \in DOMAIN wsClients : (\E i \in mine : i <= j) /\ wsClients[j].pgn = old}
           j == CHOOSE i \in to : \A k \in to : i <= k
<1>1. wsClients \in [1 .. MaxWsClients -> WsSlotStates] /\ ListInv /\ WsSlotsInv
  BY DEF WebSocketInv, WsSlotsInv
<1>2. /\ UNCHANGED <<pgnsent, wsKnown>>
      /\ wsClients' = wsClients \/ wsClients' = [wsClients EXCEPT ![j].pgn = new]
  BY DEF ChangePgn
<1> HIDE DEF j
<1>3. ASSUME NEW i \in 1 .. MaxWsClients
      PROVE  /\ wsClients'[i] \in WsSlotStates /\ wsClients'[i].used = wsClients[i].used
             /\ wsClients'[i].client = wsClients[i].client
  <2>1. wsClients'[i] \in {wsClients[i], [wsClients[i] EXCEPT !.pgn = new]}
    BY <1>1, <1>2
  <2>2. wsClients[i] \in WsSlotStates
    BY <1>1
  <2>3. QED
    BY <2>1, <2>2 DEF WsSlotStates
<1>4. wsClients' \in [1 .. MaxWsClients -> WsSlotStates]
  BY <1>1, <1>2, <1>3
<1>5. WsSlotsInv'
  BY <1>1, <1>2, <1>3, <1>4 DEF WsSlotsInv
<1>6. ListInv'
  BY <1>1, <1>2 DEF ListInv, KeptList
<1>7. QED
  BY <1>5, <1>6 DEF WebSocketInv

LEMMA RemovedClientKeeps ==
  ASSUME WebSocketInv, tasksRun, RemovedClient
  PROVE  WebSocketInv'
<1>1. PICK i \in InUse : /\ wsClients[i].client = GonePeer
                         /\ wsClients' = [wsClients EXCEPT ![i].used = FALSE]
                         /\ UNCHANGED <<pgnsent, granted, tasksRun, wsKnown>>
  BY DEF RemovedClient
<1>2. wsClients \in [1 .. MaxWsClients -> WsSlotStates] /\ ListInv /\ WsSlotsInv
  BY DEF WebSocketInv, WsSlotsInv
<1>3. ASSUME NEW k \in 1 .. MaxWsClients
      PROVE  /\ wsClients'[k] \in WsSlotStates /\ wsClients'[k].client = wsClients[k].client
             /\ wsClients'[k].used = IF k = i THEN FALSE ELSE wsClients[k].used
  BY <1>1, <1>2 DEF WsSlotStates
<1>4. wsClients' \in [1 .. MaxWsClients -> WsSlotStates]
  BY <1>1, <1>2, <1>3
<1>5. WsSlotsInv'
  BY <1>1, <1>2, <1>3, <1>4 DEF WsSlotsInv
<1>6. ListInv'
  BY <1>1, <1>2 DEF ListInv, KeptList
<1>7. QED
  BY <1>5, <1>6 DEF WebSocketInv

LEMMA WebSocketInvariant == WebSocketInv /\ [PgnWebSocketStep]_pgnWebSocketVars => WebSocketInv'
<1> SUFFICES ASSUME WebSocketInv, [PgnWebSocketStep]_pgnWebSocketVars PROVE WebSocketInv'
  OBVIOUS
<1>1. CASE UNCHANGED pgnWebSocketVars
  BY <1>1 DEF pgnWebSocketVars, WebSocketInv, ListInv, KeptList, WsSlotsInv
<1>2. CASE PgnWebSocketStep
  <2>1. tasksRun
    BY <1>2 DEF PgnWebSocketStep
  <2>2. ASSUME NEW peer \in WsPeers, AddClient(peer)
        PROVE  WebSocketInv'
    BY <2>1, <2>2, AddClientKeeps
  <2>3. ASSUME NEW peer \in WsPeers, RemoveClient(peer)
        PROVE  WebSocketInv'
    BY <2>1, <2>3, RemoveClientKeeps
  <2>4. ASSUME NEW peer \in WsPeers, NEW pgn \in WsAsked, AddPgn(peer, pgn) \/ RmPgn(peer, pgn)
        PROVE  WebSocketInv'
    <3>1. pgn \in WsPgns
      BY PgnWebSocketAssumption
    <3>2. QED
      BY <2>1, <2>4, <3>1, SlotPgnsChange DEF AddPgn, RmPgn
  <2>5. CASE RemovedClient
    BY <2>1, <2>5, RemovedClientKeeps
  <2>6. ASSUME NEW pgn \in WsPgns, ShouldSend(pgn)
        PROVE  WebSocketInv'
    <3>1. ListInv' /\ wsKnown'.connected = wsKnown.connected
      BY <2>6, ShouldSendKeeps DEF WebSocketInv
    <3>2. UNCHANGED <<wsClients, tasksRun>>
      BY <2>6 DEF ShouldSend
    <3>3. QED
      BY <3>1, <3>2 DEF WebSocketInv, WsSlotsInv
  <2>7. CASE SendSentence
    <3>1. UNCHANGED <<wsClients, pgnsent, wsKnown>>
      BY <2>7 DEF SendSentence
    <3>2. QED
      BY <2>1, <3>1 DEF WebSocketInv, ListInv, KeptList, WsSlotsInv
  <2>8. CASE PgnWebSocketTick
    <3>1. ListInv' /\ wsKnown'.connected = wsKnown.connected
      BY <2>8, WebSocketTickKeeps DEF WebSocketInv
    <3>2. UNCHANGED <<wsClients, tasksRun>>
      BY <2>8 DEF PgnWebSocketTick
    <3>3. QED
      BY <3>1, <3>2 DEF WebSocketInv, WsSlotsInv
  <2>9. QED
    BY <1>2, <2>2, <2>3, <2>4, <2>5, <2>6, <2>7, <2>8 DEF PgnWebSocketStep
<1>3. QED
  BY <1>1, <1>2

LEMMA WebSocketInitially == PgnWebSocketInit => WebSocketInv
<1> SUFFICES ASSUME PgnWebSocketInit PROVE WebSocketInv
  OBVIOUS
<1>1. ListInv
  BY WebSocketNumbers DEF PgnWebSocketInit, ListInv, KeptList, WsKnownStates
<1>2. WsSlotsInv
  BY WebSocketNumbers DEF PgnWebSocketInit, WsSlotsInv, WsSlotStates, FreeWsSlot
<1>3. QED
  BY <1>1, <1>2 DEF WebSocketInv

LEMMA SocketIsPaced == WebSocketInv => SocketPaced
<1> SUFFICES ASSUME WebSocketInv PROVE SocketPaced
  OBVIOUS
<1>1. InUse \subseteq 1 .. MaxWsClients
  BY DEF WebSocketInv, WsSlotsInv, InUse
<1>2. QED
  BY <1>1 DEF SocketPaced, WebSocketInv, ListInv, KeptList, WsSlotsInv

----------------------------------------------------------------------------
(* Sentences. *)

\* What the columns of a field are called in the documentation, and how many there are.
TwoColumns == {"relativeEW", "relativeRL", "latitude", "longitude"}
Shape(kind, i) == IF kind \in TwoColumns /\ i = 2 THEN "side"
                  ELSE IF kind \in FieldKinds THEN "x" ELSE kind
Width(kind) == IF kind \in TwoColumns THEN 2 ELSE IF kind = "dmy" THEN 3 ELSE 1

SentenceWords ==
  FieldKinds \cup
  {"0", "01", "02", "03", "99", "A", "B", "Barometer", "C", "D", "F", "K", "L", "M", "N", "P", "R",
   "ROLL", "T", "TempAir", "empty", "f", "side"}
SentenceCells == SentenceWords \cup Letters \cup {"x"}

\* Where the columns of each field of a documented sentence start, and of what would come next.
Offsets ==
  [HDG |-> <<0, 1, 3, 5>>, HDM |-> <<0, 1, 2>>, HDT |-> <<0, 1, 2>>,
   VHW |-> <<0, 1, 2, 3, 4, 5, 6, 7, 8>>, VLW |-> <<0, 1, 2, 3, 4>>,
   GLL |-> <<0, 2, 4, 5, 6, 7>>, ZDA |-> <<0, 1, 4, 5, 6>>,
   RMC |-> <<0, 1, 2, 4, 6, 7, 8, 9, 11, 12>>, VTG |-> <<0, 1, 2, 3, 4, 5, 6, 7, 8, 9>>,
   XTE |-> <<0, 1, 2, 3, 4, 5, 6>>, VWR |-> <<0, 2, 3, 4, 5, 6, 7, 8>>,
   VWT |-> <<0, 2, 3, 4, 5, 6, 7, 8>>, MWR |-> <<0, 1, 2, 3, 4, 5>>, MWV |-> <<0, 1, 2, 3, 4, 5>>]

\* The fields fill the columns of the layout, each those of its kind.
Fills(fields, starts, layout) ==
  /\ starts \in [1 .. Len(fields) + 1 -> Nat]
  /\ starts[1] = 0 /\ starts[Len(fields) + 1] = Len(layout)
  /\ \A k \in 1 .. Len(fields) + 1 : starts[k] <= Len(layout)
  /\ \A k \in 1 .. Len(fields) :
       /\ starts[k + 1] = starts[k] + Width(fields[k])
       /\ \A i \in 1 .. Width(fields[k]) : layout[starts[k] + i] \in {"free", Shape(fields[k], i)}

LEMMA LayoutsAreFilled ==
  \A key \in DOMAIN Documented : Fills(Sentence[key], Offsets[key], Documented[key])
<1>1. Fills(sendHDG, Offsets.HDG, Documented.HDG)
  BY SMT DEF Fills, Offsets, Documented, sendHDG, Width, Shape, TwoColumns, FieldKinds
<1>2. Fills(sendHDM, Offsets.HDM, Documented.HDM)
  BY SMT DEF Fills, Offsets, Documented, sendHDM, Width, Shape, TwoColumns, FieldKinds
<1>3. Fills(sendHDT, Offsets.HDT, Documented.HDT)
  BY SMT DEF Fills, Offsets, Documented, sendHDT, Width, Shape, TwoColumns, FieldKinds
<1>4. Fills(sendVHW, Offsets.VHW, Documented.VHW)
  BY SMT DEF Fills, Offsets, Documented, sendVHW, Width, Shape, TwoColumns, FieldKinds
<1>5. Fills(sendVLW, Offsets.VLW, Documented.VLW)
  BY SMT DEF Fills, Offsets, Documented, sendVLW, Width, Shape, TwoColumns, FieldKinds
<1>6. Fills(sendGLL, Offsets.GLL, Documented.GLL)
  BY SMT DEF Fills, Offsets, Documented, sendGLL, Width, Shape, TwoColumns, FieldKinds
<1>7. Fills(sendZDA, Offsets.ZDA, Documented.ZDA)
  BY SMT DEF Fills, Offsets, Documented, sendZDA, Width, Shape, TwoColumns, FieldKinds
<1>8. Fills(sendRMC, Offsets.RMC, Documented.RMC)
  BY SMT DEF Fills, Offsets, Documented, sendRMC, Width, Shape, TwoColumns, FieldKinds
<1>9. Fills(sendVTG, Offsets.VTG, Documented.VTG)
  BY SMT DEF Fills, Offsets, Documented, sendVTG, Width, Shape, TwoColumns, FieldKinds
<1>10. Fills(sendXTE, Offsets.XTE, Documented.XTE)
  BY SMT DEF Fills, Offsets, Documented, sendXTE, Width, Shape, TwoColumns, FieldKinds
<1>11. Fills(sendVWR, Offsets.VWR, Documented.VWR)
  BY SMT DEF Fills, Offsets, Documented, sendVWR, Width, Shape, TwoColumns, FieldKinds
<1>12. Fills(sendVWT, Offsets.VWT, Documented.VWT)
  BY SMT DEF Fills, Offsets, Documented, sendVWT, Width, Shape, TwoColumns, FieldKinds
<1>13. Fills(sendMVR, Offsets.MWR, Documented.MWR)
  BY SMT DEF Fills, Offsets, Documented, sendMVR, Width, Shape, TwoColumns, FieldKinds
<1>14. Fills(sendMVT, Offsets.MWV, Documented.MWV)
  BY SMT DEF Fills, Offsets, Documented, sendMVT, Width, Shape, TwoColumns, FieldKinds
<1>15. ASSUME NEW key \in DOMAIN Documented
      PROVE  Fills(Sentence[key], Offsets[key], Documented[key])
  <2>1. key \in {"HDG", "HDM", "HDT", "VHW", "VLW", "GLL", "ZDA", "RMC", "VTG", "XTE",
                "VWR", "VWT", "MWR", "MWV"}
    BY DEF Documented
  <2>2. CASE key = "HDG"
    BY <1>1, <2>2 DEF Sentence
  <2>3. CASE key = "HDM"
    BY <1>2, <2>3 DEF Sentence
  <2>4. CASE key = "HDT"
    BY <1>3, <2>4 DEF Sentence
  <2>5. CASE key = "VHW"
    BY <1>4, <2>5 DEF Sentence
  <2>6. CASE key = "VLW"
    BY <1>5, <2>6 DEF Sentence
  <2>7. CASE key = "GLL"
    BY <1>6, <2>7 DEF Sentence
  <2>8. CASE key = "ZDA"
    BY <1>7, <2>8 DEF Sentence
  <2>9. CASE key = "RMC"
    BY <1>8, <2>9 DEF Sentence
  <2>10. CASE key = "VTG"
    BY <1>9, <2>10 DEF Sentence
  <2>11. CASE key = "XTE"
    BY <1>10, <2>11 DEF Sentence
  <2>12. CASE key = "VWR"
    BY <1>11, <2>12 DEF Sentence
  <2>13. CASE key = "VWT"
    BY <1>12, <2>13 DEF Sentence
  <2>14. CASE key = "MWR"
    BY <1>13, <2>14 DEF Sentence
  <2>15. CASE key = "MWV"
    BY <1>14, <2>15 DEF Sentence
  <2>16. QED
    BY <2>1, <2>2, <2>3, <2>4, <2>5, <2>6, <2>7, <2>8, <2>9, <2>10, <2>11,
       <2>12, <2>13, <2>14, <2>15
<1>16. QED
  BY <1>15

\* No sentence has more than twelve fields, and what comes after the ninth is a word.
Brief(fields) ==
  /\ fields \in Seq(SentenceWords) /\ Len(fields) <= 12
  /\ \A k \in 10 .. Len(fields) : fields[k] \notin FieldKinds

LEMMA SentencesAreBrief == \A key \in DOMAIN Sentence : Brief(Sentence[key])
<1>1. Brief(sendHDG)
  BY SMT DEF Brief, sendHDG, SentenceWords, FieldKinds
<1>2. Brief(sendHDM)
  BY SMT DEF Brief, sendHDM, SentenceWords, FieldKinds
<1>3. Brief(sendHDT)
  BY SMT DEF Brief, sendHDT, SentenceWords, FieldKinds
<1>4. Brief(sendXDR_roll)
  BY SMT DEF Brief, sendXDR_roll, SentenceWords, FieldKinds
<1>5. Brief(sendVHW)
  BY SMT DEF Brief, sendVHW, SentenceWords, FieldKinds
<1>6. Brief(sendDBT)
  BY SMT DEF Brief, sendDBT, SentenceWords, FieldKinds
<1>7. Brief(sendDPT)
  BY SMT DEF Brief, sendDPT, SentenceWords, FieldKinds
<1>8. Brief(sendVLW)
  BY SMT DEF Brief, sendVLW, SentenceWords, FieldKinds
<1>9. Brief(sendGGA)
  BY SMT DEF Brief, sendGGA, SentenceWords, FieldKinds
<1>10. Brief(sendGLL)
  BY SMT DEF Brief, sendGLL, SentenceWords, FieldKinds
<1>11. Brief(sendZDA)
  BY SMT DEF Brief, sendZDA, SentenceWords, FieldKinds
<1>12. Brief(sendRMC)
  BY SMT DEF Brief, sendRMC, SentenceWords, FieldKinds
<1>13. Brief(sendVTG)
  BY SMT DEF Brief, sendVTG, SentenceWords, FieldKinds
<1>14. Brief(sendXTE)
  BY SMT DEF Brief, sendXTE, SentenceWords, FieldKinds
<1>15. Brief(sendVWR)
  BY SMT DEF Brief, sendVWR, SentenceWords, FieldKinds
<1>16. Brief(sendMVR)
  BY SMT DEF Brief, sendMVR, SentenceWords, FieldKinds
<1>17. Brief(sendVWT)
  BY SMT DEF Brief, sendVWT, SentenceWords, FieldKinds
<1>18. Brief(sendMVT)
  BY SMT DEF Brief, sendMVT, SentenceWords, FieldKinds
<1>19. Brief(sendMTW)
  BY SMT DEF Brief, sendMTW, SentenceWords, FieldKinds
<1>20. Brief(sendXDR_airtemp)
  BY SMT DEF Brief, sendXDR_airtemp, SentenceWords, FieldKinds
<1>21. Brief(sendMTA)
  BY SMT DEF Brief, sendMTA, SentenceWords, FieldKinds
<1>22. Brief(sendXDR_barometer)
  BY SMT DEF Brief, sendXDR_barometer, SentenceWords, FieldKinds
<1>23. Brief(sendRSA)
  BY SMT DEF Brief, sendRSA, SentenceWords, FieldKinds
<1>24. Brief(KEP01)
  BY SMT DEF Brief, KEP01, SentenceWords, FieldKinds
<1>25. Brief(KEP02)
  BY SMT DEF Brief, KEP02, SentenceWords, FieldKinds
<1>26. Brief(KEP03)
  BY SMT DEF Brief, KEP03, SentenceWords, FieldKinds
<1>27. Brief(KEP99)
  BY SMT DEF Brief, KEP99, SentenceWords, FieldKinds
<1>28. QED
  BY <1>1, <1>2, <1>3, <1>4, <1>5, <1>6, <1>7, <1>8, <1>9, <1>10, <1>11, <1>12, <1>13, <1>14,
     <1>15, <1>16, <1>17, <1>18, <1>19, <1>20, <1>21, <1>22, <1>23, <1>24, <1>25, <1>26, <1>27
     DEF Sentence

----------------------------------------------------------------------------

\* How far a sentence reaches after k fields.
Most(kind) == IF kind \in {"latitude", "longitude", "time", "date"} THEN 22
              ELSE IF kind \in FieldKinds THEN 15 ELSE 10
Reach(k) == IF k <= 9 THEN 6 + 22 * k ELSE 204 + 15 * (k - 9)

Stage(k) ==
  LET fields == Sentence[name]
  IN
  /\ todo = SubSeq(fields, k + 1, Len(fields)) /\ p \in 6 .. Reach(k)
  /\ name \in DOMAIN Documented =>
       /\ Len(columns) = Offsets[name][k + 1]
       /\ \A i \in 1 .. Len(columns) : InColumn(Documented[name][i], columns[i])

AngleStates == [kind : {"bearing", "signed", "relative"}, given : Int, shown : Int]
AnglesInv == angles \in Seq(AngleStates) /\ \A i \in 1 .. Len(angles) : AngleKept(angles[i])

SentenceInv ==
  /\ name \in DOMAIN Sentence \cup {"none"}
  /\ AnglesInv
  /\ columns \in Seq(SentenceCells) /\ ~cut
  /\ name = "none" => todo = <<>> /\ columns = <<>>
  /\ name # "none" => \E k \in 0 .. Len(Sentence[name]) : Stage(k)

LEMMA AppendTextFits ==
  ASSUME NEW position \in Nat, NEW width \in Nat, position + 1 + width <= 250
  PROVE  AppendText(position, width) = position + 1 + width
BY DEF AppendText, OUTBUF_LEN

\* What a field is written as fills its columns.
FieldFilled(kind, texts) ==
  /\ texts \in Seq(SentenceCells) /\ Len(texts) = Width(kind)
  /\ \A i \in 1 .. Width(kind) :
       \/ texts[i] = Shape(kind, i)
       \/ kind \in FieldKinds /\ texts[i] = "empty"
       \/ Shape(kind, i) = "side" /\ texts[i] \in Letters
FieldAppended(kind) ==
  \E texts \in Seq(SentenceCells), end \in Nat :
    FieldFilled(kind, texts) /\ end \in p .. p + Most(kind) /\ Appended(texts, end, end)

LEMMA OneAppended ==
  ASSUME NEW kind \in SentenceWords, kind \notin TwoColumns, kind # "dmy", NEW text,
         NEW width \in Nat,
         \/ text = (IF kind \in FieldKinds THEN "x" ELSE kind)
         \/ (kind \in FieldKinds /\ text = "empty"),
         p \in Nat, p + Most(kind) <= 250, 1 + width <= Most(kind),
         AppendOne(text, width)
  PROVE  FieldAppended(kind)
<1>1. Most(kind) \in Nat
  BY DEF Most
<1>2. AppendText(p, width) = p + 1 + width
  BY <1>1, AppendTextFits
<1>3. text \in SentenceCells
  BY DEF SentenceCells, SentenceWords
<1>4. <<text>> \in Seq(SentenceCells) /\ Len(<<text>>) = 1 /\ <<text>>[1] = text
  BY <1>3
<1>5. FieldFilled(kind, <<text>>)
  BY <1>4 DEF FieldFilled, Width, Shape
<1>6. Appended(<<text>>, p + 1 + width, p + 1 + width)
  BY <1>2 DEF AppendOne
<1>7. p + 1 + width \in Nat /\ p + 1 + width \in p .. p + Most(kind)
  BY <1>1
<1>8. QED
  BY <1>4, <1>5, <1>6, <1>7 DEF FieldAppended

LEMMA TwoAppended ==
  ASSUME NEW kind \in TwoColumns, NEW one \in {"x", "empty"},
         NEW two \in Letters \cup {"empty"},
         NEW width \in Nat, NEW second \in Nat,
         p \in Nat, p + Most(kind) <= 250, 2 + width + second <= Most(kind),
         AppendTwo(one, width, two, second)
  PROVE  FieldAppended(kind)
<1>1. Most(kind) \in Nat
  BY DEF Most
<1>2. AppendText(p, width) = p + 1 + width
  BY <1>1, AppendTextFits
<1>3. AppendText(p + 1 + width, second) = p + 1 + width + 1 + second
  BY <1>1, AppendTextFits
<1>4. AppendText(AppendText(p, width), second) = p + 2 + width + second
  BY <1>2, <1>3
<1>5. one \in SentenceCells /\ two \in SentenceCells
  BY DEF SentenceCells, SentenceWords
<1>6. /\ <<one, two>> \in Seq(SentenceCells) /\ Len(<<one, two>>) = 2
      /\ <<one, two>>[1] = one /\ <<one, two>>[2] = two
  BY <1>5
<1>7. kind \in FieldKinds
  BY DEF TwoColumns, FieldKinds
<1>8. FieldFilled(kind, <<one, two>>)
  <2>1. Width(kind) = 2 /\ Shape(kind, 1) = "x" /\ Shape(kind, 2) = "side"
    BY <1>7 DEF Width, Shape
  <2>2. QED
    BY <1>6, <1>7, <2>1 DEF FieldFilled
<1>9. Appended(<<one, two>>, p + 2 + width + second, p + 2 + width + second)
  BY <1>4 DEF AppendTwo
<1>10. p + 2 + width + second \in Nat /\ p + 2 + width + second \in p .. p + Most(kind)
  BY <1>1
<1>11. QED
  BY <1>6, <1>8, <1>9, <1>10 DEF FieldAppended

AngleAdded ==
  \/ UNCHANGED angles
  \/ \E angle \in AngleStates : AngleKept(angle) /\ angles' = Append(angles, angle)

LEMMA BearingKept ==
  ASSUME NEW a \in Bearings
  PROVE  LET angle == [kind |-> "bearing", given |-> a, shown |-> Bearing(a)]
         IN  angle \in AngleStates /\ AngleKept(angle)
<1>1. a \in -180 .. 540
  BY SentencesAssumption
<1>2. Bearing(a) \in 0 .. 360 /\ Bearing(a) - a \in {0, 360, -360}
  BY <1>1 DEF Bearing, Circle
<1>3. (Bearing(a) - a) % 360 = 0
  BY <1>2
<1>4. QED
  BY <1>1, <1>2, <1>3 DEF AngleStates, AngleKept, Circle

LEMMA SignedKept ==
  ASSUME NEW a \in Relatives
  PROVE  /\ LET angle == [kind |-> "signed", given |-> a, shown |-> Signed(a)]
            IN  angle \in AngleStates /\ AngleKept(angle)
         /\ LET angle == [kind |-> "relative", given |-> a, shown |-> Magnitude(Signed(a))]
            IN  angle \in AngleStates /\ AngleKept(angle)
<1>1. a \in -180 .. 360
  BY SentencesAssumption
<1>2. Signed(a) \in -180 .. 180 /\ Signed(a) - a \in {0, -360}
  BY <1>1 DEF Signed, Circle
<1>3. (Signed(a) - a) % 360 = 0
  BY <1>2
<1>4. Magnitude(Signed(a)) \in 0 .. 180 /\ Magnitude(Signed(a)) \in {Signed(a), -Signed(a)}
  BY <1>2 DEF Magnitude
<1>5. \/ (Magnitude(Signed(a)) - a) % 360 = 0
      \/ (-Magnitude(Signed(a)) - a) % 360 = 0
  BY <1>2, <1>3, <1>4
<1>6. 2 * Signed(a) \in -360 .. 360 /\ 2 * Magnitude(Signed(a)) \in 0 .. 360
  BY <1>2, <1>4
<1>7. AngleKept([kind |-> "signed", given |-> a, shown |-> Signed(a)])
  BY <1>3, <1>6 DEF AngleKept, Circle
<1>8. AngleKept([kind |-> "relative", given |-> a, shown |-> Magnitude(Signed(a))])
  BY <1>5, <1>6 DEF AngleKept, Circle
<1>9. a \in Int /\ Signed(a) \in Int /\ Magnitude(Signed(a)) \in Int
  BY <1>1, <1>2, <1>4
<1>10. QED
  BY <1>7, <1>8, <1>9 DEF AngleStates

FieldStep ==
  \/ AppendNumber \/ AppendBearing \/ AppendSide \/ AppendSigned
  \/ AppendTime \/ AppendPosition \/ AppendDMY \/ AppendWord

LEMMA FieldWritten ==
  ASSUME Head(todo) \in SentenceWords, p \in Nat, p + Most(Head(todo)) <= 250, FieldStep
  PROVE  FieldAppended(Head(todo)) /\ AngleAdded
<1> DEFINE kind == Head(todo)
<1>1. CASE AppendNumber
  <2>1. kind \in {"number", "count"}
    BY <1>1 DEF AppendNumber
  <2>2. kind \notin TwoColumns /\ kind # "dmy" /\ kind \in FieldKinds /\ Most(kind) = 15
    BY <2>1 DEF TwoColumns, FieldKinds, Most
  <2>3. AppendOne("empty", 0) \/ AppendOne("x", 14)
    BY <1>1 DEF AppendNumber, NumberWidth
  <2>4. FieldAppended(kind)
    BY <2>2, <2>3, OneAppended
  <2>5. QED
    BY <1>1, <2>4 DEF AppendNumber, AngleAdded
<1>2. CASE AppendBearing
  <2>1. kind = "bearing"
    BY <1>2 DEF AppendBearing
  <2>2. kind \notin TwoColumns /\ kind # "dmy" /\ kind \in FieldKinds /\ Most(kind) = 15
    BY <2>1 DEF TwoColumns, FieldKinds, Most
  <2>3. AppendOne("empty", 0) \/ AppendOne("x", 5)
    BY <1>2 DEF AppendBearing
  <2>4. FieldAppended(kind)
    BY <2>2, <2>3, OneAppended
  <2>5. AngleAdded
    BY <1>2, BearingKept DEF AppendBearing, Angle, AngleAdded
  <2>6. QED
    BY <2>4, <2>5
<1>3. CASE AppendSide
  <2>1. kind \in {"relativeEW", "relativeRL"}
    BY <1>3 DEF AppendSide
  <2>2. kind \in TwoColumns /\ Most(kind) = 15
    BY <2>1 DEF TwoColumns, FieldKinds, Most
  <2>3. \/ AppendTwo("empty", 0, "empty", 0)
        \/ AppendTwo("x", 5, "E", 1)
        \/ AppendTwo("x", 5, "R", 1)
    BY <1>3 DEF AppendSide, AppendRelative, RelativeNA
  <2>4. FieldAppended(kind)
    BY <2>2, <2>3, TwoAppended DEF Letters
  <2>5. AngleAdded
    BY <1>3, SignedKept DEF AppendSide, AppendRelative, Angle, AngleAdded
  <2>6. QED
    BY <2>4, <2>5
<1>4. CASE AppendSigned
  <2>1. kind = "signed"
    BY <1>4 DEF AppendSigned
  <2>2. kind \notin TwoColumns /\ kind # "dmy" /\ kind \in FieldKinds /\ Most(kind) = 15
    BY <2>1 DEF TwoColumns, FieldKinds, Most
  <2>3. AppendOne("empty", 0) \/ AppendOne("x", 6)
    BY <1>4 DEF AppendSigned
  <2>4. FieldAppended(kind)
    BY <2>2, <2>3, OneAppended
  <2>5. AngleAdded
    BY <1>4, SignedKept DEF AppendSigned, Angle, AngleAdded
  <2>6. QED
    BY <2>4, <2>5
<1>5. CASE AppendTime
  <2>1. kind \in {"time", "date"}
    BY <1>5 DEF AppendTime
  <2>2. kind \notin TwoColumns /\ kind # "dmy" /\ kind \in FieldKinds /\ Most(kind) = 22
    BY <2>1 DEF TwoColumns, FieldKinds, Most
  <2>3. AppendOne("x", 19)
    BY <1>5 DEF AppendTime, INBUF_LEN
  <2>4. FieldAppended(kind)
    BY <2>2, <2>3, OneAppended
  <2>5. QED
    BY <1>5, <2>4 DEF AppendTime, AngleAdded
<1>6. CASE AppendPosition
  <2>1. kind \in {"latitude", "longitude"}
    BY <1>6 DEF AppendPosition
  <2>2. kind \in TwoColumns /\ Most(kind) = 22
    BY <2>1 DEF TwoColumns, FieldKinds, Most
  <2>3. AppendTwo("x", 19, "side", 1)
    BY <1>6 DEF AppendPosition, INBUF_LEN
  <2>4. FieldAppended(kind)
    BY <2>2, <2>3, TwoAppended DEF Letters
  <2>5. QED
    BY <1>6, <2>4 DEF AppendPosition, AngleAdded
<1>7. CASE AppendDMY
  <2>1. kind = "dmy"
    BY <1>7 DEF AppendDMY
  <2>2. /\ Most(kind) = 15 /\ Width(kind) = 3 /\ kind \in FieldKinds
        /\ \A i \in 1 .. 3 : Shape(kind, i) = "x"
    BY <2>1 DEF TwoColumns, FieldKinds, Most, Width, Shape
  <2>3. AppendText(p, 10) = p + 1 + 10
    BY <2>2, AppendTextFits
  <2>4. <<"x", "x", "x">> \in Seq(SentenceCells)
    BY DEF SentenceCells
  <2>5. FieldFilled(kind, <<"x", "x", "x">>)
    BY <2>2, <2>4 DEF FieldFilled
  <2>6. Appended(<<"x", "x", "x">>, p + 11, p + 11)
    BY <1>7, <2>3 DEF AppendDMY
  <2>7. p + 11 \in Nat /\ p + 11 \in p .. p + Most(kind)
    BY <2>2
  <2>8. FieldAppended(kind)
    BY <2>4, <2>5, <2>6, <2>7 DEF FieldAppended
  <2>9. QED
    BY <1>7, <2>8 DEF AppendDMY, AngleAdded
<1>8. CASE AppendWord
  <2>1. kind \notin FieldKinds
    BY <1>8 DEF AppendWord
  <2>2. kind \notin TwoColumns /\ kind # "dmy" /\ Most(kind) = 10
    BY <2>1 DEF TwoColumns, FieldKinds, Most
  <2>3. AppendOne(kind, 9)
    BY <1>8 DEF AppendWord
  <2>4. FieldAppended(kind)
    BY <2>1, <2>2, <2>3, OneAppended
  <2>5. QED
    BY <1>8, <2>4 DEF AppendWord, AngleAdded
<1>9. QED
  BY <1>1, <1>2, <1>3, <1>4, <1>5, <1>6, <1>7, <1>8 DEF FieldStep

\* What is left of a sentence after another field.
LEMMA RemainingFields ==
  ASSUME NEW S, NEW s \in Seq(S), NEW k \in 0 .. Len(s), NEW rest, rest = SubSeq(s, k + 1, Len(s))
  PROVE  /\ rest # <<>> =>
              /\ k + 1 \in 1 .. Len(s) /\ Head(rest) = s[k + 1]
              /\ Tail(rest) = SubSeq(s, k + 1 + 1, Len(s))
         /\ rest = <<>> => k = Len(s)
<1>1. k \in Nat /\ Len(s) \in Nat
  OBVIOUS
<1>2. CASE k = Len(s)
  BY <1>1, <1>2, SubSeqEmpty
<1>3. CASE k # Len(s)
  <2>1. k + 1 \in 1 .. Len(s) /\ Len(s) \in k + 1 .. Len(s)
    BY <1>1, <1>3
  <2>2. Head(rest) = s[k + 1] /\ Tail(rest) = SubSeq(s, k + 1 + 1, Len(s))
    BY <2>1, HeadTailOfSubSeq, Zenon
  <2>3. rest # <<>>
    <3>1. Len(rest) = Len(s) - k
      BY <1>1, <1>3
    <3>2. Len(rest) # 0
      BY <1>1, <1>3, <3>1
    <3>3. QED
      BY <3>2
  <2>4. QED
    BY <1>3, <2>1, <2>2, <2>3
<1>4. QED
  BY <1>2, <1>3

LEMMA CellsJoined ==
  ASSUME NEW s \in Seq(SentenceCells), NEW t \in Seq(SentenceCells)
  PROVE  /\ s \o t \in Seq(SentenceCells) /\ Len(s \o t) = Len(s) + Len(t)
         /\ \A i \in 1 .. Len(s) : (s \o t)[i] = s[i]
         /\ \A i \in Len(s) + 1 .. Len(s) + Len(t) : (s \o t)[i] = t[i - Len(s)]
BY JoinedBytes, Zenon

LEMMA AnglesStep ==
  ASSUME AnglesInv, AngleAdded
  PROVE  AnglesInv'
<1>1. CASE UNCHANGED angles
  BY <1>1 DEF AnglesInv
<1>2. ASSUME NEW angle \in AngleStates, AngleKept(angle), angles' = Append(angles, angle)
      PROVE  AnglesInv'
  <2>1. angles \in Seq(AngleStates) /\ \A i \in 1 .. Len(angles) : AngleKept(angles[i])
    BY DEF AnglesInv
  <2>2. /\ angles' \in Seq(AngleStates) /\ Len(angles') = Len(angles) + 1
        /\ \A i \in 1 .. Len(angles) : angles'[i] = angles[i]
        /\ angles'[Len(angles) + 1] = angle
    BY <1>2, <2>1
  <2>3. ASSUME NEW i \in 1 .. Len(angles') PROVE AngleKept(angles'[i])
    <3>1. i \in 1 .. Len(angles) \/ i = Len(angles) + 1
      BY <2>1, <2>2
    <3>2. QED
      BY <1>2, <2>1, <2>2, <3>1
  <2>4. QED
    BY <2>2, <2>3 DEF AnglesInv
<1>3. QED
  BY <1>1, <1>2 DEF AngleAdded

\* A field goes on with the columns that are documented for it.
LEMMA StageStep ==
  ASSUME SentenceInv, name # "none", todo # <<>>, FieldStep
  PROVE  SentenceInv'
<1> DEFINE fields == Sentence[name]
           kind   == Head(todo)
<1>1. /\ name \in DOMAIN Sentence /\ columns \in Seq(SentenceCells) /\ ~cut /\ AnglesInv
  BY DEF SentenceInv
<1>2. PICK k \in 0 .. Len(fields) : Stage(k)
  BY DEF SentenceInv
<1>3. /\ fields \in Seq(SentenceWords) /\ Len(fields) <= 12
      /\ \A n \in 10 .. Len(fields) : fields[n] \notin FieldKinds
  BY <1>1, SentencesAreBrief DEF Brief
<1>4. todo = SubSeq(fields, k + 1, Len(fields)) /\ p \in 6 .. Reach(k)
  BY <1>2 DEF Stage
<1>5. /\ k + 1 \in 1 .. Len(fields) /\ kind = fields[k + 1]
      /\ Tail(todo) = SubSeq(fields, k + 1 + 1, Len(fields))
  BY <1>3, <1>4, RemainingFields
<1> HIDE DEF fields, kind
<1>6. kind \in SentenceWords
  <2>1. \A n \in 1 .. Len(fields) : fields[n] \in SentenceWords
    BY <1>3
  <2>2. QED
    BY <1>5, <2>1, Zenon
<1>7. /\ k \in 0 .. 11 /\ p \in Nat /\ p <= Reach(k)
      /\ Reach(k) + Most(kind) <= Reach(k + 1) /\ Reach(k + 1) <= 250
      /\ Most(kind) \in Nat /\ Reach(k) \in Nat /\ Reach(k + 1) \in Nat
  <2>1. Len(fields) \in Nat
    BY <1>3
  <2>2. k \in 0 .. 11
    BY <1>2, <1>3, <1>5, <2>1
  <2>3. k >= 9 => Most(kind) = 10
    <3>1. k >= 9 => kind \notin FieldKinds
      BY <1>3, <1>5, <2>2
    <3>2. QED
      BY <3>1 DEF Most, FieldKinds
  <2>4. Most(kind) \in {22, 15, 10}
    BY DEF Most
  <2>5. QED
    <3>1. Reach(k) \in Nat /\ Reach(k + 1) \in Nat /\ Reach(k + 1) <= 250
      BY <2>2 DEF Reach
    <3>2. Reach(k + 1) = Reach(k) + (IF k >= 9 THEN 15 ELSE 22)
      BY <2>2 DEF Reach
    <3>3. p \in Nat /\ p <= Reach(k)
      BY <1>4, <3>1
    <3>4. QED
      BY <2>2, <2>3, <2>4, <3>1, <3>2, <3>3
<1>8. FieldAppended(kind) /\ AngleAdded
  <2>1. p + Most(kind) <= 250
    BY <1>7
  <2>2. QED
    BY <1>6, <1>7, <2>1, FieldWritten DEF kind
<1>9. PICK texts \in Seq(SentenceCells), end \in Nat :
        FieldFilled(kind, texts) /\ end \in p .. p + Most(kind) /\ Appended(texts, end, end)
  BY <1>8 DEF FieldAppended
<1>10. /\ name' = name /\ columns' = columns \o texts /\ p' = end /\ ~cut' /\ todo' = Tail(todo)
  BY <1>1, <1>9 DEF Appended
<1>11. /\ columns' \in Seq(SentenceCells) /\ Len(columns') = Len(columns) + Width(kind)
       /\ \A i \in 1 .. Len(columns) : columns'[i] = columns[i]
       /\ \A i \in Len(columns) + 1 .. Len(columns) + Width(kind) :
            columns'[i] = texts[i - Len(columns)]
  <2>1. Len(texts) = Width(kind)
    BY <1>9 DEF FieldFilled
  <2>2. /\ columns \o texts \in Seq(SentenceCells)
        /\ Len(columns \o texts) = Len(columns) + Len(texts)
        /\ \A i \in 1 .. Len(columns) : (columns \o texts)[i] = columns[i]
        /\ \A i \in Len(columns) + 1 .. Len(columns) + Len(texts) :
             (columns \o texts)[i] = texts[i - Len(columns)]
    BY <1>1, <1>9, CellsJoined, Zenon
  <2>3. QED
    BY <1>10, <2>1, <2>2, Zenon
<1>12. ASSUME name \in DOMAIN Documented
       PROVE  /\ Len(columns') = Offsets[name][k + 1 + 1]
              /\ \A i \in 1 .. Len(columns') : InColumn(Documented[name][i], columns'[i])
  <2> DEFINE starts == Offsets[name]
             layout == Documented[name]
  <2>1. /\ starts[k + 1 + 1] = starts[k + 1] + Width(kind)
        /\ \A i \in 1 .. Width(kind) : layout[starts[k + 1] + i] \in {"free", Shape(kind, i)}
    <3>1. Fills(fields, starts, layout)
      BY <1>12, LayoutsAreFilled DEF fields
    <3>2. QED
      BY <1>5, <3>1 DEF Fills
  <2>2. Len(columns) = starts[k + 1] /\ \A i \in 1 .. Len(columns) : InColumn(layout[i], columns[i])
    BY <1>2, <1>12 DEF Stage
  <2> HIDE DEF starts, layout
  <2>3. Width(kind) \in Nat /\ Len(columns) \in Nat
    BY <1>1 DEF Width
  <2>4. ASSUME NEW i \in 1 .. Len(columns') PROVE InColumn(layout[i], columns'[i])
    <3>1. CASE i \in 1 .. Len(columns)
      BY <1>11, <2>2, <3>1
    <3>2. CASE i \notin 1 .. Len(columns)
      <4> DEFINE j == i - Len(columns)
      <4>0. Len(columns') = Len(columns) + Width(kind) /\ Len(columns) = starts[k + 1]
        BY <1>11, <2>2
      <4>1. /\ j \in 1 .. Width(kind) /\ i = starts[k + 1] + j
            /\ i \in Len(columns) + 1 .. Len(columns) + Width(kind)
        <5>1. \A before, more \in Nat : \A any \in 1 .. before + more :
                any \notin 1 .. before =>
                  /\ any - before \in 1 .. more /\ any = before + (any - before)
                  /\ any \in before + 1 .. before + more
          OBVIOUS
        <5>2. i \in 1 .. Len(columns) + Width(kind)
          BY <4>0
        <5>3. QED
          BY <2>3, <3>2, <4>0, <5>1, <5>2, Zenon
      <4>2. columns'[i] = texts[j]
        BY <1>11, <4>1
      <4> HIDE DEF j
      <4>3. layout[i] \in {"free", Shape(kind, j)}
        BY <2>1, <4>1
      <4>4. \/ texts[j] = Shape(kind, j)
            \/ kind \in FieldKinds /\ texts[j] = "empty"
            \/ Shape(kind, j) = "side" /\ texts[j] \in Letters
        BY <1>9, <4>1 DEF FieldFilled
      <4>5. kind \in FieldKinds => Shape(kind, j) \in {"x", "side"}
        BY DEF Shape
      <4>6. CASE layout[i] = "free"
        BY <4>6 DEF InColumn
      <4>7. CASE layout[i] # "free"
        BY <4>2, <4>3, <4>4, <4>5, <4>7 DEF InColumn, Letters
      <4>8. QED
        BY <4>6, <4>7
    <3>3. QED
      BY <3>1, <3>2
  <2>5. QED
    BY <1>11, <2>1, <2>2, <2>4 DEF starts, layout
<1>13. Stage(k + 1)'
  <2>1. p' \in 6 .. Reach(k + 1)
    <3>1. \A now, least, most, next, then \in Int :
            now \in 6 .. least /\ least + most <= next /\ then \in now .. now + most =>
              then \in 6 .. next
      OBVIOUS
    <3>2. Reach(k) \in Int /\ Reach(k + 1) \in Int /\ Most(kind) \in Int /\ p \in Int /\ end \in Int
      <4>1. Reach(k + 1) \in Nat
        BY <1>7 DEF Reach
      <4>2. QED
        BY <1>7, <1>9, <4>1
    <3>3. QED
      BY <1>4, <1>7, <1>9, <1>10, <3>1, <3>2, Zenon
  <2>2. todo' = SubSeq(Sentence[name'], k + 1 + 1, Len(Sentence[name']))
    BY <1>5, <1>10 DEF fields
  <2>3. QED
    BY <1>10, <1>12, <2>1, <2>2 DEF Stage
<1>14. AnglesInv'
  BY <1>1, <1>8, AnglesStep
<1>15. k + 1 \in 0 .. Len(Sentence[name'])
  BY <1>3, <1>5, <1>10 DEF fields
<1>16. QED
  <2>1. name' # "none" /\ name' \in DOMAIN Sentence
    BY <1>1, <1>10
  <2>2. \E n \in 0 .. Len(Sentence[name']) : Stage(n)'
    BY <1>13, <1>15
  <2>3. QED
    BY <1>10, <1>11, <1>14, <2>1, <2>2 DEF SentenceInv

LEMMA StartKeeps ==
  ASSUME SentenceInv, NEW key \in DOMAIN Sentence, Start(key)
  PROVE  SentenceInv'
<1>1. /\ name' = key /\ todo' = Sentence[key] /\ p' = 6 /\ UNCHANGED <<columns, angles, cut>>
      /\ columns = <<>> /\ columns \in Seq(SentenceCells) /\ ~cut /\ AnglesInv
  BY DEF Start, SentenceInv
<1>2. Sentence[key] \in Seq(SentenceWords)
  BY SentencesAreBrief DEF Brief
<1>3. Sentence[key] = SubSeq(Sentence[key], 0 + 1, Len(Sentence[key]))
  BY <1>2, SubSeqFull
<1>4. ASSUME key \in DOMAIN Documented
      PROVE  Offsets[key][0 + 1] = 0
  BY <1>4, LayoutsAreFilled DEF Fills
<1>5. Len(columns) = 0
  BY <1>1
<1>6. Reach(0) = 6
  BY DEF Reach
<1>7. Stage(0)'
  <2>1. p' \in 6 .. Reach(0)
    BY <1>1, <1>6
  <2>2. \A i \in 1 .. Len(columns') : FALSE
    BY <1>1, <1>5
  <2>3. QED
    BY <1>1, <1>3, <1>4, <1>5, <2>1, <2>2 DEF Stage
<1>8. 0 \in 0 .. Len(Sentence[name'])
  BY <1>1, <1>2
<1>9. key # "none"
  BY DEF Sentence
<1>10. AnglesInv'
  BY <1>1 DEF AnglesInv
<1>11. \E n \in 0 .. Len(Sentence[name']) : Stage(n)'
  BY <1>7, <1>8
<1>12. QED
  BY <1>1, <1>9, <1>10, <1>11 DEF SentenceInv

LEMMA SentenceInvHolds ==
  ASSUME SentenceInv, p \in Int, p <= 250
  PROVE  SentencesReadable /\ SentenceWhole
<1>1. columns \in Seq(SentenceCells) /\ AnglesInv
  BY DEF SentenceInv
<1>2. AnglesKept
  BY <1>1 DEF AnglesInv, AnglesKept
<1>3. ASSUME name \in DOMAIN Documented
      PROVE  /\ Len(columns) <= Len(Documented[name])
             /\ todo = <<>> => Len(columns) = Len(Documented[name])
             /\ \A i \in 1 .. Len(columns) : InColumn(Documented[name][i], columns[i])
  <2> DEFINE fields == Sentence[name]
  <2>1. name # "none"
    BY <1>3 DEF Documented
  <2>2. PICK k \in 0 .. Len(fields) : Stage(k)
    BY <2>1 DEF SentenceInv
  <2>3. fields \in Seq(SentenceWords)
    BY <2>1, SentencesAreBrief DEF SentenceInv, Brief
  <2>4. todo = SubSeq(fields, k + 1, Len(fields))
    BY <2>2 DEF Stage
  <2>5. todo = <<>> => k = Len(fields)
    BY <2>3, <2>4, RemainingFields
  <2>6. /\ Len(columns) = Offsets[name][k + 1]
        /\ \A i \in 1 .. Len(columns) : InColumn(Documented[name][i], columns[i])
    BY <1>3, <2>2 DEF Stage
  <2>7. Fills(fields, Offsets[name], Documented[name])
    BY <1>3, LayoutsAreFilled
  <2> HIDE DEF fields
  <2>8. Len(fields) \in Nat /\ k + 1 \in 1 .. Len(fields) + 1
    BY <2>3
  <2>9. /\ Offsets[name][k + 1] <= Len(Documented[name])
        /\ Offsets[name][Len(fields) + 1] = Len(Documented[name])
    BY <2>7, <2>8 DEF Fills
  <2>10. QED
    BY <2>5, <2>6, <2>9
<1>4. ColumnsAsDocumented
  BY <1>1, <1>3 DEF ColumnsAsDocumented
<1>5. SentenceWhole
  BY DEF SentenceInv, SentenceWhole, EndOf, OUTBUF_LEN
<1>6. QED
  BY <1>2, <1>4, <1>5 DEF SentencesReadable

LEMMA SentenceEnds ==
  ASSUME SentenceInv, p = 0 \/ name # "none"
  PROVE  p \in Int /\ p <= 250
<1>1. ASSUME name # "none" PROVE p \in Int /\ p <= 250
  <2>1. PICK k \in 0 .. Len(Sentence[name]) : Stage(k)
    BY <1>1 DEF SentenceInv
  <2>2. Sentence[name] \in Seq(SentenceWords) /\ Len(Sentence[name]) <= 12
    BY <1>1, SentencesAreBrief DEF SentenceInv, Brief
  <2>3. k \in 0 .. 12
    BY <2>2
  <2>4. Reach(k) \in Nat /\ Reach(k) <= 250
    BY <2>3 DEF Reach
  <2>5. QED
    BY <2>1, <2>4 DEF Stage
<1>2. QED
  BY <1>1


----------------------------------------------------------------------------
(* PGNs as sentences. *)

PgnWords ==
  Doubles \cup
  {"source", "daysSince1970", "SID", "ref", "SWRT", "GNSStype", "GNSSmethod", "nSatellites",
   "nReferenceStations", "referenceStationType", "referenceSationID", "integrety", "XTEMode",
   "navigationTerminated", "windReference", "tempInstance", "tempSource", "pressureInstance",
   "pressureSource", "engineInstance", "engineLoad", "status1", "status2", "instance",
   "fluidType", "batteryInstance", "humiditySource", "humidityInstance", "rudderDirectionOrder",
   "angleOrder"}

WidestOf(text) == IF text \in Doubles THEN WidestDouble ELSE WidestCount

\* How far a sentence reaches after k values; 129029 has sixteen, but most of them are short.
Reach129029 == <<13, 20, 27, 45, 63, 81, 88, 95, 102, 120, 138, 156, 163, 170, 177, 195, 202>>
PgnReach(key, k) == IF key = "i129029" THEN Reach129029[k + 1] ELSE 13 + 18 * k

\* The values of a sentence fit, and are those of the arguments unless it is lossy.
Fitting(fields, most) == fields \in Seq(PgnWords) /\ Len(fields) <= most

LEMMA PgnsFit ==
  \A key \in DOMAIN PgnSentence : Fitting(PgnSentence[key], IF key = "i129029" THEN 16 ELSE 11)
<1>1. Fitting(send127258, 11)
  BY SMT DEF Fitting, send127258, PgnWords, Doubles
<1>2. Fitting(send127250, 11)
  BY SMT DEF Fitting, send127250, PgnWords, Doubles
<1>3. Fitting(send127257, 11)
  BY SMT DEF Fitting, send127257, PgnWords, Doubles
<1>4. Fitting(send128259, 11)
  BY SMT DEF Fitting, send128259, PgnWords, Doubles
<1>5. Fitting(send128267, 11)
  BY SMT DEF Fitting, send128267, PgnWords, Doubles
<1>6. Fitting(send128275, 11)
  BY SMT DEF Fitting, send128275, PgnWords, Doubles
<1>7. Fitting(send129029, 16)
  BY SMT DEF Fitting, send129029, PgnWords, Doubles
<1>8. Fitting(send129026, 11)
  BY SMT DEF Fitting, send129026, PgnWords, Doubles
<1>9. Fitting(send129283, 11)
  BY SMT DEF Fitting, send129283, PgnWords, Doubles
<1>10. Fitting(send130306, 11)
  BY SMT DEF Fitting, send130306, PgnWords, Doubles
<1>11. Fitting(send130312, 11)
  BY SMT DEF Fitting, send130312, PgnWords, Doubles
<1>12. Fitting(send130316, 11)
  BY SMT DEF Fitting, send130316, PgnWords, Doubles
<1>13. Fitting(send130314, 11)
  BY SMT DEF Fitting, send130314, PgnWords, Doubles
<1>14. Fitting(send127488, 11)
  BY SMT DEF Fitting, send127488, PgnWords, Doubles
<1>15. Fitting(send127489, 11)
  BY SMT DEF Fitting, send127489, PgnWords, Doubles
<1>16. Fitting(send127505, 11)
  BY SMT DEF Fitting, send127505, PgnWords, Doubles
<1>17. Fitting(send127508, 11)
  BY SMT DEF Fitting, send127508, PgnWords, Doubles
<1>18. Fitting(send128000, 11)
  BY SMT DEF Fitting, send128000, PgnWords, Doubles
<1>19. Fitting(send129025, 11)
  BY SMT DEF Fitting, send129025, PgnWords, Doubles
<1>20. Fitting(send130310, 11)
  BY SMT DEF Fitting, send130310, PgnWords, Doubles
<1>21. Fitting(send130311, 11)
  BY SMT DEF Fitting, send130311, PgnWords, Doubles
<1>22. Fitting(send130313, 11)
  BY SMT DEF Fitting, send130313, PgnWords, Doubles
<1>23. Fitting(send127245, 11)
  BY SMT DEF Fitting, send127245, PgnWords, Doubles
<1>24. QED
  BY <1>1, <1>2, <1>3, <1>4, <1>5, <1>6, <1>7, <1>8, <1>9, <1>10, <1>11, <1>12,
     <1>13, <1>14, <1>15, <1>16, <1>17, <1>18, <1>19, <1>20, <1>21, <1>22, <1>23
     DEF PgnSentence

LEMMA ArgumentsInOrder ==
  \A key \in DOMAIN PgnSentence \ Lossy : PgnSentence[key] = Arguments[key]
<1>1. PgnSentence.i127250 = Arguments.i127250
  BY DEF PgnSentence, Arguments, send127250
<1>2. PgnSentence.i127257 = Arguments.i127257
  BY DEF PgnSentence, Arguments, send127257
<1>3. PgnSentence.i128259 = Arguments.i128259
  BY DEF PgnSentence, Arguments, send128259
<1>4. PgnSentence.i128267 = Arguments.i128267
  BY DEF PgnSentence, Arguments, send128267
<1>5. PgnSentence.i128275 = Arguments.i128275
  BY DEF PgnSentence, Arguments, send128275
<1>6. PgnSentence.i129026 = Arguments.i129026
  BY DEF PgnSentence, Arguments, send129026
<1>7. PgnSentence.i129283 = Arguments.i129283
  BY DEF PgnSentence, Arguments, send129283
<1>8. PgnSentence.i130306 = Arguments.i130306
  BY DEF PgnSentence, Arguments, send130306
<1>9. PgnSentence.i130312 = Arguments.i130312
  BY DEF PgnSentence, Arguments, send130312
<1>10. PgnSentence.i130316 = Arguments.i130316
  BY DEF PgnSentence, Arguments, send130316
<1>11. PgnSentence.i130314 = Arguments.i130314
  BY DEF PgnSentence, Arguments, send130314
<1>12. PgnSentence.i127488 = Arguments.i127488
  BY DEF PgnSentence, Arguments, send127488
<1>13. PgnSentence.i127505 = Arguments.i127505
  BY DEF PgnSentence, Arguments, send127505
<1>14. PgnSentence.i127508 = Arguments.i127508
  BY DEF PgnSentence, Arguments, send127508
<1>15. PgnSentence.i128000 = Arguments.i128000
  BY DEF PgnSentence, Arguments, send128000
<1>16. PgnSentence.i130310 = Arguments.i130310
  BY DEF PgnSentence, Arguments, send130310
<1>17. PgnSentence.i130311 = Arguments.i130311
  BY DEF PgnSentence, Arguments, send130311
<1>18. PgnSentence.i130313 = Arguments.i130313
  BY DEF PgnSentence, Arguments, send130313
<1>19. PgnSentence.i127245 = Arguments.i127245
  BY DEF PgnSentence, Arguments, send127245
<1>20. DOMAIN PgnSentence \ Lossy \subseteq
        {"i127250", "i127257", "i128259", "i128267", "i128275", "i129026", "i129283", "i130306",
         "i130312", "i130316", "i130314", "i127488", "i127505", "i127508", "i128000", "i130310",
         "i130311", "i130313", "i127245"}
  BY DEF PgnSentence, Lossy
<1>21. QED
  BY <1>1, <1>2, <1>3, <1>4, <1>5, <1>6, <1>7, <1>8, <1>9, <1>10, <1>11, <1>12, <1>13, <1>14,
     <1>15, <1>16, <1>17, <1>18, <1>19, <1>20

LEMMA PositionsFit ==
  \A k \in 0 .. 15 :
    /\ Reach129029[k + 1] + 1 + WidestOf(send129029[k + 1]) <= Reach129029[k + 2]
    /\ Reach129029[k + 1] \in 6 .. 250 /\ Reach129029[k + 2] \in 6 .. 250
BY SMT DEF Reach129029, WidestOf, WidestDouble, WidestCount, send129029, Doubles

PgnCells == PgnWords \cup {"pgn"}

PgnStage(k) ==
  LET fields == PgnSentence[name]
  IN
  /\ todo = SubSeq(fields, k + 1, Len(fields))
  /\ columns \in Seq(PgnCells) /\ Len(columns) = k + 1 /\ columns[1] = "pgn"
  /\ \A i \in 1 .. k : columns[i + 1] = fields[i]
  /\ p \in 6 .. PgnReach(name, k)

PgnInv ==
  /\ name \in DOMAIN PgnSentence \cup {"none", "IIPGR", "binary"}
  /\ angles = <<>> /\ ~cut
  /\ name \notin DOMAIN PgnSentence => columns = <<>> /\ todo = <<>>
  /\ name = "none" => p = 0 /\ raw.form = "none"
  /\ name = "IIPGR" =>
       /\ raw.form = "text" /\ p \in Nat /\ p + 4 <= OUTBUF_LEN
       /\ raw.says <= FitsInHex => raw.carries = raw.says
  /\ name = "binary" =>
       raw.form = "binary" /\ p \in Nat /\ p + 4 <= OUTBUF_LEN /\ raw.carries = raw.says
  /\ name \in DOMAIN PgnSentence =>
       raw.form = "none" /\ \E k \in 0 .. Len(PgnSentence[name]) : PgnStage(k)

LEMMA PgnNames ==
  /\ "none" \notin DOMAIN PgnSentence /\ "IIPGR" \notin DOMAIN PgnSentence
  /\ "binary" \notin DOMAIN PgnSentence
  /\ \A key \in DOMAIN PgnSentence : key \notin DOMAIN Documented
BY DEF PgnSentence, Documented

LEMMA PgnReachGrows ==
  ASSUME NEW key \in DOMAIN PgnSentence, NEW k \in Nat, k + 1 \in 1 .. Len(PgnSentence[key])
  PROVE  /\ PgnReach(key, k) + 1 + WidestOf(PgnSentence[key][k + 1]) <= PgnReach(key, k + 1)
         /\ PgnReach(key, k) \in 6 .. 250 /\ PgnReach(key, k + 1) \in 6 .. 250
<1>1. Len(PgnSentence[key]) \in Nat /\ Len(PgnSentence[key]) <= (IF key = "i129029" THEN 16 ELSE 11)
  BY PgnsFit DEF Fitting
<1>2. CASE key = "i129029"
  <2>1. PgnSentence[key] = send129029
    BY <1>2 DEF PgnSentence
  <2>2. k \in 0 .. 15
    <3>1. \A n \in Nat : k + 1 \in 1 .. n /\ n <= 16 => k \in 0 .. 15
      OBVIOUS
    <3>2. QED
      BY <1>1, <1>2, <3>1, Zenon
  <2>3. PgnReach(key, k) = Reach129029[k + 1] /\ PgnReach(key, k + 1) = Reach129029[k + 2]
    <3>1. (k + 1) + 1 = k + 2
      OBVIOUS
    <3>2. PgnReach(key, k + 1) = Reach129029[(k + 1) + 1]
      BY <1>2, Zenon DEF PgnReach
    <3>3. PgnReach(key, k) = Reach129029[k + 1]
      BY <1>2, Zenon DEF PgnReach
    <3>4. QED
      BY <3>1, <3>2, <3>3, Zenon
  <2>4. /\ Reach129029[k + 1] + 1 + WidestOf(send129029[k + 1]) <= Reach129029[k + 2]
        /\ Reach129029[k + 1] \in 6 .. 250 /\ Reach129029[k + 2] \in 6 .. 250
    BY <2>2, PositionsFit, Zenon
  <2>5. QED
    BY <2>1, <2>3, <2>4, Zenon
<1>3. CASE key # "i129029"
  <2>1. k \in 0 .. 10
    <3>1. \A n \in Nat : k + 1 \in 1 .. n /\ n <= 11 => k \in 0 .. 10
      OBVIOUS
    <3>2. QED
      BY <1>1, <1>3, <3>1, Zenon
  <2>2. \A width \in 0 .. 17 :
          /\ 13 + 18 * k + 1 + width <= 13 + 18 * (k + 1)
          /\ 13 + 18 * k \in 6 .. 250 /\ 13 + 18 * (k + 1) \in 6 .. 250
    BY <2>1
  <2>3. WidestOf(PgnSentence[key][k + 1]) \in 0 .. 17
    BY DEF WidestOf, WidestDouble, WidestCount
  <2>4. PgnReach(key, k) = 13 + 18 * k /\ PgnReach(key, k + 1) = 13 + 18 * (k + 1)
    BY <1>3, Zenon DEF PgnReach
  <2>5. /\ 13 + 18 * k + 1 + WidestOf(PgnSentence[key][k + 1]) <= 13 + 18 * (k + 1)
        /\ 13 + 18 * k \in 6 .. 250 /\ 13 + 18 * (k + 1) \in 6 .. 250
    BY <2>2, <2>3, Zenon
  <2>6. QED
    BY <2>4, <2>5
<1>4. QED
  BY <1>2, <1>3

LEMMA StartPgnKeeps ==
  ASSUME PgnInv, NEW key \in DOMAIN PgnSentence, StartPgn(key)
  PROVE  PgnInv'
<1>1. /\ name = "none" /\ name' = key /\ todo' = PgnSentence[key] /\ columns' = <<"pgn">>
      /\ UNCHANGED <<angles, cut, raw>> /\ \E width \in {0, WidestCount} : p' = AppendText(6, width)
  BY DEF StartPgn
<1>2. p' \in {7, 13}
  <2>1. AppendText(6, 0) = 7 /\ AppendText(6, 6) = 13
    BY AppendTextFits
  <2>2. QED
    BY <1>1, <2>1 DEF WidestCount
<1>3. PgnReach(key, 0) = 13
  <2>1. Reach129029[0 + 1] = 13
    BY DEF Reach129029
  <2>2. QED
    BY <2>1 DEF PgnReach
<1>4. PgnSentence[key] \in Seq(PgnWords)
  BY PgnsFit DEF Fitting
<1>5. PgnSentence[key] = SubSeq(PgnSentence[key], 0 + 1, Len(PgnSentence[key]))
  BY <1>4, SubSeqFull
<1>6. /\ columns' \in Seq(PgnCells) /\ Len(columns') = 0 + 1 /\ columns'[1] = "pgn"
  BY <1>1 DEF PgnCells
<1>7. PgnStage(0)'
  <2>1. p' \in 6 .. PgnReach(name', 0)
    BY <1>1, <1>2, <1>3
  <2>2. \A i \in 1 .. 0 : columns'[i + 1] = PgnSentence[name'][i]
    OBVIOUS
  <2>3. QED
    BY <1>1, <1>5, <1>6, <2>1, <2>2 DEF PgnStage
<1>8. \E k \in 0 .. Len(PgnSentence[name']) : PgnStage(k)'
  <2>1. 0 \in 0 .. Len(PgnSentence[name'])
    BY <1>1, <1>4
  <2>2. QED
    BY <1>7, <2>1
<1>9. QED
  BY <1>1, <1>8, PgnNames DEF PgnInv

LEMMA ArgumentKeeps ==
  ASSUME PgnInv, AppendArgument
  PROVE  PgnInv'
<1> DEFINE fields == PgnSentence[name]
           text   == Head(todo)
<1>1. PICK width \in {0, WidestOf(text)} : AppendOne(text, width)
  BY DEF AppendArgument, WidestOf
<1>2. todo # <<>> /\ UNCHANGED <<angles, raw>>
  BY DEF AppendArgument
<1>3. name \in DOMAIN PgnSentence
  BY <1>2 DEF PgnInv
<1>4. PICK k \in 0 .. Len(fields) : PgnStage(k)
  BY <1>3 DEF PgnInv
<1>5. fields \in Seq(PgnWords) /\ k \in Nat /\ Len(fields) \in Nat
  BY <1>3, <1>4, PgnsFit DEF Fitting
<1>6. /\ todo = SubSeq(fields, k + 1, Len(fields)) /\ p \in 6 .. PgnReach(name, k)
      /\ columns \in Seq(PgnCells) /\ Len(columns) = k + 1 /\ columns[1] = "pgn"
      /\ \A i \in 1 .. k : columns[i + 1] = fields[i]
  BY <1>4 DEF PgnStage
<1>7. /\ k + 1 \in 1 .. Len(fields) /\ text = fields[k + 1]
      /\ Tail(todo) = SubSeq(fields, k + 1 + 1, Len(fields))
  BY <1>2, <1>5, <1>6, RemainingFields
<1>8. /\ PgnReach(name, k) + 1 + WidestOf(text) <= PgnReach(name, k + 1)
      /\ PgnReach(name, k) \in 6 .. 250 /\ PgnReach(name, k + 1) \in 6 .. 250
  <2>1. \A step \in Nat : step + 1 \in 1 .. Len(PgnSentence[name]) =>
          /\ PgnReach(name, step) + 1 + WidestOf(PgnSentence[name][step + 1])
               <= PgnReach(name, step + 1)
          /\ PgnReach(name, step) \in 6 .. 250 /\ PgnReach(name, step + 1) \in 6 .. 250
    BY <1>3, PgnReachGrows
  <2>2. /\ PgnReach(name, k) + 1 + WidestOf(fields[k + 1]) <= PgnReach(name, k + 1)
        /\ PgnReach(name, k) \in 6 .. 250 /\ PgnReach(name, k + 1) \in 6 .. 250
    BY <1>5, <1>7, <2>1, Zenon
  <2> HIDE DEF fields, text
  <2>3. QED
    BY <1>7, <2>2, Zenon
<1> HIDE DEF fields, text
<1>9. width \in Nat /\ WidestOf(text) \in Nat /\ width <= WidestOf(text)
  BY <1>1 DEF WidestOf, WidestDouble, WidestCount
<1>10. p \in Nat /\ p + 1 + width <= 250 /\ p + 1 + width \in 6 .. PgnReach(name, k + 1)
  <2> DEFINE reach  == PgnReach(name, k)
             beyond == PgnReach(name, k + 1)
             widest == WidestOf(text)
  <2>1. /\ reach \in 6 .. 250 /\ beyond \in 6 .. 250 /\ reach + 1 + widest <= beyond
        /\ width \in Nat /\ widest \in Nat /\ width <= widest
    BY <1>8, <1>9, Zenon
  <2>2. p \in 6 .. reach
    BY <1>6
  <2>3. ASSUME NEW here, NEW wide, NEW most, NEW until, NEW then,
               here \in 6 .. until, until \in 6 .. 250, then \in 6 .. 250,
               until + 1 + most <= then, wide \in Nat, most \in Nat, wide <= most
        PROVE  here \in Nat /\ here + 1 + wide <= 250 /\ here + 1 + wide \in 6 .. then
    BY <2>3
  <2> HIDE DEF reach, beyond, widest
  <2>4. p \in Nat /\ p + 1 + width <= 250 /\ p + 1 + width \in 6 .. beyond
    BY <2>1, <2>2, <2>3
  <2>5. QED
    BY <2>4 DEF beyond
<1>11. /\ name' = name /\ columns' = columns \o <<text>> /\ p' = p + 1 + width /\ ~cut'
       /\ todo' = Tail(todo)
  BY <1>1, <1>9, <1>10, AppendTextFits DEF AppendOne, Appended, PgnInv
<1>12. text \in PgnCells
  <2>1. \A i \in 1 .. Len(fields) : fields[i] \in PgnWords
    BY <1>5
  <2>2. QED
    BY <1>7, <2>1 DEF PgnCells
<1>13. /\ columns' \in Seq(PgnCells) /\ Len(columns') = k + 1 + 1
       /\ \A i \in 1 .. k + 1 : columns'[i] = columns[i]
       /\ columns'[k + 1 + 1] = text
  BY <1>5, <1>6, <1>11, <1>12
<1>14. \A i \in 1 .. k + 1 : columns'[i + 1] = fields[i]
  <2> SUFFICES ASSUME NEW i \in 1 .. k + 1 PROVE columns'[i + 1] = fields[i]
    OBVIOUS
  <2>1. CASE i = k + 1
    BY <1>7, <1>13, <2>1
  <2>2. CASE i # k + 1
    <3>1. i \in 1 .. k /\ i + 1 \in 1 .. k + 1
      BY <1>5, <2>2
    <3>2. QED
      BY <1>6, <1>13, <3>1, Zenon
  <2>3. QED
    BY <2>1, <2>2
<1>15. PgnStage(k + 1)'
  <2>1. columns'[1] = "pgn"
    <3>1. 1 \in 1 .. k + 1
      BY <1>5
    <3>2. QED
      BY <1>6, <1>13, <3>1, Zenon
  <2>2. QED
    BY <1>7, <1>10, <1>11, <1>13, <1>14, <2>1 DEF PgnStage, fields
<1>16. k + 1 \in 0 .. Len(PgnSentence[name'])
  BY <1>5, <1>7, <1>11 DEF fields
<1>17. \E n \in 0 .. Len(PgnSentence[name']) : PgnStage(n)'
  BY <1>15, <1>16
<1>18. QED
  BY <1>2, <1>3, <1>11, <1>17, PgnNames DEF PgnInv

LEMMA SendKeepsRoom ==
  ASSUME PgnInv, SendPGN
  PROVE  PgnInv'
<1>1. PICK length \in DataLengths, pgn \in {0, 5, 6}, source \in 0 .. 3, digits \in {0, 2, 3} :
        LET begun   == AppendText(AppendText(AppendText(6, pgn), source), digits) + 1
            fits    == (HexEnd - begun + 1) \div 2
            carries == IF length < fits THEN length ELSE fits
        IN  /\ p' = begun + 2 * carries
            /\ raw' = [form |-> "text", says |-> length, carries |-> carries]
  BY DEF SendPGN
<1> DEFINE begun   == AppendText(AppendText(AppendText(6, pgn), source), digits) + 1
           fits    == (HexEnd - begun + 1) \div 2
           carries == IF length < fits THEN length ELSE fits
<1>2. begun \in 10 .. 22
  <2>0. /\ 6 \in Nat /\ pgn \in Nat /\ source \in Nat /\ digits \in Nat
        /\ 7 + pgn \in Nat /\ 8 + pgn + source \in Nat
        /\ 6 + 1 + pgn <= 250 /\ 7 + pgn + 1 + source <= 250
        /\ 8 + pgn + source + 1 + digits <= 250
        /\ 6 + 1 + pgn = 7 + pgn /\ 7 + pgn + 1 + source = 8 + pgn + source
        /\ 8 + pgn + source + 1 + digits = 9 + pgn + source + digits
    OBVIOUS
  <2>1. AppendText(6, pgn) = 7 + pgn
    BY <2>0, AppendTextFits
  <2>2. AppendText(7 + pgn, source) = 8 + pgn + source
    BY <2>0, AppendTextFits
  <2>3. AppendText(8 + pgn + source, digits) = 9 + pgn + source + digits
    BY <2>0, AppendTextFits
  <2>4. QED
    BY <2>1, <2>2, <2>3
<1> HIDE DEF begun
<1>3. fits \in 114 .. 120 /\ 2 * fits <= 250 - begun
  BY <1>2 DEF HexEnd, OUTBUF_LEN
<1> HIDE DEF fits
<1>4. length \in 0 .. 223
  BY PgnSentencesAssumption
<1>5. carries \in Nat /\ carries <= fits /\ (length <= 114 => carries = length)
  BY <1>3, <1>4
<1>6. p' = begun + 2 * carries /\ raw' = [form |-> "text", says |-> length, carries |-> carries]
  BY <1>1 DEF begun, fits
<1> HIDE DEF carries
<1>7. p' \in Nat /\ p' + 4 <= OUTBUF_LEN
  <2>1. /\ begun + 2 * carries \in Nat
        /\ begun + 2 * carries + 4 <= 255
    BY <1>2, <1>3, <1>5
  <2>2. QED
    BY <1>6, <2>1 DEF OUTBUF_LEN
<1>8. /\ name = "none" /\ name' = "IIPGR" /\ UNCHANGED <<todo, columns, angles, cut>>
  BY DEF SendPGN
<1>9. raw'.form = "text" /\ (raw'.says <= FitsInHex => raw'.carries = raw'.says)
  <2>1. raw'.form = "text" /\ raw'.says = length /\ raw'.carries = carries
    BY <1>6
  <2>2. QED
    BY <1>5, <2>1 DEF FitsInHex
<1>10. QED
  BY <1>7, <1>8, <1>9, PgnNames DEF PgnInv

LEMMA BinaryKeepsRoom ==
  ASSUME PgnInv, SendBinaryPGN
  PROVE  PgnInv'
<1>1. PICK length \in DataLengths :
        /\ p' = 9 + length + 2
        /\ raw' = [form |-> "binary", says |-> length, carries |-> length]
  BY DEF SendBinaryPGN
<1>2. length \in 0 .. 223
  BY PgnSentencesAssumption
<1>3. p' \in Nat /\ p' + 4 <= OUTBUF_LEN
  BY <1>1, <1>2 DEF OUTBUF_LEN
<1>4. name = "none" /\ name' = "binary" /\ UNCHANGED <<todo, columns, angles, cut>>
  BY DEF SendBinaryPGN
<1>5. QED
  BY <1>1, <1>3, <1>4, PgnNames DEF PgnInv

LEMMA PgnInvHolds ==
  ASSUME PgnInv
  PROVE  SentencesReadable /\ EncodedWhole
<1>1. SentencesReadable
  <2>1. "none" \notin DOMAIN Documented /\ "IIPGR" \notin DOMAIN Documented
        /\ "binary" \notin DOMAIN Documented
    BY DEF Documented
  <2>2. name \notin DOMAIN Documented
    BY <2>1, PgnNames DEF PgnInv
  <2>3. \A i \in DOMAIN angles : FALSE
    BY DEF PgnInv
  <2>4. QED
    BY <2>2, <2>3 DEF SentencesReadable, ColumnsAsDocumented, AnglesKept
<1>2. p \in Int /\ p + 4 <= OUTBUF_LEN
  <2>1. ASSUME name \in DOMAIN PgnSentence PROVE p \in Int /\ p <= 250
    <3> DEFINE fields == PgnSentence[name]
    <3>1. PICK k \in 0 .. Len(fields) : PgnStage(k)
      BY <2>1 DEF PgnInv
    <3>2. fields \in Seq(PgnWords) /\ k \in Nat /\ Len(fields) \in Nat
      BY <2>1, PgnsFit DEF Fitting
    <3>3. PgnReach(name, k) \in 6 .. 250
      <4>1. CASE k = 0
        <5>1. Reach129029[0 + 1] = 13
          BY DEF Reach129029
        <5>2. QED
          BY <4>1, <5>1 DEF PgnReach
      <4>2. CASE k # 0
        <5>1. k - 1 \in Nat /\ (k - 1) + 1 \in 1 .. Len(fields) /\ (k - 1) + 1 = k
          BY <3>1, <3>2, <4>2
        <5>2. QED
          BY <2>1, <5>1, PgnReachGrows
      <4>3. QED
        BY <4>1, <4>2
    <3>4. \A reach \in 6 .. 250 : \A here \in 6 .. reach : here \in Int /\ here <= 250
      OBVIOUS
    <3>5. p \in 6 .. PgnReach(name, k)
      BY <3>1 DEF PgnStage
    <3>6. QED
      BY <3>3, <3>4, <3>5, Zenon
  <2>2. QED
    BY <2>1 DEF PgnInv, OUTBUF_LEN
<1>3. SentenceWhole
  BY <1>2 DEF PgnInv, SentenceWhole, EndOf, OUTBUF_LEN
<1>4. ASSUME name \in DOMAIN PgnSentence \ Lossy, todo = <<>>
      PROVE  /\ Len(columns) = 1 + Len(Arguments[name])
             /\ \A i \in DOMAIN Arguments[name] : columns[i + 1] = Arguments[name][i]
  <2> DEFINE fields == PgnSentence[name]
  <2>1. PICK k \in 0 .. Len(fields) : PgnStage(k)
    BY <1>4 DEF PgnInv
  <2>2. fields \in Seq(PgnWords) /\ k \in Nat /\ Len(fields) \in Nat
    BY <1>4, <2>1, PgnsFit DEF Fitting
  <2>3. /\ todo = SubSeq(fields, k + 1, Len(fields))
        /\ columns \in Seq(PgnCells) /\ Len(columns) = k + 1 /\ columns[1] = "pgn"
        /\ \A i \in 1 .. k : columns[i + 1] = fields[i]
    BY <2>1 DEF PgnStage
  <2>4. fields = Arguments[name]
    BY <1>4, ArgumentsInOrder
  <2> HIDE DEF fields
  <2>5. k = Len(fields)
    BY <1>4, <2>1, <2>2, <2>3, RemainingFields
  <2>6. DOMAIN fields = 1 .. k /\ Len(columns) = 1 + Len(fields)
    BY <2>2, <2>3, <2>5
  <2>7. \A i \in DOMAIN fields : columns[i + 1] = fields[i]
    BY <2>3, <2>6, Zenon
  <2>8. QED
    BY <2>4, <2>6, <2>7, Zenon
<1>5. /\ raw.form = "text" => name = "IIPGR"
      /\ raw.form = "binary" => name = "binary"
  BY DEF PgnInv
<1>6. QED
  BY <1>1, <1>2, <1>3, <1>4, <1>5 DEF PgnInv, EncodedWhole, OUTBUF_LEN

----------------------------------------------------------------------------

ValuesInv == SentenceInv /\ (name = "none" => p = 0) /\ raw.form = "none"

LEMMA ValuesKeep == ValuesInv /\ [SentenceStep /\ UNCHANGED raw]_pgnSentenceVars => ValuesInv'
<1>1. SUFFICES ASSUME ValuesInv, [SentenceStep /\ UNCHANGED raw]_pgnSentenceVars PROVE ValuesInv'
  OBVIOUS
<1>2. CASE UNCHANGED pgnSentenceVars
  BY <1>1, <1>2
     DEF pgnSentenceVars, sentenceVars, ValuesInv, SentenceInv, AnglesInv, Stage
<1>3. ASSUME NEW key \in DOMAIN Sentence, Start(key), UNCHANGED raw
      PROVE  ValuesInv'
  <2>1. SentenceInv' /\ name' = key
    BY <1>1, <1>3, StartKeeps DEF ValuesInv, Start
  <2>2. key # "none"
    BY DEF Sentence
  <2>3. QED
    BY <1>1, <1>3, <2>1, <2>2 DEF ValuesInv
<1>4. CASE todo # <<>> /\ FieldStep /\ UNCHANGED raw
  <2>1. name # "none"
    BY <1>1, <1>4 DEF ValuesInv, SentenceInv
  <2>2. SentenceInv'
    BY <1>1, <1>4, <2>1, StageStep DEF ValuesInv
  <2>3. name' = name
    BY <1>4 DEF FieldStep, AppendNumber, AppendBearing, AppendSide, AppendRelative, AppendSigned,
                AppendTime,
                AppendPosition, AppendDMY, AppendWord, RelativeNA, AppendOne, AppendTwo, Appended
  <2>4. QED
    BY <1>1, <1>4, <2>1, <2>2, <2>3 DEF ValuesInv
<1>5. QED
  BY <1>1, <1>2, <1>3, <1>4 DEF SentenceStep, FieldStep

LEMMA ValuesInvHolds ==
  ASSUME ValuesInv
  PROVE  SentencesReadable /\ EncodedWhole
<1>1. p \in Int /\ p <= 250
  BY SentenceEnds DEF ValuesInv
<1>2. SentencesReadable /\ SentenceWhole
  BY <1>1, SentenceInvHolds DEF ValuesInv
<1>3. name \notin DOMAIN PgnSentence
  <2>1. \A key \in DOMAIN Sentence \cup {"none"} : key \notin DOMAIN PgnSentence
    BY DEF Sentence, PgnSentence
  <2>2. QED
    BY <2>1 DEF ValuesInv, SentenceInv
<1>4. QED
  BY <1>2, <1>3 DEF ValuesInv, EncodedWhole

LEMMA PgnSentencesKeep == PgnInv /\ [PgnSentenceStep]_pgnSentenceVars => PgnInv'
<1>1. SUFFICES ASSUME PgnInv, [PgnSentenceStep]_pgnSentenceVars PROVE PgnInv'
  OBVIOUS
<1>2. CASE UNCHANGED pgnSentenceVars
  BY <1>1, <1>2 DEF pgnSentenceVars, sentenceVars, PgnInv, PgnStage
<1>3. ASSUME NEW key \in DOMAIN PgnSentence, StartPgn(key)
      PROVE  PgnInv'
  BY <1>1, <1>3, StartPgnKeeps
<1>4. QED
  BY <1>1, <1>2, <1>3, ArgumentKeeps, SendKeepsRoom, BinaryKeepsRoom DEF PgnSentenceStep

LEMMA EncodersInitially == PgnSentenceInit => ValuesInv /\ PgnInv
<1>1. SUFFICES ASSUME PgnSentenceInit PROVE ValuesInv /\ PgnInv
  OBVIOUS
<1>2. /\ name = "none" /\ todo = <<>> /\ columns = <<>> /\ angles = <<>> /\ p = 0 /\ ~cut
      /\ raw.form = "none"
  BY <1>1 DEF PgnSentenceInit, SentenceInit
<1>3. AnglesInv
  BY <1>2 DEF AnglesInv
<1>4. columns \in Seq(SentenceCells)
  BY <1>2
<1>5. QED
  BY <1>2, <1>3, <1>4, PgnNames DEF ValuesInv, SentenceInv, PgnInv

----------------------------------------------------------------------------

\* The encoder is that of one subject or of the other.
EncoderInv == (subject = "pgn" => PgnInv) /\ (subject # "pgn" => ValuesInv)

LEMMA EncoderKeeps == EncoderInv /\ [Next]_vars => EncoderInv'
<1>1. SUFFICES ASSUME EncoderInv, [Next]_vars PROVE EncoderInv'
  OBVIOUS
<1>2. UNCHANGED subject
  BY <1>1 DEF Next, vars
<1>3. CASE subject = "pgn"
  <2>1. [PgnSentenceStep]_pgnSentenceVars
    BY <1>1, <1>3 DEF Next, vars
  <2>2. QED
    BY <1>1, <1>2, <1>3, <2>1, PgnSentencesKeep DEF EncoderInv
<1>4. CASE subject # "pgn"
  <2>1. [SentenceStep /\ UNCHANGED raw]_pgnSentenceVars
    <3>1. CASE UNCHANGED vars
      BY <3>1 DEF vars
    <3>2. CASE Next /\ subject = "sentence"
      BY <3>2 DEF Next
    <3>3. CASE Next /\ subject # "sentence"
      BY <1>4, <3>3 DEF Next
    <3>4. QED
      BY <1>1, <3>1, <3>2, <3>3
  <2>2. QED
    BY <1>1, <1>2, <1>4, <2>1, ValuesKeep DEF EncoderInv
<1>5. QED
  BY <1>3, <1>4

----------------------------------------------------------------------------
(* What is read out of the BMS. *)

\* What a frame is made of.
ValueNames ==
  {HeadNames[i] : i \in 1 .. 9} \cup {TailNames[i] : i \in 1 .. 4} \cup
  {"version", "soc", "fet", "cells", "ntcs", "humidity"} \cup ({"ntc", "cell"} \X Int)
FrameBytes == [of : ValueNames, half : {"high", "low", "whole"}, n : Int]

LEMMA ListOf ==
  ASSUME NEW S, NEW m \in Nat, NEW list \in [1 .. m -> S]
  PROVE  list \in Seq(S) /\ Len(list) = m
OBVIOUS

LEMMA PackHas ==
  ASSUME NEW pk \in Packs
  PROVE  pk.cells \in 0 .. 16 /\ pk.ntcs \in 0 .. 16 /\ pk.long \in BOOLEAN
<1>1. pk.cells \in PackCells /\ pk.ntcs \in PackNtcs /\ pk.long \in BOOLEAN
  BY DEF Packs
<1>2. QED
  BY <1>1, JdbStoreAssumption

LEMMA BytesJoined ==
  ASSUME NEW s \in Seq(FrameBytes), NEW t \in Seq(FrameBytes)
  PROVE  /\ s \o t \in Seq(FrameBytes) /\ Len(s \o t) = Len(s) + Len(t)
         /\ \A i \in 1 .. Len(s) : (s \o t)[i] = s[i]
         /\ \A i \in Len(s) + 1 .. Len(s) + Len(t) : (s \o t)[i] = t[i - Len(s)]
BY JoinedBytes

LEMMA EachAsBytes ==
  ASSUME NEW names \in Seq(ValueNames)
  PROVE  /\ Each(names) \in Seq(FrameBytes) /\ Len(Each(names)) = 2 * Len(names)
         /\ \A i \in 1 .. Len(names) :
              /\ Each(names)[2 * i - 1] = [of |-> names[i], half |-> "high", n |-> 0]
              /\ Each(names)[2 * i] = [of |-> names[i], half |-> "low", n |-> 0]
<1>1. Len(names) \in Nat
  OBVIOUS
<1>2. \A i \in 1 .. Len(names) : names[i] \in ValueNames
  OBVIOUS
<1> DEFINE count == Len(names)
           place(i) == (i + 1) \div 2
<1>3. \A i \in 1 .. 2 * count : place(i) \in 1 .. count /\ 2 - (i % 2) \in {1, 2}
  BY <1>1
<1>4. \A i \in 1 .. count : /\ 2 * i - 1 \in 1 .. 2 * count /\ 2 * i \in 1 .. 2 * count
                            /\ place(2 * i - 1) = i /\ 2 - ((2 * i - 1) % 2) = 1
                            /\ place(2 * i) = i /\ 2 - ((2 * i) % 2) = 2
  BY <1>1
<1>5. Each(names) = [i \in 1 .. 2 * count |-> TwoBytes(names[place(i)])[2 - (i % 2)]]
  BY DEF Each
<1> HIDE DEF count, place
<1>6. \A of \in ValueNames :
        /\ TwoBytes(of)[1] = [of |-> of, half |-> "high", n |-> 0]
        /\ TwoBytes(of)[2] = [of |-> of, half |-> "low", n |-> 0]
        /\ TwoBytes(of)[1] \in FrameBytes /\ TwoBytes(of)[2] \in FrameBytes
  BY DEF TwoBytes, FrameBytes
<1>7. ASSUME NEW i \in 1 .. 2 * count
      PROVE  TwoBytes(names[place(i)])[2 - (i % 2)] \in FrameBytes
  <2>1. names[place(i)] \in ValueNames
    BY <1>2, <1>3, Zenon DEF count
  <2>2. 2 - (i % 2) = 1 \/ 2 - (i % 2) = 2
    BY <1>3
  <2>3. QED
    BY <1>6, <2>1, <2>2, Zenon
<1>8. Each(names) \in [1 .. 2 * count -> FrameBytes] /\ 2 * count \in Nat
  <2>1. 2 * count \in Nat
    BY <1>1 DEF count
  <2>2. QED
    BY <1>5, <1>7, <2>1, Zenon
<1>9. Each(names) \in Seq(FrameBytes) /\ Len(Each(names)) = 2 * count
  <2> DEFINE m == 2 * count
  <2>1. m \in Nat /\ Each(names) \in [1 .. m -> FrameBytes]
    BY <1>8
  <2> HIDE DEF m
  <2>2. Each(names) \in Seq(FrameBytes) /\ Len(Each(names)) = m
    BY <2>1
  <2>3. QED
    BY <2>2 DEF m
<1>10. ASSUME NEW i \in 1 .. count
       PROVE  /\ Each(names)[2 * i - 1] = [of |-> names[i], half |-> "high", n |-> 0]
              /\ Each(names)[2 * i] = [of |-> names[i], half |-> "low", n |-> 0]
  <2>1. names[i] \in ValueNames
    BY <1>2 DEF count
  <2>2. Each(names)[2 * i - 1] = TwoBytes(names[place(2 * i - 1)])[2 - ((2 * i - 1) % 2)]
    BY <1>4, <1>5, Zenon
  <2>3. Each(names)[2 * i] = TwoBytes(names[place(2 * i)])[2 - ((2 * i) % 2)]
    BY <1>4, <1>5, Zenon
  <2>4. QED
    BY <1>4, <1>6, <2>1, <2>2, <2>3, Zenon
<1>11. QED
  BY <1>9, <1>10, Zenon DEF count

LEMMA NumberedNames ==
  ASSUME NEW of \in {"ntc", "cell"}, NEW n \in Nat
  PROVE  /\ Numbered(of, n) \in Seq(ValueNames) /\ Len(Numbered(of, n)) = n
         /\ \A i \in 1 .. n : Numbered(of, n)[i] = <<of, i - 1>>
<1>1. \A i \in 1 .. n : <<of, i - 1>> \in ValueNames
  <2>1. \A i \in 1 .. n : <<of, i - 1>> \in {"ntc", "cell"} \X Int
    OBVIOUS
  <2>2. QED
    BY <2>1, Zenon DEF ValueNames
<1>2. Numbered(of, n) \in [1 .. n -> ValueNames]
  BY <1>1 DEF Numbered
<1>3. Numbered(of, n) \in Seq(ValueNames) /\ Len(Numbered(of, n)) = n
  BY <1>2
<1>4. QED
  BY <1>3 DEF Numbered

LEMMA FixedNames ==
  /\ HeadNames \in Seq(ValueNames) /\ Len(HeadNames) = 9
  /\ TailNames \in Seq(ValueNames) /\ Len(TailNames) = 4
<1>1. HeadNames \in [1 .. 9 -> ValueNames]
  BY DEF HeadNames, ValueNames
<1>2. TailNames \in [1 .. 4 -> ValueNames]
  BY DEF TailNames, ValueNames
<1>3. 9 \in Nat /\ 4 \in Nat
  OBVIOUS
<1>4. HeadNames \in Seq(ValueNames) /\ Len(HeadNames) = 9
  BY <1>1, <1>3, ListOf, Zenon
<1>5. TailNames \in Seq(ValueNames) /\ Len(TailNames) = 4
  BY <1>2, <1>3, ListOf, Zenon
<1>6. QED
  BY <1>4, <1>5

----------------------------------------------------------------------------

\* The two bytes of a value from a place on.
At(bytes, place, of) ==
  /\ bytes[place + 1] = [of |-> of, half |-> "high", n |-> 0]
  /\ bytes[place + 2] = [of |-> of, half |-> "low", n |-> 0]

FrontBytes(pk) ==
  Each(HeadNames) \o OneByte("version", 0) \o OneByte("soc", 0) \o OneByte("fet", 0)
    \o OneByte("cells", pk.cells) \o OneByte("ntcs", pk.ntcs)
RestBytes(pk) == IF pk.long THEN OneByte("humidity", 0) \o Each(TailNames) ELSE <<>>

LEMMA OneMoreByte ==
  ASSUME NEW bytes \in Seq(FrameBytes), NEW of \in ValueNames, NEW n \in Int
  PROVE  /\ bytes \o OneByte(of, n) \in Seq(FrameBytes)
         /\ Len(bytes \o OneByte(of, n)) = Len(bytes) + 1
         /\ \A i \in 1 .. Len(bytes) : (bytes \o OneByte(of, n))[i] = bytes[i]
         /\ (bytes \o OneByte(of, n))[Len(bytes) + 1].n = n
<1>1. [of |-> of, half |-> "whole", n |-> n] \in FrameBytes
  BY DEF FrameBytes
<1>2. OneByte(of, n) \in Seq(FrameBytes) /\ Len(OneByte(of, n)) = 1 /\ OneByte(of, n)[1].n = n
  BY <1>1 DEF OneByte
<1> DEFINE one  == OneByte(of, n)
           more == bytes \o one
<1>3. /\ more \in Seq(FrameBytes) /\ Len(more) = Len(bytes) + Len(one)
      /\ \A i \in 1 .. Len(bytes) : more[i] = bytes[i]
      /\ \A i \in Len(bytes) + 1 .. Len(bytes) + Len(one) : more[i] = one[i - Len(bytes)]
  BY <1>2, BytesJoined, Zenon
<1>4. Len(bytes) \in Nat
  OBVIOUS
<1> DEFINE m == Len(bytes)
<1>5. m + 1 \in m + 1 .. m + 1 /\ (m + 1) - m = 1
  BY <1>4
<1> HIDE DEF one, more, m
<1>6. more[m + 1] = one[1]
  BY <1>2, <1>3, <1>5, Zenon DEF m, one
<1>7. more \in Seq(FrameBytes) /\ Len(more) = Len(bytes) + 1 /\ more[Len(bytes) + 1].n = n
  BY <1>2, <1>3, <1>6, Zenon DEF m, one
<1>8. QED
  BY <1>3, <1>7, Zenon DEF more, one

LEMMA HeadAsBytes ==
  /\ Each(HeadNames) \in Seq(FrameBytes) /\ Len(Each(HeadNames)) = 18
  /\ \A i \in 1 .. 9 : At(Each(HeadNames), 2 * (i - 1), HeadNames[i])
<1> DEFINE bytes == Each(HeadNames)
<1>1. /\ bytes \in Seq(FrameBytes) /\ Len(bytes) = 2 * Len(HeadNames)
      /\ \A i \in 1 .. Len(HeadNames) :
           /\ bytes[2 * i - 1] = [of |-> HeadNames[i], half |-> "high", n |-> 0]
           /\ bytes[2 * i] = [of |-> HeadNames[i], half |-> "low", n |-> 0]
  BY FixedNames, EachAsBytes, Zenon
<1> HIDE DEF bytes
<1>2. Len(HeadNames) = 9 /\ 2 * 9 = 18
  BY FixedNames
<1>3. \A i \in 1 .. 9 : /\ bytes[2 * i - 1] = [of |-> HeadNames[i], half |-> "high", n |-> 0]
                        /\ bytes[2 * i] = [of |-> HeadNames[i], half |-> "low", n |-> 0]
  BY <1>1, <1>2, Zenon
<1>4. \A i \in 1 .. 9 : 2 * (i - 1) + 1 = 2 * i - 1 /\ 2 * (i - 1) + 2 = 2 * i
  OBVIOUS
<1>5. \A i \in 1 .. 9 : At(bytes, 2 * (i - 1), HeadNames[i])
  BY <1>3, <1>4, Zenon DEF At
<1>6. QED
  BY <1>1, <1>2, <1>5, Zenon DEF bytes

LEMMA FrontAsBytes ==
  ASSUME NEW pk \in Packs
  PROVE  /\ FrontBytes(pk) \in Seq(FrameBytes) /\ Len(FrontBytes(pk)) = 23
         /\ \A i \in 1 .. 18 : FrontBytes(pk)[i] = Each(HeadNames)[i]
         /\ FrontBytes(pk)[20].n = 0 /\ FrontBytes(pk)[21].n = 0
         /\ FrontBytes(pk)[22].n = pk.cells /\ FrontBytes(pk)[23].n = pk.ntcs
<1> DEFINE cells == pk.cells
           ntcs  == pk.ntcs
<1>1. cells \in Int
  BY PackHas
<1>30. ntcs \in Int
  BY PackHas
<1> DEFINE s0 == Each(HeadNames)
           s1 == s0 \o OneByte("version", 0)
           s2 == s1 \o OneByte("soc", 0)
           s3 == s2 \o OneByte("fet", 0)
           s4 == s3 \o OneByte("cells", cells)
           s5 == s4 \o OneByte("ntcs", ntcs)
<1> HIDE DEF cells, ntcs
<1>2. 0 \in Int
  OBVIOUS
<1>3. s0 \in Seq(FrameBytes)
  BY HeadAsBytes
<1>4. Len(s0) = 18
  BY HeadAsBytes
<1> HIDE DEF s0
<1>5. "version" \in ValueNames
  BY DEF ValueNames
<1>6. /\ s1 \in Seq(FrameBytes) /\ Len(s1) = Len(s0) + 1
      /\ \A i \in 1 .. Len(s0) : s1[i] = s0[i]
      /\ s1[Len(s0) + 1].n = 0
  BY <1>2, <1>3, <1>5, OneMoreByte, Zenon
<1> HIDE DEF s1
<1>7. s1 \in Seq(FrameBytes)
  BY <1>6
<1>8. Len(s1) = 19 /\ (\A i \in 1 .. 18 : s1[i] = s0[i]) /\ s1[19].n = 0
  <2>1. Len(s1) = Len(s0) + 1 /\ s1[Len(s0) + 1].n = 0
    BY <1>6, Zenon
  <2>2. \A i \in 1 .. Len(s0) : s1[i] = s0[i]
    BY <1>6, Zenon
  <2>3. Len(s0) = 18
    BY <1>4
  <2>4. QED
    BY <2>1, <2>2, <2>3
<1>9. "soc" \in ValueNames
  BY DEF ValueNames
<1>10. /\ s2 \in Seq(FrameBytes) /\ Len(s2) = Len(s1) + 1
       /\ \A i \in 1 .. Len(s1) : s2[i] = s1[i]
       /\ s2[Len(s1) + 1].n = 0
  BY <1>2, <1>7, <1>9, OneMoreByte, Zenon
<1> HIDE DEF s2
<1>11. s2 \in Seq(FrameBytes)
  BY <1>10
<1>12. Len(s2) = 20 /\ (\A i \in 1 .. 19 : s2[i] = s1[i]) /\ s2[20].n = 0
  <2>1. Len(s2) = Len(s1) + 1 /\ s2[Len(s1) + 1].n = 0
    BY <1>10, Zenon
  <2>2. \A i \in 1 .. Len(s1) : s2[i] = s1[i]
    BY <1>10, Zenon
  <2>3. Len(s1) = 19
    BY <1>8
  <2>4. QED
    BY <2>1, <2>2, <2>3
<1>13. "fet" \in ValueNames
  BY DEF ValueNames
<1>14. /\ s3 \in Seq(FrameBytes) /\ Len(s3) = Len(s2) + 1
       /\ \A i \in 1 .. Len(s2) : s3[i] = s2[i]
       /\ s3[Len(s2) + 1].n = 0
  BY <1>2, <1>11, <1>13, OneMoreByte, Zenon
<1> HIDE DEF s3
<1>15. s3 \in Seq(FrameBytes)
  BY <1>14
<1>16. Len(s3) = 21 /\ (\A i \in 1 .. 20 : s3[i] = s2[i]) /\ s3[21].n = 0
  <2>1. Len(s3) = Len(s2) + 1 /\ s3[Len(s2) + 1].n = 0
    BY <1>14, Zenon
  <2>2. \A i \in 1 .. Len(s2) : s3[i] = s2[i]
    BY <1>14, Zenon
  <2>3. Len(s2) = 20
    BY <1>12
  <2>4. QED
    BY <2>1, <2>2, <2>3
<1>17. "cells" \in ValueNames
  BY DEF ValueNames
<1>18. /\ s4 \in Seq(FrameBytes) /\ Len(s4) = Len(s3) + 1
       /\ \A i \in 1 .. Len(s3) : s4[i] = s3[i]
       /\ s4[Len(s3) + 1].n = cells
  BY <1>1, <1>15, <1>17, OneMoreByte, Zenon
<1> HIDE DEF s4
<1>19. s4 \in Seq(FrameBytes)
  BY <1>18
<1>20. Len(s4) = 22 /\ (\A i \in 1 .. 21 : s4[i] = s3[i]) /\ s4[22].n = cells
  <2>1. Len(s4) = Len(s3) + 1 /\ s4[Len(s3) + 1].n = cells
    BY <1>18, Zenon
  <2>2. \A i \in 1 .. Len(s3) : s4[i] = s3[i]
    BY <1>18, Zenon
  <2>3. Len(s3) = 21
    BY <1>16
  <2>4. QED
    BY <2>1, <2>2, <2>3
<1>21. "ntcs" \in ValueNames
  BY DEF ValueNames
<1>22. /\ s5 \in Seq(FrameBytes) /\ Len(s5) = Len(s4) + 1
       /\ \A i \in 1 .. Len(s4) : s5[i] = s4[i]
       /\ s5[Len(s4) + 1].n = ntcs
  BY <1>30, <1>19, <1>21, OneMoreByte, Zenon
<1> HIDE DEF s5
<1>23. s5 \in Seq(FrameBytes)
  BY <1>22
<1>24. Len(s5) = 23 /\ (\A i \in 1 .. 22 : s5[i] = s4[i]) /\ s5[23].n = ntcs
  <2>1. Len(s5) = Len(s4) + 1 /\ s5[Len(s4) + 1].n = ntcs
    BY <1>22, Zenon
  <2>2. \A i \in 1 .. Len(s4) : s5[i] = s4[i]
    BY <1>22, Zenon
  <2>3. Len(s4) = 22
    BY <1>20
  <2>4. QED
    BY <2>1, <2>2, <2>3
<1>25. FrontBytes(pk) = s5
  BY DEF FrontBytes, s0, s1, s2, s3, s4, s5, cells, ntcs
<1>26. \A i \in 1 .. 18 : s5[i] = s0[i]
  BY <1>8, <1>12, <1>16, <1>20, <1>24
<1>27. s5[20].n = 0 /\ s5[21].n = 0 /\ s5[22].n = cells /\ s5[23].n = ntcs
  BY <1>8, <1>12, <1>16, <1>20, <1>24
<1>28. QED
  BY <1>23, <1>24, <1>25, <1>26, <1>27, Zenon DEF s0, cells, ntcs

FrameLength03(pk) == 23 + 2 * pk.ntcs + (IF pk.long THEN 9 ELSE 0)

\* Where the values of a frame are.
LEMMA FrameAsBytes ==
  ASSUME NEW pk \in Packs
  PROVE  LET bytes == UpdateReg03(pk)
         IN  /\ bytes \in Seq(FrameBytes) /\ Len(bytes) = FrameLength03(pk)
             /\ \A i \in 1 .. 9 : At(bytes, 2 * (i - 1), HeadNames[i])
             /\ bytes[20].n = 0 /\ bytes[21].n = 0
             /\ bytes[22].n = pk.cells /\ bytes[23].n = pk.ntcs
             /\ \A i \in 1 .. pk.ntcs : At(bytes, 21 + 2 * i, <<"ntc", i - 1>>)
             /\ pk.long => \A i \in 1 .. 4 : At(bytes, 22 + 2 * pk.ntcs + 2 * i, TailNames[i])
<1> DEFINE front == FrontBytes(pk)
           ntcs  == Each(Numbered("ntc", pk.ntcs))
           both  == front \o ntcs
           rest  == RestBytes(pk)
           bytes == both \o rest
           n     == pk.ntcs
<1>1. n \in Nat /\ pk.long \in BOOLEAN
  BY PackHas
<1>2. /\ front \in Seq(FrameBytes) /\ Len(front) = 23
  BY FrontAsBytes, Zenon
<1>20. \A i \in 1 .. 18 : front[i] = Each(HeadNames)[i]
  BY FrontAsBytes, Zenon
<1>21. front[20].n = 0 /\ front[21].n = 0 /\ front[22].n = pk.cells /\ front[23].n = pk.ntcs
  BY FrontAsBytes, Zenon
<1>3. /\ ntcs \in Seq(FrameBytes) /\ Len(ntcs) = 2 * n
      /\ \A i \in 1 .. n : /\ ntcs[2 * i - 1] = [of |-> <<"ntc", i - 1>>, half |-> "high", n |-> 0]
                           /\ ntcs[2 * i] = [of |-> <<"ntc", i - 1>>, half |-> "low", n |-> 0]
  <2> DEFINE names == Numbered("ntc", n)
  <2>1. names \in Seq(ValueNames) /\ Len(names) = n /\ \A i \in 1 .. n : names[i] = <<"ntc", i - 1>>
    BY <1>1, NumberedNames
  <2> HIDE DEF names
  <2>2. /\ Each(names) \in Seq(FrameBytes) /\ Len(Each(names)) = 2 * n
        /\ \A i \in 1 .. n : /\ Each(names)[2 * i - 1] = [of |-> names[i], half |-> "high", n |-> 0]
                             /\ Each(names)[2 * i] = [of |-> names[i], half |-> "low", n |-> 0]
    BY <2>1, EachAsBytes
  <2>3. QED
    BY <2>1, <2>2 DEF names
<1> HIDE DEF front, ntcs
<1>4. /\ both \in Seq(FrameBytes) /\ Len(both) = 23 + 2 * n
      /\ \A i \in 1 .. 23 : both[i] = front[i]
      /\ \A i \in 23 + 1 .. 23 + 2 * n : both[i] = ntcs[i - 23]
  <2>1. /\ both \in Seq(FrameBytes) /\ Len(both) = Len(front) + Len(ntcs)
        /\ \A i \in 1 .. Len(front) : both[i] = front[i]
        /\ \A i \in Len(front) + 1 .. Len(front) + Len(ntcs) : both[i] = ntcs[i - Len(front)]
    BY <1>2, <1>3, BytesJoined, Zenon
  <2> HIDE DEF both
  <2>2. QED
    BY <1>2, <1>3, <2>1, Zenon
<1>5. /\ rest \in Seq(FrameBytes) /\ Len(rest) = (IF pk.long THEN 9 ELSE 0)
      /\ pk.long => \A i \in 1 .. 4 :
           /\ rest[2 * i] = [of |-> TailNames[i], half |-> "high", n |-> 0]
           /\ rest[2 * i + 1] = [of |-> TailNames[i], half |-> "low", n |-> 0]
  <2>1. CASE ~pk.long
    BY <2>1 DEF RestBytes
  <2>2. CASE pk.long
    <3> DEFINE one  == OneByte("humidity", 0)
               tail == Each(TailNames)
    <3>1. /\ tail \in Seq(FrameBytes) /\ Len(tail) = 8
          /\ \A i \in 1 .. 4 : /\ tail[2 * i - 1] = [of |-> TailNames[i], half |-> "high", n |-> 0]
                               /\ tail[2 * i] = [of |-> TailNames[i], half |-> "low", n |-> 0]
      <4>1. /\ tail \in Seq(FrameBytes) /\ Len(tail) = 2 * Len(TailNames)
            /\ \A i \in 1 .. Len(TailNames) :
                 /\ tail[2 * i - 1] = [of |-> TailNames[i], half |-> "high", n |-> 0]
                 /\ tail[2 * i] = [of |-> TailNames[i], half |-> "low", n |-> 0]
        BY FixedNames, EachAsBytes, Zenon
      <4>2. Len(TailNames) = 4 /\ 2 * 4 = 8
        BY FixedNames
      <4> HIDE DEF tail
      <4>3. QED
        BY <4>1, <4>2, Zenon
    <3>2. one \in Seq(FrameBytes) /\ Len(one) = 1
      <4>1. [of |-> "humidity", half |-> "whole", n |-> 0] \in FrameBytes
        BY DEF FrameBytes, ValueNames
      <4>2. QED
        BY <4>1 DEF OneByte
    <3>3. rest = one \o tail
      BY <2>2 DEF RestBytes
    <3> HIDE DEF one, tail
    <3>4. /\ rest \in Seq(FrameBytes) /\ Len(rest) = 9
          /\ \A i \in 2 .. 9 : rest[i] = tail[i - 1]
      <4>1. /\ one \o tail \in Seq(FrameBytes) /\ Len(one \o tail) = 1 + 8
            /\ \A i \in 1 + 1 .. 1 + 8 : (one \o tail)[i] = tail[i - 1]
        <5> DEFINE joined == one \o tail
        <5>1. /\ joined \in Seq(FrameBytes) /\ Len(joined) = Len(one) + Len(tail)
              /\ \A i \in Len(one) + 1 .. Len(one) + Len(tail) : joined[i] = tail[i - Len(one)]
          BY <3>1, <3>2, BytesJoined, Zenon
        <5> HIDE DEF joined
        <5>2. QED
          BY <3>1, <3>2, <5>1, Zenon DEF joined
      <4>2. 1 + 1 = 2 /\ 1 + 8 = 9
        OBVIOUS
      <4>3. QED
        BY <3>3, <4>1, <4>2, Zenon
    <3> HIDE DEF rest
    <3>5. ASSUME NEW i \in 1 .. 4
          PROVE  /\ rest[2 * i] = [of |-> TailNames[i], half |-> "high", n |-> 0]
                 /\ rest[2 * i + 1] = [of |-> TailNames[i], half |-> "low", n |-> 0]
      <4>1. /\ 2 * i \in 2 .. 9 /\ 2 * i + 1 \in 2 .. 9 /\ (2 * i + 1) - 1 = 2 * i
        OBVIOUS
      <4>2. rest[2 * i] = tail[2 * i - 1] /\ rest[2 * i + 1] = tail[2 * i]
        BY <3>4, <4>1
      <4>3. QED
        BY <3>1, <4>2, Zenon
    <3>6. QED
      BY <2>2, <3>4, <3>5, Zenon
  <2>3. QED
    BY <2>1, <2>2
<1> HIDE DEF both, rest
<1>6. /\ bytes \in Seq(FrameBytes) /\ Len(bytes) = 23 + 2 * n + Len(rest)
      /\ \A i \in 1 .. 23 + 2 * n : bytes[i] = both[i]
      /\ \A i \in 23 + 2 * n + 1 .. 23 + 2 * n + Len(rest) : bytes[i] = rest[i - (23 + 2 * n)]
  <2>1. /\ bytes \in Seq(FrameBytes) /\ Len(bytes) = Len(both) + Len(rest)
        /\ \A i \in 1 .. Len(both) : bytes[i] = both[i]
        /\ \A i \in Len(both) + 1 .. Len(both) + Len(rest) : bytes[i] = rest[i - Len(both)]
    BY <1>4, <1>5, BytesJoined, Zenon
  <2> HIDE DEF bytes
  <2>2. QED
    BY <1>4, <2>1, Zenon
<1>7. UpdateReg03(pk) = bytes
  BY DEF UpdateReg03, front, ntcs, both, rest, FrontBytes, RestBytes
<1> HIDE DEF bytes
<1>8. Len(bytes) = FrameLength03(pk)
  BY <1>1, <1>5, <1>6 DEF FrameLength03
<1>9. \A i \in 1 .. 23 : bytes[i] = front[i]
  <2>1. \A i \in 1 .. 23 : i \in 1 .. 23 + 2 * n
    BY <1>1
  <2>2. QED
    BY <1>4, <1>6, <2>1, Zenon
<1>10. ASSUME NEW i \in 1 .. 9 PROVE At(bytes, 2 * (i - 1), HeadNames[i])
  <2>1. /\ 2 * (i - 1) + 1 \in 1 .. 23 /\ 2 * (i - 1) + 2 \in 1 .. 23
        /\ 2 * (i - 1) + 1 \in 1 .. 18 /\ 2 * (i - 1) + 2 \in 1 .. 18
    OBVIOUS
  <2>2. /\ bytes[2 * (i - 1) + 1] = Each(HeadNames)[2 * (i - 1) + 1]
        /\ bytes[2 * (i - 1) + 2] = Each(HeadNames)[2 * (i - 1) + 2]
    BY <1>9, <1>20, <2>1, Zenon
  <2>3. QED
    BY <2>2, HeadAsBytes, Zenon DEF At
<1>11. bytes[20].n = 0 /\ bytes[21].n = 0 /\ bytes[22].n = pk.cells /\ bytes[23].n = pk.ntcs
  <2>1. 20 \in 1 .. 23 /\ 21 \in 1 .. 23 /\ 22 \in 1 .. 23 /\ 23 \in 1 .. 23
    OBVIOUS
  <2>2. QED
    BY <1>9, <1>21, <2>1, Zenon
<1>12. ASSUME NEW i \in 1 .. n PROVE At(bytes, 21 + 2 * i, <<"ntc", i - 1>>)
  <2>1. /\ 21 + 2 * i + 1 \in 23 + 1 .. 23 + 2 * n /\ 21 + 2 * i + 2 \in 23 + 1 .. 23 + 2 * n
        /\ 21 + 2 * i + 1 \in 1 .. 23 + 2 * n /\ 21 + 2 * i + 2 \in 1 .. 23 + 2 * n
        /\ (21 + 2 * i + 1) - 23 = 2 * i - 1 /\ (21 + 2 * i + 2) - 23 = 2 * i
    BY <1>1
  <2>2. /\ both[21 + 2 * i + 1] = ntcs[(21 + 2 * i + 1) - 23]
        /\ both[21 + 2 * i + 2] = ntcs[(21 + 2 * i + 2) - 23]
    BY <1>4, <2>1, Zenon
  <2>3. bytes[21 + 2 * i + 1] = ntcs[2 * i - 1] /\ bytes[21 + 2 * i + 2] = ntcs[2 * i]
    BY <1>6, <2>1, <2>2, Zenon
  <2>4. QED
    BY <1>3, <2>3, Zenon DEF At
<1>13. ASSUME pk.long, NEW i \in 1 .. 4 PROVE At(bytes, 22 + 2 * n + 2 * i, TailNames[i])
  <2>0. Len(rest) = 9
    BY <1>5, <1>13
  <2>1. /\ 22 + 2 * n + 2 * i + 1 \in 23 + 2 * n + 1 .. 23 + 2 * n + 9
        /\ 22 + 2 * n + 2 * i + 2 \in 23 + 2 * n + 1 .. 23 + 2 * n + 9
        /\ (22 + 2 * n + 2 * i + 1) - (23 + 2 * n) = 2 * i
        /\ (22 + 2 * n + 2 * i + 2) - (23 + 2 * n) = 2 * i + 1
    BY <1>1
  <2>2. /\ bytes[22 + 2 * n + 2 * i + 1] = rest[2 * i]
        /\ bytes[22 + 2 * n + 2 * i + 2] = rest[2 * i + 1]
    BY <1>6, <2>0, <2>1, Zenon
  <2>3. QED
    BY <1>5, <1>13, <2>2, Zenon DEF At
<1>14. QED
  BY <1>6, <1>7, <1>8, <1>10, <1>11, <1>12, <1>13, Zenon

----------------------------------------------------------------------------

\* A pack's frame in register 0x03 before the bytes are turned round, where they are,
\* and afterwards.
Raw03(pk, length) == [i \in 1 .. 64 |-> IF i <= length THEN UpdateReg03(pk)[i] ELSE Blank]
Starts03(pk) == SwapStarts(pk.ntcs, FrameLength03(pk))
Turned03(pk) == SwapBytes(Raw03(pk, FrameLength03(pk)), Starts03(pk))
Get03(pk, offset) == GetUInt16(offset, Turned03(pk), FrameLength03(pk))

LEMMA FrameFits ==
  ASSUME NEW pk \in Packs
  PROVE  /\ FrameLength03(pk) \in 23 .. 64 /\ pk.ntcs \in 0 .. 16 /\ pk.cells \in 0 .. 16
         /\ pk.long \in BOOLEAN /\ FrameLength03(pk) >= 23 + 2 * pk.ntcs
         /\ ~pk.long => FrameLength03(pk) = 23 + 2 * pk.ntcs
         /\ pk.long => FrameLength03(pk) = 32 + 2 * pk.ntcs
BY PackHas DEF FrameLength03

LEMMA RawHasFrame ==
  ASSUME NEW pk \in Packs, NEW i \in 1 .. FrameLength03(pk)
  PROVE  i \in DOMAIN Raw03(pk, FrameLength03(pk))
         /\ Raw03(pk, FrameLength03(pk))[i] = UpdateReg03(pk)[i]
<1> DEFINE length == FrameLength03(pk)
<1>1. length \in 23 .. 64
  BY FrameFits
<1> HIDE DEF length
<1>2. i \in 1 .. 64 /\ i <= length
  BY <1>1 DEF length
<1>3. QED
  BY <1>2, Zenon DEF Raw03, length

LEMMA StartsOfPack ==
  ASSUME NEW pk \in Packs
  PROVE  /\ \A i \in 0 .. 8 : 2 * i \in Starts03(pk) /\ 2 * i + 1 \notin Starts03(pk)
         /\ \A i \in 18 .. 22 : i \notin Starts03(pk) /\ i - 1 \notin Starts03(pk)
         /\ \A i \in 1 .. pk.ntcs : 21 + 2 * i \in Starts03(pk) /\ 22 + 2 * i \notin Starts03(pk)
         /\ pk.long => \A i \in 1 .. 4 : /\ 22 + 2 * pk.ntcs + 2 * i \in Starts03(pk)
                                        /\ 23 + 2 * pk.ntcs + 2 * i \notin Starts03(pk)
<1> DEFINE n      == pk.ntcs
           length == FrameLength03(pk)
<1>1. /\ n \in 0 .. 16 /\ length \in 23 .. 64 /\ pk.long \in BOOLEAN /\ length >= 23 + 2 * n
      /\ pk.long => length = 32 + 2 * n
  BY FrameFits
<1>2. \A i : i \in Starts03(pk) <=>
        /\ i \in 0 .. length - 1
        /\ \/ i < 18 /\ i % 2 = 0
           \/ i \in 23 + 2 * 0 .. (23 + 2 * n) - 1 /\ i % 2 = 1
           \/ i >= 24 + 2 * n /\ i % 2 = 0
  BY DEF Starts03, SwapStarts, REG_NTC_READINGS_U16, REG_ALARM_STATUS_U16
<1> HIDE DEF n, length
<1>3. ASSUME NEW i \in 0 .. 8 PROVE 2 * i \in Starts03(pk) /\ 2 * i + 1 \notin Starts03(pk)
  BY <1>1, <1>2
<1>4. ASSUME NEW i \in 18 .. 22 PROVE i \notin Starts03(pk) /\ i - 1 \notin Starts03(pk)
  BY <1>1, <1>2
<1>5. ASSUME NEW i \in 1 .. n PROVE 21 + 2 * i \in Starts03(pk) /\ 22 + 2 * i \notin Starts03(pk)
  BY <1>1, <1>2
<1>6. ASSUME pk.long, NEW i \in 1 .. 4
      PROVE  22 + 2 * n + 2 * i \in Starts03(pk) /\ 23 + 2 * n + 2 * i \notin Starts03(pk)
  BY <1>1, <1>2, <1>6
<1>7. QED
  BY <1>3, <1>4, <1>5, <1>6 DEF n

\* A value whose bytes are turned round is read as the frame has it.
LEMMA TurnedValue ==
  ASSUME NEW pk \in Packs, NEW k \in Nat, NEW of, k + 1 < FrameLength03(pk),
         k \in Starts03(pk), k + 1 \notin Starts03(pk), At(UpdateReg03(pk), k, of)
  PROVE  Get03(pk, k) = TwoBytes(of)
<1> DEFINE sent    == Raw03(pk, FrameLength03(pk))
           length == FrameLength03(pk)
<1>1. length \in 23 .. 64
  BY FrameFits
<1>2. k + 1 \in 1 .. length /\ k + 2 \in 1 .. length
  BY <1>1
<1>3. /\ k + 1 \in DOMAIN sent /\ sent[k + 1] = UpdateReg03(pk)[k + 1]
      /\ k + 2 \in DOMAIN sent /\ sent[k + 2] = UpdateReg03(pk)[k + 2]
  BY <1>2, RawHasFrame, Zenon
<1>4. /\ (k + 1) - 1 = k /\ (k + 2) - 1 = k + 1 /\ (k + 2) - 2 = k /\ (k + 1) + 1 = k + 2
  OBVIOUS
<1> HIDE DEF sent
<1>5. Turned03(pk) = [i \in DOMAIN sent |->
        IF i - 1 \in Starts03(pk) THEN sent[i + 1]
        ELSE IF i - 2 \in Starts03(pk) THEN sent[i - 1] ELSE sent[i]]
  BY Zenon DEF Turned03, SwapBytes, sent
<1>6. Turned03(pk)[k + 1] = sent[k + 2]
  BY <1>3, <1>4, <1>5, Zenon
<1>7. Turned03(pk)[k + 2] = sent[k + 1]
  <2>1. (k + 2) - 1 = k + 1
    OBVIOUS
  <2>2. (k + 2) - 1 \notin Starts03(pk) /\ (k + 2) - 2 \in Starts03(pk)
    BY <1>4, Zenon
  <2>3. QED
    BY <1>3, <1>5, <2>1, <2>2, Zenon
<1>8. k % 2^8 = k
  BY <1>1
<1>9. ~(k + 1 >= length)
  BY <1>1
<1>10. Get03(pk, k) = <<Turned03(pk)[k + 2], Turned03(pk)[k + 1]>>
  BY <1>8, <1>9, Zenon DEF Get03, GetUInt16, length
<1>11. QED
  BY <1>3, <1>6, <1>7, <1>10, Zenon DEF At, TwoBytes

\* A byte that is not turned round is where it was.
LEMMA UnturnedByte ==
  ASSUME NEW pk \in Packs, NEW i \in 18 .. 22
  PROVE  Turned03(pk)[i + 1] = UpdateReg03(pk)[i + 1]
<1> DEFINE sent    == Raw03(pk, FrameLength03(pk))
           length == FrameLength03(pk)
<1>1. length \in 23 .. 64
  BY FrameFits
<1>2. i + 1 \in 1 .. length /\ (i + 1) - 1 = i /\ (i + 1) - 2 = i - 1
  BY <1>1
<1>3. i + 1 \in DOMAIN sent /\ sent[i + 1] = UpdateReg03(pk)[i + 1]
  BY <1>2, RawHasFrame, Zenon
<1>4. i \notin Starts03(pk) /\ i - 1 \notin Starts03(pk)
  BY StartsOfPack
<1> HIDE DEF sent
<1>5. Turned03(pk) = [j \in DOMAIN sent |->
        IF j - 1 \in Starts03(pk) THEN sent[j + 1]
        ELSE IF j - 2 \in Starts03(pk) THEN sent[j - 1] ELSE sent[j]]
  BY Zenon DEF Turned03, SwapBytes, sent
<1>6. QED
  BY <1>2, <1>3, <1>4, <1>5, Zenon

\* What is asked behind the end of the frame is not there.
LEMMA BehindTheEnd ==
  ASSUME NEW pk \in Packs, NEW k \in 0 .. 255, k + 1 >= FrameLength03(pk)
  PROVE  Get03(pk, k) = NotThere
<1>1. k % 2^8 = k
  OBVIOUS
<1>2. QED
  BY <1>1, Zenon DEF Get03, GetUInt16

\* The values of register 0x03, each read under its name.
LEMMA ValuesOfPack ==
  ASSUME NEW pk \in Packs
  PROVE  /\ \A i \in 1 .. 9 : Get03(pk, 2 * (i - 1)) = TwoBytes(HeadNames[i])
         /\ \A i \in 1 .. pk.ntcs : Get03(pk, 21 + 2 * i) = TwoBytes(<<"ntc", i - 1>>)
         /\ \A i \in 1 .. 4 : Get03(pk, 22 + 2 * pk.ntcs + 2 * i)
                                = IF pk.long THEN TwoBytes(TailNames[i]) ELSE NotThere
         /\ Turned03(pk)[20].n = 0 /\ Turned03(pk)[21].n = 0
         /\ Turned03(pk)[22].n = pk.cells /\ Turned03(pk)[23].n = pk.ntcs
<1> DEFINE n      == pk.ntcs
           length == FrameLength03(pk)
           bytes  == UpdateReg03(pk)
<1>1. /\ n \in 0 .. 16 /\ length \in 23 .. 64 /\ pk.long \in BOOLEAN /\ length >= 23 + 2 * n
      /\ pk.long => length = 32 + 2 * n
      /\ ~pk.long => length = 23 + 2 * n
  BY FrameFits
<1>2. /\ \A i \in 1 .. 9 : At(bytes, 2 * (i - 1), HeadNames[i])
      /\ bytes[20].n = 0 /\ bytes[21].n = 0 /\ bytes[22].n = pk.cells /\ bytes[23].n = n
      /\ \A i \in 1 .. n : At(bytes, 21 + 2 * i, <<"ntc", i - 1>>)
      /\ pk.long => \A i \in 1 .. 4 : At(bytes, 22 + 2 * n + 2 * i, TailNames[i])
  BY FrameAsBytes, Zenon
<1>3. /\ \A i \in 0 .. 8 : 2 * i \in Starts03(pk) /\ 2 * i + 1 \notin Starts03(pk)
      /\ \A i \in 1 .. n : 21 + 2 * i \in Starts03(pk) /\ 22 + 2 * i \notin Starts03(pk)
      /\ pk.long => \A i \in 1 .. 4 : /\ 22 + 2 * n + 2 * i \in Starts03(pk)
                                     /\ 23 + 2 * n + 2 * i \notin Starts03(pk)
  BY StartsOfPack, Zenon
<1> HIDE DEF n, length, bytes
<1>4. ASSUME NEW i \in 1 .. 9 PROVE Get03(pk, 2 * (i - 1)) = TwoBytes(HeadNames[i])
  <2> DEFINE k == 2 * (i - 1)
  <2>1. i - 1 \in 0 .. 8 /\ k \in Nat /\ k + 1 < length
    BY <1>1
  <2>2. k \in Starts03(pk) /\ k + 1 \notin Starts03(pk)
    BY <1>3, <2>1, Zenon
  <2>3. At(bytes, k, HeadNames[i])
    BY <1>2, Zenon
  <2> HIDE DEF k
  <2>4. Get03(pk, k) = TwoBytes(HeadNames[i])
    BY <2>1, <2>2, <2>3, TurnedValue, Zenon DEF bytes, length
  <2>5. QED
    BY <2>4 DEF k
<1>5. ASSUME NEW i \in 1 .. n PROVE Get03(pk, 21 + 2 * i) = TwoBytes(<<"ntc", i - 1>>)
  <2> DEFINE k == 21 + 2 * i
  <2>1. k \in Nat /\ k + 1 < length /\ k + 1 = 22 + 2 * i
    BY <1>1
  <2>2. k \in Starts03(pk) /\ k + 1 \notin Starts03(pk)
    BY <1>3, <2>1, Zenon
  <2>3. At(bytes, k, <<"ntc", i - 1>>)
    BY <1>2, Zenon
  <2> HIDE DEF k
  <2>4. Get03(pk, k) = TwoBytes(<<"ntc", i - 1>>)
    BY <2>1, <2>2, <2>3, TurnedValue, Zenon DEF bytes, length
  <2>5. QED
    BY <2>4 DEF k
<1>6. ASSUME NEW i \in 1 .. 4
      PROVE  Get03(pk, 22 + 2 * n + 2 * i) = IF pk.long THEN TwoBytes(TailNames[i]) ELSE NotThere
  <2> DEFINE k == 22 + 2 * n + 2 * i
  <2>1. CASE pk.long
    <3>1. k \in Nat /\ k + 1 < length /\ k + 1 = 23 + 2 * n + 2 * i
      BY <1>1, <2>1
    <3>2. k \in Starts03(pk) /\ k + 1 \notin Starts03(pk)
      BY <1>3, <2>1, <3>1, Zenon
    <3>3. At(bytes, k, TailNames[i])
      BY <1>2, <2>1, Zenon
    <3> HIDE DEF k
    <3>4. Get03(pk, k) = TwoBytes(TailNames[i])
      BY <3>1, <3>2, <3>3, TurnedValue, Zenon DEF bytes, length
    <3>5. QED
      BY <2>1, <3>4, Zenon DEF k
  <2>2. CASE ~pk.long
    <3>1. k \in 0 .. 255 /\ k + 1 >= length
      BY <1>1, <2>2
    <3> HIDE DEF k
    <3>2. Get03(pk, k) = NotThere
      BY <3>1, BehindTheEnd, Zenon DEF length
    <3>3. QED
      BY <2>2, <3>2, Zenon DEF k
  <2>3. QED
    BY <1>1, <2>1, <2>2
<1>7. /\ Turned03(pk)[20] = bytes[20] /\ Turned03(pk)[21] = bytes[21]
      /\ Turned03(pk)[22] = bytes[22] /\ Turned03(pk)[23] = bytes[23]
  <2>1. \A i \in 18 .. 22 : Turned03(pk)[i + 1] = bytes[i + 1]
    BY UnturnedByte DEF bytes
  <2>2. QED
    BY <2>1
<1>8. QED
  BY <1>2, <1>4, <1>5, <1>6, <1>7, Zenon DEF n

----------------------------------------------------------------------------

\* The registers have a whole frame of the pack or nothing.
StoreInv ==
  /\ pack \in Packs
  /\ register03Length \in {0, FrameLength03(pack)}
  /\ copied03 \in {0, FrameLength03(pack)}
  /\ (copied03 > 0 => register03Length = FrameLength03(pack))

LEMMA StoreStarts == JdbStoreInit => StoreInv
<1> SUFFICES ASSUME JdbStoreInit PROVE StoreInv
  OBVIOUS
<1>1. pack \in Packs /\ register03Length = 0 /\ copied03 = 0
  BY Zenon DEF JdbStoreInit
<1>2. ~(0 > 0)
  OBVIOUS
<1>3. QED
  BY <1>1, <1>2, Zenon DEF StoreInv

LEMMA StoreKeeps == StoreInv /\ [JdbStoreStep]_jdbStoreVars => StoreInv'
<1> SUFFICES ASSUME StoreInv, [JdbStoreStep]_jdbStoreVars PROVE StoreInv'
  OBVIOUS
<1> DEFINE length == FrameLength03(pack)
<1>1. /\ pack \in Packs /\ register03Length \in {0, length} /\ copied03 \in {0, length}
      /\ (copied03 > 0 => register03Length = length)
  BY Zenon DEF StoreInv
<1>2. pack' = pack /\ FrameLength03(pack') = length
  BY Zenon DEF JdbStoreStep, CopyReg03, CopyReg04, jdbStoreVars
<1>3. Len(UpdateReg03(pack)) = length /\ length \in 23 .. 64
  BY <1>1, FrameAsBytes, FrameFits
<1>4. CASE CopyReg03
  <2>1. copied03' = register03Length /\ register03Length' = length
    BY <1>3, <1>4, Zenon DEF CopyReg03
  <2> HIDE DEF length
  <2>2. QED
    BY <1>1, <1>2, <2>1, Zenon DEF StoreInv
<1>5. CASE register03Length' = register03Length /\ copied03' = copied03
  <2> HIDE DEF length
  <2>1. QED
    BY <1>1, <1>2, <1>5, Zenon DEF StoreInv
<1>6. QED
  BY <1>4, <1>5, Zenon DEF JdbStoreStep, CopyReg04, jdbStoreVars

\* What is in register 0x03 when it has come.
LEMMA Register03 ==
  ASSUME StoreInv, copied03 > 0
  PROVE  /\ register03 = Turned03(pack) /\ register03Length = FrameLength03(pack)
         /\ \A offset : Reg03(offset) = Get03(pack, offset)
         /\ NCells = pack.cells /\ NNTC = pack.ntcs
         /\ GetUInt8(19, register03, register03Length) = 0
         /\ GetUInt8(20, register03, register03Length) = 0
<1> DEFINE length == FrameLength03(pack)
           sent    == Raw03(pack, length)
<1>1. pack \in Packs /\ register03Length = length /\ copied03 = length
  <2>1. ~(0 > 0)
    OBVIOUS
  <2>2. QED
    BY <2>1, Zenon DEF StoreInv
<1>2. length \in 23 .. 64
  BY <1>1, FrameFits
<1>3. UpdateReg03(pack)[23].n = pack.ntcs
  BY <1>1, FrameAsBytes, Zenon
<1>4. sent[23] = UpdateReg03(pack)[23]
  <2>1. 23 \in 1 .. length
    BY <1>2
  <2>2. QED
    BY <1>1, <2>1, RawHasFrame, Zenon
<1> HIDE DEF length
<1>5. /\ ~(REG_NTC_COUNT_U8 >= length) /\ REG_NTC_COUNT_U8 + 1 = 23
      /\ ~(REG_NUMBER_OF_CELLS_U8 >= length) /\ REG_NUMBER_OF_CELLS_U8 + 1 = 22
      /\ ~(19 >= length) /\ 19 + 1 = 20 /\ ~(20 >= length) /\ 20 + 1 = 21
  BY <1>2 DEF REG_NTC_COUNT_U8, REG_NUMBER_OF_CELLS_U8
<1>6. GetUInt8(REG_NTC_COUNT_U8, sent, length) = pack.ntcs
  BY <1>3, <1>4, <1>5, Zenon DEF GetUInt8
<1>7. register03 = Turned03(pack)
  <2>1. register03 = SwapBytes(sent, SwapStarts(GetUInt8(REG_NTC_COUNT_U8, sent, length), length))
    BY <1>1, Zenon DEF register03, Raw03, BMS_REGISTER03_LENGTH
  <2>2. QED
    BY <1>6, <2>1, Zenon DEF Turned03, Starts03, length
<1>8. \A offset : Reg03(offset) = Get03(pack, offset)
  BY <1>1, <1>7, Zenon DEF Reg03, Get03, length
<1>9. /\ Turned03(pack)[20].n = 0 /\ Turned03(pack)[21].n = 0
      /\ Turned03(pack)[22].n = pack.cells /\ Turned03(pack)[23].n = pack.ntcs
  BY <1>1, ValuesOfPack, Zenon
<1>10. NCells = pack.cells
  BY <1>1, <1>5, <1>7, <1>9, Zenon DEF NCells, GetUInt8
<1>11. NNTC = pack.ntcs
  BY <1>1, <1>5, <1>7, <1>9, Zenon DEF NNTC, GetUInt8
<1>12. GetUInt8(19, register03, register03Length) = 0
  BY <1>1, <1>5, <1>7, <1>9, Zenon DEF GetUInt8
<1>13. GetUInt8(20, register03, register03Length) = 0
  BY <1>1, <1>5, <1>7, <1>9, Zenon DEF GetUInt8
<1>14. QED
  BY <1>1, <1>7, <1>8, <1>10, <1>11, <1>12, <1>13, Zenon DEF length

\* The cells as register 0x04 has them.
LEMMA Register04 ==
  ASSUME pack \in Packs, register04Length = 2 * pack.cells, NEW i \in 1 .. pack.cells
  PROVE  GetUInt16(2 * (i - 1), register04, register04Length) = TwoBytes(<<"cell", i - 1>>)
<1> DEFINE n     == pack.cells
           names == Numbered("cell", n)
           bytes == UpdateReg04(pack)
           k     == 2 * (i - 1)
<1>1. n \in 0 .. 16
  BY FrameFits
<1>2. names \in Seq(ValueNames) /\ Len(names) = n /\ names[i] = <<"cell", i - 1>>
  <2> DEFINE m == n
  <2>1. m \in Nat /\ i \in 1 .. m
    BY <1>1
  <2>2. "cell" \in {"ntc", "cell"}
    OBVIOUS
  <2> HIDE DEF m
  <2>3. /\ Numbered("cell", m) \in Seq(ValueNames) /\ Len(Numbered("cell", m)) = m
        /\ \A j \in 1 .. m : Numbered("cell", m)[j] = <<"cell", j - 1>>
    BY <2>1, <2>2, NumberedNames, Zenon
  <2>4. QED
    BY <2>1, <2>3, Zenon DEF m
<1>3. i \in 1 .. Len(names)
  BY <1>2
<1>4. bytes = Each(names)
  BY DEF UpdateReg04
<1> HIDE DEF names, bytes
<1>5. bytes[2 * i - 1] = [of |-> names[i], half |-> "high", n |-> 0]
  BY <1>2, <1>3, <1>4, EachAsBytes, Zenon
<1>6. bytes[2 * i] = [of |-> names[i], half |-> "low", n |-> 0]
  BY <1>2, <1>3, <1>4, EachAsBytes, Zenon
<1>7. /\ 2 * i - 1 \in 1 .. 32 /\ 2 * i \in 1 .. 32 /\ (2 * i - 1) % 2 = 1 /\ ~((2 * i) % 2 = 1)
      /\ ~(2 * i - 1 > 2 * n) /\ ~(2 * i > 2 * n) /\ (2 * i - 1) + 1 = 2 * i
      /\ k + 1 = 2 * i - 1 /\ k + 2 = 2 * i /\ k % 2^8 = k /\ ~(k + 1 >= 2 * n)
  BY <1>1
<1> HIDE DEF k
<1>8. register04 = [j \in 1 .. 32 |->
        IF j > 2 * n THEN Blank ELSE bytes[IF j % 2 = 1 THEN j + 1 ELSE j - 1]]
  BY Zenon DEF register04, BMS_REGISTER04_LENGTH, bytes
<1>9. register04[2 * i - 1] = bytes[2 * i]
  BY <1>7, <1>8, Zenon
<1>10. register04[2 * i] = bytes[2 * i - 1]
  BY <1>7, <1>8, Zenon
<1>11. GetUInt16(k, register04, 2 * n) = <<register04[k + 2], register04[k + 1]>>
  BY <1>7, Zenon DEF GetUInt16
<1>12. GetUInt16(k, register04, 2 * n) = TwoBytes(<<"cell", i - 1>>)
  BY <1>2, <1>5, <1>6, <1>7, <1>9, <1>10, <1>11, Zenon DEF TwoBytes
<1>13. QED
  BY <1>12, Zenon DEF k

\* The readings are the bytes of the names, one by one.
LEMMA NumberedReadings ==
  ASSUME NEW of, NEW n \in Nat
  PROVE  Readings(Numbered(of, n)) = [i \in 1 .. n |-> TwoBytes(<<of, i - 1>>)]
BY DEF Readings, Numbered

LEMMA FixedReadings ==
  /\ DOMAIN Readings(HeadNames) = 1 .. 9
  /\ \A i \in 1 .. 9 : Readings(HeadNames)[i] = TwoBytes(HeadNames[i])
  /\ DOMAIN Readings(TailNames) = 1 .. 4
  /\ \A i \in 1 .. 4 : Readings(TailNames)[i] = TwoBytes(TailNames[i])
<1>1. DOMAIN HeadNames = 1 .. 9 /\ DOMAIN TailNames = 1 .. 4
  BY DEF HeadNames, TailNames
<1>2. QED
  BY <1>1, Zenon DEF Readings

\* Sequences from the place of each of their elements.
LEMMA FourOfNine ==
  ASSUME NEW S, NEW head \in [1 .. 9 -> S]
  PROVE  SubSeq(head, 1, 4) = <<head[1], head[2], head[3], head[4]>>
<1>1. head \in Seq(S) /\ Len(head) = 9
  <2>1. 9 \in Nat
    OBVIOUS
  <2>2. QED
    BY <2>1, ListOf, Zenon
<1>2. SubSeq(head, 1, 4) \in Seq(S) /\ Len(SubSeq(head, 1, 4)) = 4
  BY <1>1, SubSeqProperties
<1>3. \A i \in 1 .. 4 : SubSeq(head, 1, 4)[i] = head[i]
  BY <1>1, SubSeqProperties
<1> DEFINE four == SubSeq(head, 1, 4)
<1> HIDE DEF four
<1>4. four = [i \in 1 .. 4 |-> four[i]]
  BY <1>2 DEF four
<1>5. four[1] = head[1] /\ four[2] = head[2] /\ four[3] = head[3] /\ four[4] = head[4]
  BY <1>3 DEF four
<1>6. ASSUME NEW f, f = [i \in 1 .. 4 |-> f[i]] PROVE <<f[1], f[2], f[3], f[4]>> = f
  BY <1>6
<1>7. QED
  BY <1>4, <1>5, <1>6, Zenon DEF four

LEMMA FourAndFive ==
  ASSUME NEW a, NEW b, NEW c, NEW d, NEW e, NEW f, NEW g, NEW h, NEW k
  PROVE  <<a, b, c, d>> \o <<e, f, g, h, k>> = <<a, b, c, d, e, f, g, h, k>>
<1> DEFINE S    == {a, b, c, d, e, f, g, h, k}
           s    == <<a, b, c, d>>
           t    == <<e, f, g, h, k>>
           both == s \o t
<1>1. s \in [1 .. 4 -> S]
  OBVIOUS
<1>2. 4 \in Nat
  OBVIOUS
<1>16. 5 \in Nat
  OBVIOUS
<1>17. t \in [1 .. 5 -> S]
  OBVIOUS
<1>3. /\ s[1] = a /\ s[2] = b /\ s[3] = c /\ s[4] = d
      /\ t[1] = e /\ t[2] = f /\ t[3] = g /\ t[4] = h /\ t[5] = k
  OBVIOUS
<1> HIDE DEF S, s, t
<1>4. s \in Seq(S) /\ Len(s) = 4
  BY <1>1, <1>2, ListOf, Zenon
<1>5. t \in Seq(S) /\ Len(t) = 5
  BY <1>16, <1>17, ListOf, Zenon
<1>6. /\ both \in Seq(S) /\ Len(both) = Len(s) + Len(t)
      /\ \A i \in 1 .. Len(s) : both[i] = s[i]
      /\ \A i \in Len(s) + 1 .. Len(s) + Len(t) : both[i] = t[i - Len(s)]
  BY <1>4, <1>5, JoinedBytes, Zenon
<1> HIDE DEF both
<1>7. both \in Seq(S) /\ Len(both) = 4 + 5
  BY <1>4, <1>5, <1>6, Zenon
<1>8. \A i \in 1 .. 4 : both[i] = s[i]
  BY <1>4, <1>6, Zenon
<1>9. \A i \in 4 + 1 .. 4 + 5 : both[i] = t[i - 4]
  BY <1>4, <1>5, <1>6, Zenon
<1>10. both = [i \in 1 .. 9 |-> both[i]]
  BY <1>7
<1>11. both[1] = s[1] /\ both[2] = s[2] /\ both[3] = s[3] /\ both[4] = s[4]
  BY <1>8
<1>12. both[5] = t[1] /\ both[6] = t[2] /\ both[7] = t[3] /\ both[8] = t[4] /\ both[9] = t[5]
  BY <1>9
<1>13. ASSUME NEW z, z = [i \in 1 .. 9 |-> z[i]]
       PROVE  <<z[1], z[2], z[3], z[4], z[5], z[6], z[7], z[8], z[9]>> = z
  BY <1>13
<1>14. both = <<a, b, c, d, e, f, g, h, k>>
  BY <1>3, <1>10, <1>11, <1>12, <1>13, Zenon
<1>15. QED
  BY <1>14 DEF both, s, t

\* What is written about a pack is what the pack has.
LEMMA StoreLine ==
  ASSUME StoreInv, copied03 > 0, register04Length = 2 * pack.cells
  PROVE  OutputStore = SubSeq(Readings(HeadNames), 1, 4)
                       \o <<0, Readings(HeadNames)[5], Readings(HeadNames)[9], 0, pack.cells>>
                       \o Readings(Numbered("cell", pack.cells))
                       \o <<pack.ntcs>> \o Readings(Numbered("ntc", pack.ntcs))
<1> DEFINE head  == Readings(HeadNames)
           cells == Readings(Numbered("cell", pack.cells))
           ntcs  == Readings(Numbered("ntc", pack.ntcs))
           nc    == pack.cells
           nn    == pack.ntcs
           first == <<Reg03(0), Reg03(2), Reg03(4), Reg03(6),
                      GetUInt8(19, register03, register03Length), Reg03(8), Reg03(16),
                      GetUInt8(20, register03, register03Length), NCells>>
<1>1. pack \in Packs
  BY Zenon DEF StoreInv
<1>2. nc \in 0 .. 16 /\ nn \in 0 .. 16
  BY <1>1, FrameFits
<1>20. nc \in Nat /\ nn \in Nat
  BY <1>2
<1>3. /\ \A offset : Reg03(offset) = Get03(pack, offset)
      /\ NCells = nc /\ NNTC = nn
      /\ GetUInt8(19, register03, register03Length) = 0
      /\ GetUInt8(20, register03, register03Length) = 0
  BY Register03, Zenon
<1>4. /\ \A i \in 1 .. 9 : Get03(pack, 2 * (i - 1)) = TwoBytes(HeadNames[i])
      /\ \A i \in 1 .. nn : Get03(pack, 21 + 2 * i) = TwoBytes(<<"ntc", i - 1>>)
  BY <1>1, ValuesOfPack, Zenon
<1>5. DOMAIN head = 1 .. 9 /\ \A i \in 1 .. 9 : head[i] = TwoBytes(HeadNames[i])
  BY FixedReadings, Zenon
<1>6. \A i \in 1 .. 9 : Reg03(2 * (i - 1)) = head[i]
  BY <1>3, <1>4, <1>5, Zenon
<1> HIDE DEF head
<1>7. /\ Reg03(0) = head[1] /\ Reg03(2) = head[2] /\ Reg03(4) = head[3] /\ Reg03(6) = head[4]
      /\ Reg03(8) = head[5] /\ Reg03(16) = head[9]
  <2>1. \A i \in 1 .. 9, k \in Int : k = 2 * (i - 1) => Reg03(k) = head[i]
    BY <1>6, Zenon
  <2>2. /\ 0 = 2 * (1 - 1) /\ 2 = 2 * (2 - 1) /\ 4 = 2 * (3 - 1) /\ 6 = 2 * (4 - 1)
        /\ 8 = 2 * (5 - 1) /\ 16 = 2 * (9 - 1)
    OBVIOUS
  <2>3. /\ 1 \in 1 .. 9 /\ 2 \in 1 .. 9 /\ 3 \in 1 .. 9 /\ 4 \in 1 .. 9 /\ 5 \in 1 .. 9
        /\ 9 \in 1 .. 9
    OBVIOUS
  <2>4. 0 \in Int /\ 2 \in Int /\ 4 \in Int /\ 6 \in Int /\ 8 \in Int /\ 16 \in Int
    OBVIOUS
  <2>5. QED
    BY <2>1, <2>2, <2>3, <2>4, Zenon
<1>8. first = SubSeq(head, 1, 4) \o <<0, head[5], head[9], 0, nc>>
  <2>1. first = <<head[1], head[2], head[3], head[4], 0, head[5], head[9], 0, nc>>
    BY <1>3, <1>7, Zenon
  <2>2. SubSeq(head, 1, 4) = <<head[1], head[2], head[3], head[4]>>
    <3>1. head \in [1 .. 9 -> {head[i] : i \in 1 .. 9}]
      <4>1. head = [i \in 1 .. 9 |-> head[i]]
        BY FixedReadings DEF Readings, head
      <4>2. QED
        BY <4>1
    <3>2. QED
      BY <3>1, FourOfNine, Zenon
  <2>3. <<head[1], head[2], head[3], head[4]>> \o <<0, head[5], head[9], 0, nc>>
          = <<head[1], head[2], head[3], head[4], 0, head[5], head[9], 0, nc>>
    BY FourAndFive
  <2>4. QED
    BY <2>1, <2>2, <2>3
<1> HIDE DEF first
<1>9. [i \in 1 .. AtMostHalf(NCells, register04Length) |->
         GetUInt16(2 * (i - 1), register04, register04Length)] = cells
  <2>1. AtMostHalf(nc, 2 * nc) = nc
    BY <1>2 DEF AtMostHalf
  <2>2. cells = [i \in 1 .. nc |-> TwoBytes(<<"cell", i - 1>>)]
    BY <1>20, NumberedReadings, Zenon
  <2>3. \A i \in 1 .. nc : GetUInt16(2 * (i - 1), register04, register04Length)
                             = TwoBytes(<<"cell", i - 1>>)
    BY <1>1, Register04, Zenon
  <2> HIDE DEF nc, cells
  <2>4. AtMostHalf(NCells, register04Length) = nc
    BY <1>3, <2>1, Zenon DEF nc
  <2>5. QED
    BY <2>2, <2>3, <2>4, Zenon
<1>10. [i \in 1 .. NNTC |-> Reg03(REG_NTC_READINGS_U16(i - 1))] = ntcs
  <2>1. ntcs = [i \in 1 .. nn |-> TwoBytes(<<"ntc", i - 1>>)]
    BY <1>20, NumberedReadings, Zenon
  <2>2. \A i \in 1 .. nn : REG_NTC_READINGS_U16(i - 1) = 21 + 2 * i
    BY <1>2 DEF REG_NTC_READINGS_U16
  <2>3. \A i \in 1 .. nn : Reg03(REG_NTC_READINGS_U16(i - 1)) = TwoBytes(<<"ntc", i - 1>>)
    BY <1>3, <1>4, <2>2, Zenon
  <2> HIDE DEF nn, ntcs
  <2>4. QED
    BY <1>3, <2>1, <2>3, Zenon
<1>11. OutputStore = first \o cells \o <<nn>> \o ntcs
  BY <1>3, <1>9, <1>10, Zenon DEF OutputStore, first
<1>12. QED
  BY <1>8, <1>11, Zenon DEF head

LEMMA StatusLines ==
  ASSUME StoreInv, copied03 > 0, register04Length = 2 * pack.cells
  PROVE  /\ PrintCells = Readings(Numbered("cell", pack.cells))
         /\ PrintStatus.values = Readings(HeadNames)
         /\ \A i \in 1 .. 3 : i <= pack.ntcs =>
              PrintStatus.temperatures[i] = Readings(Numbered("ntc", pack.ntcs))[i]
         /\ PrintStatus.others = If(pack.long, Readings(TailNames))
         /\ MessageValues.voltage = Readings(HeadNames)[1]
         /\ MessageValues.current = Readings(HeadNames)[2]
         /\ MessageValues.capacity = Readings(HeadNames)[3]
         /\ MessageValues.fullCapacity = Readings(HeadNames)[4]
         /\ MessageValues.chargeCycles = Readings(HeadNames)[5]
         /\ MessageValues.temperature
              = IF pack.ntcs = 0 THEN NotThere
                ELSE Readings(Numbered("ntc", pack.ntcs))[pack.ntcs]
<1> DEFINE head  == Readings(HeadNames)
           tail  == Readings(TailNames)
           cells == Readings(Numbered("cell", pack.cells))
           ntcs  == Readings(Numbered("ntc", pack.ntcs))
           nc    == pack.cells
           nn    == pack.ntcs
<1>1. pack \in Packs
  BY Zenon DEF StoreInv
<1>2. nc \in 0 .. 16 /\ nn \in 0 .. 16
  BY <1>1, FrameFits
<1>20. nc \in Nat /\ nn \in Nat
  BY <1>2
<1>3. (\A offset : Reg03(offset) = Get03(pack, offset)) /\ NNTC = nn
  BY Register03, Zenon
<1>4. /\ \A i \in 1 .. 9 : Get03(pack, 2 * (i - 1)) = TwoBytes(HeadNames[i])
      /\ \A i \in 1 .. nn : Get03(pack, 21 + 2 * i) = TwoBytes(<<"ntc", i - 1>>)
      /\ \A i \in 1 .. 4 : Get03(pack, 22 + 2 * nn + 2 * i)
                             = IF pack.long THEN TwoBytes(TailNames[i]) ELSE NotThere
  BY <1>1, ValuesOfPack, Zenon
<1>5. /\ DOMAIN head = 1 .. 9 /\ \A i \in 1 .. 9 : head[i] = TwoBytes(HeadNames[i])
      /\ DOMAIN tail = 1 .. 4 /\ \A i \in 1 .. 4 : tail[i] = TwoBytes(TailNames[i])
  BY FixedReadings, Zenon
<1>6. \A i \in 1 .. 9 : Reg03(2 * (i - 1)) = head[i]
  BY <1>3, <1>4, <1>5, Zenon
<1>7. head = [i \in 1 .. 9 |-> head[i]] /\ tail = [i \in 1 .. 4 |-> tail[i]]
  BY FixedReadings DEF Readings
<1>8. ntcs = [i \in 1 .. nn |-> TwoBytes(<<"ntc", i - 1>>)]
  BY <1>20, NumberedReadings, Zenon
<1>9. cells = [i \in 1 .. nc |-> TwoBytes(<<"cell", i - 1>>)]
  BY <1>20, NumberedReadings, Zenon
<1>10. \A i \in 1 .. nn : Reg03(REG_NTC_READINGS_U16(i - 1)) = ntcs[i]
  <2>1. \A i \in 1 .. nn : REG_NTC_READINGS_U16(i - 1) = 21 + 2 * i
    BY <1>2 DEF REG_NTC_READINGS_U16
  <2> HIDE DEF nn, ntcs
  <2>2. QED
    BY <1>3, <1>4, <1>8, <2>1, Zenon
<1> HIDE DEF head, tail, cells, ntcs, nc, nn
<1>11. /\ Reg03(0) = head[1] /\ Reg03(2) = head[2] /\ Reg03(4) = head[3] /\ Reg03(6) = head[4]
       /\ Reg03(8) = head[5] /\ Reg03(10) = head[6] /\ Reg03(12) = head[7]
       /\ Reg03(14) = head[8] /\ Reg03(16) = head[9]
  <2>1. \A i \in 1 .. 9, k \in Int : k = 2 * (i - 1) => Reg03(k) = head[i]
    BY <1>6, Zenon
  <2>2. /\ 0 = 2 * (1 - 1) /\ 2 = 2 * (2 - 1) /\ 4 = 2 * (3 - 1) /\ 6 = 2 * (4 - 1)
        /\ 8 = 2 * (5 - 1) /\ 10 = 2 * (6 - 1) /\ 12 = 2 * (7 - 1) /\ 14 = 2 * (8 - 1)
        /\ 16 = 2 * (9 - 1)
    OBVIOUS
  <2>3. /\ 1 \in 1 .. 9 /\ 2 \in 1 .. 9 /\ 3 \in 1 .. 9 /\ 4 \in 1 .. 9 /\ 5 \in 1 .. 9
        /\ 6 \in 1 .. 9 /\ 7 \in 1 .. 9 /\ 8 \in 1 .. 9 /\ 9 \in 1 .. 9
    OBVIOUS
  <2>4. /\ 0 \in Int /\ 2 \in Int /\ 4 \in Int /\ 6 \in Int /\ 8 \in Int /\ 10 \in Int
        /\ 12 \in Int /\ 14 \in Int /\ 16 \in Int
    OBVIOUS
  <2>5. QED
    BY <2>1, <2>2, <2>3, <2>4, Zenon
<1>12. PrintCells = cells
  <2>1. (2 * nc) \div 2 = nc
    BY <1>2
  <2>2. register04Length = 2 * nc
    BY Zenon DEF nc
  <2>3. \A i \in 1 .. nc : GetUInt16(2 * (i - 1), register04, register04Length)
                             = TwoBytes(<<"cell", i - 1>>)
    BY <1>1, Register04, Zenon DEF nc
  <2>4. register04Length \div 2 = nc
    BY <2>1, <2>2, Zenon
  <2>5. QED
    BY <1>9, <2>3, <2>4, Zenon DEF PrintCells
<1>13. PrintStatus.values = head
  <2>1. ASSUME NEW f, f = [i \in 1 .. 9 |-> f[i]]
        PROVE  <<f[1], f[2], f[3], f[4], f[5], f[6], f[7], f[8], f[9]>> = f
    BY <2>1
  <2>2. PrintStatus.values = <<Reg03(0), Reg03(2), Reg03(4), Reg03(6), Reg03(8), Reg03(10),
                               Reg03(12), Reg03(14), Reg03(16)>>
    BY DEF PrintStatus
  <2>3. QED
    BY <1>7, <1>11, <2>1, <2>2, Zenon
<1>14. ASSUME NEW i \in 1 .. 3, i <= nn PROVE PrintStatus.temperatures[i] = ntcs[i]
  <2>1. i \in 1 .. nn
    BY <1>2, <1>14
  <2>2. PrintStatus.temperatures = [j \in 1 .. 3 |-> Reg03(REG_NTC_READINGS_U16(j - 1))]
    BY DEF PrintStatus
  <2>3. QED
    BY <1>10, <2>1, <2>2, Zenon
<1>15. PrintStatus.others = If(pack.long, tail)
  <2>1. \A i \in 1 .. 4 : REG_ALARM_STATUS_U16(nn) + 2 * (i - 1) = 22 + 2 * nn + 2 * i
    BY <1>2 DEF REG_ALARM_STATUS_U16
  <2>2. PrintStatus.others = [i \in 1 .. 4 |-> Reg03(REG_ALARM_STATUS_U16(NNTC) + 2 * (i - 1))]
    BY DEF PrintStatus
  <2>3. \A i \in 1 .. 4 : Reg03(REG_ALARM_STATUS_U16(NNTC) + 2 * (i - 1))
                            = IF pack.long THEN tail[i] ELSE NotThere
    BY <1>3, <1>4, <1>5, <2>1, Zenon DEF nn
  <2>4. PrintStatus.others = [i \in 1 .. 4 |-> IF pack.long THEN tail[i] ELSE NotThere]
    BY <2>2, <2>3, Zenon
  <2>5. pack.long \in BOOLEAN
    BY <1>1, FrameFits
  <2>6. CASE pack.long
    BY <1>7, <2>4, <2>6, Zenon DEF If
  <2>7. CASE ~pack.long
    BY <1>5, <2>4, <2>7, Zenon DEF If
  <2>8. QED
    BY <2>5, <2>6, <2>7
<1>16. /\ MessageValues.voltage = head[1] /\ MessageValues.current = head[2]
       /\ MessageValues.capacity = head[3] /\ MessageValues.fullCapacity = head[4]
       /\ MessageValues.chargeCycles = head[5]
  BY <1>11 DEF MessageValues
<1>17. MessageValues.temperature = IF nn = 0 THEN NotThere ELSE ntcs[nn]
  <2>1. MessageValues.temperature = IF NNTC \in {0, 255} THEN NotThere
                                    ELSE Reg03(REG_NTC_READINGS_U16(NNTC - 1))
    BY DEF MessageValues
  <2>2. nn # 255 /\ (nn # 0 => nn \in 1 .. nn)
    BY <1>2
  <2>3. QED
    BY <1>3, <1>10, <2>1, <2>2, Zenon DEF nn
<1>18. QED
  BY <1>12, <1>13, <1>14, <1>15, <1>16, <1>17, Zenon DEF head, tail, cells, ntcs, nn

LEMMA StoreTells == StoreInv => StoreReadable
<1> SUFFICES ASSUME StoreInv, copied03 > 0, register04Length = 2 * pack.cells
             PROVE  StoreReadable
  BY Zenon DEF StoreReadable
<1>1. QED
  BY StoreLine, StatusLines, Zenon DEF StoreReadable

----------------------------------------------------------------------------
(* All of them. *)

\* A step of the whole is one of a part or leaves it alone.
LEMMA PartsStep ==
  ASSUME [Next]_vars
  PROVE  /\ [StorageStep]_storageVars /\ [LineStep]_lineVars /\ [NetworkStep]_networkVars
         /\ [FeedStep]_feedVars /\ [RouteStep]_routeVars /\ [BmsSimStep]_bmsSimVars
         /\ [LogbookStep]_logbookVars /\ [PolarStep]_polarVars
         /\ [PerformanceStep]_performanceVars /\ [ModbusStep]_modbusVars
         /\ [WebStep]_webVars /\ [DataOutputStep]_dataOutputVars
         /\ [BatteryStep \/ NumberStep]_payloadVars /\ [HandleUDP \/ EchoStep]_respondersVars
         /\ [PgnWebSocketStep]_pgnWebSocketVars /\ [TcpServerStep]_tcpServerVars
         /\ [JdbStoreStep]_jdbStoreVars
<1>1. CASE UNCHANGED vars
  BY <1>1 DEF vars
<1>2. CASE Next
  <2>1. [StorageStep]_storageVars
    <3>1. CASE subject = "flash"
      BY <1>2, <3>1 DEF Next, StorageStep, BootStep
    <3>2. CASE subject = "boot"
      BY <1>2, <3>2 DEF Next, StorageStep
    <3>3. CASE subject # "flash" /\ subject # "boot"
      BY <1>2, <3>3 DEF Next
    <3>4. QED
      BY <3>1, <3>2, <3>3
  <2>2. /\ [LineStep]_lineVars /\ [NetworkStep]_networkVars /\ [FeedStep]_feedVars
        /\ [RouteStep]_routeVars /\ [BmsSimStep]_bmsSimVars /\ [LogbookStep]_logbookVars
        /\ [PolarStep]_polarVars /\ [PerformanceStep]_performanceVars /\ [ModbusStep]_modbusVars
        /\ [WebStep]_webVars /\ [DataOutputStep]_dataOutputVars
        /\ [PgnWebSocketStep]_pgnWebSocketVars /\ [TcpServerStep]_tcpServerVars
        /\ [JdbStoreStep]_jdbStoreVars
    BY <1>2 DEF Next
  <2>3. [BatteryStep \/ NumberStep]_payloadVars
    <3>1. CASE subject = "battery"
      BY <1>2, <3>1 DEF Next
    <3>2. CASE subject = "number"
      BY <1>2, <3>2 DEF Next
    <3>3. CASE subject # "battery" /\ subject # "number"
      BY <1>2, <3>3 DEF Next
    <3>4. QED
      BY <3>1, <3>2, <3>3
  <2>4. [HandleUDP \/ EchoStep]_respondersVars
    <3>1. CASE subject = "dns"
      BY <1>2, <3>1 DEF Next
    <3>2. CASE subject = "echo"
      BY <1>2, <3>2 DEF Next
    <3>3. CASE subject # "dns" /\ subject # "echo"
      BY <1>2, <3>3 DEF Next
    <3>4. QED
      BY <3>1, <3>2, <3>3
  <2>5. QED
    BY <2>1, <2>2, <2>3, <2>4
<1>3. QED
  BY <1>1, <1>2

\* The parts begin as they do alone.
LEMMA PartsInit ==
  Init => /\ StorageInit /\ LineInit /\ NetworkInit /\ FeedInit /\ RouteInit
          /\ BmsSimInit /\ LogbookInit /\ PolarInit /\ PerformanceInit /\ ModbusInit
          /\ WebInit /\ DataOutputInit /\ PayloadInit /\ RespondersInit
          /\ PgnWebSocketInit /\ TcpServerInit /\ PgnSentenceInit
          /\ JdbStoreInit
BY DEF Init

\* A client of the feed over HTTP that keeps within the buffer gets every character written
\* since it connected, once and in order: writeLine(), which publishes a character only when it
\* is stored, and ChunkedResponseStream, which reads up to what is published.
THEOREM FeedIsInOrder == Spec => []FeedInOrder
<1>1. Init => FeedInv
  BY PartsInit, FeedInitially
<1>2. FeedInv /\ [Next]_vars => FeedInv'
  BY PartsStep, FeedInvariant
<1>3. FeedInv => FeedInOrder
  BY FeedInvHolds
<1>4. QED
  BY <1>1, <1>2, <1>3, PTL DEF Spec

\* A switch of the network that nothing interrupts leaves the services, the flag and softAP as
\* asked for, whatever part of another one it finds: onEnableNetwork() and onDisableNetwork().
\* That the TCP server lists clients again is not in it: it does not.
THEOREM SwitchesAreMade == Spec => []SwitchHolds
<1>1. Init => NetworkInv
  BY PartsInit, NetworkInitially
<1>2. NetworkInv /\ [Next]_vars => NetworkInv'
  BY PartsStep, NetworkInvariant
<1>3. NetworkInv => SwitchHolds
  BY NetworkInvHolds
<1>4. QED
  BY <1>1, <1>2, <1>3, PTL DEF Spec

\* Every alarm has a line in a freeze frame since it rose, or the flash would not take it:
\* handle() of PGN 127489 and evaluateStatus().
THEOREM AlarmsAreFramed == Spec => []AlarmsFramed
<1>1. Init => AlarmsFramed
  BY PartsInit, StorageInitially
<1>2. AlarmsFramed /\ [Next]_vars => AlarmsFramed'
  BY PartsStep, AlarmsInvariant
<1>3. QED
  BY <1>1, <1>2, PTL DEF Spec

\* An upload that is answered with success is in flash, chunk by chunk, if its file could be
\* opened and no other request has touched it, and a count of restarts on the console is the
\* one in flash, unless the preferences did not open at the boot or took no 0 when it was
\* cleared: the upload callback of POST /api/fs.json, recordBootReason() and
\* clearBootReasons(), with a restart between any two steps.
THEOREM FlashIsTrue == Spec => []FlashTrue
<1>1. Init => AuditInv /\ FilesInv
  BY PartsInit, StorageInitially
<1>2. AuditInv /\ FilesInv /\ [Next]_vars => (AuditInv /\ FilesInv)'
  BY PartsStep, AuditInvariant, FilesInvariant
<1>3. AuditInv /\ FilesInv => FlashTrue
  BY FilesInvHolds DEF FlashTrue, AuditInv
<1>4. QED
  BY <1>1, <1>2, <1>3, PTL DEF Spec

\* A line of a TCP client is taken by itself and counted as what it is: readInput() and
\* parseSentence(), which start each line from an empty buffer.
THEOREM LinesAreAlone == Spec => []LinesStandAlone
<1>1. Init => LinesInv
  BY PartsInit, LinesInitially
<1>2. LinesInv /\ [Next]_vars => LinesInv'
  BY PartsStep, LinesInvariant
<1>3. LinesInv => LinesStandAlone
  BY DEF LinesInv
<1>4. QED
  BY <1>1, <1>2, <1>3, PTL DEF Spec

\* A client gets a sentence whenever it has been without for the period and a message calls for
\* it, and never twice within the period; and no new input waits beyond the period for the
\* figures: the handlers of N2KHandler, Performance::update() and doSend().
THEOREM SentencesDoArrive == Spec => []SentencesArrive
<1>1. Init => RouteInv
  BY PartsInit, RouteInitially
<1>2. RouteInv /\ [Next]_vars => RouteInv'
  BY PartsStep, RouteInvariant
<1>3. RouteInv => SentencesArrive
  BY DEF RouteInv
<1>4. QED
  BY <1>1, <1>2, <1>3, PTL DEF Spec

\* No two requests to the simulator go unanswered in a row, whatever bytes come between them:
\* write(), which falls back to waiting for a request.
THEOREM RequestsAreAnswered == Spec => []RequestsAnswered
<1>1. Init => SimInv
  BY PartsInit, SimInitially
<1>2. SimInv /\ [Next]_vars => SimInv'
  BY PartsStep, SimInvariant
<1>3. SimInv => RequestsAnswered
  BY DEF SimInv, RequestsAnswered
<1>4. QED
  BY <1>1, <1>2, <1>3, PTL DEF Spec

\* Files of the logbook are removed oldest first and only down to the limit, there is never more
\* than one above it, and none outgrows its cap or loses a record: log() and its rotation,
\* whatever days the bus jumps between.
THEOREM LogsAreRetained == Spec => LogsRetained
<1>1. Init => LogsInv
  BY PartsInit, LogsInitially
<1>2. LogsInv /\ [Next]_vars => LogsInv'
  BY PartsStep, LogsInvariant
<1>3. LogsInv /\ [Next]_vars => [LogsStep]_logs
  BY PartsStep, LogsInvariant
<1>4. Spec => [][LogsStep]_logs
  BY <1>1, <1>2, <1>3, PTL DEF Spec
<1>5. QED
  BY <1>4 DEF LogsRetained, LogsStep

\* A value is looked up between the entries of the polar table that bracket it, also behind one
\* looked up before, and no figure but tws outlives the inputs it was worked out from:
\* findIndexes(), the cache of PolarPerformance and Performance::update().
THEOREM FiguresAreTrue == Spec => []FiguresTrue
<1>1. Init => PolarInv /\ PerformanceFresh
  BY PartsInit, PolarInitially, PerformanceInitially
<1>2. PolarInv /\ PerformanceFresh /\ [Next]_vars => (PolarInv /\ PerformanceFresh)'
  BY PartsStep, PolarInvariant, PerformanceInvariant
<1>3. PolarInv /\ PerformanceFresh => FiguresTrue
  BY PolarInvHolds DEF FiguresTrue
<1>4. QED
  BY <1>1, <1>2, <1>3, PTL DEF Spec

\* A voltage that was read is shown and sent for the battery whose own shunt measured it, and is
\* the register asked for unless two requests met on the wire: readResponseAsync(), onResponse()
\* and send(), which ask one thing at a time and take no answer of another unit.
THEOREM ShuntsAreTruthful == Spec => []ShuntsTruthful
<1>1. Init => ShuntInv(modbus)
  BY PartsInit, ShuntsInitially
<1>2. ShuntInv(modbus) /\ [Next]_vars => ShuntInv(modbus)'
  BY PartsStep, ShuntInvariant
<1>3. ShuntInv(modbus) => ShuntsTruthful
  BY ShuntInvHolds
<1>4. QED
  BY <1>1, <1>2, <1>3, PTL DEF Spec

\* Each request gets one answer, but the two kinds that get none, and the answer tells what was
\* done, and that only for the administrator: the handlers of WebServer.  What the callback of an
\* upload has written before is excepted.
THEOREM AnswersAreTrue == Spec => []AnswersTrue
<1>1. Init => AnswersTrue
  BY PartsInit, AnswersInitially
<1>2. AnswersTrue /\ [Next]_vars => AnswersTrue'
  BY PartsStep, AnswersInvariant
<1>3. QED
  BY <1>1, <1>2, PTL DEF Spec

\* Whoever asks the archive gets the newest there is, but for the exceptions of CollectorFresh
\* and PagesFresh, whatever slots were taken over before and whatever is saved while a page is put
\* together: the save functions, getters and update() of N2KCollector and the pages of the data
\* output.
THEOREM ArchiveIsFresh == Spec => []ArchiveFresh
<1>1. Init => ArchiveInv
  BY PartsInit, ArchiveInitially
<1>2. ArchiveInv /\ [Next]_vars => ArchiveInv'
  BY PartsStep, ArchiveInvariant
<1>3. ArchiveInv => ArchiveFresh
  BY CollectorIsFresh, PagesAreFresh DEF ArchiveFresh, ArchiveInv
<1>4. QED
  BY <1>1, <1>2, <1>3, PTL DEF Spec

\* The battery state is laid out as its table says whatever counts the registers of one pack
\* hold, and a number from 0 to 655.34 units is sent to within its rounding and not as the value
\* for none: setBatteryState() and the set functions of the payloads.
THEOREM PayloadsAreReadable == Spec => []PayloadsReadable
<1>1. Init => PayloadsReadable
  BY PartsInit, PayloadsInitially
<1>2. PayloadsReadable /\ [Next]_vars => PayloadsReadable'
  BY PartsStep, PayloadsInvariant
<1>3. QED
  BY <1>1, <1>2, PTL DEF Spec

\* A DNS query without additional records gets an address if its name is one of the boat's and
\* none if it is no part of their text, and the echo server sends back what it was sent, in order
\* and up to the line end that closes the connection: DNSServer and EchoServer.
THEOREM RespondersDoAnswer == Spec => []RespondersAnswer
<1>1. Init => RespondersInv
  BY PartsInit, RespondersInitially
<1>2. RespondersInv /\ [Next]_vars => RespondersInv'
  BY PartsStep, RespondersInvariant
<1>3. RespondersInv => RespondersAnswer
  BY RespondersInvHolds
<1>4. QED
  BY <1>1, <1>2, <1>3, PTL DEF Spec

\* Of the servers nothing starts: a client of the blocking one gets sentences until its first
\* command and PGNs after it, those of its last filter if that command set one; and the web
\* socket sends no PGN twice within the debounce while its list keeps what was sent.
THEOREM UnusedServersAreTrue == Spec => []UnusedServersTrue
<1>1. Init => TcpServerInv /\ WebSocketInv
  BY PartsInit, TcpServerInitially, WebSocketInitially
<1>2. TcpServerInv /\ WebSocketInv /\ [Next]_vars => (TcpServerInv /\ WebSocketInv)'
  BY PartsStep, TcpServerInvariant, WebSocketInvariant
<1>3. TcpServerInv /\ WebSocketInv => UnusedServersTrue
  BY SocketIsPaced DEF UnusedServersTrue, TcpServerInv
<1>4. QED
  BY <1>1, <1>2, <1>3, PTL DEF Spec

\* Whatever values are missing, each is in the column its documentation gives it, and each angle
\* in the range of its kind: the send functions of NMEA0183N2KMessages and the append functions
\* of NMEA0183Encoder.  It does not say which letter a side has, nor that the kind is right.
THEOREM SentencesAreReadable == Spec => []SentencesReadable
<1>1. Init => EncoderInv
  BY PartsInit, EncodersInitially DEF EncoderInv
<1>2. EncoderInv /\ [Next]_vars => EncoderInv'
  BY EncoderKeeps
<1>3. EncoderInv => SentencesReadable
  BY ValuesInvHolds, PgnInvHolds DEF EncoderInv
<1>4. QED
  BY <1>1, <1>2, <1>3, PTL DEF Spec

\* Nothing that is encoded leaves the buffer or is cut but a message too long for a sentence, and
\* that between two bytes; a PGN has what its function was given, in order, but for the four
\* that are Lossy: NMEA0183Encoder and N2KMessageEncoder, whose buffer and checks are one.
THEOREM EncodingIsWhole == Spec => []EncodedWhole
<1>1. Init => EncoderInv
  BY PartsInit, EncodersInitially DEF EncoderInv
<1>2. EncoderInv /\ [Next]_vars => EncoderInv'
  BY EncoderKeeps
<1>3. EncoderInv => EncodedWhole
  BY ValuesInvHolds, PgnInvHolds DEF EncoderInv
<1>4. QED
  BY <1>1, <1>2, <1>3, PTL DEF Spec

\* Every number in the line of /api/store, on the console and in the messages for the bus is the
\* one the BMS has under that name, however many cells and temperatures there are: copyReg03(),
\* copyReg04() and the getters of JdbBMS, whose byte swaps never meet.
THEOREM StoreIsReadable == Spec => []StoreReadable
<1>1. Init => StoreInv
  BY PartsInit, StoreStarts
<1>2. StoreInv /\ [Next]_vars => StoreInv'
  BY PartsStep, StoreKeeps
<1>3. StoreInv => StoreReadable
  BY StoreTells
<1>4. QED
  BY <1>1, <1>2, <1>3, PTL DEF Spec
=============================================================================
