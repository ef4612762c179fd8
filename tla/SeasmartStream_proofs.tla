----------------------- MODULE SeasmartStream_proofs ------------------------
(***************************************************************************)
(* Proofs about SeasmartStream, for every number of streams and every size *)
(* of ring, chunk and line: the mutex keeps the list sound, and the ring,  *)
(* which nothing guards, is a channel until its writer catches up with its *)
(* reader.                                                                 *)
(***************************************************************************)
EXTENDS SeasmartStream, SequenceTheorems, RingTheorems, TLAPS

----------------------------------------------------------------------------
(* Sequences. *)

\* What is left of a walk was in it before.
LEMMA RangeOfTail ==
  ASSUME NEW S, NEW seq \in Seq(S), seq # <<>>
  PROVE  Head(seq) \in Range(seq) /\ Range(Tail(seq)) \subseteq Range(seq)
<1>1. Len(seq) \in Nat \ {0} /\ Head(seq) = seq[1]
  BY EmptySeq
<1>2. Range(seq) = {seq[i] : i \in 1 .. Len(seq)}
  BY RangeEquality
<1>3. Tail(seq) \in Seq(S) /\ Len(Tail(seq)) = Len(seq) - 1
      /\ \A i \in 1 .. Len(Tail(seq)) : Tail(seq)[i] = seq[i + 1]
  BY HeadTailProperties
<1>4. Range(Tail(seq)) = {Tail(seq)[i] : i \in 1 .. Len(Tail(seq))}
  BY <1>3, RangeEquality
<1>5. QED
  BY <1>1, <1>2, <1>3, <1>4

\* Listing a response that is not in the list.
LEMMA RangeOfAppend ==
  ASSUME NEW S, NEW seq \in Seq(S), NEW e \in S
  PROVE  /\ Range(Append(seq, e)) = Range(seq) \cup {e}
         /\ IsInjective(seq) /\ e \notin Range(seq) => IsInjective(Append(seq, e))
<1> DEFINE new == Append(seq, e)
<1>1. Len(seq) \in Nat /\ DOMAIN seq = 1 .. Len(seq)
  BY LenProperties
<1>2. new \in Seq(S) /\ Len(new) = Len(seq) + 1 /\ new[Len(seq) + 1] = e
      /\ \A i \in 1 .. Len(seq) : new[i] = seq[i]
  BY AppendProperties
<1>3. Range(seq) = {seq[i] : i \in 1 .. Len(seq)}
  BY RangeEquality
<1>4. DOMAIN new = 1 .. Len(seq) + 1
  BY <1>2, LenProperties
<1>5. Range(new) = {new[i] : i \in 1 .. Len(seq) + 1}
  BY <1>2, RangeEquality
<1> HIDE DEF new
<1>6. Range(new) = Range(seq) \cup {e}
  <2>1. \A x \in Range(new) : x \in Range(seq) \cup {e}
    BY <1>1, <1>2, <1>3, <1>5
  <2>2. \A x \in Range(seq) : x \in Range(new)
    BY <1>1, <1>2, <1>3, <1>5
  <2>3. e \in Range(new)
    BY <1>1, <1>2, <1>5
  <2>4. QED
    BY <2>1, <2>2, <2>3
<1>7. ASSUME IsInjective(seq), e \notin Range(seq)
      PROVE  IsInjective(new)
  <2>1. SUFFICES ASSUME NEW a \in 1 .. Len(seq) + 1, NEW b \in 1 .. Len(seq) + 1, new[a] = new[b]
                 PROVE  a = b
    BY <1>4 DEF IsInjective
  <2>2. CASE a \in 1 .. Len(seq) /\ b \in 1 .. Len(seq)
    BY <1>1, <1>2, <1>7, <2>1, <2>2 DEF IsInjective
  <2>3. CASE a = Len(seq) + 1 /\ b \in 1 .. Len(seq)
    BY <1>2, <1>3, <1>7, <2>1, <2>3
  <2>4. CASE b = Len(seq) + 1 /\ a \in 1 .. Len(seq)
    BY <1>2, <1>3, <1>7, <2>1, <2>4
  <2>5. QED
    BY <1>1, <2>1, <2>2, <2>3, <2>4
<1>8. QED
  BY <1>6, <1>7 DEF new

\* Where the walk of removeSeasmartResponse stops.
LEMMA PlaceOfFirst ==
  ASSUME NEW S, NEW seq \in Seq(S), IsInjective(seq), NEW k \in 1 .. Len(seq)
  PROVE  Min({i \in 1 .. Len(seq) : seq[i] = seq[k]}) = k
<1>1. DOMAIN seq = 1 .. Len(seq) /\ Len(seq) \in Nat
  BY LenProperties
<1>2. {i \in 1 .. Len(seq) : seq[i] = seq[k]} = {k}
  BY <1>1 DEF IsInjective
<1>3. \A x : x \in {k} /\ (\A y \in {k} : x =< y) <=> x = k
  BY <1>1
<1>4. Min({k}) = k
  BY <1>3 DEF Min
<1>5. QED
  BY <1>2, <1>4

\* Unlinking takes out the one response and keeps the others.
LEMMA RangeOfRemoveFirst ==
  ASSUME NEW S, NEW seq \in Seq(S), IsInjective(seq), NEW e
  PROVE  /\ RemoveFirst(seq, e) \in Seq(S)
         /\ IsInjective(RemoveFirst(seq, e))
         /\ Range(RemoveFirst(seq, e)) = Range(seq) \ {e}
<1>1. DOMAIN seq = 1 .. Len(seq) /\ Len(seq) \in Nat
  BY LenProperties
<1>2. Range(seq) = {seq[i] : i \in 1 .. Len(seq)}
  BY RangeEquality
<1>3. CASE ~ \E i \in 1 .. Len(seq) : seq[i] = e
  BY <1>2, <1>3 DEF RemoveFirst
<1>4. CASE \E i \in 1 .. Len(seq) : seq[i] = e
  <2>0. PICK k \in 1 .. Len(seq) : seq[k] = e
    BY <1>4
  <2> DEFINE front == SubSeq(seq, 1, k - 1)
             back  == SubSeq(seq, k + 1, Len(seq))
             new   == front \o back
  <2>1. RemoveFirst(seq, e) = new
    <3> DEFINE I == {i \in 1 .. Len(seq) : seq[i] = e}
    <3>1. Min(I) = k /\ I # {}
      BY <2>0, PlaceOfFirst
    <3>2. SelectInSeq(seq, LAMBDA v : v = e) = IF I # {} THEN Min(I) ELSE 0
      BY DEF SelectInSeq
    <3> HIDE DEF I
    <3>3. RemoveFirst(seq, e) = RemoveAt(seq, k)
      BY <2>0, <3>1, <3>2 DEF RemoveFirst
    <3>4. QED
      BY <3>3 DEF RemoveAt
  <2>2. \A i \in 1 .. Len(seq) : seq[i] \in S
    BY ElementOfSeq
  <2>3. front \in Seq(S) /\ Len(front) = k - 1 /\ \A i \in 1 .. k - 1 : front[i] = seq[i]
    <3>1. \A i \in 1 .. k - 1 : seq[i] \in S
      BY <1>1, <2>2
    <3>2. /\ front \in Seq(S) /\ Len(front) = IF 1 <= k - 1 THEN k - 1 - 1 + 1 ELSE 0
          /\ \A i \in 1 .. k - 1 - 1 + 1 : front[i] = seq[1 + i - 1]
      BY <1>1, <3>1, SubSeqProperties
    <3>3. QED
      BY <1>1, <3>2
  <2>4. back \in Seq(S) /\ Len(back) = Len(seq) - k
        /\ \A i \in 1 .. Len(seq) - k : back[i] = seq[k + i]
    <3>1. \A i \in k + 1 .. Len(seq) : seq[i] \in S
      BY <1>1, <2>2
    <3>2. /\ back \in Seq(S) /\ Len(back) = IF k + 1 <= Len(seq) THEN Len(seq) - (k + 1) + 1 ELSE 0
          /\ \A i \in 1 .. Len(seq) - (k + 1) + 1 : back[i] = seq[k + 1 + i - 1]
      BY <1>1, <3>1, SubSeqProperties
    <3>3. \A i \in 1 .. Len(seq) - k : i \in 1 .. Len(seq) - (k + 1) + 1 /\ k + 1 + i - 1 = k + i
      BY <1>1
    <3> HIDE DEF back
    <3>4. Len(back) = Len(seq) - k
      <4>1. Len(back) = IF k + 1 <= Len(seq) THEN Len(seq) - (k + 1) + 1 ELSE 0
        BY <3>2
      <4>2. Len(seq) \in Nat
        BY <1>1
      <4> HIDE DEF front, new
      <4>3. QED
        BY <4>1, <4>2
    <3>5. QED
      BY <3>2, <3>3, <3>4
  <2> HIDE DEF front, back
  <2>5. new \in Seq(S) /\ Len(new) = Len(seq) - 1
        /\ \A i \in 1 .. Len(seq) - 1 : new[i] = IF i < k THEN seq[i] ELSE seq[i + 1]
    <3>1. /\ new \in Seq(S) /\ Len(new) = Len(front) + Len(back)
          /\ \A i \in 1 .. Len(front) + Len(back) :
               new[i] = IF i <= Len(front) THEN front[i] ELSE back[i - Len(front)]
      BY <2>3, <2>4, ConcatProperties
    <3> HIDE DEF new
    <3>2. Len(new) = Len(seq) - 1 /\ Len(front) + Len(back) = Len(seq) - 1
      BY <1>1, <2>3, <2>4, <3>1
    <3>3. ASSUME NEW i \in 1 .. Len(seq) - 1
          PROVE  new[i] = IF i < k THEN seq[i] ELSE seq[i + 1]
      <4>0. new[i] = IF i <= k - 1 THEN front[i] ELSE back[i - (k - 1)]
        BY <2>3, <3>1, <3>2
      <4>1. CASE i < k
        <5>1. front[i] = seq[i]
          BY <1>1, <2>3, <4>1
        <5>2. QED
          BY <1>1, <4>0, <4>1, <5>1
      <4>2. CASE i >= k
        <5>1. i - (k - 1) \in 1 .. Len(seq) - k /\ k + (i - (k - 1)) = i + 1
          BY <1>1, <4>2
        <5>2. new[i] = back[i - (k - 1)]
          BY <1>1, <4>0, <4>2
        <5>3. QED
          <6>1. back[i - (k - 1)] = seq[k + (i - (k - 1))]
            BY <2>4, <5>1
          <6>2. QED
            BY <1>1, <4>2, <5>1, <5>2, <6>1
      <4>3. QED
        BY <1>1, <4>1, <4>2
    <3>4. QED
      BY <3>1, <3>2, <3>3
  <2> HIDE DEF new
  <2>6. DOMAIN new = 1 .. Len(seq) - 1 /\ Range(new) = {new[i] : i \in 1 .. Len(seq) - 1}
    BY <2>5, LenProperties, RangeEquality
  <2>7. IsInjective(new)
    <3>1. SUFFICES ASSUME NEW a \in 1 .. Len(seq) - 1, NEW b \in 1 .. Len(seq) - 1, new[a] = new[b]
                   PROVE  a = b
      BY <2>6 DEF IsInjective
    <3> DEFINE At(i) == IF i < k THEN i ELSE i + 1
    <3>2. At(a) \in 1 .. Len(seq) /\ At(b) \in 1 .. Len(seq)
      BY <1>1
    <3>3. new[a] = seq[At(a)] /\ new[b] = seq[At(b)]
      BY <2>5
    <3>4. At(a) = At(b)
      BY <1>1, <3>1, <3>2, <3>3 DEF IsInjective
    <3>5. QED
      BY <1>1, <3>4
  <2>8. Range(new) = Range(seq) \ {e}
    <3>1. \A x \in Range(new) : x \in Range(seq) \ {e}
      BY <1>1, <1>2, <2>0, <2>5, <2>6 DEF IsInjective
    <3>2. ASSUME NEW x \in Range(seq), x # e PROVE x \in Range(new)
      <4>1. PICK j \in 1 .. Len(seq) : x = seq[j]
        BY <1>2
      <4>2. CASE j < k
        BY <1>1, <2>5, <2>6, <4>1, <4>2
      <4>3. CASE j > k
        <5>1. j - 1 \in 1 .. Len(seq) - 1 /\ new[j - 1] = seq[j]
          BY <1>1, <2>5, <4>3
        <5>2. QED
          BY <2>6, <4>1, <5>1
      <4>4. QED
        BY <1>1, <2>0, <3>2, <4>1, <4>2, <4>3
    <3>3. QED
      BY <3>1, <3>2
  <2>9. QED
    BY <2>1, <2>5, <2>7, <2>8
<1>5. QED
  BY <1>3, <1>4

----------------------------------------------------------------------------
(* The inductive invariant. *)

Places == 0 .. BufferLength - 1
Text == Char \cup {Nothing}

WalkStates ==
  [step : {"store", "advance"}, to : Seq(Stream), pgn : Pgn, length : LineLengths,
   i : 1 .. BufferLength]
WriterStates ==
  {Idle} \cup [step : {"encoded"}, pgn : Pgn, length : LineLengths] \cup WalkStates
AsyncStates ==
  {Idle}
  \cup [step : {"copy", "test"}, s : Stream, n : 1 .. MaxChunk]
  \cup [step : {"free"}, s : Stream]

Walking == writer.step \in {"store", "advance"}

\* Nothing is written before a message has been sent, nor past its separator.
WriterSound ==
  /\ writer # Idle => lines \in Nat \ {0}
  /\ Walking => writer.to # <<>> /\ writer.i <= writer.length + 1

StreamsTypeOK ==
  /\ list \in Seq(Stream) /\ open \subseteq Stream
  /\ pgns \in [Stream -> Filters \cup {{}}]
  /\ ring \in [Stream -> [Places -> Text]]
  /\ wpos \in [Stream -> Places] /\ start \in [Stream -> Places]
  /\ writer \in WriterStates /\ async \in AsyncStates
  /\ lines \in 0 .. MaxLines
  /\ written \in [Stream -> Seq(Char)] /\ received \in [Stream -> Seq(Text)]
  /\ overrun \subseteq Stream /\ (overrun # {} => lines \in Nat \ {0})
  /\ WriterSound

\* The walk is over responses that are in the list, and the one async_tcp is
\* about to free is not.
ListInv ==
  /\ Range(list) \subseteq open
  /\ IsInjective(list)
  /\ Walking => Range(writer.to) \subseteq Range(list)
  /\ async.step = "free" => async.s \in open \ Range(list)

\* The ring of a stream whose writer has not caught up with its reader: both positions
\* say how many characters have passed, and what lies between them is still there.
RingInv(s) ==
  LET w == Len(written[s])
      r == Len(received[s])
  IN  /\ r <= w /\ w < r + BufferLength
      /\ wpos[s] = w % BufferLength
      /\ start[s] = r % BufferLength
      /\ \A k \in r + 1 .. w : ring[s][(k - 1) % BufferLength] = written[s][k]
      /\ async.step = "copy" /\ async.s = s => r < w

\* The character that is stored and not yet published.
StoredInv == writer.step = "advance" => ring[Head(writer.to)][wpos[Head(writer.to)]] = Current

StreamsInv ==
  /\ StreamsTypeOK
  /\ ListInv
  /\ \A s \in Stream \ overrun : RingInv(s)
  /\ StoredInv

(* Initially nothing is listed, written or read. *)
LEMMA StreamsInitially == Init => StreamsInv
<1>1. SUFFICES ASSUME Init PROVE StreamsInv
  OBVIOUS
<1>2. Range(<<>>) = {} /\ IsInjective(<<>>) /\ Len(<<>>) = 0
  BY DEF Range, IsInjective
<1>3. 0 % BufferLength = 0 /\ 0 \in Places
  BY StreamAssumption, PlaceSmall DEF Places
<1>4. StreamsTypeOK
  BY <1>1, <1>3, StreamAssumption
  DEF Init, StreamsTypeOK, WriterStates, AsyncStates, Idle, WriterSound, Walking, Text, Places
<1>5. ListInv
  BY <1>1, <1>2 DEF Init, ListInv, Walking, Idle
<1>6. ASSUME NEW s \in Stream PROVE RingInv(s)
  <2>1. written[s] = <<>> /\ received[s] = <<>> /\ wpos[s] = 0 /\ start[s] = 0 /\ async.step = "idle"
    BY <1>1 DEF Init, Idle
  <2>2. QED
    BY <1>2, <1>3, <2>1, StreamAssumption DEF RingInv
<1>7. StoredInv
  BY <1>1 DEF Init, StoredInv, Idle
<1>8. QED
  BY <1>4, <1>5, <1>6, <1>7 DEF StreamsInv

(* A step that leaves the rings alone, and begins no read, keeps what they hold. *)
LEMMA RingsKept ==
  ASSUME StreamsInv, UNCHANGED <<ringVars, readVars, ghostVars>>,
         async'.step = "copy" => async = async'
  PROVE  \A s \in Stream \ overrun' : RingInv(s)'
BY DEF StreamsInv, RingInv, ringVars, readVars, ghostVars

(* Every message fits into a ring. *)
LEMMA LengthsFit == \A length \in LineLengths : length \in Nat /\ length + 1 \in 1 .. BufferLength
BY StreamAssumption

(* The positions of a ring stay in it. *)
LEMMA AfterIsPlace == \A p \in Places : After(p) \in Places
<1>1. SUFFICES ASSUME NEW p \in Places PROVE After(p) \in Places
  OBVIOUS
<1>2. p + 1 \in Nat /\ BufferLength \in Nat \ {0}
  BY StreamAssumption DEF Places
<1>3. QED
  BY <1>2, Quotient DEF After, Places

(* The walk goes on with fewer streams, or is over. *)
LEMMA WritingIsWalk ==
  ASSUME NEW to \in Seq(Stream), NEW pgn \in Pgn, NEW length \in LineLengths
  PROVE  /\ Writing(to, pgn, length) \in WriterStates
         /\ \/ Writing(to, pgn, length) = Idle
            \/ /\ to # <<>>
               /\ Writing(to, pgn, length) = [step |-> "store", to |-> to, pgn |-> pgn,
                                              length |-> length, i |-> 1]
<1>1. CASE to = <<>>
  BY <1>1 DEF Writing, WriterStates, WalkStates
<1>2. CASE to # <<>>
  <2>1. 1 \in 1 .. BufferLength
    BY StreamAssumption
  <2>2. QED
    BY <1>2, <2>1 DEF Writing, WriterStates, WalkStates
<1>3. QED
  BY <1>1, <1>2

(* A step of the writer that touches no ring keeps the types. *)
LEMMA TypesKept ==
  ASSUME StreamsInv, writer' \in WriterStates, WriterSound',
         UNCHANGED <<openVars, ringVars, readVars, async, lines, ghostVars>>
  PROVE  StreamsTypeOK'
BY DEF StreamsInv, StreamsTypeOK, openVars, ringVars, readVars, ghostVars

(* What the writer is in each of its steps. *)
LEMMA WriterIs ==
  ASSUME writer \in WriterStates
  PROVE  /\ writer.step = "encoded" => writer.pgn \in Pgn /\ writer.length \in LineLengths
         /\ Walking => /\ writer.to \in Seq(Stream) /\ writer.pgn \in Pgn
                       /\ writer.length \in LineLengths /\ writer.i \in 1 .. BufferLength
                       /\ writer \in WalkStates
         /\ writer.step \in {"idle", "encoded", "store", "advance"}
         /\ writer.step = "idle" => writer = Idle
         /\ writer = Idle => writer.step = "idle"
BY DEF WriterStates, WalkStates, Walking, Idle

\* acceptSeaSmart(): a line is offered, and no stream is touched.
LEMMA OfferKeeps ==
  ASSUME StreamsInv, NEW pgn \in Pgn, NEW length \in LineLengths, Offer(pgn, length)
  PROVE  StreamsInv'
<1>1. writer' \in WriterStates /\ writer'.step \in {"idle", "encoded"} /\ lines' \in 1 .. MaxLines
  BY StreamAssumption DEF Offer, StreamsInv, StreamsTypeOK, WriterStates, Idle
<1>2. StreamsTypeOK'
  BY <1>1, StreamAssumption
  DEF Offer, StreamsInv, StreamsTypeOK, WriterSound, Walking, openVars, ringVars, readVars, ghostVars
<1>3. ListInv'
  BY <1>1 DEF Offer, StreamsInv, ListInv, Walking, openVars
<1>4. \A s \in Stream \ overrun' : RingInv(s)'
  BY RingsKept DEF Offer
<1>5. StoredInv'
  BY <1>1 DEF StoredInv
<1>6. QED
  BY <1>2, <1>3, <1>4, <1>5 DEF StreamsInv

\* sendSeaSmart() takes the mutex and the list with it.
LEMMA SendBeginKeeps ==
  ASSUME StreamsInv, SendBegin
  PROVE  StreamsInv'
<1>1. writer.pgn \in Pgn /\ writer.length \in LineLengths /\ list \in Seq(Stream)
  BY WriterIs DEF SendBegin, StreamsInv, StreamsTypeOK
<1>2. /\ writer' \in WriterStates
      /\ writer' = Idle \/ (list # <<>> /\ writer' = [step |-> "store", to |-> list,
                              pgn |-> writer.pgn, length |-> writer.length, i |-> 1])
  BY <1>1, WritingIsWalk DEF SendBegin
<1>3. lines \in Nat \ {0} /\ lines' = lines
  BY DEF SendBegin, StreamsInv, StreamsTypeOK, WriterSound, Idle
<1>4. WriterSound'
  <2>1. writer.length \in Nat
    BY <1>1, LengthsFit
  <2>2. CASE writer' = Idle
    BY <2>2 DEF WriterSound, Walking, Idle
  <2>3. CASE writer' # Idle
    <3>1. writer'.to = list /\ writer'.i = 1 /\ writer'.length = writer.length /\ list # <<>>
      BY <1>2, <2>3
    <3>2. QED
      BY <1>3, <2>1, <3>1 DEF WriterSound
  <2>4. QED
    BY <2>2, <2>3
<1>5. StreamsTypeOK'
  BY <1>2, <1>4, TypesKept DEF SendBegin
<1>6. ListInv'
  BY <1>2 DEF SendBegin, StreamsInv, ListInv, Walking, Idle, openVars
<1>7. \A s \in Stream \ overrun' : RingInv(s)'
  BY RingsKept DEF SendBegin
<1>8. StoredInv'
  BY <1>2 DEF StoredInv, Idle
<1>9. QED
  BY <1>5, <1>6, <1>7, <1>8 DEF StreamsInv

\* A stream that does not want the line is passed over.
LEMMA SkipKeeps ==
  ASSUME StreamsInv, Skip
  PROVE  StreamsInv'
<1>1. /\ writer.pgn \in Pgn /\ writer.length \in LineLengths
      /\ writer.to \in Seq(Stream) /\ writer.to # <<>>
  BY WriterIs DEF Skip, StreamsInv, StreamsTypeOK, WriterSound, Walking
<1> DEFINE rest == Tail(writer.to)
<1>2. rest \in Seq(Stream) /\ Range(rest) \subseteq Range(writer.to)
  BY <1>1, HeadTailProperties, RangeOfTail
<1>3. writer' = Writing(rest, writer.pgn, writer.length)
  BY DEF Skip
<1> HIDE DEF rest
<1>4. /\ writer' \in WriterStates
      /\ writer' = Idle \/ (rest # <<>> /\ writer' = [step |-> "store", to |-> rest,
                              pgn |-> writer.pgn, length |-> writer.length, i |-> 1])
  BY <1>1, <1>2, <1>3, WritingIsWalk
<1>5. lines \in Nat \ {0} /\ lines' = lines
  BY DEF Skip, StreamsInv, StreamsTypeOK, WriterSound, Idle
<1>6. WriterSound'
  <2>1. writer.length \in Nat
    BY <1>1, LengthsFit
  <2>2. CASE writer' = Idle
    BY <2>2 DEF WriterSound, Walking, Idle
  <2>3. CASE writer' # Idle
    <3>1. writer'.to = rest /\ writer'.i = 1 /\ writer'.length = writer.length /\ rest # <<>>
      BY <1>4, <2>3
    <3>2. QED
      BY <1>5, <2>1, <3>1 DEF WriterSound
  <2>4. QED
    BY <2>2, <2>3
<1>7. StreamsTypeOK'
  BY <1>4, <1>6, TypesKept DEF Skip
<1>8. ListInv'
  BY <1>2, <1>4 DEF Skip, StreamsInv, ListInv, Walking, Idle, openVars
<1>9. \A s \in Stream \ overrun' : RingInv(s)'
  BY RingsKept DEF Skip
<1>10. StoredInv'
  BY <1>4 DEF StoredInv, Idle
<1>11. QED
  BY <1>7, <1>8, <1>9, <1>10 DEF StreamsInv

\* A character is stored, and not yet published.
LEMMA StoreKeeps ==
  ASSUME StreamsInv, Store
  PROVE  StreamsInv'
<1> DEFINE s == Head(writer.to)
<1>1. /\ Walking /\ writer.length \in LineLengths /\ writer.i \in 1 .. BufferLength
      /\ writer.to \in Seq(Stream) /\ writer.to # <<>> /\ writer.i <= writer.length + 1
      /\ lines \in 1 .. MaxLines
  BY WriterIs, StreamAssumption DEF Store, StreamsInv, StreamsTypeOK, WriterSound, Walking, Idle
<1>2. s \in Stream
  BY <1>1, HeadTailProperties
<1>3. Current \in Char
  BY <1>1, StreamAssumption DEF Current, Char
<1>4. wpos[s] \in Places /\ ring[s] \in [Places -> Text]
  BY <1>2 DEF StreamsInv, StreamsTypeOK
<1> HIDE DEF s
<1>5. /\ ring' = [ring EXCEPT ![s] = [ring[s] EXCEPT ![wpos[s]] = Current]]
      /\ writer' = [writer EXCEPT !.step = "advance"]
      /\ UNCHANGED <<openVars, wpos, readVars, async, lines, ghostVars>>
  BY DEF Store, s
<1>6. /\ ring' \in [Stream -> [Places -> Text]]
      /\ \A u \in Stream : u # s => ring'[u] = ring[u]
      /\ ring'[s][wpos[s]] = Current
      /\ \A p \in Places : p # wpos[s] => ring'[s][p] = ring[s][p]
  BY <1>2, <1>3, <1>4, <1>5 DEF StreamsInv, StreamsTypeOK, Text
<1>7. /\ writer' \in WriterStates /\ writer'.step = "advance" /\ writer'.to = writer.to
      /\ writer'.length = writer.length /\ writer'.i = writer.i
  <2>1. writer \in WalkStates
    BY <1>1, WriterIs DEF StreamsInv, StreamsTypeOK
  <2>2. QED
    BY <1>5, <2>1 DEF WriterStates, WalkStates
<1>8. StreamsTypeOK'
  BY <1>1, <1>5, <1>6, <1>7
  DEF StreamsInv, StreamsTypeOK, WriterSound, Walking, openVars, readVars, ghostVars
<1>9. ListInv'
  BY <1>1, <1>5, <1>7 DEF StreamsInv, ListInv, Walking, openVars
<1>10. ASSUME NEW u \in Stream \ overrun' PROVE RingInv(u)'
  <2>1. RingInv(u) /\ written[u] \in Seq(Char) /\ received[u] \in Seq(Text)
    BY <1>5 DEF StreamsInv, StreamsTypeOK, ghostVars
  <2>2. UNCHANGED <<written[u], received[u], wpos[u], start[u], async>>
    BY <1>5 DEF readVars, ghostVars
  <2>3. CASE u # s
    BY <1>6, <2>1, <2>2, <2>3 DEF RingInv
  <2>4. CASE u = s
    <3> DEFINE w == Len(written[u])
               r == Len(received[u])
    <3>1. w \in Nat /\ r \in Nat /\ w < r + BufferLength /\ wpos[u] = w % BufferLength
      BY <2>1 DEF RingInv
    <3>2. ASSUME NEW k \in r + 1 .. w
          PROVE  ring'[u][(k - 1) % BufferLength] = ring[u][(k - 1) % BufferLength]
      <4>1. k - 1 \in Nat /\ k - 1 < w /\ w < k - 1 + BufferLength
        BY <3>1, StreamAssumption
      <4>2. (k - 1) % BufferLength # w % BufferLength
        BY <3>1, <4>1, StreamAssumption, PlacesApart
      <4>3. (k - 1) % BufferLength \in Places
        BY <4>1, StreamAssumption, Quotient DEF Places
      <4>4. QED
        BY <1>6, <2>4, <3>1, <4>2, <4>3
    <3>3. QED
      BY <2>1, <2>2, <3>2 DEF RingInv
  <2>5. QED
    BY <2>3, <2>4
<1>11. StoredInv'
  <2>1. Head(writer'.to) = s /\ wpos' = wpos
    BY <1>5, <1>7 DEF s
  <2>2. Current' = Current
    BY <1>5, <1>7 DEF Current
  <2>3. QED
    BY <1>6, <2>1, <2>2 DEF StoredInv
<1>12. QED
  BY <1>8, <1>9, <1>10, <1>11 DEF StreamsInv

\* It is published, and may overwrite one that was not read.
LEMMA AdvanceKeeps ==
  ASSUME StreamsInv, Advance
  PROVE  StreamsInv'
<1> DEFINE s == Head(writer.to)
           w == Len(written[s])
           r == Len(received[s])
           rest == Tail(writer.to)
<1>1. /\ Walking /\ writer \in WalkStates /\ writer.pgn \in Pgn
      /\ writer.length \in LineLengths /\ writer.i \in 1 .. BufferLength
      /\ writer.to \in Seq(Stream) /\ writer.to # <<>> /\ writer.i <= writer.length + 1
      /\ lines \in 1 .. MaxLines
  BY WriterIs, StreamAssumption DEF Advance, StreamsInv, StreamsTypeOK, WriterSound, Walking, Idle
<1>2. s \in Stream /\ rest \in Seq(Stream) /\ Range(rest) \subseteq Range(writer.to)
  BY <1>1, HeadTailProperties, RangeOfTail
<1>3. Current \in Char
  BY <1>1, StreamAssumption DEF Current, Char
<1>4. /\ wpos[s] \in Places /\ start[s] \in Places
      /\ written[s] \in Seq(Char) /\ received[s] \in Seq(Text)
  BY <1>2 DEF StreamsInv, StreamsTypeOK
<1>5. writer.length \in Nat /\ writer.length + 1 \in 1 .. BufferLength
  BY <1>1, LengthsFit
<1>6. After(wpos[s]) \in Places
  BY <1>4, AfterIsPlace
<1>7. ring[s][wpos[s]] = Current
  BY DEF Advance, StreamsInv, StoredInv
<1>8. /\ wpos' = [wpos EXCEPT ![s] = After(wpos[s])]
      /\ writer' = IF writer.i <= writer.length
                   THEN [writer EXCEPT !.step = "store", !.i = @ + 1]
                   ELSE Writing(rest, writer.pgn, writer.length)
      /\ written' = [written EXCEPT ![s] = Append(written[s], Current)]
      /\ overrun' = IF After(wpos[s]) = start[s] THEN overrun \cup {s} ELSE overrun
      /\ UNCHANGED <<openVars, ring, readVars, async, lines>>
  BY DEF Advance
<1> HIDE DEF s, rest
<1>9. /\ writer' \in WriterStates /\ writer'.step \in {"idle", "store"} /\ WriterSound'
      /\ writer'.step = "store" => writer'.to \in {writer.to, rest}
  <2>1. CASE writer.i <= writer.length
    <3>1. /\ writer' \in WalkStates /\ writer'.step = "store" /\ writer'.to = writer.to
          /\ writer'.i = writer.i + 1 /\ writer'.length = writer.length
      <4>1. writer.i + 1 \in 1 .. BufferLength
        BY <1>1, <1>5, <2>1, StreamAssumption
      <4>2. writer' = [writer EXCEPT !.step = "store", !.i = @ + 1]
        BY <1>8, <2>1
      <4>3. QED
        BY <1>1, <4>1, <4>2 DEF WalkStates
    <3>2. WriterSound'
      BY <1>1, <1>5, <1>8, <2>1, <3>1 DEF WriterSound
    <3>3. QED
      BY <3>1, <3>2 DEF WriterStates
  <2>2. CASE ~(writer.i <= writer.length)
    <3>1. /\ writer' \in WriterStates
          /\ writer' = Idle \/ (rest # <<>> /\ writer' = [step |-> "store", to |-> rest,
                                  pgn |-> writer.pgn, length |-> writer.length, i |-> 1])
      BY <1>1, <1>2, <1>8, <2>2, WritingIsWalk
    <3>2. CASE writer' = Idle
      BY <3>1, <3>2 DEF WriterSound, Walking, Idle
    <3>3. CASE writer' # Idle
      <4>1. /\ writer'.step = "store" /\ writer'.to = rest /\ rest # <<>>
            /\ writer'.i = 1 /\ writer'.length = writer.length
        BY <3>1, <3>3
      <4>2. QED
        BY <1>1, <1>5, <1>8, <3>1, <4>1 DEF WriterSound
    <3>4. QED
      BY <3>2, <3>3
  <2>3. QED
    BY <2>1, <2>2
<1>10. /\ written' \in [Stream -> Seq(Char)]
       /\ \A u \in Stream : u # s => written'[u] = written[u] /\ wpos'[u] = wpos[u]
       /\ written'[s] = Append(written[s], Current) /\ wpos'[s] = After(wpos[s])
       /\ wpos' \in [Stream -> Places]
  <2>1. Append(written[s], Current) \in Seq(Char)
    BY <1>3, <1>4, AppendProperties
  <2>2. QED
    BY <1>2, <1>6, <1>8, <2>1 DEF StreamsInv, StreamsTypeOK
<1>11. overrun' \subseteq Stream /\ lines \in Nat \ {0}
  BY <1>1, <1>2, <1>8, StreamAssumption DEF StreamsInv, StreamsTypeOK
<1>12. StreamsTypeOK'
  BY <1>8, <1>9, <1>10, <1>11 DEF StreamsInv, StreamsTypeOK, openVars, readVars
<1>13. ListInv'
  BY <1>1, <1>2, <1>8, <1>9 DEF StreamsInv, ListInv, Walking, openVars
<1>14. ASSUME NEW u \in Stream \ overrun' PROVE RingInv(u)'
  <2>1. u \notin overrun /\ RingInv(u) /\ written[u] \in Seq(Char) /\ received[u] \in Seq(Text)
    BY <1>8 DEF StreamsInv, StreamsTypeOK
  <2>2. UNCHANGED <<ring[u], received[u], start[u], async>>
    BY <1>8 DEF readVars
  <2>3. CASE u # s
    BY <1>10, <2>1, <2>2, <2>3 DEF RingInv
  <2>4. CASE u = s
    <3>1. w \in Nat /\ r \in Nat /\ r <= w /\ w < r + BufferLength
          /\ wpos[s] = w % BufferLength /\ start[s] = r % BufferLength
      BY <2>1, <2>4 DEF RingInv
    <3>2. /\ Len(written'[s]) = w + 1 /\ written'[s][w + 1] = Current
          /\ \A k \in 1 .. w : written'[s][k] = written[s][k]
      BY <1>3, <1>4, <1>10, AppendProperties
    <3>3. wpos'[s] = (w + 1) % BufferLength
      BY <1>10, <3>1, StreamAssumption, PlaceAfter DEF After
    <3>4. w + 1 < r + BufferLength
      <4>1. (w + 1) % BufferLength # r % BufferLength
        BY <1>8, <1>10, <2>4, <3>1, <3>3
      <4>2. w + 1 # r + BufferLength
        BY <3>1, <4>1, StreamAssumption, PlaceRound
      <4>3. QED
        BY <3>1, <4>2, StreamAssumption
    <3> HIDE DEF w, r
    <3>5. ASSUME NEW k \in r + 1 .. w + 1
          PROVE  ring[s][(k - 1) % BufferLength] = written'[s][k]
      <4>1. CASE k = w + 1
        BY <1>7, <3>1, <3>2, <4>1
      <4>2. CASE k # w + 1
        <5>1. k \in r + 1 .. w /\ k \in 1 .. w
          BY <3>1, <4>2
        <5>2. QED
          BY <2>1, <2>4, <3>2, <5>1 DEF RingInv, w, r
      <4>3. QED
        BY <4>1, <4>2
    <3>6. async.step = "copy" /\ async.s = s => r < w + 1
      BY <3>1
    <3>7. /\ Len(written'[u]) = w + 1 /\ Len(received'[u]) = r /\ r <= w + 1
          /\ wpos'[u] = (w + 1) % BufferLength /\ start'[u] = r % BufferLength
          /\ \A k \in r + 1 .. w + 1 : ring'[u][(k - 1) % BufferLength] = written'[u][k]
          /\ async'.step = "copy" /\ async'.s = u => r < w + 1
      BY <2>2, <2>4, <3>1, <3>2, <3>3, <3>5, <3>6 DEF r
    <3>8. QED
      BY <3>4, <3>7 DEF RingInv
  <2>5. QED
    BY <2>3, <2>4
<1>15. StoredInv'
  BY <1>9 DEF StoredInv
<1>16. QED
  BY <1>12, <1>13, <1>14, <1>15 DEF StreamsInv

(* A response that is opened, or freed, has an empty ring. *)
LEMMA OpenedRings ==
  ASSUME StreamsInv, NEW s \in Stream, Opened(s), ring' = ring,
         async'.step \in {"idle"}
  PROVE  /\ written' \in [Stream -> Seq(Char)] /\ received' \in [Stream -> Seq(Text)]
         /\ wpos' \in [Stream -> Places] /\ start' \in [Stream -> Places]
         /\ overrun' \subseteq overrun
         /\ \A u \in Stream \ overrun' : RingInv(u)'
<1>1. 0 % BufferLength = 0 /\ 0 \in Places
  BY StreamAssumption, PlaceSmall DEF Places
<1>2. <<>> \in Seq(Char) /\ <<>> \in Seq(Text) /\ Len(<<>>) = 0
  BY EmptySeq
<1>3. /\ wpos' = [wpos EXCEPT ![s] = 0] /\ start' = [start EXCEPT ![s] = 0]
      /\ written' = [written EXCEPT ![s] = <<>>] /\ received' = [received EXCEPT ![s] = <<>>]
      /\ overrun' = overrun \ {s}
  BY DEF Opened
<1>4. /\ written \in [Stream -> Seq(Char)] /\ received \in [Stream -> Seq(Text)]
      /\ wpos \in [Stream -> Places] /\ start \in [Stream -> Places]
  BY DEF StreamsInv, StreamsTypeOK
<1>5. /\ written' \in [Stream -> Seq(Char)] /\ received' \in [Stream -> Seq(Text)]
      /\ wpos' \in [Stream -> Places] /\ start' \in [Stream -> Places]
      /\ written'[s] = <<>> /\ received'[s] = <<>> /\ wpos'[s] = 0 /\ start'[s] = 0
      /\ \A u \in Stream : u # s => /\ written'[u] = written[u] /\ received'[u] = received[u]
                                    /\ wpos'[u] = wpos[u] /\ start'[u] = start[u]
  BY <1>1, <1>2, <1>3, <1>4
<1>6. ASSUME NEW u \in Stream \ overrun' PROVE RingInv(u)'
  <2>1. CASE u = s
    BY <1>1, <1>2, <1>5, <2>1, StreamAssumption DEF RingInv
  <2>2. CASE u # s
    BY <1>3, <1>5, <2>2 DEF StreamsInv, RingInv
  <2>3. QED
    BY <2>1, <2>2
<1>7. QED
  BY <1>3, <1>5, <1>6

\* A client connects: its ring is empty.
LEMMA OpenKeeps ==
  ASSUME StreamsInv, NEW s \in Stream, NEW filter \in Filters, Open(s, filter)
  PROVE  StreamsInv'
<1>1. /\ async = Idle /\ ~Walking /\ s \notin open
      /\ open' = open \cup {s} /\ pgns' = [pgns EXCEPT ![s] = filter]
      /\ list' = Append(list, s) /\ Opened(s)
      /\ UNCHANGED <<ring, writer, async, lines>>
  BY DEF Open, MutexFree, Walking, Listed
<1>2. /\ written' \in [Stream -> Seq(Char)] /\ received' \in [Stream -> Seq(Text)]
      /\ wpos' \in [Stream -> Places] /\ start' \in [Stream -> Places]
      /\ overrun' \subseteq overrun
      /\ \A u \in Stream \ overrun' : RingInv(u)'
  BY <1>1, OpenedRings DEF Idle
<1>3. list \in Seq(Stream) /\ Range(list) \subseteq open /\ IsInjective(list) /\ s \notin Range(list)
  BY <1>1 DEF StreamsInv, StreamsTypeOK, ListInv
<1>4. list' \in Seq(Stream) /\ Range(list') = Range(list) \cup {s} /\ IsInjective(list')
  BY <1>1, <1>3, AppendProperties, RangeOfAppend
<1>5. pgns' \in [Stream -> Filters \cup {{}}]
  BY <1>1 DEF StreamsInv, StreamsTypeOK
<1>6. StreamsTypeOK'
  BY <1>1, <1>2, <1>4, <1>5 DEF StreamsInv, StreamsTypeOK, WriterSound, Walking
<1>7. ListInv'
  BY <1>1, <1>3, <1>4 DEF ListInv, Walking, Idle
<1>8. StoredInv'
  BY <1>1 DEF StoredInv, Walking
<1>9. QED
  BY <1>2, <1>6, <1>7, <1>8 DEF StreamsInv

\* A response that is off the list is freed.
LEMMA FreeKeeps ==
  ASSUME StreamsInv, Free
  PROVE  StreamsInv'
<1>1. /\ async.step = "free" /\ async.s \in Stream
      /\ open' = open \ {async.s} /\ Opened(async.s) /\ async' = Idle
      /\ UNCHANGED <<list, pgns, ring, writer, lines>>
  BY DEF Free, StreamsInv, StreamsTypeOK, AsyncStates, Idle
<1>2. /\ written' \in [Stream -> Seq(Char)] /\ received' \in [Stream -> Seq(Text)]
      /\ wpos' \in [Stream -> Places] /\ start' \in [Stream -> Places]
      /\ overrun' \subseteq overrun
      /\ \A u \in Stream \ overrun' : RingInv(u)'
  BY <1>1, OpenedRings DEF Idle
<1>3. async.s \notin Range(list)
  BY <1>1 DEF StreamsInv, ListInv
<1>4. StreamsTypeOK'
  BY <1>1, <1>2 DEF StreamsInv, StreamsTypeOK, WriterSound, Walking, AsyncStates
<1>5. ListInv'
  BY <1>1, <1>3 DEF StreamsInv, ListInv, Walking, Idle
<1>6. StoredInv'
  <2>1. SUFFICES ASSUME writer.step = "advance"
                 PROVE  wpos'[Head(writer.to)] = wpos[Head(writer.to)]
    BY <1>1 DEF StreamsInv, StoredInv, Current
  <2>2. writer.to \in Seq(Stream) /\ writer.to # <<>> /\ Range(writer.to) \subseteq Range(list)
    BY <2>1, WriterIs DEF StreamsInv, StreamsTypeOK, ListInv, WriterSound, Walking
  <2>3. Head(writer.to) \in Stream /\ Head(writer.to) # async.s
    BY <1>3, <2>2, HeadTailProperties, RangeOfTail
  <2>4. wpos' = [wpos EXCEPT ![async.s] = 0] /\ wpos \in [Stream -> Places]
    BY <1>1 DEF Opened, StreamsInv, StreamsTypeOK
  <2>5. QED
    BY <2>3, <2>4
<1>7. QED
  BY <1>2, <1>4, <1>5, <1>6 DEF StreamsInv

\* A client has gone, and its response leaves the list.
LEMMA UnlinkKeeps ==
  ASSUME StreamsInv, NEW s \in Stream, Unlink(s)
  PROVE  StreamsInv'
<1>1. /\ async = Idle /\ ~Walking /\ s \in open
      /\ list' = RemoveFirst(list, s) /\ async' = [step |-> "free", s |-> s]
      /\ UNCHANGED <<open, pgns, ringVars, readVars, writer, lines, ghostVars>>
  BY DEF Unlink, MutexFree, Walking, Unlinked
<1>2. list \in Seq(Stream) /\ Range(list) \subseteq open /\ IsInjective(list)
  BY DEF StreamsInv, StreamsTypeOK, ListInv
<1>3. list' \in Seq(Stream) /\ Range(list') = Range(list) \ {s} /\ IsInjective(list')
  BY <1>1, <1>2, RangeOfRemoveFirst
<1>4. StreamsTypeOK'
  BY <1>1, <1>3
  DEF StreamsInv, StreamsTypeOK, WriterSound, Walking, AsyncStates, ringVars, readVars, ghostVars
<1>5. ListInv'
  BY <1>1, <1>2, <1>3 DEF ListInv, Walking
<1>6. \A u \in Stream \ overrun' : RingInv(u)'
  BY <1>1, RingsKept
<1>7. StoredInv'
  BY <1>1 DEF StoredInv, Walking
<1>8. QED
  BY <1>4, <1>5, <1>6, <1>7 DEF StreamsInv

\* end() empties the list.
LEMMA EndKeeps ==
  ASSUME StreamsInv, End
  PROVE  StreamsInv'
<1>1. /\ ~Walking /\ list' = <<>>
      /\ UNCHANGED <<open, pgns, ringVars, readVars, writer, async, lines, ghostVars>>
  BY DEF End, MutexFree, Walking
<1>2. <<>> \in Seq(Stream) /\ Range(<<>>) = {} /\ IsInjective(<<>>)
  BY EmptySeq DEF Range, IsInjective
<1>3. StreamsTypeOK'
  BY <1>1, <1>2
  DEF StreamsInv, StreamsTypeOK, WriterSound, Walking, ringVars, readVars, ghostVars
<1>4. ListInv'
  BY <1>1, <1>2 DEF StreamsInv, ListInv, Walking
<1>5. \A u \in Stream \ overrun' : RingInv(u)'
  BY <1>1, RingsKept
<1>6. StoredInv'
  BY <1>1 DEF StoredInv, Walking
<1>7. QED
  BY <1>3, <1>4, <1>5, <1>6 DEF StreamsInv

(* A reader that finds the ring not empty has a character to read. *)
LEMMA AvailableIsOwed ==
  ASSUME StreamsInv, NEW s \in Stream \ overrun, Available(s)
  PROVE  Len(received[s]) < Len(written[s])
<1>1. RingInv(s) /\ Len(received[s]) \in Nat /\ Len(written[s]) \in Nat
  BY LenProperties DEF StreamsInv, StreamsTypeOK
<1>2. Len(received[s]) # Len(written[s])
  BY <1>1 DEF Available, RingInv
<1>3. QED
  BY <1>1, <1>2 DEF RingInv

\* _fillBuffer() looks at what is published.
LEMMA FillBeginKeeps ==
  ASSUME StreamsInv, NEW s \in Stream, FillBegin(s)
  PROVE  StreamsInv'
<1>1. /\ async' = [step |-> "copy", s |-> s, n |-> 1] /\ Available(s)
      /\ UNCHANGED <<openVars, ringVars, readVars, writer, lines, ghostVars>>
  BY DEF FillBegin
<1>2. 1 \in 1 .. MaxChunk
  BY StreamAssumption
<1>3. StreamsTypeOK'
  BY <1>1, <1>2 DEF StreamsInv, StreamsTypeOK, WriterSound, Walking, AsyncStates,
                    openVars, ringVars, readVars, ghostVars
<1>4. ListInv'
  BY <1>1 DEF StreamsInv, ListInv, Walking, openVars
<1>5. ASSUME NEW u \in Stream \ overrun' PROVE RingInv(u)'
  <2>1. RingInv(u) /\ (u = s => Len(received[u]) < Len(written[u]))
    BY <1>1, AvailableIsOwed DEF StreamsInv, ghostVars
  <2>2. QED
    BY <1>1, <2>1 DEF RingInv, ringVars, readVars, ghostVars
<1>6. StoredInv'
  BY <1>1 DEF StreamsInv, StoredInv, Current, ringVars
<1>7. QED
  BY <1>3, <1>4, <1>5, <1>6 DEF StreamsInv

\* It goes on while there is room and something to read.
LEMMA FillOnKeeps ==
  ASSUME StreamsInv, FillOn
  PROVE  StreamsInv'
<1>1. /\ async.step = "test" /\ async.n < MaxChunk /\ Available(async.s)
      /\ async' = [async EXCEPT !.step = "copy", !.n = @ + 1]
      /\ UNCHANGED <<openVars, ringVars, readVars, writer, lines, ghostVars>>
  BY DEF FillOn
<1>2. async \in [step : {"copy", "test"}, s : Stream, n : 1 .. MaxChunk]
  BY <1>1 DEF StreamsInv, StreamsTypeOK, AsyncStates, Idle
<1>3. async.n + 1 \in 1 .. MaxChunk
  BY <1>1, <1>2, StreamAssumption
<1>4. /\ async' \in [step : {"copy", "test"}, s : Stream, n : 1 .. MaxChunk]
      /\ async'.step = "copy" /\ async'.s = async.s /\ async.s \in Stream
  BY <1>1, <1>2, <1>3
<1>5. StreamsTypeOK'
  BY <1>1, <1>4 DEF StreamsInv, StreamsTypeOK, WriterSound, Walking, AsyncStates,
                    openVars, ringVars, readVars, ghostVars
<1>6. ListInv'
  BY <1>1, <1>4 DEF StreamsInv, ListInv, Walking, openVars
<1>7. ASSUME NEW u \in Stream \ overrun' PROVE RingInv(u)'
  <2>1. RingInv(u) /\ (u = async.s => Len(received[u]) < Len(written[u]))
    BY <1>1, AvailableIsOwed DEF StreamsInv, ghostVars
  <2>2. QED
    BY <1>1, <1>4, <2>1 DEF RingInv, ringVars, readVars, ghostVars
<1>8. StoredInv'
  BY <1>1 DEF StreamsInv, StoredInv, Current, ringVars
<1>9. QED
  BY <1>5, <1>6, <1>7, <1>8 DEF StreamsInv

\* It hands over what it has copied.
LEMMA FillEndKeeps ==
  ASSUME StreamsInv, FillEnd
  PROVE  StreamsInv'
<1>1. /\ async' = Idle
      /\ UNCHANGED <<openVars, ringVars, readVars, writer, lines, ghostVars>>
  BY DEF FillEnd
<1>2. StreamsTypeOK'
  BY <1>1 DEF StreamsInv, StreamsTypeOK, WriterSound, Walking, AsyncStates,
              openVars, ringVars, readVars, ghostVars
<1>3. ListInv'
  BY <1>1 DEF StreamsInv, ListInv, Walking, openVars, Idle
<1>4. \A u \in Stream \ overrun' : RingInv(u)'
  BY <1>1, RingsKept DEF Idle
<1>5. StoredInv'
  BY <1>1 DEF StreamsInv, StoredInv, Current, ringVars
<1>6. QED
  BY <1>2, <1>3, <1>4, <1>5 DEF StreamsInv

(* What a read takes from a ring that has not overflowed is the next character of what *)
(* was written.                                                                         *)
LEMMA CopyIsNext ==
  ASSUME StreamsInv, Copy
  PROVE  /\ async.s \in Stream
         /\ ring[async.s][start[async.s]] \in Text
         /\ overrun # {} => ring[async.s][start[async.s]] \in Char
         /\ async.s \notin overrun =>
              /\ Len(received[async.s]) < Len(written[async.s])
              /\ ring[async.s][start[async.s]] = written[async.s][Len(received[async.s]) + 1]
              /\ ring[async.s][start[async.s]] \in Char
<1>1. async.step = "copy" /\ async \in [step : {"copy", "test"}, s : Stream, n : 1 .. MaxChunk]
  BY DEF Copy, StreamsInv, StreamsTypeOK, AsyncStates, Idle
<1> DEFINE s == async.s
           r == Len(received[s])
           w == Len(written[s])
<1>2. s \in Stream
  BY <1>1
<1>3. ring[s][start[s]] \in Text
  BY <1>2 DEF StreamsInv, StreamsTypeOK
<1>4. ASSUME overrun # {} PROVE Text \subseteq Char
  <2>1. MaxLines \in Nat \ {0}
    BY <1>4, StreamAssumption DEF StreamsInv, StreamsTypeOK
  <2>2. QED
    BY <2>1, StreamAssumption DEF Text, Char, Nothing
<1>5. ASSUME s \notin overrun
      PROVE  r < w /\ ring[s][start[s]] = written[s][r + 1] /\ written[s][r + 1] \in Char
  <2>1. RingInv(s) /\ written[s] \in Seq(Char) /\ received[s] \in Seq(Text)
    BY <1>2, <1>5 DEF StreamsInv, StreamsTypeOK
  <2>2. r \in Nat /\ w \in Nat
    BY <2>1, LenProperties
  <2>3. r < w
    BY <1>1, <2>1 DEF RingInv
  <2>4. r + 1 \in r + 1 .. w /\ r + 1 \in 1 .. w /\ r + 1 - 1 = r
    BY <2>2, <2>3
  <2>5. written[s][r + 1] \in Char
    BY <2>1, <2>4, ElementOfSeq
  <2>6. ring[s][r % BufferLength] = written[s][r + 1]
    BY <2>1, <2>4 DEF RingInv
  <2>7. QED
    BY <2>1, <2>3, <2>5, <2>6 DEF RingInv
<1>6. QED
  BY <1>2, <1>3, <1>4, <1>5

\* A character is copied, which may have been overwritten meanwhile.
LEMMA CopyKeeps ==
  ASSUME StreamsInv, Copy
  PROVE  StreamsInv'
<1> DEFINE s == async.s
           c == ring[s][start[s]]
<1>1. async \in [step : {"copy", "test"}, s : Stream, n : 1 .. MaxChunk]
  BY DEF Copy, StreamsInv, StreamsTypeOK, AsyncStates, Idle
<1>2. s \in Stream /\ c \in Text
  BY CopyIsNext
<1>3. s \notin overrun => Len(received[s]) < Len(written[s]) /\ c = written[s][Len(received[s]) + 1]
  BY CopyIsNext
<1>4. /\ received' = [received EXCEPT ![s] = Append(received[s], c)]
      /\ start' = [start EXCEPT ![s] = After(start[s])]
      /\ async' = [async EXCEPT !.step = "test"]
      /\ UNCHANGED <<openVars, ringVars, writer, lines, ghostVars>>
  BY DEF Copy
<1>5. /\ received[s] \in Seq(Text) /\ start[s] \in Places
      /\ received \in [Stream -> Seq(Text)] /\ start \in [Stream -> Places]
  BY <1>2 DEF StreamsInv, StreamsTypeOK
<1> HIDE DEF s, c
<1>6. Append(received[s], c) \in Seq(Text) /\ After(start[s]) \in Places
  BY <1>2, <1>5, AppendProperties, AfterIsPlace
<1>7. /\ received' \in [Stream -> Seq(Text)] /\ start' \in [Stream -> Places]
      /\ received'[s] = Append(received[s], c) /\ start'[s] = After(start[s])
      /\ \A u \in Stream : u # s => received'[u] = received[u] /\ start'[u] = start[u]
  BY <1>2, <1>4, <1>5, <1>6
<1>8. /\ async' \in [step : {"copy", "test"}, s : Stream, n : 1 .. MaxChunk]
      /\ async'.step = "test"
  BY <1>1, <1>4
<1>9. StreamsTypeOK'
  BY <1>4, <1>7, <1>8 DEF StreamsInv, StreamsTypeOK, WriterSound, Walking, AsyncStates,
                          openVars, ringVars, ghostVars
<1>10. ListInv'
  BY <1>4, <1>8 DEF StreamsInv, ListInv, Walking, openVars
<1>11. ASSUME NEW u \in Stream \ overrun' PROVE RingInv(u)'
  <2> DEFINE w == Len(written[u])
             r == Len(received[u])
  <2>1. u \notin overrun /\ RingInv(u) /\ written[u] \in Seq(Char) /\ received[u] \in Seq(Text)
    BY <1>4 DEF StreamsInv, StreamsTypeOK, ghostVars
  <2>2. UNCHANGED <<written[u], ring[u], wpos[u]>>
    BY <1>4 DEF ringVars, ghostVars
  <2>3. CASE u # s
    BY <1>7, <1>8, <2>1, <2>2, <2>3 DEF RingInv
  <2>4. CASE u = s
    <3>1. w \in Nat /\ r \in Nat /\ w < r + BufferLength /\ r < w
          /\ wpos[u] = w % BufferLength /\ start[u] = r % BufferLength
      BY <1>3, <2>1, <2>4, LenProperties DEF RingInv
    <3>2. Len(received'[u]) = r + 1
      BY <1>2, <1>5, <1>7, <2>4, AppendProperties
    <3>3. start'[u] = (r + 1) % BufferLength
      BY <1>7, <2>4, <3>1, StreamAssumption, PlaceAfter DEF After
    <3>4. \A k \in r + 1 .. w : ring[u][(k - 1) % BufferLength] = written[u][k]
      BY <2>1 DEF RingInv
    <3> HIDE DEF w, r
    <3>5. \A k \in r + 1 + 1 .. w : k \in r + 1 .. w
      BY <3>1
    <3>6. /\ Len(written'[u]) = w /\ wpos'[u] = w % BufferLength
          /\ r + 1 <= w /\ w < r + 1 + BufferLength
          /\ \A k \in r + 1 + 1 .. w : ring'[u][(k - 1) % BufferLength] = written'[u][k]
      BY <2>2, <3>1, <3>4, <3>5, StreamAssumption DEF w
    <3>7. QED
      BY <1>8, <3>2, <3>3, <3>6 DEF RingInv
  <2>5. QED
    BY <2>3, <2>4
<1>12. StoredInv'
  BY <1>4 DEF StreamsInv, StoredInv, Current, ringVars
<1>13. QED
  BY <1>9, <1>10, <1>11, <1>12 DEF StreamsInv

(* The invariant is inductive. *)
LEMMA StreamsInvariant == StreamsInv /\ [Next]_vars => StreamsInv'
<1> SUFFICES ASSUME StreamsInv, [Next]_vars PROVE StreamsInv'
  OBVIOUS
<1>1. ASSUME NEW pgn \in Pgn, NEW length \in LineLengths, Offer(pgn, length)
      PROVE  StreamsInv'
  BY <1>1, OfferKeeps
<1>2. CASE SendBegin
  BY <1>2, SendBeginKeeps
<1>3. CASE Skip
  BY <1>3, SkipKeeps
<1>4. CASE Store
  BY <1>4, StoreKeeps
<1>5. CASE Advance
  BY <1>5, AdvanceKeeps
<1>6. ASSUME NEW s \in Stream, FillBegin(s) PROVE StreamsInv'
  BY <1>6, FillBeginKeeps
<1>7. CASE Copy
  BY <1>7, CopyKeeps
<1>8. CASE FillOn
  BY <1>8, FillOnKeeps
<1>9. CASE FillEnd
  BY <1>9, FillEndKeeps
<1>10. ASSUME NEW s \in Stream, Unlink(s) PROVE StreamsInv'
  BY <1>10, UnlinkKeeps
<1>11. ASSUME NEW s \in Stream, NEW filter \in Filters, Open(s, filter) PROVE StreamsInv'
  BY <1>11, OpenKeeps
<1>12. CASE Free
  BY <1>12, FreeKeeps
<1>13. CASE End
  BY <1>13, EndKeeps
<1>14. CASE UNCHANGED vars
  <2>1. \A u \in Stream \ overrun' : RingInv(u)'
    BY <1>14, RingsKept DEF vars
  <2>2. QED
    BY <1>14, <2>1
    DEF vars, StreamsInv, StreamsTypeOK, WriterSound, Walking, ListInv, StoredInv, Current,
        openVars, ringVars, readVars, ghostVars
<1>15. QED
  BY <1>1, <1>2, <1>3, <1>4, <1>5, <1>6, <1>7, <1>8, <1>9, <1>10, <1>11, <1>12, <1>13, <1>14
  DEF Next, Write, Fill, Connections

\* The invariant of the streams holds in every state.
LEMMA StreamsAlways == Spec => []StreamsInv
<1>1. QED
  BY StreamsInitially, StreamsInvariant, PTL DEF Spec

----------------------------------------------------------------------------
(* The theorems. *)

(* addSeasmartResponse, removeSeasmartResponse and end() may come at any    *)
(* time from another task: as long as each takes seasmartMutex, and the     *)
(* walk of sendSeaSmart holds it to its end, no response is freed while it  *)
(* is in the list or is still to be written to, and none is listed twice.   *)
THEOREM ListIsSound == Spec => []ListSound
<1>1. StreamsInv => ListSound
  BY DEF StreamsInv, ListInv, ListSound, Walking
<1>2. QED
  BY <1>1, StreamsAlways, PTL

(* Each step of the ring is a step of the channel, or none of it. *)
LEMMA RingStepIsChannelStep ==
  StreamsInv /\ [Next]_vars => [Channel!Next]_<<written, received, overrun>>
<1> SUFFICES ASSUME StreamsInv, [Next]_vars
             PROVE  [Channel!Next]_<<written, received, overrun>>
  OBVIOUS
<1>1. CASE UNCHANGED <<written, received, overrun>>
  BY <1>1
<1>2. ASSUME Advance PROVE \E s \in Stream : Channel!Put(s)
  <2> DEFINE s == Head(writer.to)
  <2>1. /\ writer.to \in Seq(Stream) /\ writer.to # <<>> /\ lines \in 1 .. MaxLines
        /\ writer.length \in LineLengths /\ writer.i \in 1 .. BufferLength
    BY <1>2, WriterIs, StreamAssumption
    DEF Advance, StreamsInv, StreamsTypeOK, WriterSound, Walking, Idle
  <2>2. s \in Stream /\ Current \in Char
    BY <2>1, HeadTailProperties, StreamAssumption DEF Current, Char
  <2>3. /\ written' = [written EXCEPT ![s] = Append(@, Current)]
        /\ overrun' \in {overrun, overrun \cup {s}} /\ UNCHANGED received
    BY <1>2 DEF Advance, readVars
  <2>4. QED
    BY <2>2, <2>3 DEF Channel!Put
<1>3. ASSUME Copy PROVE \E s \in Stream : Channel!Get(s)
  <2> DEFINE s == async.s
             c == ring[s][start[s]]
  <2>1. s \in Stream /\ c \in Char
    BY <1>3, CopyIsNext
  <2>2. s \notin overrun => Len(received[s]) < Len(written[s]) /\ c = written[s][Len(received[s]) + 1]
    BY <1>3, CopyIsNext
  <2>3. received' = [received EXCEPT ![s] = Append(@, c)] /\ UNCHANGED <<written, overrun>>
    BY <1>3 DEF Copy, ghostVars
  <2>4. QED
    BY <2>1, <2>2, <2>3 DEF Channel!Get
<1>4. ASSUME NEW s \in Stream, Opened(s) PROVE Channel!Reset(s)
  BY <1>4 DEF Opened, Channel!Reset
<1>5. ASSUME Free PROVE async.s \in Stream /\ Opened(async.s)
  BY <1>5 DEF Free, StreamsInv, StreamsTypeOK, AsyncStates, Idle
<1>6. CASE Next /\ ~UNCHANGED <<written, received, overrun>>
  <2>1. \/ Advance \/ Copy \/ Free
        \/ \E s \in Stream, filter \in Filters : Open(s, filter)
    BY <1>6 DEF Next, Write, Fill, Connections, Offer, SendBegin, Skip, Store, FillBegin, FillOn,
                FillEnd, Unlink, End, readVars, ghostVars
  <2>2. QED
    BY <1>2, <1>3, <1>4, <1>5, <2>1 DEF Open, Channel!Next
<1>7. QED
  BY <1>1, <1>6 DEF vars, readVars, ghostVars

(* The unlocked ring of _fillBuffer and writeLine implements LineChannel,   *)
(* with what was published as what was sent: a client of which the ring has *)
(* not overflowed gets every character of every accepted line once, in the  *)
(* order and with the value it was written with, wherever the two cores are *)
(* interrupted and however clients come and go.                             *)
THEOREM RingIsChannel == Spec => StreamsKeepOrder
<1>1. Init => Channel!Init
  BY DEF Init, Channel!Init
<1>2. QED
  BY <1>1, RingStepIsChannelStep, StreamsAlways, PTL DEF Spec, StreamsKeepOrder, Channel!Spec
=============================================================================
