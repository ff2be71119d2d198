----------------------- MODULE TimestreamBufferProofs -----------------------
(***************************************************************************)
(* TimestreamBuffer for every lane, flush size, batch size and retry       *)
(* limit: the type invariant, the shape of the buffer, that no record of   *)
(* the lane is lost, that a bad record does not take its neighbours with   *)
(* it, and that payloads are first written in the order of the lane.       *)
(*                                                                         *)
(* NothingLost is not inductive: when a call returns, the whole range must *)
(* be in Timestream, and only LoopInv knows that everything of the range   *)
(* before the buffer is written, that the buffer is the tail of what the   *)
(* loop has passed, and that it is empty once the loop is over.            *)
(*                                                                         *)
(* PoisonIsolated needs that only the first range that waits has used up   *)
(* tries, that it is one record, and that a healthy record's tries were    *)
(* faults (TriesInv).  The order needs that the ranges are consecutive     *)
(* (Consecutive) and that all before the first one is done (FrontDone).    *)
(***************************************************************************)
EXTENDS TimestreamBuffer, SequenceTheorems, WellFoundedInduction, TLAPS

\* Ranges that wait are ranges of records the mapping has taken.
RangesInv ==
    \A i \in DOMAIN pending :
        pending[i].lo <= pending[i].hi /\ pending[i].hi <= cursor

LoopInv ==
    pc = "loop" =>
        /\ ctrBatch < FlushSize
        /\ next <= end + 1
        /\ Last[lo - 1] < next - ctrBatch
        /\ tsRecs = (next - ctrBatch)..(next - 1)
        /\ (Last[lo - 1] + 1)..(next - ctrBatch - 1) \subseteq written
        /\ next = end + 1 => ctrBatch = 0

IInv == TypeOK /\ RangesInv /\ LoopInv /\ NothingLost

-----------------------------------------------------------------------------
\* One or two elements put in front of a sequence.
LEMMA InFront ==
    ASSUME NEW S, NEW a \in S, NEW s \in Seq(S)
    PROVE  /\ <<a>> \o s \in Seq(S) /\ Len(<<a>> \o s) = 1 + Len(s)
           /\ (<<a>> \o s)[1] = a
           /\ \A i \in 1..Len(s) : (<<a>> \o s)[i + 1] = s[i]
<1>1. <<a>> \in Seq(S) /\ Len(<<a>>) = 1 /\ <<a>>[1] = a /\ Len(s) \in Nat
  OBVIOUS
<1>2. QED
  BY <1>1, ConcatProperties

LEMMA TwoInFront ==
    ASSUME NEW S, NEW a \in S, NEW b \in S, NEW s \in Seq(S)
    PROVE  /\ <<a, b>> \o s \in Seq(S) /\ Len(<<a, b>> \o s) = 2 + Len(s)
           /\ (<<a, b>> \o s)[1] = a /\ (<<a, b>> \o s)[2] = b
           /\ \A i \in 1..Len(s) : (<<a, b>> \o s)[i + 2] = s[i]
<1>1. <<a, b>> \in Seq(S) /\ Len(<<a, b>>) = 2 /\ Len(s) \in Nat
      /\ <<a, b>>[1] = a /\ <<a, b>>[2] = b
  OBVIOUS
<1>2. QED
  BY <1>1, ConcatProperties

\* The middle of a range of at least two numbers leaves neither half empty.
LEMMA Halving ==
    ASSUME NEW a \in Nat, NEW b \in Nat, a < b
    PROVE  /\ (a + b) \div 2 \in Int
           /\ a <= (a + b) \div 2 /\ (a + b) \div 2 < b
OBVIOUS

\* The payloads of the records of a range are the payloads between its ends.
LEMMA RangePayloads ==
    ASSUME NEW l \in Record, NEW h \in Record, NEW r \in l..h
    PROVE  PayloadsOf(r) \subseteq (Last[l - 1] + 1)..Last[h]
<1>1. /\ l - 1 \in 0..NumRecords /\ r - 1 \in 0..NumRecords
      /\ r \in 0..NumRecords /\ h \in 0..NumRecords
      /\ l - 1 <= r - 1 /\ r <= h
  BY BufferAssumption DEF Record
<1>2. Last[l - 1] <= Last[r - 1] /\ Last[r] <= Last[h]
  BY <1>1, BufferAssumption
<1>3. Last[l - 1] \in Nat /\ Last[r - 1] \in Nat /\ Last[r] \in Nat /\ Last[h] \in Nat
  BY <1>1, BufferAssumption
<1>4. QED
  BY <1>2, <1>3 DEF PayloadsOf

\* The range being processed: its ends, and the payloads up to its end.
LEMMA HeadRange ==
    ASSUME TypeOK, RangesInv, pending # <<>>
    PROVE  /\ Head(pending) \in Chunk
           /\ lo \in Record /\ hi \in Record /\ lo <= hi /\ hi <= cursor
           /\ lo - 1 \in 0..NumRecords /\ hi \in 0..NumRecords
           /\ Last[lo - 1] \in Nat /\ end \in Nat
           /\ Last[lo - 1] <= end
           /\ end <= Last[NumRecords]
<1>1. Head(pending) = pending[1] /\ 1 \in DOMAIN pending /\ pending[1] \in Chunk
  BY DEF TypeOK
<1>2. lo \in Record /\ hi \in Record /\ lo <= hi /\ hi <= cursor
  BY <1>1 DEF RangesInv, lo, hi, Chunk
<1>3. lo - 1 \in 0..NumRecords /\ hi \in 0..NumRecords /\ NumRecords \in 0..NumRecords
      /\ lo - 1 <= hi /\ hi <= NumRecords
  BY <1>2, BufferAssumption DEF Record
<1>4. Last[lo - 1] <= Last[hi] /\ Last[hi] <= Last[NumRecords]
  BY <1>3, BufferAssumption
<1>5. Last[lo - 1] \in Nat /\ Last[hi] \in Nat
  BY <1>3, BufferAssumption
<1>6. QED
  BY <1>1, <1>2, <1>3, <1>4, <1>5 DEF end

\* A failed call splits, tries again or discards the first range.
LEMMA CallCases ==
    ASSUME CallFails
    PROVE  \/ /\ CanSplit(Head(pending)) /\ discarded' = discarded
              /\ pending' = Halves(Head(pending), (Head(pending).lo + Head(pending).hi) \div 2)
                              \o Tail(pending)
           \/ /\ ~CanSplit(Head(pending)) /\ Head(pending).tries < MaxRetries
              /\ pending' = <<Retry(Head(pending))>> \o Tail(pending) /\ discarded' = discarded
           \/ /\ ~CanSplit(Head(pending)) /\ Head(pending).tries = MaxRetries
              /\ pending' = Tail(pending)
              /\ discarded' = discarded \cup Head(pending).lo..Head(pending).hi
BY DEF CallFails

\* A failed call leaves a well-formed list of ranges, and takes no record off
\* it without discarding it.
LEMMA CallFailsKeeps ==
    ASSUME TypeOK, RangesInv, pending # <<>>, CallFails, cursor' = cursor
    PROVE  /\ pending' \in Seq(Chunk) /\ discarded' \subseteq Record
           /\ pc' = "idle"
           /\ RangesInv'
           /\ discarded \subseteq discarded'
           /\ \A r \in 1..cursor : InPending(r) => InPending(r)' \/ r \in discarded'
<1> DEFINE h == Head(pending)
           rest == Tail(pending)
           mid == (h.lo + h.hi) \div 2
<1>1. /\ h \in Chunk /\ h = pending[1] /\ h.lo <= h.hi /\ h.hi <= cursor
      /\ h.lo \in Record /\ h.hi \in Record /\ h.tries \in 0..MaxRetries
  BY HeadRange DEF lo, hi, Chunk, TypeOK
<1>2. /\ rest \in Seq(Chunk) /\ Len(rest) = Len(pending) - 1
      /\ \A i \in 1..Len(rest) : rest[i] = pending[i + 1]
  BY DEF TypeOK
<1>3. pc' = "idle"
  BY DEF CallFails
<1>4. \A r \in 1..cursor : InPending(r) =>
          r \in h.lo..h.hi \/ \E i \in 1..Len(rest) : r \in rest[i].lo..rest[i].hi
  <2> SUFFICES ASSUME NEW r \in 1..cursor,
                      NEW i \in DOMAIN pending, r \in pending[i].lo..pending[i].hi, i # 1
               PROVE  \E j \in 1..Len(rest) : r \in rest[j].lo..rest[j].hi
    BY <1>1 DEF InPending
  <2>1. i - 1 \in 1..Len(rest) /\ rest[i - 1] = pending[i]
    BY <1>2 DEF TypeOK
  <2>2. QED
    BY <2>1
<1>5. \A i \in 1..Len(rest) : rest[i].lo <= rest[i].hi /\ rest[i].hi <= cursor
  BY <1>2 DEF RangesInv, TypeOK
<1>6. CASE h.lo < h.hi
  <2>1. pending' = Halves(h, mid) \o rest /\ discarded' = discarded
    <3>1. CanSplit(h)
      BY <1>6 DEF CanSplit
    <3>2. QED
      BY <3>1, CallCases
  <2>2. mid \in Int /\ h.lo <= mid /\ mid < h.hi
    BY <1>1, <1>6, Halving DEF Record
  <2> HIDE DEF mid, h
  <2>3. mid \in Record /\ mid + 1 \in Record /\ 0 \in 0..MaxRetries
    <3>1. mid \in Record /\ mid + 1 \in Record
      <4>1. NumRecords \in Nat
        BY BufferAssumption
      <4>2. QED
        BY <4>1, <1>1, <2>2 DEF Record
    <3>2. 0 \in 0..MaxRetries
      BY BufferAssumption
    <3>3. QED
      BY <3>1, <3>2
  <2> DEFINE first  == [lo |-> h.lo, hi |-> mid, tries |-> 0]
             second == [lo |-> mid + 1, hi |-> h.hi, tries |-> 0]
  <2>4. pending' = <<first, second>> \o rest
    BY <2>1 DEF Halves
  <2>5. first \in Chunk /\ second \in Chunk
    BY <1>1, <2>3 DEF Chunk
  <2>6. /\ pending' \in Seq(Chunk) /\ Len(pending') = 2 + Len(rest)
        /\ pending'[1] = first /\ pending'[2] = second
        /\ \A i \in 1..Len(rest) : pending'[i + 2] = rest[i]
    <3> HIDE DEF first, second, rest
    <3>1. QED
      BY <1>2, <2>4, <2>5, TwoInFront
  <2>7. RangesInv'
    <3> SUFFICES ASSUME NEW i \in DOMAIN pending'
                 PROVE  pending'[i].lo <= pending'[i].hi /\ pending'[i].hi <= cursor
      BY DEF RangesInv
    <3>1. CASE i = 1
      BY <3>1, <1>1, <2>2, <2>3, <2>6 DEF Record, TypeOK
    <3>2. CASE i = 2
      BY <3>2, <1>1, <2>2, <2>3, <2>6 DEF Record, TypeOK
    <3>3. CASE i > 2
      <4>1. i - 2 \in 1..Len(rest) /\ pending'[i] = rest[i - 2]
        <5>1. i \in 1..(2 + Len(rest)) /\ Len(rest) \in Nat
          BY <2>6, <1>2, LenProperties
        <5>2. i - 2 \in 1..Len(rest) /\ (i - 2) + 2 = i
          BY <5>1, <3>3
        <5>3. QED
          BY <5>2, <2>6
      <4>2. QED
        BY <4>1, <1>5
    <3>4. QED
      BY <3>1, <3>2, <3>3, <2>6
  <2>8. ASSUME NEW r \in 1..cursor, InPending(r)
        PROVE  InPending(r)'
    <3>1. CASE r \in h.lo..mid
      <4>1. 1 \in DOMAIN pending' /\ r \in pending'[1].lo..pending'[1].hi
        BY <3>1, <2>6, <1>2
      <4>2. QED
        BY <4>1 DEF InPending
    <3>2. CASE r \in (mid + 1)..h.hi
      <4>1. 2 \in DOMAIN pending' /\ r \in pending'[2].lo..pending'[2].hi
        BY <3>2, <2>6, <1>2
      <4>2. QED
        BY <4>1 DEF InPending
    <3>3. CASE \E i \in 1..Len(rest) : r \in rest[i].lo..rest[i].hi
      <4>1. PICK i \in 1..Len(rest) : r \in rest[i].lo..rest[i].hi
        BY <3>3
      <4>2. i + 2 \in DOMAIN pending' /\ r \in pending'[i + 2].lo..pending'[i + 2].hi
        BY <4>1, <2>6, <1>2
      <4>3. QED
        BY <4>2 DEF InPending
    <3>4. r \in h.lo..h.hi => r \in h.lo..mid \/ r \in (mid + 1)..h.hi
      BY <2>2, <1>1 DEF Record
    <3>5. QED
      BY <2>8, <1>4, <3>1, <3>2, <3>3, <3>4
  <2>9. QED
    BY <1>3, <2>1, <2>6, <2>7, <2>8 DEF TypeOK
<1>7. CASE ~(h.lo < h.hi) /\ h.tries < MaxRetries
  <2>1. pending' = <<Retry(h)>> \o rest /\ discarded' = discarded
    <3>1. ~CanSplit(h) /\ h.tries # MaxRetries
      BY <1>7, <1>1, BufferAssumption DEF CanSplit, Chunk
    <3>2. QED
      BY <3>1, CallCases
  <2>2. Retry(h) = [lo |-> h.lo, hi |-> h.hi, tries |-> h.tries + 1]
    <3> HIDE DEF h
    <3>1. QED
      BY <1>1 DEF Retry, Chunk
  <2>3. /\ Retry(h) \in Chunk /\ Retry(h).lo = h.lo /\ Retry(h).hi = h.hi
    <3>1. h.tries + 1 \in 0..MaxRetries
      BY <1>1, <1>7, BufferAssumption
    <3>2. QED
      BY <1>1, <2>2, <3>1 DEF Chunk
  <2>4. /\ pending' \in Seq(Chunk) /\ Len(pending') = 1 + Len(rest)
        /\ pending'[1] = Retry(h)
        /\ \A i \in 1..Len(rest) : pending'[i + 1] = rest[i]
    <3> HIDE DEF rest
    <3>1. QED
      BY <1>2, <2>1, <2>3, InFront
  <2>5. RangesInv'
    <3> SUFFICES ASSUME NEW i \in DOMAIN pending'
                 PROVE  pending'[i].lo <= pending'[i].hi /\ pending'[i].hi <= cursor
      BY DEF RangesInv
    <3>1. CASE i = 1
      BY <3>1, <1>1, <2>3, <2>4
    <3>2. CASE i > 1
      <4>1. i - 1 \in 1..Len(rest) /\ pending'[i] = rest[i - 1]
        <5>1. i \in 1..(1 + Len(rest)) /\ Len(rest) \in Nat
          BY <2>4, <1>2, LenProperties
        <5>2. i - 1 \in 1..Len(rest) /\ (i - 1) + 1 = i
          BY <5>1, <3>2
        <5>3. QED
          BY <5>2, <2>4
      <4>2. QED
        BY <4>1, <1>5
    <3>3. QED
      BY <3>1, <3>2, <2>4
  <2>6. ASSUME NEW r \in 1..cursor, InPending(r)
        PROVE  InPending(r)'
    <3>1. CASE r \in h.lo..h.hi
      <4>1. 1 \in DOMAIN pending' /\ r \in pending'[1].lo..pending'[1].hi
        BY <3>1, <2>3, <2>4, <1>2
      <4>2. QED
        BY <4>1 DEF InPending
    <3>2. CASE \E i \in 1..Len(rest) : r \in rest[i].lo..rest[i].hi
      <4>1. PICK i \in 1..Len(rest) : r \in rest[i].lo..rest[i].hi
        BY <3>2
      <4>2. i + 1 \in DOMAIN pending' /\ r \in pending'[i + 1].lo..pending'[i + 1].hi
        BY <4>1, <2>4, <1>2
      <4>3. QED
        BY <4>2 DEF InPending
    <3>3. QED
      BY <2>6, <1>4, <3>1, <3>2
  <2>7. QED
    BY <1>3, <2>1, <2>4, <2>5, <2>6 DEF TypeOK
<1>8. CASE ~(h.lo < h.hi) /\ h.tries = MaxRetries
  <2>1. pending' = rest /\ discarded' = discarded \cup h.lo..h.hi
    <3>1. ~CanSplit(h) /\ ~(h.tries < MaxRetries)
      BY <1>8, <1>1, BufferAssumption DEF CanSplit, Chunk
    <3>2. QED
      BY <3>1, CallCases
  <2>2. RangesInv'
    BY <2>1, <1>2, <1>5 DEF RangesInv
  <2>3. h.lo..h.hi \subseteq Record
    BY <1>1, BufferAssumption DEF Record
  <2>4. ASSUME NEW r \in 1..cursor, InPending(r)
        PROVE  InPending(r)' \/ r \in discarded'
    <3>1. CASE r \in h.lo..h.hi
      BY <3>1, <2>1
    <3>2. CASE \E i \in 1..Len(rest) : r \in rest[i].lo..rest[i].hi
      <4>1. DOMAIN pending' = 1..Len(rest) /\ pending' = rest
        BY <2>1, <1>2, LenProperties
      <4>2. QED
        BY <3>2, <4>1 DEF InPending
    <3>3. QED
      BY <2>4, <1>4, <3>1, <3>2
  <2>5. QED
    BY <1>2, <1>3, <2>1, <2>2, <2>3, <2>4 DEF TypeOK
<1>9. QED
  BY <1>1, <1>6, <1>7, <1>8, BufferAssumption
-----------------------------------------------------------------------------
\* A step that takes no record off the list without discarding or writing it
\* loses none.
LEMMA KeepsRecords ==
    ASSUME NothingLost, cursor' = cursor,
           discarded \subseteq discarded', written \subseteq written',
           \A r \in 1..cursor : InPending(r) =>
               InPending(r)' \/ r \in discarded' \/ PayloadsOf(r) \subseteq written'
    PROVE  NothingLost'
<1> SUFFICES ASSUME NEW r \in 1..cursor
             PROVE  InPending(r)' \/ r \in discarded' \/ PayloadsOf(r) \subseteq written'
  BY DEF NothingLost, PayloadsOf
<1>1. InPending(r) \/ r \in discarded \/ PayloadsOf(r) \subseteq written
  BY DEF NothingLost
<1>2. QED
  BY <1>1

\* Every way a call fails: the loop's variables are left as they were, whatever
\* was stored before the failure stays stored.
LEMMA FailureKeepsIInv ==
    ASSUME IInv, pending # <<>>, CallFails, cursor' = cursor,
           UNCHANGED content, UNCHANGED <<next, ctrBatch>>,
           tsRecs' \subseteq Payload,
           written \subseteq written', written' \subseteq Payload,
           faults' \in 0..MaxFaults
    PROVE  IInv'
<1>1. /\ pending' \in Seq(Chunk) /\ discarded' \subseteq Record
      /\ pc' = "idle"
      /\ RangesInv'
      /\ discarded \subseteq discarded'
      /\ \A r \in 1..cursor : InPending(r) => InPending(r)' \/ r \in discarded'
  BY CallFailsKeeps DEF IInv
<1>2. TypeOK'
  BY <1>1 DEF IInv, TypeOK, content
<1>3. LoopInv'
  BY <1>1 DEF LoopInv
<1>4. NothingLost'
  BY <1>1, KeepsRecords DEF IInv
<1>5. QED
  BY <1>1, <1>2, <1>3, <1>4 DEF IInv

\* The same list, the same lane: nothing changes for the waiting records.
LEMMA SameList ==
    ASSUME IInv, UNCHANGED mapping, written \subseteq written'
    PROVE  RangesInv' /\ NothingLost'
<1>1. RangesInv'
  BY DEF IInv, RangesInv, mapping
<1>2. \A r \in 1..cursor : InPending(r) => InPending(r)'
  BY DEF InPending, mapping
<1>3. NothingLost'
  BY <1>2, KeepsRecords DEF IInv, mapping
<1>4. QED
  BY <1>1, <1>3

-----------------------------------------------------------------------------
LEMMA InitIInv == Init => IInv
<1> SUFFICES ASSUME Init PROVE IInv
  OBVIOUS
<1>1. TypeOK
  BY BufferAssumption DEF Init, TypeOK
<1>2. RangesInv /\ LoopInv
  BY DEF Init, RangesInv, LoopInv
<1>3. NothingLost
  BY DEF Init, NothingLost
<1>4. QED
  BY <1>1, <1>2, <1>3 DEF IInv

LEMMA PollKeepsIInv ==
    ASSUME IInv, Poll
    PROVE  IInv'
<1>1. PICK n \in 1..BatchSize :
          /\ cursor + n <= NumRecords
          /\ cursor' = cursor + n
          /\ pending' = <<[lo |-> cursor + 1, hi |-> cursor + n, tries |-> 0]>>
  BY DEF Poll
<1> DEFINE fresh == [lo |-> cursor + 1, hi |-> cursor + n, tries |-> 0]
<1>2. n \in Nat /\ n >= 1 /\ cursor \in Nat
  BY BufferAssumption DEF IInv, TypeOK
<1>3. fresh \in Chunk
  <2>1. cursor + 1 \in Record /\ cursor + n \in Record /\ 0 \in 0..MaxRetries
    BY <1>1, <1>2, BufferAssumption DEF Record
  <2>2. QED
    BY <2>1 DEF Chunk
<1>4. /\ pending' \in Seq(Chunk) /\ DOMAIN pending' = {1} /\ pending'[1] = fresh
  <2> HIDE DEF fresh
  <2>1. QED
    BY <1>1, <1>3 DEF fresh
<1>5. pc' = pc /\ pc = "idle"
  BY DEF Poll, IInv, TypeOK
<1>6. TypeOK'
  <2>1. cursor' \in 0..NumRecords
    BY <1>1, <1>2, BufferAssumption
  <2>2. QED
    BY <1>4, <1>5, <2>1 DEF Poll, IInv, TypeOK, content, local
<1>7. RangesInv'
  BY <1>1, <1>2, <1>4 DEF RangesInv
<1>8. LoopInv'
  BY <1>5 DEF LoopInv
<1>9. NothingLost'
  <2> SUFFICES ASSUME NEW r \in 1..(cursor + n)
               PROVE  InPending(r)' \/ r \in discarded \/ PayloadsOf(r) \subseteq written
    BY <1>1 DEF NothingLost, Poll, PayloadsOf
  <2>1. CASE r <= cursor
    <3>1. r \in 1..cursor /\ ~InPending(r)
      BY <2>1, <1>2 DEF InPending, Poll
    <3>2. QED
      BY <3>1 DEF IInv, NothingLost
  <2>2. CASE r > cursor
    <3>1. r \in pending'[1].lo..pending'[1].hi
      BY <2>2, <1>2, <1>4
    <3>2. QED
      BY <3>1, <1>4 DEF InPending
  <2>3. QED
    BY <2>1, <2>2, <1>2
<1>10. QED
  BY <1>6, <1>7, <1>8, <1>9 DEF IInv

LEMMA InvokeKeepsIInv ==
    ASSUME IInv, Invoke
    PROVE  IInv'
<1>1. TypeOK' /\ LoopInv'
  BY DEF IInv, TypeOK, LoopInv, Invoke, content, mapping, local
<1>2. RangesInv' /\ NothingLost'
  BY SameList DEF Invoke
<1>3. QED
  BY <1>1, <1>2 DEF IInv

LEMMA DeaggregateKeepsIInv ==
    ASSUME IInv, Deaggregate
    PROVE  IInv'
<1>1. pending # <<>> /\ pending' = pending
  BY DEF Deaggregate, IInv, TypeOK, mapping
<1>2. /\ Last[lo - 1] \in Nat /\ end \in Nat /\ Last[lo - 1] <= end
      /\ lo' = lo /\ end' = end
  BY <1>1, HeadRange DEF IInv, lo, hi, end
<1>3. TypeOK'
  BY <1>1, <1>2 DEF IInv, TypeOK, Deaggregate, content, mapping
<1>4. LoopInv'
  <2>1. ctrBatch' = 0 /\ tsRecs' = {} /\ next' = Last[lo - 1] + 1
    BY DEF Deaggregate
  <2>2. 0 < FlushSize
    BY BufferAssumption
  <2>3. QED
    BY <1>2, <2>1, <2>2 DEF LoopInv
<1>5. RangesInv' /\ NothingLost'
  BY SameList DEF Deaggregate
<1>6. QED
  BY <1>3, <1>4, <1>5 DEF IInv

\* Where the loop is: the payload at next belongs to the range, and what is
\* before the buffer is written.
LEMMA LoopFacts ==
    ASSUME IInv, InLoop
    PROVE  /\ pending # <<>>
           /\ next \in Payload /\ next \in Nat /\ next >= 1
           /\ end \in Nat /\ next <= end /\ end <= Last[NumRecords]
           /\ ctrBatch \in Nat /\ ctrBatch < FlushSize /\ FlushSize \in Nat
           /\ Last[lo - 1] \in Nat /\ Last[lo - 1] < next - ctrBatch
           /\ tsRecs = (next - ctrBatch)..(next - 1)
           /\ (Last[lo - 1] + 1)..(next - ctrBatch - 1) \subseteq written
           /\ Batch \subseteq Payload
<1>1. pc = "loop" /\ next <= end /\ pending # <<>>
  BY DEF InLoop, IInv, TypeOK
<1>2. /\ next \in Nat /\ next >= 1 /\ ctrBatch \in Nat
      /\ FlushSize \in Nat /\ tsRecs \subseteq Payload
  BY BufferAssumption DEF IInv, TypeOK
<1>3. end \in Nat /\ end <= Last[NumRecords] /\ Last[lo - 1] \in Nat
  BY <1>1, HeadRange DEF IInv
<1>4. Last[NumRecords] \in Nat
  BY BufferAssumption
<1>5. next \in Payload
  BY <1>1, <1>2, <1>3, <1>4 DEF Payload
<1>6. QED
  BY <1>1, <1>2, <1>3, <1>5 DEF IInv, LoopInv, Batch

LEMMA CollectKeepsIInv ==
    ASSUME IInv, Collect
    PROVE  IInv'
<1>1. InLoop
  BY DEF Collect
<1>2. /\ ctrBatch' = ctrBatch + 1 /\ tsRecs' = Batch /\ next' = next + 1
      /\ pending' = pending /\ written' = written /\ pc' = pc /\ pc = "loop"
      /\ ctrBatch + 1 # FlushSize /\ next # end
      /\ lo' = lo /\ end' = end
  <2>1. /\ ctrBatch' = ctrBatch + 1 /\ tsRecs' = Batch /\ next' = next + 1
        /\ pending' = pending /\ written' = written /\ pc' = pc /\ pc = "loop"
        /\ ctrBatch + 1 # FlushSize /\ next # end
    BY <1>1 DEF Collect, Batch, FlushDue, InLoop, mapping
  <2>2. lo' = lo /\ end' = end
    BY <2>1 DEF lo, hi, end
  <2>3. QED
    BY <2>1, <2>2
<1>3. TypeOK'
  BY <1>1, <1>2, LoopFacts DEF IInv, TypeOK, Collect, content, mapping
<1>4. LoopInv'
  <2>1. Batch = (next - ctrBatch)..next
    BY <1>1, LoopFacts DEF Batch
  <2>2. next' - ctrBatch' = next - ctrBatch /\ next' - 1 = next
    <3>1. next \in Nat /\ ctrBatch \in Nat
      BY <1>1, LoopFacts
    <3>2. next' = next + 1 /\ ctrBatch' = ctrBatch + 1
      BY <1>2
    <3>3. QED
      BY <3>1, <3>2
  <2>3. ctrBatch + 1 < FlushSize /\ next + 1 <= end
    BY <1>1, <1>2, LoopFacts
  <2>4. /\ ctrBatch' < FlushSize
        /\ next' <= end' + 1 /\ ~(next' = end' + 1)
    BY <1>1, <1>2, <2>3, LoopFacts
  <2>5. /\ Last[lo' - 1] < next' - ctrBatch'
        /\ tsRecs' = (next' - ctrBatch')..(next' - 1)
        /\ (Last[lo' - 1] + 1)..(next' - ctrBatch' - 1) \subseteq written'
    BY <1>1, <1>2, <2>1, <2>2, LoopFacts
  <2>6. QED
    BY <2>4, <2>5 DEF LoopInv
<1>5. RangesInv' /\ NothingLost'
  BY <1>2, SameList DEF Collect
<1>6. QED
  BY <1>3, <1>4, <1>5 DEF IInv

LEMMA WriteKeepsIInv ==
    ASSUME IInv, Write
    PROVE  IInv'
<1>1. InLoop
  BY DEF Write, WriteDue
<1>2. /\ ctrBatch' = 0 /\ tsRecs' = {} /\ next' = next + 1
      /\ written' = written \cup Batch
      /\ pending' = pending /\ pc' = pc /\ lo' = lo /\ end' = end
  BY DEF Write, mapping, lo, hi, end
<1>3. TypeOK'
  BY <1>1, <1>2, LoopFacts DEF IInv, TypeOK, Write, content, mapping
<1>4. LoopInv'
  <2>1. Batch = (next - ctrBatch)..next
    BY <1>1, LoopFacts DEF Batch
  <2>2. (Last[lo - 1] + 1)..next \subseteq written'
    BY <1>1, <1>2, <2>1, LoopFacts
  <2>3. /\ 0 < FlushSize /\ next + 1 <= end + 1 /\ Last[lo - 1] < next + 1
        /\ (next + 1)..next = {} /\ next' - 0 = next + 1 /\ next' - 1 = next
        /\ next' - 0 - 1 = next
    BY <1>1, <1>2, LoopFacts
  <2>4. QED
    BY <1>2, <2>2, <2>3 DEF LoopInv
<1>5. RangesInv' /\ NothingLost'
  BY <1>2, SameList DEF Write
<1>6. QED
  BY <1>3, <1>4, <1>5 DEF IInv

\* The five ways a call ends without returning.
LEMMA FailureActionsKeepIInv ==
    ASSUME IInv,
           DeaggregateFails \/ ParseFails \/ WriteRejected \/ WriteFails \/ Timeout
    PROVE  IInv'
<1>1. /\ written \subseteq Payload /\ tsRecs \subseteq Payload
      /\ faults \in 0..MaxFaults /\ MaxFaults \in Nat
  BY BufferAssumption DEF IInv, TypeOK
<1>2. CASE DeaggregateFails \/ ParseFails
  <2>1. pending # <<>>
    BY <1>2 DEF DeaggregateFails, ParseFails, InLoop, IInv, TypeOK
  <2>2. QED
    BY <1>1, <1>2, <2>1, FailureKeepsIInv DEF DeaggregateFails, ParseFails, local
<1>3. CASE WriteRejected
  <2>1. InLoop
    BY <1>3 DEF WriteRejected, WriteDue
  <2>2. written' = written \cup (Batch \ unwritable)
    BY <1>3 DEF WriteRejected
  <2>3. QED
    BY <1>1, <1>3, <2>1, <2>2, LoopFacts, FailureKeepsIInv DEF WriteRejected, local
<1>4. CASE WriteFails
  <2>1. InLoop
    BY <1>4 DEF WriteFails, WriteDue
  <2>2. written \subseteq written' /\ written' \subseteq written \cup Batch
    BY <1>4 DEF WriteFails
  <2>3. faults' \in 0..MaxFaults
    BY <1>1, <1>4 DEF WriteFails
  <2>4. QED
    BY <1>1, <1>4, <2>1, <2>2, <2>3, LoopFacts, FailureKeepsIInv DEF WriteFails, local
<1>5. CASE Timeout
  <2>1. pending # <<>>
    BY <1>5 DEF Timeout, IInv, TypeOK
  <2>2. faults' \in 0..MaxFaults
    BY <1>1, <1>5 DEF Timeout
  <2>3. QED
    BY <1>1, <1>5, <2>1, <2>2, FailureKeepsIInv DEF Timeout, local
<1>6. QED
  BY <1>2, <1>3, <1>4, <1>5

\* At the end of the loop the whole range is written.
LEMMA RangeWritten ==
    ASSUME IInv, pc = "loop", next > end
    PROVE  (Last[lo - 1] + 1)..end \subseteq written
<1>1. /\ Last[lo - 1] \in Nat /\ end \in Nat /\ next \in Nat /\ ctrBatch \in Nat
  BY HeadRange DEF IInv, TypeOK
<1>2. next <= end + 1 /\ (next = end + 1 => ctrBatch = 0)
      /\ (Last[lo - 1] + 1)..(next - ctrBatch - 1) \subseteq written
  BY DEF IInv, LoopInv
<1>3. next = end + 1 /\ ctrBatch = 0 /\ next - ctrBatch - 1 = end
  BY <1>1, <1>2
<1>4. QED
  BY <1>2, <1>3

\* A call that returns has written its whole range.
LEMMA ReturnKeepsIInv ==
    ASSUME IInv, Return
    PROVE  IInv'
<1> DEFINE rest == Tail(pending)
<1>1. /\ pc = "loop" /\ next > end /\ pending # <<>> /\ pc' = "idle"
      /\ pending' = rest
      /\ cursor' = cursor /\ discarded' = discarded /\ written' = written
  BY DEF Return, AfterLoop, IInv, TypeOK
<1>2. /\ Head(pending) = pending[1] /\ rest \in Seq(Chunk)
      /\ Len(rest) = Len(pending) - 1
      /\ DOMAIN pending = 1..Len(pending) /\ DOMAIN rest = 1..Len(rest)
      /\ Len(pending) \in Nat
      /\ \A i \in 1..Len(rest) : rest[i] = pending[i + 1]
  BY <1>1 DEF IInv, TypeOK
<1>3. /\ lo \in Record /\ hi \in Record
      /\ Last[lo - 1] \in Nat /\ end \in Nat /\ next \in Nat /\ ctrBatch \in Nat
  BY <1>1, HeadRange DEF IInv, TypeOK
<1>4. (Last[lo - 1] + 1)..end \subseteq written
  BY <1>1, RangeWritten
<1>5. TypeOK'
  BY <1>1, <1>2 DEF IInv, TypeOK, Return, content, local
<1>6. RangesInv'
  <2> SUFFICES ASSUME NEW i \in DOMAIN rest
               PROVE  rest[i].lo <= rest[i].hi /\ rest[i].hi <= cursor
    BY <1>1 DEF RangesInv
  <2>1. i + 1 \in DOMAIN pending /\ rest[i] = pending[i + 1]
    BY <1>2
  <2>2. QED
    BY <2>1 DEF IInv, RangesInv
<1>7. \A r \in 1..cursor : InPending(r) => InPending(r)' \/ PayloadsOf(r) \subseteq written'
  <2> SUFFICES ASSUME NEW r \in 1..cursor,
                      NEW i \in DOMAIN pending, r \in pending[i].lo..pending[i].hi
               PROVE  InPending(r)' \/ PayloadsOf(r) \subseteq written
    BY <1>1 DEF InPending, PayloadsOf
  <2>1. CASE i = 1
    <3>1. r \in lo..hi
      BY <2>1, <1>2 DEF lo, hi
    <3>2. PayloadsOf(r) \subseteq (Last[lo - 1] + 1)..end
      BY <3>1, <1>3, RangePayloads DEF end
    <3>3. QED
      BY <3>2, <1>4
  <2>2. CASE i # 1
    <3>1. i - 1 \in 1..Len(rest) /\ (i - 1) + 1 = i
      BY <2>2, <1>2
    <3>2. i - 1 \in DOMAIN rest /\ rest[i - 1] = pending[i]
      BY <3>1, <1>2
    <3>3. QED
      BY <3>2, <1>1 DEF InPending
  <2>3. QED
    BY <2>1, <2>2
<1>8. LoopInv'
  BY <1>1 DEF LoopInv
<1>9. NothingLost'
  BY <1>1, <1>7, KeepsRecords DEF IInv
<1>10. QED
  BY <1>5, <1>6, <1>8, <1>9 DEF IInv

LEMMA StutterKeepsIInv ==
    ASSUME IInv, UNCHANGED vars
    PROVE  IInv'
<1>1. RangesInv' /\ NothingLost'
  BY SameList DEF vars
<1>2. TypeOK' /\ LoopInv'
  BY DEF IInv, TypeOK, LoopInv, vars, content, mapping, local, lo, hi, end
<1>3. QED
  BY <1>1, <1>2 DEF IInv

LEMMA NextKeepsIInv == IInv /\ [Next]_vars => IInv'
<1> SUFFICES ASSUME IInv, [Next]_vars PROVE IInv'
  OBVIOUS
<1>1. CASE Poll
  BY <1>1, PollKeepsIInv
<1>2. CASE Invoke
  BY <1>2, InvokeKeepsIInv
<1>3. CASE Deaggregate
  BY <1>3, DeaggregateKeepsIInv
<1>4. CASE Collect
  BY <1>4, CollectKeepsIInv
<1>5. CASE Write
  BY <1>5, WriteKeepsIInv
<1>6. CASE Return
  BY <1>6, ReturnKeepsIInv
<1>7. CASE DeaggregateFails \/ ParseFails \/ WriteRejected \/ WriteFails \/ Timeout
  BY <1>7, FailureActionsKeepIInv
<1>8. CASE UNCHANGED vars
  BY <1>8, StutterKeepsIInv
<1>9. QED
  BY <1>1, <1>2, <1>3, <1>4, <1>5, <1>6, <1>7, <1>8 DEF Next, Handler

-----------------------------------------------------------------------------
LEMMA Invariance == Spec => []IInv
  BY InitIInv, NextKeepsIInv, PTL DEF Spec

\* The type invariant: in every state every range of records the mapping holds
\* lies in the lane, and what is buffered and written are payloads of the lane.
THEOREM TypeCorrect == Spec => []TypeOK
<1>1. IInv => TypeOK
  BY DEF IInv
<1>2. QED
  BY <1>1, Invariance, PTL

\* createTimestreamWritableBatches never holds a full batch between two turns,
\* and its buffer is exactly the last ctrBatch payloads it has passed, for
\* every flush size and every packing of payloads into records.
THEOREM BufferCorrect == Spec => []BufferIsTail
<1>1. IInv => BufferIsTail
  BY DEF IInv, LoopInv, BufferIsTail
<1>2. QED
  BY <1>1, Invariance, PTL

\* No session record the mapping has taken from the stream disappears: whatever
\* calls fail wherever, with whatever batch sizes and retry limits, it is still
\* to be processed, given up to the failed-records queue, or written in full.
THEOREM NothingLostCorrect == Spec => []NothingLost
<1>1. IInv => NothingLost
  BY DEF IInv
<1>2. QED
  BY <1>1, Invariance, PTL

-----------------------------------------------------------------------------
(* The order of the lane, and the bad record alone.  The ranges that wait  *)
(* follow each other up to the cursor, and everything before the first is  *)
(* discarded or written; only the first range has used up a retry, and     *)
(* only if it is one record, which if healthy met a fault for each.        *)

Front == IF pending = <<>> THEN cursor + 1 ELSE lo

Consecutive ==
    /\ \A i \in DOMAIN pending :
          i + 1 \in DOMAIN pending => pending[i + 1].lo = pending[i].hi + 1
    /\ pending # <<>> => pending[Len(pending)].hi = cursor

FrontDone ==
    \A r \in 1..(Front - 1) : r \in discarded \/ PayloadsOf(r) \subseteq written

TriesInv ==
    \A i \in DOMAIN pending : pending[i].tries > 0 =>
        /\ i = 1 /\ pending[i].lo = pending[i].hi
        /\ Healthy(pending[i].lo) => pending[i].tries <= faults

LaneInv == Consecutive /\ FrontDone /\ TriesInv /\ PoisonIsolated

\* The ranges behind the first are the same and moved by k.
Moved(k) ==
    /\ Len(pending') = Len(pending) + k
    /\ \A i \in 2..Len(pending) : pending'[i + k] = pending[i]

\* What a failed call does to the list: split, tried again, or discarded.
LEMMA FailedCall ==
    ASSUME TypeOK, RangesInv, pending # <<>>, CallFails
    PROVE  \/ /\ lo < hi /\ Moved(1) /\ discarded' = discarded
              /\ \E mid \in Record :
                    /\ lo <= mid /\ mid < hi
                    /\ pending'[1] = [lo |-> lo, hi |-> mid, tries |-> 0]
                    /\ pending'[2] = [lo |-> mid + 1, hi |-> hi, tries |-> 0]
           \/ /\ lo = hi /\ Moved(0) /\ discarded' = discarded
              /\ pending'[1] = [lo |-> lo, hi |-> hi, tries |-> pending[1].tries + 1]
           \/ /\ lo = hi /\ Moved(-1) /\ discarded' = discarded \cup {lo}
              /\ pending[1].tries = MaxRetries
<1> DEFINE h == Head(pending)
           rest == Tail(pending)
           mid == (h.lo + h.hi) \div 2
<1>1. /\ h \in Chunk /\ h = pending[1] /\ h.lo = lo /\ h.hi = hi
      /\ lo \in Record /\ hi \in Record /\ lo <= hi /\ h.tries \in 0..MaxRetries
  BY HeadRange DEF lo, hi, Chunk, TypeOK
<1>2. /\ rest \in Seq(Chunk) /\ Len(rest) = Len(pending) - 1 /\ Len(pending) \in Nat
      /\ \A i \in 1..Len(rest) : rest[i] = pending[i + 1]
  BY DEF TypeOK
<1>3. \A i \in 2..Len(pending) : i - 1 \in 1..Len(rest) /\ rest[i - 1] = pending[i]
  BY <1>2
<1>4. CASE lo < hi
  <2>1. pending' = Halves(h, mid) \o rest /\ discarded' = discarded
    <3>1. CanSplit(h)
      BY <1>1, <1>4 DEF CanSplit
    <3>2. QED
      BY <3>1, CallCases
  <2>2. mid \in Int /\ lo <= mid /\ mid < hi
    BY <1>1, <1>4, Halving DEF Record
  <2> HIDE DEF mid, h
  <2>3. mid \in Record /\ mid + 1 \in Record /\ 0 \in 0..MaxRetries
    <3>1. NumRecords \in Nat /\ MaxRetries \in Nat
      BY BufferAssumption
    <3>2. QED
      BY <3>1, <1>1, <2>2 DEF Record
  <2> DEFINE first  == [lo |-> lo, hi |-> mid, tries |-> 0]
             second == [lo |-> mid + 1, hi |-> hi, tries |-> 0]
  <2>4. pending' = <<first, second>> \o rest
    BY <1>1, <2>1 DEF Halves
  <2>5. first \in Chunk /\ second \in Chunk
    BY <1>1, <2>3 DEF Chunk
  <2>6. /\ Len(pending') = 2 + Len(rest)
        /\ pending'[1] = first /\ pending'[2] = second
        /\ \A i \in 1..Len(rest) : pending'[i + 2] = rest[i]
    <3> HIDE DEF first, second, rest
    <3>1. QED
      BY <1>2, <2>4, <2>5, TwoInFront
  <2>7. Moved(1)
    <3>1. ASSUME NEW i \in 2..Len(pending) PROVE pending'[i + 1] = pending[i]
      <4>1. (i - 1) + 2 = i + 1
        OBVIOUS
      <4>2. QED
        BY <4>1, <1>3, <2>6
    <3>2. QED
      BY <3>1, <1>2, <2>6 DEF Moved
  <2>8. QED
    BY <1>4, <2>1, <2>2, <2>3, <2>6, <2>7
<1>5. CASE lo = hi /\ h.tries < MaxRetries
  <2>1. pending' = <<Retry(h)>> \o rest /\ discarded' = discarded
    <3>1. ~CanSplit(h) /\ h.tries # MaxRetries
      BY <1>5, <1>1, BufferAssumption DEF CanSplit, Record, Chunk
    <3>2. QED
      BY <3>1, CallCases
  <2>2. Retry(h) = [lo |-> lo, hi |-> hi, tries |-> pending[1].tries + 1]
    <3> HIDE DEF h
    <3>1. QED
      BY <1>1 DEF Retry, Chunk
  <2>3. Retry(h) \in Chunk
    <3>1. pending[1].tries + 1 \in 0..MaxRetries
      BY <1>1, <1>5, BufferAssumption
    <3>2. QED
      BY <1>1, <2>2, <3>1 DEF Chunk
  <2>4. /\ Len(pending') = 1 + Len(rest) /\ pending'[1] = Retry(h)
        /\ \A i \in 1..Len(rest) : pending'[i + 1] = rest[i]
    <3> HIDE DEF rest
    <3>1. QED
      BY <1>2, <2>1, <2>3, InFront
  <2>5. Moved(0)
    <3>1. ASSUME NEW i \in 2..Len(pending) PROVE pending'[i + 0] = pending[i]
      <4>1. (i - 1) + 1 = i + 0
        OBVIOUS
      <4>2. QED
        BY <4>1, <1>3, <2>4
    <3>2. QED
      BY <3>1, <1>2, <2>4 DEF Moved
  <2>6. QED
    BY <1>5, <2>1, <2>2, <2>4, <2>5
<1>6. CASE lo = hi /\ h.tries = MaxRetries
  <2>1. pending' = rest /\ discarded' = discarded \cup lo..hi
    <3>1. ~CanSplit(h) /\ ~(h.tries < MaxRetries)
      BY <1>6, <1>1, BufferAssumption DEF CanSplit, Record, Chunk
    <3>2. QED
      BY <3>1, <1>1, CallCases
  <2>2. Moved(-1)
    BY <1>2, <1>3, <2>1 DEF Moved
  <2>3. lo..hi = {lo}
    BY <1>1, <1>6 DEF Record
  <2>4. QED
    BY <1>1, <1>6, <2>1, <2>2, <2>3
<1>7. lo < hi \/ lo = hi
  BY <1>1 DEF Record
<1>8. h.tries < MaxRetries \/ h.tries = MaxRetries
  BY <1>1, BufferAssumption
<1>9. QED
  BY <1>4, <1>5, <1>6, <1>7, <1>8

\* What the invariants say of the first range and of the length of the list.
LEMMA FirstRange ==
    ASSUME TypeOK, RangesInv, Consecutive, pending # <<>>
    PROVE  /\ Len(pending) \in Nat /\ Len(pending) >= 1
           /\ pending \in Seq(Chunk) /\ DOMAIN pending = 1..Len(pending)
           /\ pending[1].lo = lo /\ pending[1].hi = hi /\ pending[1].tries \in Nat
           /\ lo \in Nat /\ hi \in Nat /\ lo >= 1 /\ lo <= hi
           /\ cursor \in Nat /\ Front = lo
           /\ pending[Len(pending)].hi = cursor
           /\ \A i \in 2..Len(pending) : pending[i].lo = pending[i - 1].hi + 1
<1>1. /\ Len(pending) \in Nat /\ Len(pending) >= 1
      /\ pending \in Seq(Chunk) /\ DOMAIN pending = 1..Len(pending)
      /\ Head(pending) = pending[1] /\ pending[1] \in Chunk
  BY DEF TypeOK
<1>2. pending[1].lo = lo /\ pending[1].hi = hi /\ pending[1].tries \in Nat
  BY <1>1 DEF lo, hi, Chunk
<1>3. lo \in Nat /\ hi \in Nat /\ lo >= 1 /\ lo <= hi
  BY HeadRange DEF Record
<1>4. cursor \in Nat
  BY DEF TypeOK
<1>5. pending[Len(pending)].hi = cursor
  BY DEF Consecutive
<1>6. \A i \in 2..Len(pending) : pending[i].lo = pending[i - 1].hi + 1
  <2> SUFFICES ASSUME NEW i \in 2..Len(pending)
               PROVE  pending[i].lo = pending[i - 1].hi + 1
    OBVIOUS
  <2>1. i - 1 \in DOMAIN pending /\ (i - 1) + 1 = i /\ i \in DOMAIN pending
    BY <1>1
  <2>2. QED
    BY <2>1 DEF Consecutive
<1>7. QED
  BY <1>1, <1>2, <1>3, <1>4, <1>5, <1>6 DEF Front

\* However a call fails, the list stays in order and only what is discarded is
\* taken off its front.
LEMMA FailureKeepsOrder ==
    ASSUME IInv, LaneInv, IInv', pending # <<>>, CallFails, cursor' = cursor,
           written \subseteq written'
    PROVE  Consecutive' /\ FrontDone'
<1> DEFINE n == Len(pending)
<1>1. /\ n \in Nat /\ n >= 1
      /\ pending[1].lo = lo /\ pending[1].hi = hi
      /\ lo \in Nat /\ hi \in Nat /\ lo >= 1 /\ lo <= hi
      /\ cursor \in Nat /\ Front = lo
      /\ pending[n].hi = cursor
      /\ \A i \in 2..n : pending[i].lo = pending[i - 1].hi + 1
  BY FirstRange DEF IInv, LaneInv
<1>2. pending' \in Seq(Chunk) /\ DOMAIN pending' = 1..Len(pending')
      /\ (pending' # <<>> => Head(pending') = pending'[1])
  BY DEF IInv, TypeOK
<1> HIDE DEF n
<1>3. /\ discarded \subseteq discarded'
      /\ Front' \in Nat /\ \A r \in 1..(Front' - 1) : r < lo \/ r \in discarded'
      /\ Consecutive'
  <2>1. CASE /\ Moved(1) /\ discarded' = discarded
             /\ \E mid \in Record :
                   /\ lo <= mid /\ mid < hi
                   /\ pending'[1] = [lo |-> lo, hi |-> mid, tries |-> 0]
                   /\ pending'[2] = [lo |-> mid + 1, hi |-> hi, tries |-> 0]
    <3>1. PICK mid \in Nat : /\ pending'[1].lo = lo /\ pending'[1].hi = mid
                             /\ pending'[2].lo = mid + 1 /\ pending'[2].hi = hi
      BY <2>1 DEF Record
    <3>2. Len(pending') = n + 1 /\ \A i \in 2..n : pending'[i + 1] = pending[i]
      BY <2>1 DEF Moved, n
    <3>3. Front' = lo
      BY <1>1, <1>2, <3>1, <3>2 DEF Front, lo
    <3>4. ASSUME NEW i \in DOMAIN pending', i + 1 \in DOMAIN pending'
          PROVE  pending'[i + 1].lo = pending'[i].hi + 1
      <4>1. CASE i = 1
        BY <3>1, <4>1
      <4>2. CASE i # 1
        <5>1. i \in 2..n /\ pending'[i + 1] = pending[i]
              /\ pending[i].lo = pending[i - 1].hi + 1
          <6>1. i \in 2..n
            BY <1>1, <1>2, <3>2, <3>4, <4>2
          <6>2. QED
            BY <1>1, <3>2, <6>1
        <5>2. CASE i = 2
          BY <1>1, <3>1, <5>1, <5>2
        <5>3. CASE i # 2
          <6>1. i - 1 \in 2..n /\ (i - 1) + 1 = i
            <7>1. i \in 2..n /\ n \in Nat
              BY <1>1, <5>1
            <7>2. QED
              BY <5>3, <7>1
          <6>2. pending'[i] = pending[i - 1]
            BY <3>2, <6>1
          <6>3. QED
            BY <5>1, <6>2
        <5>4. QED
          BY <5>2, <5>3
      <4>3. QED
        BY <4>1, <4>2
    <3>5. pending'[Len(pending')].hi = cursor
      <4>1. CASE n = 1
        BY <1>1, <3>1, <3>2, <4>1
      <4>2. CASE n # 1
        BY <1>1, <3>2, <4>2
      <4>3. QED
        BY <4>1, <4>2
    <3>6. QED
      BY <1>1, <2>1, <3>3, <3>4, <3>5 DEF Consecutive
  <2>2. CASE /\ Moved(0) /\ discarded' = discarded
             /\ pending'[1] = [lo |-> lo, hi |-> hi, tries |-> pending[1].tries + 1]
    <3>1. Len(pending') = n /\ \A i \in 2..n : pending'[i] = pending[i]
      BY <2>2, <1>1 DEF Moved, n
    <3>2. pending'[1].lo = lo /\ pending'[1].hi = hi
      BY <2>2
    <3>3. \A i \in 1..n : pending'[i].lo = pending[i].lo /\ pending'[i].hi = pending[i].hi
      BY <1>1, <3>1, <3>2
    <3>4. Front' = lo
      BY <1>1, <1>2, <3>1, <3>2 DEF Front, lo
    <3>5. ASSUME NEW i \in DOMAIN pending', i + 1 \in DOMAIN pending'
          PROVE  pending'[i + 1].lo = pending'[i].hi + 1
      <4>1. i \in 1..n /\ i + 1 \in 2..n /\ (i + 1) - 1 = i
        BY <1>1, <1>2, <3>1, <3>5
      <4>2. QED
        BY <1>1, <3>3, <4>1
    <3>6. QED
      BY <1>1, <2>2, <3>1, <3>3, <3>4, <3>5 DEF Consecutive
  <2>3. CASE lo = hi /\ Moved(-1) /\ discarded' = discarded \cup {lo}
    <3>1. Len(pending') = n - 1 /\ \A i \in 2..n : pending'[i - 1] = pending[i]
      BY <2>3, <1>1 DEF Moved, n
    <3>2. \A i \in 1..(n - 1) : pending'[i] = pending[i + 1]
      <4> SUFFICES ASSUME NEW i \in 1..(n - 1) PROVE pending'[i] = pending[i + 1]
        OBVIOUS
      <4>1. i + 1 \in 2..n /\ (i + 1) - 1 = i
        BY <1>1
      <4>2. QED
        BY <3>1, <4>1
    <3>3. Front' = lo + 1
      <4>1. CASE n = 1
        <5>1. pending' = <<>> /\ cursor = lo
          BY <1>1, <1>2, <2>3, <3>1, <4>1
        <5>2. QED
          BY <5>1 DEF Front
      <4>2. CASE n # 1
        <5>1. pending' # <<>> /\ pending'[1] = pending[2] /\ 2 \in 2..n
          BY <1>1, <1>2, <3>1, <3>2, <4>2
        <5>2. pending[2].lo = pending[2 - 1].hi + 1 /\ 2 - 1 = 1
          BY <1>1, <5>1
        <5>3. QED
          BY <1>1, <1>2, <2>3, <5>1, <5>2 DEF Front, lo
      <4>3. QED
        BY <4>1, <4>2
    <3>4. ASSUME NEW i \in DOMAIN pending', i + 1 \in DOMAIN pending'
          PROVE  pending'[i + 1].lo = pending'[i].hi + 1
      <4>1. /\ i \in 1..(n - 1) /\ i + 1 \in 1..(n - 1)
            /\ (i + 1) + 1 \in 2..n /\ ((i + 1) + 1) - 1 = i + 1
        BY <1>1, <1>2, <3>1, <3>4
      <4>2. QED
        BY <1>1, <3>2, <4>1
    <3>5. pending' # <<>> => pending'[Len(pending')].hi = cursor
      <4>1. pending' # <<>> => n - 1 \in 1..(n - 1) /\ (n - 1) + 1 = n
        BY <1>1, <1>2, <3>1
      <4>2. QED
        BY <1>1, <3>1, <3>2, <4>1
    <3>6. QED
      BY <1>1, <2>3, <3>3, <3>4, <3>5 DEF Consecutive
  <2>4. QED
    BY <2>1, <2>2, <2>3, FailedCall DEF IInv
<1>4. FrontDone'
  <2> SUFFICES ASSUME NEW r \in 1..(Front' - 1)
               PROVE  r \in discarded' \/ PayloadsOf(r) \subseteq written'
    BY DEF FrontDone, PayloadsOf
  <2>1. CASE r < lo
    <3>1. r \in 1..(Front - 1)
      BY <1>1, <1>3, <2>1
    <3>2. QED
      BY <1>3, <3>1 DEF LaneInv, FrontDone
  <2>2. QED
    BY <1>3, <2>1
<1>5. QED
  BY <1>3, <1>4

\* A failed call of one healthy record is counted as a fault; then retries are
\* counted right and none is discarded that met too few.
LEMMA FailureKeepsTries ==
    ASSUME IInv, LaneInv, IInv', pending # <<>>, CallFails, UNCHANGED content,
           faults' \in {faults, faults + 1},
           lo = hi /\ Healthy(lo) => faults' = faults + 1
    PROVE  TriesInv' /\ PoisonIsolated'
<1> DEFINE n == Len(pending)
<1>1. /\ n \in Nat /\ n >= 1 /\ DOMAIN pending = 1..n
      /\ pending[1].lo = lo /\ pending[1].hi = hi /\ pending[1].tries \in Nat
  BY FirstRange DEF IInv, LaneInv
<1>2. DOMAIN pending' = 1..Len(pending') /\ pending' \in Seq(Chunk)
      /\ faults \in Nat /\ faults' \in Nat /\ faults <= faults' /\ MaxRetries \in Nat
  BY BufferAssumption DEF IInv, TypeOK
<1>3. \A r : Healthy(r)' = Healthy(r)
  BY DEF Healthy, PayloadsOf, content
<1>4. \A i \in 2..n : pending[i].tries \in Nat /\ ~(pending[i].tries > 0)
  <2> SUFFICES ASSUME NEW i \in 2..n
               PROVE  pending[i].tries \in Nat /\ ~(pending[i].tries > 0)
    OBVIOUS
  <2>1. i \in DOMAIN pending /\ i # 1
    BY <1>1
  <2>2. pending[i] \in Chunk
    BY <2>1 DEF IInv, TypeOK
  <2>3. QED
    BY <2>1, <2>2 DEF LaneInv, TriesInv, Chunk
<1>5. /\ pending[1].tries > 0 => lo = hi
      /\ Healthy(lo) => pending[1].tries <= faults
  <2>1. pending[1].tries > 0 => lo = hi /\ (Healthy(lo) => pending[1].tries <= faults)
    BY <1>1 DEF LaneInv, TriesInv
  <2>2. QED
    BY <1>1, <1>2, <2>1
<1>6. \A r \in discarded : Healthy(r) => faults' > MaxRetries
  BY <1>2 DEF LaneInv, PoisonIsolated
<1> HIDE DEF n
<1>7. CASE /\ Moved(1) /\ discarded' = discarded
           /\ \E mid \in Record :
                 /\ pending'[1] = [lo |-> lo, hi |-> mid, tries |-> 0]
                 /\ pending'[2] = [lo |-> mid + 1, hi |-> hi, tries |-> 0]
  <2>1. pending'[1].tries = 0 /\ pending'[2].tries = 0
    BY <1>7
  <2>2. Len(pending') = n + 1 /\ \A i \in 2..n : pending'[i + 1] = pending[i]
    BY <1>7 DEF Moved, n
  <2>3. ASSUME NEW i \in DOMAIN pending' PROVE ~(pending'[i].tries > 0)
    <3>1. CASE i \in {1, 2}
      BY <2>1, <3>1
    <3>2. CASE i \notin {1, 2}
      <4>1. i - 1 \in 2..n /\ (i - 1) + 1 = i
        BY <1>1, <1>2, <2>2, <3>2
      <4>2. pending'[i] = pending[i - 1]
        BY <2>2, <4>1
      <4>3. QED
        BY <1>4, <4>1, <4>2
    <3>3. QED
      BY <3>1, <3>2
  <2>4. QED
    BY <1>3, <1>6, <1>7, <2>3 DEF TriesInv, PoisonIsolated
<1>8. CASE /\ lo = hi /\ Moved(0) /\ discarded' = discarded
           /\ pending'[1] = [lo |-> lo, hi |-> hi, tries |-> pending[1].tries + 1]
  <2>1. /\ Len(pending') = n /\ \A i \in 2..n : pending'[i] = pending[i]
        /\ pending'[1].lo = lo /\ pending'[1].hi = hi
        /\ pending'[1].tries = pending[1].tries + 1
    BY <1>1, <1>8 DEF Moved, n
  <2>2. Healthy(lo) => pending'[1].tries <= faults'
    BY <1>1, <1>2, <1>5, <1>8, <2>1
  <2>3. ASSUME NEW i \in DOMAIN pending', pending'[i].tries > 0
        PROVE  /\ i = 1 /\ pending'[i].lo = pending'[i].hi
               /\ Healthy(pending'[i].lo) => pending'[i].tries <= faults'
    <3>1. i = 1
      BY <1>1, <1>2, <1>4, <2>1, <2>3
    <3>2. QED
      BY <1>8, <2>1, <2>2, <3>1
  <2>4. QED
    BY <1>3, <1>6, <1>8, <2>3 DEF TriesInv, PoisonIsolated
<1>9. CASE /\ lo = hi /\ Moved(-1) /\ discarded' = discarded \cup {lo}
           /\ pending[1].tries = MaxRetries
  <2>1. Len(pending') = n - 1 /\ \A i \in 2..n : pending'[i - 1] = pending[i]
    BY <1>1, <1>9 DEF Moved, n
  <2>2. ASSUME NEW i \in DOMAIN pending' PROVE ~(pending'[i].tries > 0)
    <3>1. i + 1 \in 2..n /\ (i + 1) - 1 = i
      BY <1>1, <1>2, <2>1
    <3>2. QED
      BY <1>4, <2>1, <3>1
  <2>3. Healthy(lo) => faults' > MaxRetries
    BY <1>2, <1>5, <1>9
  <2>4. QED
    BY <1>3, <1>6, <1>9, <2>2, <2>3 DEF TriesInv, PoisonIsolated
<1>10. QED
  BY <1>7, <1>8, <1>9, FailedCall DEF IInv

\* A call for one healthy record finds nothing bad in it.
LEMMA HealthyRecord ==
    ASSUME IInv, pc # "idle", lo = hi, Healthy(lo)
    PROVE  /\ lo..hi \cap corrupt = {}
           /\ InLoop => next \notin unparsable /\ Batch \cap unwritable = {}
<1>1. pending # <<>> /\ lo \in Nat
  BY HeadRange DEF IInv, TypeOK, Record
<1>2. lo..hi \cap corrupt = {}
  BY <1>1 DEF Healthy
<1>3. ASSUME InLoop PROVE Batch \subseteq PayloadsOf(lo) /\ next \in PayloadsOf(lo)
  <2>1. /\ next \in Nat /\ next <= end /\ end = Last[lo]
        /\ ctrBatch \in Nat /\ Last[lo - 1] \in Nat /\ Last[lo - 1] < next - ctrBatch
        /\ tsRecs = (next - ctrBatch)..(next - 1)
        /\ end \in Nat
    BY <1>3, LoopFacts DEF end
  <2>2. QED
    BY <2>1 DEF Batch, PayloadsOf
<1>4. QED
  BY <1>2, <1>3 DEF Healthy

LEMMA FailuresKeepLaneInv ==
    ASSUME IInv, LaneInv, IInv',
           DeaggregateFails \/ ParseFails \/ WriteRejected \/ WriteFails \/ Timeout
    PROVE  LaneInv'
<1>1. /\ pc # "idle" /\ pending # <<>> /\ CallFails /\ cursor' = cursor /\ UNCHANGED content
      /\ faults \in Nat
  BY BufferAssumption
     DEF DeaggregateFails, ParseFails, WriteRejected, WriteFails, Timeout, InLoop, WriteDue,
         IInv, TypeOK
<1>2. written \subseteq written' /\ faults' \in {faults, faults + 1}
  BY DEF DeaggregateFails, ParseFails, WriteRejected, WriteFails, Timeout
<1>3. ASSUME lo = hi, Healthy(lo) PROVE faults' = faults + 1
  BY <1>1, <1>3, HealthyRecord
     DEF DeaggregateFails, ParseFails, WriteRejected, WriteFails, Timeout, WriteDue
<1>4. Consecutive' /\ FrontDone'
  BY <1>1, <1>2, FailureKeepsOrder
<1>5. TriesInv' /\ PoisonIsolated'
  BY <1>1, <1>2, <1>3, FailureKeepsTries
<1>6. QED
  BY <1>4, <1>5 DEF LaneInv

\* A range that returns is written, and leaves the front of the list.
LEMMA ReturnKeepsLaneInv ==
    ASSUME IInv, LaneInv, IInv', Return
    PROVE  LaneInv'
<1> DEFINE n == Len(pending)
<1>1. /\ pc = "loop" /\ next > end /\ pending # <<>> /\ pending' = Tail(pending)
      /\ UNCHANGED <<content, cursor, discarded, written, faults>>
  BY DEF Return, AfterLoop, IInv, TypeOK
<1>2. /\ n \in Nat /\ n >= 1 /\ DOMAIN pending = 1..n /\ pending \in Seq(Chunk)
      /\ pending[1].hi = hi /\ lo \in Nat /\ hi \in Nat /\ lo >= 1 /\ lo <= hi
      /\ cursor \in Nat /\ Front = lo /\ pending[n].hi = cursor
      /\ \A i \in 2..n : pending[i].lo = pending[i - 1].hi + 1
  BY <1>1, FirstRange DEF IInv, LaneInv
<1>3. /\ DOMAIN pending' = 1..(n - 1) /\ Len(pending') = n - 1
      /\ \A i \in 1..(n - 1) : pending'[i] = pending[i + 1]
      /\ (pending' # <<>> => Head(pending') = pending'[1])
      /\ (pending' = <<>> <=> n = 1)
  <2>1. /\ pending' \in Seq(Chunk) /\ Len(pending') = n - 1
        /\ \A i \in 1..(n - 1) : pending'[i] = pending[i + 1]
    BY <1>1, <1>2
  <2>2. DOMAIN pending' = 1..(n - 1)
    BY <2>1, LenProperties
  <2>3. pending' # <<>> => Head(pending') = pending'[1]
    BY <2>1
  <2>4. pending' = <<>> <=> Len(pending') = 0
    BY <2>1, EmptySeq
  <2>5. QED
    BY <1>2, <2>1, <2>2, <2>3, <2>4
<1>4. Front' = hi + 1
  <2>1. CASE n = 1
    BY <1>1, <1>2, <1>3, <2>1 DEF Front
  <2>2. CASE n # 1
    <3>1. 2 \in 2..n /\ 2 - 1 = 1 /\ 1 \in 1..(n - 1) /\ 1 + 1 = 2
      BY <1>2, <2>2
    <3>2. pending[2].lo = hi + 1 /\ pending'[1] = pending[2]
      BY <1>2, <1>3, <3>1
    <3>3. QED
      BY <1>3, <2>2, <3>2 DEF Front, lo
  <2>3. QED
    BY <2>1, <2>2
<1>5. Consecutive'
  <2>1. ASSUME NEW i \in DOMAIN pending', i + 1 \in DOMAIN pending'
        PROVE  pending'[i + 1].lo = pending'[i].hi + 1
    <3>1. /\ i \in 1..(n - 1) /\ i + 1 \in 1..(n - 1)
          /\ (i + 1) + 1 \in 2..n /\ ((i + 1) + 1) - 1 = i + 1
      BY <1>2, <1>3, <2>1
    <3>2. QED
      BY <1>2, <1>3, <3>1
  <2>2. pending' # <<>> => pending'[Len(pending')].hi = cursor'
    <3>1. pending' # <<>> => n - 1 \in 1..(n - 1) /\ (n - 1) + 1 = n
      BY <1>2, <1>3
    <3>2. QED
      BY <1>1, <1>2, <1>3, <3>1
  <2>3. QED
    BY <2>1, <2>2 DEF Consecutive
<1>6. FrontDone'
  <2>1. (Last[lo - 1] + 1)..end \subseteq written
    BY <1>1, RangeWritten
  <2>2. ASSUME NEW r \in lo..hi PROVE PayloadsOf(r) \subseteq written
    <3>1. lo \in Record /\ hi \in Record
      BY <1>1, HeadRange DEF IInv
    <3>2. PayloadsOf(r) \subseteq (Last[lo - 1] + 1)..end
      BY <3>1, RangePayloads DEF end
    <3>3. QED
      BY <2>1, <3>2
  <2>3. ASSUME NEW r \in 1..hi PROVE r \in discarded \/ PayloadsOf(r) \subseteq written
    <3>1. r \in 1..(Front - 1) \/ r \in lo..hi
      BY <1>2
    <3>2. QED
      BY <2>2, <3>1 DEF LaneInv, FrontDone
  <2>4. 1..(Front' - 1) = 1..hi
    BY <1>2, <1>4
  <2>5. QED
    BY <1>1, <2>3, <2>4 DEF FrontDone, PayloadsOf
<1>7. TriesInv'
  <2>1. ASSUME NEW i \in DOMAIN pending' PROVE ~(pending'[i].tries > 0)
    <3>1. i + 1 \in DOMAIN pending /\ i + 1 # 1 /\ pending'[i] = pending[i + 1]
      BY <1>2, <1>3
    <3>2. QED
      BY <3>1 DEF LaneInv, TriesInv
  <2>2. QED
    BY <2>1 DEF TriesInv
<1>8. PoisonIsolated'
  BY <1>1 DEF LaneInv, PoisonIsolated, Healthy, PayloadsOf, content
<1>9. QED
  BY <1>5, <1>6, <1>7, <1>8 DEF LaneInv

\* A call that leaves the list as it is and writes something or nothing.
LEMMA SameListKeepsLaneInv ==
    ASSUME LaneInv, UNCHANGED <<content, mapping, faults>>, written \subseteq written'
    PROVE  LaneInv'
<1>1. UNCHANGED <<pending, cursor, discarded, faults, content>>
  BY DEF mapping
<1>2. Consecutive'
  BY <1>1 DEF LaneInv, Consecutive
<1>3. Front' = Front /\ \A r : PayloadsOf(r)' = PayloadsOf(r)
  BY <1>1 DEF Front, lo, PayloadsOf
<1>4. FrontDone'
  BY <1>1, <1>3 DEF LaneInv, FrontDone
<1>5. \A r : Healthy(r)' = Healthy(r)
  BY <1>1, <1>3 DEF Healthy, content
<1>6. TriesInv' /\ PoisonIsolated'
  BY <1>1, <1>5 DEF LaneInv, TriesInv, PoisonIsolated
<1>7. QED
  BY <1>2, <1>4, <1>6 DEF LaneInv

LEMMA PollKeepsLaneInv ==
    ASSUME IInv, LaneInv, Poll
    PROVE  LaneInv'
<1>1. PICK n \in 1..BatchSize :
          /\ cursor' = cursor + n
          /\ pending' = <<[lo |-> cursor + 1, hi |-> cursor + n, tries |-> 0]>>
  BY DEF Poll
<1>2. /\ n \in Nat /\ cursor \in Nat /\ pending = <<>>
      /\ UNCHANGED <<content, discarded, written, faults>>
  BY BufferAssumption DEF Poll, IInv, TypeOK
<1>3. /\ DOMAIN pending' = {1} /\ Len(pending') = 1 /\ pending' # <<>>
      /\ pending'[1].lo = cursor + 1 /\ pending'[1].hi = cursor + n
      /\ pending'[1].tries = 0 /\ Head(pending') = pending'[1]
  BY <1>1
<1>4. Consecutive'
  BY <1>1, <1>3 DEF Consecutive
<1>5. Front' = cursor + 1 /\ Front = cursor + 1
  BY <1>2, <1>3 DEF Front, lo
<1>6. FrontDone'
  BY <1>2, <1>5 DEF LaneInv, FrontDone, PayloadsOf
<1>7. TriesInv'
  BY <1>3 DEF TriesInv
<1>8. PoisonIsolated'
  BY <1>2 DEF LaneInv, PoisonIsolated, Healthy, PayloadsOf, content
<1>9. QED
  BY <1>4, <1>6, <1>7, <1>8 DEF LaneInv

LEMMA NextKeepsLaneInv == IInv /\ IInv' /\ LaneInv /\ [Next]_vars => LaneInv'
<1> SUFFICES ASSUME IInv, IInv', LaneInv, [Next]_vars PROVE LaneInv'
  OBVIOUS
<1>1. CASE Poll
  BY <1>1, PollKeepsLaneInv
<1>2. CASE Invoke \/ Deaggregate \/ Collect \/ Write \/ UNCHANGED vars
  <2>1. UNCHANGED <<content, mapping, faults>> /\ written \subseteq written'
    BY <1>2 DEF Invoke, Deaggregate, Collect, Write, vars
  <2>2. QED
    BY <2>1, SameListKeepsLaneInv
<1>3. CASE Return
  BY <1>3, ReturnKeepsLaneInv
<1>4. CASE DeaggregateFails \/ ParseFails \/ WriteRejected \/ WriteFails \/ Timeout
  BY <1>4, FailuresKeepLaneInv
<1>5. QED
  BY <1>1, <1>2, <1>3, <1>4 DEF Next, Handler

LEMMA LaneInvariance == Spec => [](IInv /\ LaneInv)
<1>1. Init => LaneInv
  <2> SUFFICES ASSUME Init PROVE LaneInv
    OBVIOUS
  <2>1. Front = 1 /\ DOMAIN pending = {} /\ discarded = {}
    BY DEF Init, Front
  <2>2. QED
    BY <2>1 DEF Init, LaneInv, Consecutive, FrontDone, TriesInv, PoisonIsolated
<1>2. QED
  BY <1>1, NextKeepsLaneInv, Invariance, PTL DEF Spec

\* A healthy record is given up only after a fault of its own for each try,
\* wherever the bad records of its lane are and however its batch was cut.
THEOREM PoisonCorrect == Spec => []PoisonIsolated
<1>1. LaneInv => PoisonIsolated
  BY DEF LaneInv
<1>2. QED
  BY <1>1, LaneInvariance, PTL

-----------------------------------------------------------------------------
(* First writes.  That every payload before the range being processed is   *)
(* written, rejected or in a discarded record is FrontDone, once each      *)
(* payload is known to be of one record.                                   *)

\* A nonempty set of natural numbers has a least one.
LEMMA Least ==
    ASSUME NEW S \in SUBSET Nat, S # {}
    PROVE  \E n \in S : \A k \in S : n <= k
<1> DEFINE Less == OpToRel(<, Nat)
<1>1. \A k, n \in Nat : k < n => <<k, n>> \in Less
  BY DEF OpToRel
<1>2. IsWellFoundedOn(Less, Nat)
  BY NatLessThanWellFounded
<1> HIDE DEF Less
<1>3. \E n \in S : \A k \in S : ~(<<k, n>> \in Less)
  BY <1>2, WFMin
<1>4. PICK n \in S : \A k \in S : ~(<<k, n>> \in Less)
  BY <1>3
<1>5. ASSUME NEW k \in S PROVE n <= k
  <2>1. k \in Nat /\ n \in Nat /\ ~(k < n)
    BY <1>1, <1>4
  <2>2. QED
    BY <2>1
<1>6. QED
  BY <1>5

\* A payload belongs to exactly one record, which is not after one that ends
\* with it or later.
LEMMA RecordOfPayload ==
    ASSUME NEW l \in 0..NumRecords, NEW q \in 1..Last[l]
    PROVE  RecordOf(q) \in 1..l /\ q \in PayloadsOf(RecordOf(q))
<1> DEFINE S == {r \in 1..l : q <= Last[r]}
<1>1. /\ l \in Nat /\ NumRecords \in Nat /\ Last[0] = 0 /\ q \in Nat /\ q >= 1
      /\ \A r \in 0..NumRecords : Last[r] \in Nat
      /\ \A j, r \in 0..NumRecords : j <= r => Last[j] <= Last[r]
  BY BufferAssumption
<1>2. l \in S
  BY <1>1
<1>3. S \in SUBSET Nat /\ S # {}
  BY <1>1, <1>2
<1> HIDE DEF S
<1>4. PICK r \in S : \A k \in S : r <= k
  BY <1>3, Least
<1>5. r \in 1..l /\ r \in Record /\ q <= Last[r] /\ r - 1 \in 0..NumRecords
      /\ r \in 0..NumRecords
  BY <1>1, <1>4 DEF S, Record
<1>6. Last[r - 1] < q
  <2>1. CASE r = 1
    BY <1>1, <2>1
  <2>2. CASE r # 1
    <3>1. r - 1 \in 1..l /\ r - 1 \notin S
      BY <1>1, <1>4, <1>5, <2>2 DEF S
    <3>2. QED
      BY <1>1, <1>5, <3>1 DEF S
  <2>3. QED
    BY <2>1, <2>2
<1>7. q \in PayloadsOf(r)
  BY <1>1, <1>5, <1>6 DEF PayloadsOf
<1>8. ASSUME NEW k \in Record, q \in PayloadsOf(k) PROVE k = r
  <2>1. k \in 0..NumRecords /\ k - 1 \in 0..NumRecords /\ Last[k - 1] < q /\ q <= Last[k]
    BY <1>1, <1>8 DEF Record, PayloadsOf
  <2>2. CASE k < r
    <3>1. k <= r - 1
      BY <1>1, <1>5, <2>1, <2>2
    <3>2. Last[k] <= Last[r - 1]
      BY <1>1, <1>5, <2>1, <3>1
    <3>3. QED
      BY <1>1, <1>5, <1>6, <2>1, <3>2
  <2>3. CASE r < k
    <3>1. r <= k - 1
      BY <1>1, <1>5, <2>1, <2>3
    <3>2. Last[r] <= Last[k - 1]
      BY <1>1, <1>5, <2>1, <3>1
    <3>3. QED
      BY <1>1, <1>5, <2>1, <3>2
  <2>4. QED
    BY <1>1, <1>5, <2>1, <2>2, <2>3
<1>9. RecordOf(q) = r
  BY <1>5, <1>7, <1>8 DEF RecordOf
<1>10. QED
  BY <1>5, <1>7, <1>9

\* What is before the buffer is written, rejected or discarded.
LEMMA EarlierPayloads ==
    ASSUME IInv, LaneInv, InLoop, NEW q \in 1..(next - ctrBatch - 1)
    PROVE  q \in written \/ RecordOf(q) \in discarded
<1>1. /\ pending # <<>> /\ Last[lo - 1] \in Nat /\ next \in Nat /\ ctrBatch \in Nat
      /\ (Last[lo - 1] + 1)..(next - ctrBatch - 1) \subseteq written
      /\ lo - 1 \in 0..NumRecords
  BY LoopFacts, HeadRange DEF IInv
<1>2. CASE q > Last[lo - 1]
  BY <1>1, <1>2
<1>3. CASE q <= Last[lo - 1]
  <2>1. q \in 1..Last[lo - 1]
    BY <1>1, <1>3
  <2>2. RecordOf(q) \in 1..(lo - 1) /\ q \in PayloadsOf(RecordOf(q))
    BY <1>1, <2>1, RecordOfPayload
  <2>3. QED
    BY <1>1, <2>2 DEF LaneInv, FrontDone, Front
<1>4. QED
  BY <1>1, <1>2, <1>3

\* What a write stores of the buffer comes after all that is not stored by it
\* and could be.
LEMMA WritesInOrder ==
    ASSUME IInv, LaneInv, InLoop, NEW stored, stored \in {{}, Batch \ unwritable},
           NEW p \in (written \cup stored) \ written, NEW q \in 1..(p - 1)
    PROVE  q \in written \cup stored \/ q \in unwritable \/ RecordOf(q) \in discarded
<1>1. /\ next \in Nat /\ ctrBatch \in Nat
      /\ tsRecs = (next - ctrBatch)..(next - 1)
  BY LoopFacts
<1>2. Batch = (next - ctrBatch)..next
  BY <1>1 DEF Batch
<1>3. stored = Batch \ unwritable /\ p \in Batch
  OBVIOUS
<1>4. q \in Nat /\ q >= 1 /\ q < p /\ p <= next
  BY <1>1, <1>2, <1>3
<1>5. CASE q \in Batch
  BY <1>3, <1>5
<1>6. CASE q \notin Batch
  <2>1. q \in 1..(next - ctrBatch - 1)
    BY <1>1, <1>2, <1>4, <1>6
  <2>2. QED
    BY <2>1, EarlierPayloads
<1>7. QED
  BY <1>5, <1>6

\* When a payload is new in Timestream, every payload of the lane before it is
\* there, was rejected by it, or was given up: for every packing of payloads
\* into records, flush size, retry limit and choice of what is bad.
THEOREM OrderCorrect == Spec => FirstWritesInOrder
<1> DEFINE InOrder ==
        \A p \in written' \ written : \A q \in 1..(p - 1) :
            q \in written' \/ q \in unwritable \/ RecordOf(q) \in discarded
<1>1. IInv /\ LaneInv /\ [Next]_vars => [InOrder]_vars
  <2> SUFFICES ASSUME IInv, LaneInv, [Next]_vars PROVE InOrder \/ UNCHANGED vars
    OBVIOUS
  <2>1. CASE Write \/ WriteRejected \/ WriteFails
    <3>1. InLoop
      BY <2>1 DEF Write, WriteRejected, WriteFails, WriteDue
    <3>2. PICK stored \in {{}, Batch \ unwritable} : written' = written \cup stored
      BY <2>1 DEF Write, WriteRejected, WriteFails
    <3>3. QED
      BY <3>1, <3>2, WritesInOrder
  <2>2. CASE \/ Poll \/ Invoke \/ DeaggregateFails \/ Deaggregate \/ ParseFails
             \/ Collect \/ Return \/ Timeout
    <3>1. written' = written
      BY <2>2 DEF Poll, Invoke, DeaggregateFails, Deaggregate, ParseFails, Collect,
                  Return, Timeout
    <3>2. QED
      BY <3>1
  <2>3. QED
    BY <2>1, <2>2 DEF Next, Handler
<1>2. QED
  BY <1>1, LaneInvariance, PTL DEF Spec, FirstWritesInOrder
=============================================================================
