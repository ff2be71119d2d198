-------------------------- MODULE KplLoaderProofs --------------------------
(***************************************************************************)
(* What holds of every loader, for any number of tasks, messages, faults   *)
(* and deaths: the queue, the batches and the channels stay well formed,   *)
(* and what the sidecars have accepted only grows.  The loaders' own       *)
(* proofs cite these lemmas.                                               *)
(***************************************************************************)
EXTENDS KplLoader, FiniteSetTheorems, FunctionTheorems, SequenceTheorems,
        WellFoundedInduction, TLAPS

-----------------------------------------------------------------------------
(* The queue.                                                              *)

\* A nonempty set of natural numbers has a least one.
LEMMA Least ==
    ASSUME NEW S \in SUBSET Nat, S # {}
    PROVE  \E n \in S : \A k \in S : n <= k
<1> DEFINE Less == OpToRel(<, Nat)
<1>1. \A k, n \in Nat : k < n => <<k, n>> \in Less
  BY DEF OpToRel
<1>2. IsWellFoundedOn(Less, Nat)
  BY NatLessThanWellFounded
<1> HIDE DEF Less
<1>3. \E n \in S : \A k \in S : ~(<<k, n>> \in Less)
  BY <1>2, WFMin
<1>4. PICK n \in S : \A k \in S : ~(<<k, n>> \in Less)
  BY <1>3
<1>5. ASSUME NEW k \in S PROVE n <= k
  <2>1. k \in Nat /\ n \in Nat /\ ~(k < n)
    BY <1>1, <1>4
  <2>2. QED
    BY <2>1
<1>6. QED
  BY <1>5

\* ReceiveMessages gives a message a receipt no copy of it carries: there are
\* more candidates than copies, and the least that is free is among them.
LEMMA FreshReceiptIsFresh ==
    ASSUME NEW copies, IsFiniteSet(copies)
    PROVE  /\ FreshReceipt(copies) \in Nat
           /\ \A c \in copies : c.rcpt # FreshReceipt(copies)
<1> DEFINE n == Cardinality(copies)
           used == {c.rcpt : c \in copies}
           free == {k \in Nat : k \notin used}
<1>1. n \in Nat
  BY FS_CardinalityType
<1>2. IsFiniteSet(used) /\ Cardinality(used) <= n
  <2> DEFINE f == [c \in copies |-> c.rcpt]
  <2>1. f \in Surjection(copies, used)
    BY DEF Surjection
  <2> HIDE DEF f, used
  <2>2. QED
    BY <2>1, FS_Surjection
<1>3. \E k \in 0..n : k \notin used
  <2> SUFFICES ASSUME 0..n \subseteq used PROVE FALSE
    OBVIOUS
  <2>1. Cardinality(0..n) = n + 1
    BY <1>1, FS_Interval
  <2>2. Cardinality(0..n) <= Cardinality(used)
    <3> HIDE DEF used, n
    <3>1. QED
      BY <1>2, FS_Subset
  <2>3. Cardinality(used) \in Nat
    <3> HIDE DEF used
    <3>1. QED
      BY <1>2, FS_CardinalityType
  <2> HIDE DEF used, n
  <2>4. QED
    BY <1>1, <1>2, <2>1, <2>2, <2>3
<1>4. PICK k \in free : \A j \in free : k <= j
  <2>1. free \in SUBSET Nat /\ free # {}
    BY <1>1, <1>3
  <2> HIDE DEF free
  <2>2. QED
    BY <2>1, Least
<1>5. k \in 0..n
  BY <1>1, <1>3, <1>4
<1>6. \A c \in copies : c.rcpt # k
  BY <1>4
<1>7. \A j \in 0..(k - 1) : \E c \in copies : c.rcpt = j
  <2> SUFFICES ASSUME NEW j \in 0..(k - 1), j \notin used
               PROVE  FALSE
    OBVIOUS
  <2>1. k \in Nat /\ j \in Nat /\ j < k
    BY <1>4
  <2>2. j \in free
    BY <2>1
  <2>3. QED
    BY <1>4, <2>1, <2>2
<1> DEFINE P(x) == /\ \A c \in copies : c.rcpt # x
                   /\ \A j \in 0..(x - 1) : \E c \in copies : c.rcpt = j
<1>8. \E x \in 0..n : P(x)
  BY <1>5, <1>6, <1>7
<1>9. FreshReceipt(copies) = CHOOSE x \in 0..n : P(x)
  BY DEF FreshReceipt
<1> HIDE DEF P
<1>10. FreshReceipt(copies) \in 0..n /\ P(FreshReceipt(copies))
  BY <1>8, <1>9
<1>11. QED
  BY <1>1, <1>10 DEF P

-----------------------------------------------------------------------------
(* The frame: what the poller, the channel and the main loop of a task     *)
(* keep of the queue.                                                      *)

\* Batches and channels are sequences of copies, and a message has finitely many
\* copies, however many tasks there are: so there is always a fresh receipt.
Frame ==
    /\ QueueTypeOK
    /\ batch \in [Task -> Seq(Copy)]
    /\ chan \in [Task -> Seq(Copy)]
    /\ \A t \in Task : Len(chan[t]) <= MaxMessages
    /\ cur = [t \in Task |-> cur[t]]
    /\ \A m \in Message : IsFiniteSet(Copies[m])

LEMMA ElementsIn ==
    ASSUME NEW S, NEW s \in Seq(S)
    PROVE  Elements(s) \subseteq S
BY DEF Elements

\* What is in a sequence after an append, and what its head and tail are.
LEMMA ElementsOfSeq ==
    ASSUME NEW S, NEW s \in Seq(S), NEW e \in S
    PROVE  /\ Elements(s) \subseteq S
           /\ Elements(Append(s, e)) = Elements(s) \cup {e}
           /\ s # <<>> => /\ Head(s) \in S /\ Tail(s) \in Seq(S)
                          /\ Elements(s) = {Head(s)} \cup Elements(Tail(s))
<1>1. /\ Append(s, e) \in Seq(S) /\ Len(s) \in Nat /\ DOMAIN s = 1..Len(s)
      /\ DOMAIN Append(s, e) = 1..(Len(s) + 1)
      /\ \A i \in 1..Len(s) : Append(s, e)[i] = s[i] /\ s[i] \in S
      /\ Append(s, e)[Len(s) + 1] = e
  OBVIOUS
<1>2. Elements(s) \subseteq S
  BY <1>1 DEF Elements
<1>3. Elements(Append(s, e)) = Elements(s) \cup {e}
  <2>1. ASSUME NEW x \in Elements(s) PROVE x \in Elements(Append(s, e))
    <3>1. PICK i \in 1..Len(s) : x = s[i]
      BY <1>1 DEF Elements
    <3>2. i \in DOMAIN Append(s, e) /\ x = Append(s, e)[i]
      BY <1>1, <3>1
    <3>3. QED
      BY <3>2 DEF Elements
  <2>2. e \in Elements(Append(s, e))
    <3>1. Len(s) + 1 \in DOMAIN Append(s, e)
      BY <1>1
    <3>2. QED
      BY <1>1, <3>1 DEF Elements
  <2>3. ASSUME NEW x \in Elements(Append(s, e)) PROVE x \in Elements(s) \cup {e}
    <3>1. PICK i \in 1..(Len(s) + 1) : x = Append(s, e)[i]
      BY <1>1 DEF Elements
    <3>2. i \in 1..Len(s) \/ i = Len(s) + 1
      BY <1>1
    <3>3. QED
      BY <1>1, <3>1, <3>2 DEF Elements
  <2>4. QED
    BY <2>1, <2>2, <2>3
<1>4. ASSUME s # <<>>
      PROVE  /\ Head(s) \in S /\ Tail(s) \in Seq(S)
             /\ Elements(s) = {Head(s)} \cup Elements(Tail(s))
  <2>1. /\ Tail(s) \in Seq(S) /\ Len(s) \in Nat /\ Len(s) >= 1 /\ Head(s) = s[1]
        /\ DOMAIN Tail(s) = 1..(Len(s) - 1) /\ Head(s) \in S
        /\ \A i \in 1..(Len(s) - 1) : Tail(s)[i] = s[i + 1]
    BY <1>4
  <2>2. ASSUME NEW x \in Elements(s) PROVE x = Head(s) \/ x \in Elements(Tail(s))
    <3>1. PICK i \in 1..Len(s) : x = s[i]
      BY <1>1 DEF Elements
    <3>2. CASE i = 1
      BY <2>1, <3>1, <3>2
    <3>3. CASE i # 1
      <4>1. i - 1 \in 1..(Len(s) - 1) /\ (i - 1) + 1 = i
        BY <2>1, <3>3
      <4>2. Tail(s)[i - 1] = x /\ i - 1 \in DOMAIN Tail(s)
        BY <2>1, <3>1, <4>1
      <4>3. QED
        BY <4>2 DEF Elements
    <3>4. QED
      BY <3>2, <3>3
  <2>3. Head(s) \in Elements(s)
    BY <1>1, <2>1 DEF Elements
  <2>4. ASSUME NEW x \in Elements(Tail(s)) PROVE x \in Elements(s)
    <3>1. PICK i \in 1..(Len(s) - 1) : x = s[i + 1]
      BY <2>1 DEF Elements
    <3>2. i + 1 \in 1..Len(s)
      BY <2>1
    <3>3. QED
      BY <1>1, <3>1, <3>2 DEF Elements
  <2>5. QED
    BY <2>1, <2>2, <2>3, <2>4
<1>5. QED
  BY <1>2, <1>3, <1>4

\* One task's copies grow by at most one of each message: they stay finite.
LEMMA CopiesStayFinite ==
    ASSUME \A m \in Message : IsFiniteSet(Copies[m]),
           NEW t \in Task,
           \A u \in Task \ {t} : Held(u)' = Held(u),
           \A m \in Message : \E c : \A d \in Held(t)' :
               d.msg = m => d \in Held(t) \/ d = c
    PROVE  \A m \in Message : IsFiniteSet(Copies[m])'
<1> SUFFICES ASSUME NEW m \in Message PROVE IsFiniteSet(Copies'[m])
  OBVIOUS
<1>1. PICK c : \A d \in Held(t)' : d.msg = m => d \in Held(t) \/ d = c
  OBVIOUS
<1>2. Copies'[m] \subseteq Copies[m] \cup {c}
  BY <1>1 DEF Copies
<1>3. IsFiniteSet(Copies[m] \cup {c})
  BY FS_AddElement
<1>4. QED
  BY <1>2, <1>3, FS_Subset

LEMMA InitFrame ==
    ASSUME NEW sent, InitPolling(sent)
    PROVE  Frame
<1>1. QueueTypeOK
  BY QueueAssumption DEF InitPolling, InitQueue, QueueTypeOK
<1>2. /\ batch \in [Task -> Seq(Copy)] /\ chan \in [Task -> Seq(Copy)]
      /\ \A t \in Task : Len(chan[t]) <= MaxMessages
      /\ cur = [t \in Task |-> cur[t]]
  BY PollingAssumption DEF InitPolling
<1>3. \A t \in Task : Held(t) = {}
  BY DEF InitPolling, Held, Elements
<1>4. \A m \in Message : Copies[m] = {}
  BY <1>3 DEF Copies
<1>5. QED
  BY <1>1, <1>2, <1>4, FS_EmptySet DEF Frame

LEMMA ExpiryKeepsFrame ==
    ASSUME Frame, NEW m \in Message, VisibilityExpires(m)
    PROVE  Frame'
<1>1. QueueTypeOK'
  BY QueueAssumption DEF Frame, QueueTypeOK, VisibilityExpires, Expire
<1>2. UNCHANGED <<batch, chan, cur>>
  BY DEF VisibilityExpires, polling
<1>3. Copies' = Copies
  BY <1>2 DEF Copies, Held, Elements, Idle
<1>4. QED
  BY <1>1, <1>2, <1>3 DEF Frame

\* The poller of t has a new batch: different messages, each with a receipt that
\* no copy of it carries.
Got(t, ms) ==
    /\ batch[t] = <<>>
    /\ batch' = [batch EXCEPT ![t] =
                    [i \in DOMAIN ms |-> [msg |-> ms[i], rcpt |-> receipt'[ms[i]]]]]
    /\ UNCHANGED <<chan, cur>>
    /\ \E n \in Nat : /\ ms \in [1..n -> Message]
                      /\ \A i, j \in 1..n : i # j => ms[i] # ms[j]
    /\ \A m \in Elements(ms) : receipt'[m] = FreshReceipt(Copies[m])

LEMMA GotKeepsFrame ==
    ASSUME Frame, NEW t \in Task, NEW ms, Got(t, ms), QueueTypeOK'
    PROVE  /\ Frame'
           /\ Held(t)' = Held(t) \cup {[msg |-> m, rcpt |-> receipt'[m]] : m \in Elements(ms)}
           /\ \A u \in Task \ {t} : Held(u)' = Held(u)
<1> DEFINE copy(i) == [msg |-> ms[i], rcpt |-> receipt'[ms[i]]]
<1>1. PICK n \in Nat : /\ ms \in [1..n -> Message]
                       /\ \A i, j \in 1..n : i # j => ms[i] # ms[j]
  BY DEF Got
<1>2. n \in Nat /\ DOMAIN ms = 1..n
  BY <1>1
<1>3. /\ batch[t] = <<>>
      /\ batch' = [batch EXCEPT ![t] = [i \in DOMAIN ms |-> copy(i)]]
      /\ UNCHANGED <<chan, cur>>
  BY DEF Got
<1>4. \A i \in 1..n : copy(i) \in Copy
  BY <1>1 DEF Copy, QueueTypeOK
<1>5. [i \in DOMAIN ms |-> copy(i)] \in Seq(Copy)
  <2> HIDE DEF copy
  <2>1. QED
    BY <1>2, <1>4, IsASeq
<1>6. batch'[t] = [i \in DOMAIN ms |-> copy(i)] /\ \A u \in Task \ {t} : batch'[u] = batch[u]
  BY <1>3 DEF Frame
<1>7. batch' \in [Task -> Seq(Copy)]
  <2> HIDE DEF copy
  <2>1. QED
    BY <1>3, <1>5 DEF Frame
<1>8. \A u \in Task \ {t} : Held(u)' = Held(u)
  BY <1>3, <1>6 DEF Held, Idle
<1>9. Elements(batch'[t]) = {[msg |-> m, rcpt |-> receipt'[m]] : m \in Elements(ms)}
  BY <1>6 DEF Elements
<1>10. Held(t)' = Held(t) \cup {[msg |-> m, rcpt |-> receipt'[m]] : m \in Elements(ms)}
  <2>1. Elements(batch[t]) = {}
    BY <1>3 DEF Elements
  <2>2. QED
    BY <1>3, <1>9, <2>1 DEF Held, Idle
<1>11. \A m \in Message : IsFiniteSet(Copies[m])'
  <2>1. \A m \in Message : \E c : \A d \in Held(t)' : d.msg = m => d \in Held(t) \/ d = c
    <3> SUFFICES ASSUME NEW m \in Message
                 PROVE  \A d \in Held(t)' : d.msg = m =>
                            d \in Held(t) \/ d = [msg |-> m, rcpt |-> receipt'[m]]
      OBVIOUS
    <3>1. QED
      BY <1>10
  <2>2. QED
    BY <1>8, <2>1, CopiesStayFinite DEF Frame
<1>12. QED
  BY <1>3, <1>7, <1>8, <1>10, <1>11 DEF Frame

\* A batch of different visible messages.
LEMMA ReceiveKeepsFrame ==
    ASSUME Frame, NEW t \in Task, NEW ms \in Batches, Receive(t, ms)
    PROVE  /\ Frame' /\ Got(t, ms)
           /\ \A m \in Message \ Elements(ms) : queue'[m] = queue[m]
           /\ \A m \in Elements(ms) : /\ queue[m] = "visible" /\ queue'[m] = "inflight"
                                      /\ receipt'[m] = FreshReceipt(Copies[m])
           /\ Held(t)' = Held(t) \cup {[msg |-> m, rcpt |-> receipt'[m]] : m \in Elements(ms)}
           /\ \A u \in Task \ {t} : Held(u)' = Held(u)
           /\ early' = early
<1>1. PICK n \in 1..MaxMessages : /\ ms \in [1..n -> Visible]
                                  /\ \A i, j \in 1..n : i # j => ms[i] # ms[j]
  BY DEF Batches
<1>2. n \in Nat /\ DOMAIN ms = 1..n
  BY <1>1, PollingAssumption
<1>3. Elements(ms) \subseteq Visible /\ Visible \subseteq Message
  BY <1>1, <1>2 DEF Elements, Visible
<1>4. /\ queue' = [m \in Message |-> IF m \in Elements(ms) THEN "inflight" ELSE queue[m]]
      /\ receipt' = [m \in Message |->
            IF m \in Elements(ms) THEN FreshReceipt(Copies[m]) ELSE receipt[m]]
      /\ early' = early
  BY DEF Receive, ReceiveMessages, Hide
<1>5. \A m \in Message : FreshReceipt(Copies[m]) \in Nat
  BY FreshReceiptIsFresh DEF Frame
<1>6. QueueTypeOK'
  BY <1>4, <1>5 DEF Frame, QueueTypeOK
<1>7. ms \in [1..n -> Message]
  BY <1>1, <1>3
<1>8. Got(t, ms)
  <2>1. \A m \in Elements(ms) : receipt'[m] = FreshReceipt(Copies[m])
    BY <1>3, <1>4
  <2>2. QED
    BY <1>1, <1>2, <1>7, <2>1 DEF Receive, Got
<1>9. QED
  BY <1>3, <1>4, <1>6, <1>8, GotKeepsFrame DEF Visible

\* A message that is deleted and comes once more.
LEMMA ReceiveDeletedKeepsFrame ==
    ASSUME Frame, NEW t \in Task, NEW m \in Message, ReceiveDeleted(t, m)
    PROVE  /\ Frame' /\ Got(t, <<m>>)
           /\ queue[m] = "deleted" /\ queue' = queue
           /\ receipt'[m] = FreshReceipt(Copies[m])
           /\ \A n \in Message \ {m} : receipt'[n] = receipt[n]
           /\ Held(t)' = Held(t) \cup {[msg |-> m, rcpt |-> receipt'[m]]}
           /\ \A u \in Task \ {t} : Held(u)' = Held(u)
           /\ early' = early + 1
<1>1. /\ batch[t] = <<>> /\ queue[m] = "deleted"
      /\ early < MaxEarly /\ early' = early + 1 /\ queue' = queue
      /\ receipt' = [receipt EXCEPT ![m] = FreshReceipt(Copies[m])]
      /\ batch' = [batch EXCEPT ![t] = <<[msg |-> m, rcpt |-> receipt'[m]]>>]
      /\ UNCHANGED <<chan, cur>>
  BY DEF ReceiveDeleted, ReceiveAgain
<1>2. FreshReceipt(Copies[m]) \in Nat
  BY FreshReceiptIsFresh DEF Frame
<1>3. /\ QueueTypeOK' /\ receipt'[m] = FreshReceipt(Copies[m])
      /\ \A n \in Message \ {m} : receipt'[n] = receipt[n]
  BY <1>1, <1>2, QueueAssumption DEF Frame, QueueTypeOK
<1>4. DOMAIN <<m>> = 1..1 /\ <<m>> \in [1..1 -> Message] /\ Elements(<<m>>) = {m}
  BY DEF Elements
<1>5. [i \in DOMAIN <<m>> |-> [msg |-> <<m>>[i], rcpt |-> receipt'[<<m>>[i]]]]
          = <<[msg |-> m, rcpt |-> receipt'[m]]>>
  OBVIOUS
<1>6. Got(t, <<m>>)
  <2>1. \E n \in Nat : /\ <<m>> \in [1..n -> Message]
                       /\ \A i, j \in 1..n : i # j => <<m>>[i] # <<m>>[j]
    <3>1. 1 \in Nat /\ \A i, j \in 1..1 : i = j
      OBVIOUS
    <3>2. QED
      BY <1>4, <3>1
  <2>2. QED
    BY <1>1, <1>3, <1>4, <1>5, <2>1 DEF Got
<1>7. /\ Frame' /\ \A u \in Task \ {t} : Held(u)' = Held(u)
      /\ Held(t)' = Held(t) \cup {[msg |-> n, rcpt |-> receipt'[n]] : n \in Elements(<<m>>)}
  BY <1>3, <1>6, GotKeepsFrame
<1>8. QED
  BY <1>1, <1>3, <1>4, <1>6, <1>7

LEMMA PushKeepsFrame ==
    ASSUME Frame, NEW t \in Task, Push(t)
    PROVE  Frame' /\ UNCHANGED sqs /\ \A u \in Task : Held(u)' = Held(u)
<1>1. /\ batch[t] # <<>> /\ batch[t] \in Seq(Copy) /\ chan[t] \in Seq(Copy)
      /\ Len(chan[t]) < MaxMessages
      /\ chan' = [chan EXCEPT ![t] = Append(chan[t], Head(batch[t]))]
      /\ batch' = [batch EXCEPT ![t] = Tail(batch[t])]
      /\ UNCHANGED <<sqs, cur>>
  BY DEF Push, Frame
<1>2. /\ Head(batch[t]) \in Copy /\ Tail(batch[t]) \in Seq(Copy)
      /\ Elements(batch[t]) = {Head(batch[t])} \cup Elements(Tail(batch[t]))
  BY <1>1, ElementsOfSeq
<1>3. /\ Append(chan[t], Head(batch[t])) \in Seq(Copy)
      /\ Len(Append(chan[t], Head(batch[t]))) = Len(chan[t]) + 1
      /\ Elements(Append(chan[t], Head(batch[t]))) = Elements(chan[t]) \cup {Head(batch[t])}
  BY <1>1, <1>2, ElementsOfSeq
<1>4. /\ batch' \in [Task -> Seq(Copy)] /\ chan' \in [Task -> Seq(Copy)]
      /\ \A u \in Task : Len(chan'[u]) <= MaxMessages
  BY <1>1, <1>2, <1>3, PollingAssumption DEF Frame
<1>5. /\ batch'[t] = Tail(batch[t]) /\ chan'[t] = Append(chan[t], Head(batch[t]))
      /\ \A u \in Task \ {t} : batch'[u] = batch[u] /\ chan'[u] = chan[u]
  BY <1>1 DEF Frame
<1>6. ASSUME NEW u \in Task PROVE Held(u)' = Held(u)
  <2>1. CASE u = t
    <3>1. Elements(batch'[t]) \cup Elements(chan'[t]) = Elements(batch[t]) \cup Elements(chan[t])
      BY <1>2, <1>3, <1>5
    <3>2. QED
      BY <1>1, <2>1, <3>1 DEF Held, Idle
  <2>2. CASE u # t
    BY <1>1, <1>5, <2>2 DEF Held, Idle
  <2>3. QED
    BY <2>1, <2>2
<1>7. Copies' = Copies
  BY <1>6 DEF Copies
<1>8. QueueTypeOK'
  BY <1>1 DEF Frame, QueueTypeOK, sqs
<1>9. QED
  BY <1>1, <1>4, <1>6, <1>7, <1>8 DEF Frame

\* The main loop takes the next message, or changes what it has in hand.
LEMMA LoopKeepsFrame ==
    ASSUME Frame, NEW t \in Task, NEW c,
           cur' = [cur EXCEPT ![t] = c] \/ cur' = cur,
           (chan[t] # <<>> /\ Take(t)) \/ chan' = chan,
           batch' = batch, QueueTypeOK'
    PROVE  /\ Frame'
           /\ Held(t)' \subseteq Held(t) \cup {c}
           /\ \A u \in Task \ {t} : Held(u)' = Held(u)
           /\ cur' = [cur EXCEPT ![t] = c] =>
                  cur'[t] = c /\ \A u \in Task \ {t} : cur'[u] = cur[u]
<1>1. /\ cur' = [u \in Task |-> cur'[u]] /\ (cur'[t] = c \/ cur'[t] = cur[t])
      /\ \A u \in Task \ {t} : cur'[u] = cur[u]
      /\ cur' = [cur EXCEPT ![t] = c] => cur'[t] = c
  BY DEF Frame
<1>2. /\ chan' \in [Task -> Seq(Copy)]
      /\ \A u \in Task : Len(chan'[u]) <= MaxMessages
      /\ Elements(chan'[t]) \subseteq Elements(chan[t])
      /\ \A u \in Task \ {t} : chan'[u] = chan[u]
  <2>1. CASE chan' = chan
    BY <2>1 DEF Frame
  <2>2. CASE chan[t] # <<>> /\ Take(t)
    <3>1. chan' = [chan EXCEPT ![t] = Tail(chan[t])] /\ chan[t] \in Seq(Copy)
      BY <2>2 DEF Take, Frame
    <3>2. /\ Tail(chan[t]) \in Seq(Copy) /\ Len(Tail(chan[t])) <= Len(chan[t])
          /\ Len(chan[t]) \in Nat /\ Len(Tail(chan[t])) \in Nat
      BY <2>2, <3>1
    <3>3. Elements(Tail(chan[t])) \subseteq Elements(chan[t])
      BY <2>2, <3>1, ElementsOfSeq
    <3>4. QED
      BY <3>1, <3>2, <3>3, PollingAssumption DEF Frame
  <2>3. QED
    BY <2>1, <2>2
<1>3. Held(t)' \subseteq Held(t) \cup {c}
  BY <1>1, <1>2 DEF Held, Idle
<1>4. \A u \in Task \ {t} : Held(u)' = Held(u)
  BY <1>1, <1>2 DEF Held, Idle
<1>5. \A m \in Message : IsFiniteSet(Copies[m])'
  <2>1. \A m \in Message : \E d : \A e \in Held(t)' : e.msg = m => e \in Held(t) \/ e = d
    BY <1>3
  <2>2. QED
    BY <1>4, <2>1, CopiesStayFinite DEF Frame
<1>6. QED
  BY <1>1, <1>2, <1>3, <1>4, <1>5 DEF Frame

\* A dead task holds nothing.
LEMMA ForgetKeepsFrame ==
    ASSUME Frame, NEW t \in Task, Forget(t)
    PROVE  /\ Frame' /\ UNCHANGED sqs
           /\ Held(t)' = {}
           /\ \A u \in Task \ {t} : Held(u)' = Held(u)
           /\ cur'[t] = Idle /\ \A u \in Task \ {t} : cur'[u] = cur[u]
<1>1. /\ batch' = [batch EXCEPT ![t] = <<>>] /\ chan' = [chan EXCEPT ![t] = <<>>]
      /\ cur' = [cur EXCEPT ![t] = Idle] /\ UNCHANGED sqs
  BY DEF Forget
<1>2. /\ batch'[t] = <<>> /\ chan'[t] = <<>> /\ cur'[t] = Idle
      /\ \A u \in Task \ {t} :
            batch'[u] = batch[u] /\ chan'[u] = chan[u] /\ cur'[u] = cur[u]
      /\ batch' \in [Task -> Seq(Copy)] /\ chan' \in [Task -> Seq(Copy)]
      /\ cur' = [u \in Task |-> cur'[u]]
      /\ \A u \in Task : Len(chan'[u]) <= MaxMessages
  <2>1. <<>> \in Seq(Copy) /\ Len(<<>>) <= MaxMessages
    BY PollingAssumption
  <2>2. /\ batch' \in [Task -> Seq(Copy)] /\ chan' \in [Task -> Seq(Copy)]
        /\ cur' = [u \in Task |-> cur'[u]]
    BY <1>1, <2>1 DEF Frame
  <2>3. /\ batch'[t] = <<>> /\ chan'[t] = <<>> /\ cur'[t] = Idle
        /\ \A u \in Task \ {t} :
              batch'[u] = batch[u] /\ chan'[u] = chan[u] /\ cur'[u] = cur[u]
    BY <1>1 DEF Frame
  <2>4. QED
    BY <2>1, <2>2, <2>3 DEF Frame
<1>3. Held(t)' = {}
  BY <1>2 DEF Held, Elements, Idle
<1>4. \A u \in Task \ {t} : Held(u)' = Held(u)
  BY <1>2 DEF Held, Idle
<1>5. \A m \in Message : IsFiniteSet(Copies[m])'
  <2>1. \A m \in Message : \E c : \A d \in Held(t)' : d.msg = m => d \in Held(t) \/ d = c
    BY <1>3
  <2>2. QED
    BY <1>4, <2>1, CopiesStayFinite DEF Frame
<1>6. QueueTypeOK'
  BY <1>1 DEF Frame, QueueTypeOK, sqs
<1>7. QED
  BY <1>1, <1>2, <1>3, <1>4, <1>5, <1>6 DEF Frame

\* A message is deleted, or its old receipt is ignored.
LEMMA DeleteKeepsQueue ==
    ASSUME QueueTypeOK, NEW c, DeleteMessages(c)
    PROVE  QueueTypeOK' /\ Deleted \subseteq Deleted' /\ Deleted' \subseteq Deleted \cup {c.msg}
BY DEF QueueTypeOK, DeleteMessages, Deleted

-----------------------------------------------------------------------------
(* The sidecars.                                                           *)

SidecarsTypeOK == kpl = [t \in Task |-> kpl[t]]

LEMMA InitSidecarsOK ==
    ASSUME InitSidecars
    PROVE  SidecarsTypeOK /\ Accepted = {} /\ refused = {}
BY DEF InitSidecars, SidecarsTypeOK, Accepted, Rejected

\* PutRecord adds the unit to what the sidecars have accepted, and nothing else.
LEMMA AcceptAdds ==
    ASSUME SidecarsTypeOK, NEW t \in Task, NEW u, Accept(t, u)
    PROVE  SidecarsTypeOK' /\ Accepted' = Accepted \cup {u} /\ refused' = refused
<1>1. /\ kpl' = [kpl EXCEPT ![t] = kpl[t] \cup {u}]
      /\ UNCHANGED <<stream, dlq, lost, refused>>
  BY DEF Accept
<1>2. /\ kpl'[t] = kpl[t] \cup {u} /\ \A v \in Task \ {t} : kpl'[v] = kpl[v]
      /\ kpl' = [v \in Task |-> kpl'[v]]
  BY <1>1 DEF SidecarsTypeOK
<1>3. QED
  BY <1>1, <1>2 DEF SidecarsTypeOK, Accepted, Rejected

\* The error handler moves what was accepted to the queue or loses it, and counts
\* a fault for each attempt whose reply did not come.
LEMMA ErrHandlerKeepsAccepted ==
    ASSUME SidecarsTypeOK, ServiceTypeOK, NEW t \in Task, NEW u, ErrHandler(t, u)
    PROVE  /\ SidecarsTypeOK' /\ ServiceTypeOK'
           /\ Accepted' = Accepted /\ refused' = refused
<1>1. /\ u \in kpl[t] /\ kpl' = [kpl EXCEPT ![t] = kpl[t] \ {u}]
      /\ faults < MaxFaults /\ UNCHANGED <<stream, refused, crashes>>
  BY DEF ErrHandler
<1>2. PICK n \in 0..(MaxFaults - faults) :
          /\ faults' = faults + (IF n = 0 THEN 1 ELSE n)
          /\ dlq' = dlq \cup {<<u, k>> : k \in 1..n}
          /\ lost' = IF n = 0 THEN lost \cup {u} ELSE lost
  BY DEF ErrHandler
<1>3. ServiceTypeOK'
  BY <1>1, <1>2, ServiceAssumption DEF ServiceTypeOK
<1>4. Rejected' \cup lost' = Rejected \cup lost \cup {u}
  <2>1. Rejected' = Rejected \cup {x[1] : x \in {<<u, k>> : k \in 1..n}}
    BY <1>2 DEF Rejected
  <2>2. {x[1] : x \in {<<u, k>> : k \in 1..n}} \subseteq {u}
    OBVIOUS
  <2>3. CASE n = 0
    BY <1>2, <2>1, <2>2, <2>3
  <2>4. CASE n # 0
    <3>1. 1 \in 1..n
      BY <1>1, <2>4, ServiceAssumption DEF ServiceTypeOK
    <3>2. <<u, 1>> \in {<<u, k>> : k \in 1..n} /\ <<u, 1>>[1] = u
      BY <3>1
    <3>3. u \in {x[1] : x \in {<<u, k>> : k \in 1..n}}
      BY <3>2
    <3>4. QED
      BY <1>2, <2>1, <2>2, <2>4, <3>3
  <2>5. QED
    BY <2>3, <2>4
<1>5. /\ kpl'[t] = kpl[t] \ {u} /\ \A v \in Task \ {t} : kpl'[v] = kpl[v]
      /\ kpl' = [v \in Task |-> kpl'[v]]
  BY <1>1 DEF SidecarsTypeOK
<1>6. (UNION {kpl'[v] : v \in Task}) \cup {u} = UNION {kpl[v] : v \in Task}
  BY <1>1, <1>5
<1>7. QED
  BY <1>1, <1>3, <1>4, <1>5, <1>6 DEF SidecarsTypeOK, Accepted

\* What a dying task's sidecars hold is delivered or lost.
LEMMA SidecarsDieKeepsAccepted ==
    ASSUME SidecarsTypeOK, NEW t \in Task, SidecarsDie(t)
    PROVE  SidecarsTypeOK' /\ Accepted' = Accepted /\ refused' = refused
<1>1. /\ kpl' = [kpl EXCEPT ![t] = {}] /\ UNCHANGED <<dlq, refused>>
      /\ stream' \cup lost' = stream \cup lost \cup kpl[t]
  BY DEF SidecarsDie
<1>2. /\ kpl'[t] = {} /\ \A v \in Task \ {t} : kpl'[v] = kpl[v]
      /\ kpl' = [v \in Task |-> kpl'[v]]
  BY <1>1 DEF SidecarsTypeOK
<1>3. (UNION {kpl'[v] : v \in Task}) \cup kpl[t] = UNION {kpl[v] : v \in Task}
  BY <1>2
<1>4. QED
  BY <1>1, <1>2, <1>3 DEF SidecarsTypeOK, Accepted, Rejected

LEMMA RefuseAdds ==
    ASSUME SidecarsTypeOK, NEW units, Refuse(units)
    PROVE  SidecarsTypeOK' /\ Accepted' = Accepted /\ refused' = refused \cup units
BY DEF SidecarsTypeOK, Refuse, Accepted, Rejected

-----------------------------------------------------------------------------
(* The steps the loaders share, put together.                              *)

Shared == Frame /\ SidecarsTypeOK /\ ServiceTypeOK

LEMMA InitShared ==
    ASSUME NEW sent, InitLoader(sent)
    PROVE  /\ Shared /\ Deleted = {} /\ Accepted = {} /\ refused = {}
           /\ \A t \in Task : cur[t] = Idle
<1>1. ServiceTypeOK
  BY ServiceAssumption DEF InitLoader, InitService, ServiceTypeOK
<1>2. Deleted = {} /\ \A t \in Task : cur[t] = Idle
  BY DEF InitLoader, InitPolling, InitQueue, Deleted
<1>3. QED
  BY <1>1, <1>2, InitFrame, InitSidecarsOK DEF InitLoader, Shared

\* A call that fails, or a death, within the bounds.
LEMMA ServiceStep ==
    ASSUME ServiceTypeOK, Fault \/ Death \/ UNCHANGED service
    PROVE  ServiceTypeOK'
BY ServiceAssumption DEF ServiceTypeOK, Fault, Death, service

\* A task that dies deletes nothing, and what its sidecars had accepted counts as
\* accepted still.
LEMMA PanicKeepsShared ==
    ASSUME Shared, NEW t \in Task, Panic(t), ServiceTypeOK'
    PROVE  /\ Shared' /\ Deleted' = Deleted /\ Accepted' = Accepted /\ refused' = refused
           /\ cur'[t] = Idle /\ \A u \in Task \ {t} : cur'[u] = cur[u]
<1>1. Forget(t) /\ SidecarsDie(t)
  BY DEF Panic
<1>2. Deleted' = Deleted
  BY <1>1 DEF Forget, sqs, Deleted
<1>3. QED
  BY <1>1, <1>2, ForgetKeepsFrame, SidecarsDieKeepsAccepted DEF Shared

\* What happens beside the main loops deletes no message, takes back nothing that
\* was accepted, and disturbs a main loop only by killing its task.
LEMMA BesidesKeepsShared ==
    ASSUME Shared, Besides
    PROVE  /\ Shared' /\ Deleted' = Deleted /\ Accepted' = Accepted /\ refused' = refused
           /\ \A t \in Task : cur'[t] = cur[t] \/ cur'[t] = Idle
<1>1. CASE \E m \in Message : VisibilityExpires(m) /\ UNCHANGED sidecars
  <2>1. PICK m \in Message : VisibilityExpires(m) /\ UNCHANGED sidecars
    BY <1>1
  <2>2. Deleted' = Deleted /\ cur' = cur
    BY <2>1 DEF VisibilityExpires, Expire, Deleted, polling, Shared, Frame, QueueTypeOK
  <2>3. /\ ServiceTypeOK' /\ SidecarsTypeOK' /\ Accepted' = Accepted /\ refused' = refused
    BY <2>1 DEF VisibilityExpires, Shared, ServiceTypeOK, SidecarsTypeOK, Accepted, Rejected,
                service, sidecars
  <2>4. QED
    BY <2>1, <2>2, <2>3, ExpiryKeepsFrame DEF Shared
<1>2. CASE \E t \in Task : Poll(t) /\ UNCHANGED sidecars
  <2>1. PICK t \in Task : Poll(t) /\ UNCHANGED sidecars
    BY <1>2
  <2>2. UNCHANGED <<cur, service>>
    BY <2>1 DEF Poll, Receive, ReceiveDeleted, Push
  <2>3. /\ ServiceTypeOK' /\ SidecarsTypeOK' /\ Accepted' = Accepted /\ refused' = refused
    BY <2>1, <2>2 DEF Shared, ServiceTypeOK, SidecarsTypeOK, Accepted, Rejected, service, sidecars
  <2>4. CASE Push(t)
    <3>1. Deleted' = Deleted
      BY <2>4 DEF Push, sqs, Deleted
    <3>2. QED
      BY <2>2, <2>3, <2>4, <3>1, PushKeepsFrame DEF Shared
  <2>5. CASE \E ms \in Batches : Receive(t, ms)
    <3>1. PICK ms \in Batches : Receive(t, ms)
      BY <2>5
    <3>2. Frame' /\ (\A m \in Message \ Elements(ms) : queue'[m] = queue[m])
          /\ \A m \in Elements(ms) : queue[m] = "visible" /\ queue'[m] = "inflight"
      BY <3>1, ReceiveKeepsFrame DEF Shared
    <3>3. Deleted' = Deleted
      BY <3>2 DEF Deleted
    <3>4. QED
      BY <2>2, <2>3, <3>2, <3>3 DEF Shared
  <2>6. CASE \E m \in Message : ReceiveDeleted(t, m)
    <3>1. PICK m \in Message : ReceiveDeleted(t, m)
      BY <2>6
    <3>2. Frame' /\ queue' = queue
      BY <3>1, ReceiveDeletedKeepsFrame DEF Shared
    <3>3. QED
      BY <2>2, <2>3, <3>2 DEF Shared, Deleted
  <2>7. QED
    BY <2>1, <2>4, <2>5, <2>6 DEF Poll
<1>3. CASE \E t \in Task : \E u \in kpl[t] : Reject(t, u)
  <2>1. PICK t \in Task : \E u \in kpl[t] : Reject(t, u)
    BY <1>3
  <2>2. PICK u \in kpl[t] : /\ ErrHandler(t, u)
                            /\ UNCHANGED <<queue, receipt, early, batch, chan, cur>>
    BY <2>1 DEF Reject, sqs, polling
  <2>3. Frame' /\ Deleted' = Deleted
    <3>1. Copies' = Copies
      BY <2>2 DEF Copies, Held, Elements, Idle
    <3>2. QED
      BY <2>2, <3>1 DEF Shared, Frame, QueueTypeOK, Deleted
  <2>4. QED
    BY <2>2, <2>3, ErrHandlerKeepsAccepted DEF Shared
<1>4. CASE \E t \in Task : Crash(t)
  <2>1. PICK t \in Task : Death /\ Panic(t)
    BY <1>4 DEF Crash
  <2>2. ServiceTypeOK'
    BY <2>1, ServiceStep DEF Shared
  <2>3. QED
    BY <2>1, <2>2, PanicKeepsShared
<1>5. QED
  BY <1>1, <1>2, <1>3, <1>4 DEF Besides

\* A step of the main loop that takes the next message, or goes on with c.
LEMMA BeginKeepsShared ==
    ASSUME Shared, NEW t \in Task, NEW c, Begin(t, c)
    PROVE  /\ Shared' /\ Deleted' = Deleted /\ Accepted' = Accepted /\ refused' = refused
           /\ cur'[t] = c /\ (\A u \in Task \ {t} : cur'[u] = cur[u])
           /\ NextInChan(t) \in Copy
<1>1. /\ chan[t] # <<>> /\ Take(t) /\ cur' = [cur EXCEPT ![t] = c]
      /\ UNCHANGED <<queue, receipt, early, batch, sidecars, service>>
  BY DEF Begin, Free, sqs
<1>2. QueueTypeOK' /\ Deleted' = Deleted
  BY <1>1 DEF Shared, Frame, QueueTypeOK, Deleted
<1>3. Frame' /\ cur'[t] = c /\ \A u \in Task \ {t} : cur'[u] = cur[u]
  BY <1>1, <1>2, LoopKeepsFrame DEF Shared
<1>4. /\ ServiceTypeOK' /\ SidecarsTypeOK' /\ Accepted' = Accepted /\ refused' = refused
  BY <1>1 DEF Shared, ServiceTypeOK, SidecarsTypeOK, Accepted, Rejected, service, sidecars
<1>5. NextInChan(t) \in Copy
  BY <1>1, ElementsOfSeq DEF NextInChan, Shared, Frame
<1>6. QED
  BY <1>2, <1>3, <1>4, <1>5 DEF Shared

LEMMA DiscardKeepsShared ==
    ASSUME Shared, NEW t \in Task, Discard(t), UNCHANGED <<sidecars, service>>
    PROVE  /\ Shared' /\ Deleted' = Deleted /\ Accepted' = Accepted /\ refused' = refused
           /\ cur' = cur
<1>1. /\ chan[t] # <<>> /\ Take(t) /\ cur' = cur
      /\ UNCHANGED <<queue, receipt, early, batch>>
  BY DEF Discard, Free, sqs
<1>2. QueueTypeOK' /\ Deleted' = Deleted
  BY <1>1 DEF Shared, Frame, QueueTypeOK, Deleted
<1>3. Frame'
  BY <1>1, <1>2, LoopKeepsFrame DEF Shared
<1>4. /\ ServiceTypeOK' /\ SidecarsTypeOK' /\ Accepted' = Accepted /\ refused' = refused
  BY DEF Shared, ServiceTypeOK, SidecarsTypeOK, Accepted, Rejected, service, sidecars
<1>5. QED
  BY <1>1, <1>2, <1>3, <1>4 DEF Shared

LEMMA GoKeepsFrame ==
    ASSUME Frame, NEW t \in Task, NEW c, Go(t, c)
    PROVE  /\ Frame' /\ Deleted' = Deleted
           /\ cur'[t] = c /\ \A u \in Task \ {t} : cur'[u] = cur[u]
<1>1. /\ cur' = [cur EXCEPT ![t] = c]
      /\ UNCHANGED <<queue, receipt, early, batch, chan>>
  BY DEF Go, sqs
<1>2. QueueTypeOK' /\ Deleted' = Deleted
  BY <1>1 DEF Frame, QueueTypeOK, Deleted
<1>3. QED
  BY <1>1, <1>2, LoopKeepsFrame

\* A step of the main loop that goes on with c and at most counts a fault.
LEMMA GoKeepsShared ==
    ASSUME Shared, NEW t \in Task, NEW c, Go(t, c), UNCHANGED sidecars,
           Fault \/ UNCHANGED service
    PROVE  /\ Shared' /\ Deleted' = Deleted /\ Accepted' = Accepted /\ refused' = refused
           /\ cur'[t] = c /\ \A u \in Task \ {t} : cur'[u] = cur[u]
<1>1. SidecarsTypeOK' /\ Accepted' = Accepted /\ refused' = refused
  BY DEF Shared, SidecarsTypeOK, Accepted, Rejected, sidecars
<1>2. QED
  BY <1>1, GoKeepsFrame, ServiceStep DEF Shared

LEMMA PutKeepsShared ==
    ASSUME Shared, NEW t \in Task, NEW c, Go(t, c), NEW u, Accept(t, u), UNCHANGED service
    PROVE  /\ Shared' /\ Deleted' = Deleted /\ Accepted' = Accepted \cup {u}
           /\ refused' = refused
           /\ cur'[t] = c /\ \A v \in Task \ {t} : cur'[v] = cur[v]
BY GoKeepsFrame, AcceptAdds, ServiceStep DEF Shared

LEMMA RefuseKeepsShared ==
    ASSUME Shared, NEW t \in Task, NEW c, Go(t, c), NEW units, Refuse(units), Fault
    PROVE  /\ Shared' /\ Deleted' = Deleted /\ Accepted' = Accepted
           /\ refused' = refused \cup units
           /\ cur'[t] = c /\ \A v \in Task \ {t} : cur'[v] = cur[v]
BY GoKeepsFrame, RefuseAdds, ServiceStep DEF Shared

LEMMA DeleteKeepsShared ==
    ASSUME Shared, NEW t \in Task, Delete(t)
    PROVE  /\ Shared' /\ Accepted' = Accepted /\ refused' = refused
           /\ Deleted \subseteq Deleted' /\ Deleted' \subseteq Deleted \cup {cur[t].msg}
           /\ cur'[t] = Idle /\ \A u \in Task \ {t} : cur'[u] = cur[u]
<1>1. /\ DeleteMessages(cur[t]) /\ cur' = [cur EXCEPT ![t] = Idle]
      /\ UNCHANGED <<batch, chan, sidecars, service>>
  BY DEF Delete
<1>2. QueueTypeOK' /\ Deleted \subseteq Deleted' /\ Deleted' \subseteq Deleted \cup {cur[t].msg}
  BY <1>1, DeleteKeepsQueue DEF Shared, Frame
<1>3. Frame' /\ cur'[t] = Idle /\ \A u \in Task \ {t} : cur'[u] = cur[u]
  BY <1>1, <1>2, LoopKeepsFrame DEF Shared
<1>4. /\ ServiceTypeOK' /\ SidecarsTypeOK' /\ Accepted' = Accepted /\ refused' = refused
  BY <1>1 DEF Shared, ServiceTypeOK, SidecarsTypeOK, Accepted, Rejected, service, sidecars
<1>5. QED
  BY <1>2, <1>3, <1>4 DEF Shared

LEMMA StutterKeepsShared ==
    ASSUME Shared, UNCHANGED vars
    PROVE  Shared' /\ UNCHANGED <<Deleted, Accepted, refused, cur>>
<1>1. Copies' = Copies
  BY DEF vars, polling, Copies, Held, Elements, Idle
<1>2. QED
  BY <1>1 DEF vars, sqs, polling, sidecars, service, Shared, Frame,
              QueueTypeOK, SidecarsTypeOK, ServiceTypeOK, Deleted, Accepted, Rejected

-----------------------------------------------------------------------------
(* One receive, one place: no two places hold the same receive of a        *)
(* message, however often the queue delivers it.  A loader that puts       *)
(* messages makes one put of a receive because of that.                    *)

SameReceive(c, d) == c.msg = d.msg /\ c.rcpt = d.rcpt

Distinct(s) == \A i, j \in DOMAIN s : SameReceive(s[i], s[j]) => i = j
Apart(A, B) == \A c \in A : \A d \in B : ~SameReceive(c, d)

ApartInTask(t) ==
    /\ Distinct(batch[t]) /\ Distinct(chan[t])
    /\ Apart(Elements(batch[t]), Elements(chan[t]))
    /\ Apart({cur[t]} \ {Idle}, Elements(batch[t]) \cup Elements(chan[t]))

Holders ==
    /\ \A t \in Task : ApartInTask(t)
    /\ \A t \in Task : \A u \in Task \ {t} : Apart(Held(t), Held(u))

\* What is behind the head of a sequence of different receives is different from
\* it, and so is what is put behind its end if it was in none of its places.
LEMMA DistinctSeq ==
    ASSUME NEW S, NEW s \in Seq(S), Distinct(s)
    PROVE  /\ \A e \in S : Apart(Elements(s), {e}) => Distinct(Append(s, e))
           /\ s # <<>> => Distinct(Tail(s)) /\ Apart(Elements(Tail(s)), {Head(s)})
<1>1. ASSUME NEW e \in S, Apart(Elements(s), {e}) PROVE Distinct(Append(s, e))
  <2>1. /\ Len(s) \in Nat /\ DOMAIN s = 1..Len(s) /\ DOMAIN Append(s, e) = 1..(Len(s) + 1)
        /\ \A i \in 1..Len(s) : Append(s, e)[i] = s[i]
        /\ Append(s, e)[Len(s) + 1] = e
    OBVIOUS
  <2>2. \A i \in 1..Len(s) : s[i] \in Elements(s)
    BY <2>1 DEF Elements
  <2> SUFFICES ASSUME NEW i \in 1..(Len(s) + 1), NEW j \in 1..(Len(s) + 1),
                      SameReceive(Append(s, e)[i], Append(s, e)[j])
               PROVE  i = j
    BY <2>1 DEF Distinct
  <2>3. (i \in 1..Len(s) \/ i = Len(s) + 1) /\ (j \in 1..Len(s) \/ j = Len(s) + 1)
    BY <2>1
  <2>4. CASE i \in 1..Len(s) /\ j \in 1..Len(s)
    BY <2>1, <2>4 DEF Distinct
  <2>5. CASE i \in 1..Len(s) /\ j = Len(s) + 1
    BY <1>1, <2>1, <2>2, <2>5 DEF Apart
  <2>6. CASE i = Len(s) + 1 /\ j \in 1..Len(s)
    BY <1>1, <2>1, <2>2, <2>6 DEF Apart, SameReceive
  <2>7. QED
    BY <2>3, <2>4, <2>5, <2>6
<1>2. ASSUME s # <<>> PROVE Distinct(Tail(s)) /\ Apart(Elements(Tail(s)), {Head(s)})
  <2>1. /\ Len(s) \in Nat /\ Len(s) >= 1 /\ DOMAIN s = 1..Len(s) /\ Head(s) = s[1]
        /\ DOMAIN Tail(s) = 1..(Len(s) - 1)
        /\ \A i \in 1..(Len(s) - 1) : Tail(s)[i] = s[i + 1] /\ i + 1 \in 1..Len(s)
    BY <1>2
  <2>2. Distinct(Tail(s))
    <3> SUFFICES ASSUME NEW i \in 1..(Len(s) - 1), NEW j \in 1..(Len(s) - 1),
                        SameReceive(Tail(s)[i], Tail(s)[j])
                 PROVE  i = j
      BY <2>1 DEF Distinct
    <3>1. i + 1 = j + 1
      BY <2>1 DEF Distinct
    <3>2. QED
      BY <3>1
  <2>3. ASSUME NEW i \in 1..(Len(s) - 1) PROVE ~SameReceive(Tail(s)[i], Head(s))
    <3>1. i + 1 # 1 /\ i + 1 \in DOMAIN s /\ 1 \in DOMAIN s
      BY <2>1
    <3>2. QED
      BY <2>1, <3>1 DEF Distinct
  <2>4. QED
    BY <2>1, <2>2, <2>3 DEF Apart, Elements
<1>3. QED
  BY <1>1, <1>2

\* All tasks stay apart if the one that takes a step ends up apart from the others.
LEMMA TasksStayApart ==
    ASSUME Holders, NEW t \in Task, \A u \in Task \ {t} : Held(u)' = Held(u),
           \A u \in Task \ {t} : Apart(Held(t)', Held(u))
    PROVE  \A v \in Task : \A u \in Task \ {v} : Apart(Held(v), Held(u))'
<1> SUFFICES ASSUME NEW v \in Task, NEW u \in Task \ {v} PROVE Apart(Held(v), Held(u))'
  OBVIOUS
<1>1. CASE v = t
  BY <1>1 DEF Apart
<1>2. CASE u = t
  BY <1>2 DEF Apart, SameReceive
<1>3. CASE u # t /\ v # t
  BY <1>3 DEF Holders, Apart
<1>4. QED
  BY <1>1, <1>2, <1>3

\* What a poller receives has receipts that no copy has.
LEMMA GotKeepsHolders ==
    ASSUME Frame, QueueTypeOK', Holders, NEW t \in Task, NEW ms, Got(t, ms)
    PROVE  Holders'
<1> DEFINE new == {[msg |-> m, rcpt |-> receipt'[m]] : m \in Elements(ms)}
<1>1. /\ \A m \in Elements(ms) : receipt'[m] = FreshReceipt(Copies[m])
      /\ Held(t)' = Held(t) \cup new
      /\ \A u \in Task \ {t} : Held(u)' = Held(u)
  BY GotKeepsFrame DEF Got
<1>2. PICK n \in Nat : /\ ms \in [1..n -> Message]
                       /\ \A i, j \in 1..n : i # j => ms[i] # ms[j]
  BY DEF Got
<1>3. DOMAIN ms = 1..n /\ Elements(ms) \subseteq Message
  BY <1>2 DEF Elements
<1>4. /\ batch[t] = <<>>
      /\ batch'[t] = [i \in DOMAIN ms |-> [msg |-> ms[i], rcpt |-> receipt'[ms[i]]]]
      /\ \A u \in Task \ {t} : batch'[u] = batch[u]
      /\ chan' = chan /\ cur' = cur
  BY DEF Got, Frame
<1>5. \A u \in Task : \A c \in Held(u) : c.msg \in Message => c \in Copies[c.msg]
  BY DEF Copies
<1>6. \A u \in Task : Apart(new, Held(u))
  <2> SUFFICES ASSUME NEW u \in Task, NEW m \in Elements(ms), NEW c \in Held(u), c.msg = m
               PROVE  receipt'[m] # c.rcpt
    BY DEF Apart, SameReceive
  <2>1. c \in Copies[m] /\ IsFiniteSet(Copies[m])
    BY <1>3, <1>5 DEF Frame
  <2>2. QED
    BY <1>1, <2>1, FreshReceiptIsFresh
<1>7. \A v \in Task : \A u \in Task \ {v} : Apart(Held(v), Held(u))'
  <2>1. \A u \in Task \ {t} : Apart(Held(t)', Held(u))
    BY <1>1, <1>6 DEF Apart, Holders
  <2>2. QED
    BY <1>1, <2>1, TasksStayApart
<1>8. ASSUME NEW u \in Task PROVE ApartInTask(u)'
  <2>1. CASE u # t
    BY <1>4, <2>1 DEF Holders, ApartInTask, Idle
  <2>2. CASE u = t
    <3>1. Distinct(batch[t])'
      <4> SUFFICES ASSUME NEW i \in 1..n, NEW j \in 1..n,
                          SameReceive(batch'[t][i], batch'[t][j])
                   PROVE  i = j
        BY <1>3, <1>4 DEF Distinct
      <4>1. batch'[t][i].msg = ms[i] /\ batch'[t][j].msg = ms[j]
        BY <1>3, <1>4
      <4>2. QED
        BY <1>2, <4>1 DEF SameReceive
    <3>2. Elements(batch'[t]) = new
      BY <1>4 DEF Elements
    <3>3. Distinct(chan[t])'
      BY <1>4 DEF Holders, ApartInTask, Distinct
    <3>4. Apart({cur[t]} \ {Idle}, Elements(chan[t]))
      BY DEF Holders, ApartInTask, Apart
    <3>5. Apart(new, Elements(chan[t])) /\ Apart({cur[t]} \ {Idle}, new)
      BY <1>6 DEF Apart, Held, SameReceive
    <3>6. Apart(Elements(batch[t]), Elements(chan[t]))'
      BY <1>4, <3>2, <3>5
    <3>7. Apart({cur[t]} \ {Idle}, Elements(batch[t]) \cup Elements(chan[t]))'
      BY <1>4, <3>2, <3>4, <3>5 DEF Apart, Idle
    <3>8. QED
      BY <2>2, <3>1, <3>3, <3>6, <3>7 DEF ApartInTask
  <2>3. QED
    BY <2>1, <2>2
<1>9. QED
  BY <1>7, <1>8 DEF Holders

LEMMA PushKeepsHolders ==
    ASSUME Frame, Holders, NEW t \in Task, Push(t)
    PROVE  Holders'
<1>1. Frame' /\ UNCHANGED sqs /\ \A u \in Task : Held(u)' = Held(u)
  BY PushKeepsFrame
<1>2. /\ batch[t] # <<>> /\ batch[t] \in Seq(Copy) /\ chan[t] \in Seq(Copy)
      /\ chan'[t] = Append(chan[t], Head(batch[t])) /\ batch'[t] = Tail(batch[t])
      /\ \A u \in Task \ {t} : batch'[u] = batch[u] /\ chan'[u] = chan[u]
      /\ cur' = cur
  BY DEF Push, Frame
<1>3. /\ Head(batch[t]) \in Copy
      /\ Elements(batch[t]) = {Head(batch[t])} \cup Elements(Tail(batch[t]))
      /\ Elements(chan'[t]) = Elements(chan[t]) \cup {Head(batch[t])}
  BY <1>2, ElementsOfSeq
<1>4. /\ Distinct(batch[t]) /\ Distinct(chan[t])
      /\ Apart(Elements(batch[t]), Elements(chan[t]))
      /\ Apart({cur[t]} \ {Idle}, Elements(batch[t]) \cup Elements(chan[t]))
  BY DEF Holders, ApartInTask
<1>5. Distinct(batch'[t]) /\ Apart(Elements(batch'[t]), {Head(batch[t])})
  BY <1>2, <1>4, DistinctSeq
<1>6. Distinct(chan'[t])
  <2>1. Apart(Elements(chan[t]), {Head(batch[t])})
    BY <1>3, <1>4 DEF Apart, SameReceive
  <2>2. QED
    BY <1>2, <1>3, <1>4, <2>1, DistinctSeq
<1>7. Apart(Elements(batch'[t]), Elements(chan'[t]))
  BY <1>2, <1>3, <1>4, <1>5 DEF Apart
<1>8. Apart({cur[t]} \ {Idle}, Elements(batch'[t]) \cup Elements(chan'[t]))
  BY <1>2, <1>3, <1>4 DEF Apart
<1>9. ASSUME NEW u \in Task PROVE ApartInTask(u)'
  <2>1. CASE u = t
    BY <1>2, <1>5, <1>6, <1>7, <1>8, <2>1 DEF ApartInTask, Idle
  <2>2. CASE u # t
    BY <1>2, <2>2 DEF Holders, ApartInTask, Idle
  <2>3. QED
    BY <2>1, <2>2
<1>10. \A v \in Task : \A u \in Task \ {v} : Apart(Held(v), Held(u))'
  BY <1>1 DEF Holders
<1>11. QED
  BY <1>9, <1>10 DEF Holders

\* A copy takes the place of another of the same receive, in one task.
LEMMA SwapKeepsHolders ==
    ASSUME Holders, NEW t \in Task, NEW rest, NEW old, NEW new,
           Held(t) = rest \cup {old}, Apart(rest, {old}), SameReceive(new, old),
           Held(t)' \subseteq rest \cup {new},
           \A u \in Task \ {t} : Held(u)' = Held(u),
           \A u \in Task : ApartInTask(u)'
    PROVE  Holders'
<1>1. \A v \in Task : \A u \in Task \ {v} : Apart(Held(v), Held(u))'
  <2>1. \A u \in Task \ {t} : Apart(Held(t)', Held(u))
    <3> SUFFICES ASSUME NEW u \in Task \ {t}, NEW c \in Held(t)', NEW d \in Held(u)
                 PROVE  ~SameReceive(c, d)
      BY DEF Apart
    <3>1. \A e \in Held(t) : ~SameReceive(e, d)
      BY DEF Holders, Apart
    <3>2. c \in Held(t) \/ SameReceive(c, old)
      OBVIOUS
    <3>3. QED
      BY <3>1, <3>2 DEF SameReceive
  <2>2. QED
    BY <2>1, TasksStayApart
<1>2. QED
  BY <1>1 DEF Holders

\* The main loop takes the next message of the channel.
LEMMA BeginKeepsHolders ==
    ASSUME Frame, Holders, NEW t \in Task, NEW c, Begin(t, c), SameReceive(c, NextInChan(t))
    PROVE  Holders'
<1> DEFINE old == Head(chan[t])
           rest == Elements(batch[t]) \cup Elements(Tail(chan[t]))
<1>1. /\ cur[t] = Idle /\ chan[t] # <<>> /\ chan[t] \in Seq(Copy)
      /\ chan'[t] = Tail(chan[t]) /\ cur'[t] = c /\ batch' = batch
      /\ \A u \in Task \ {t} : chan'[u] = chan[u] /\ cur'[u] = cur[u]
      /\ UNCHANGED sqs
  BY DEF Begin, Free, Take, Frame
<1>2. Elements(chan[t]) = {old} \cup Elements(Tail(chan[t]))
  BY <1>1, ElementsOfSeq
<1>3. /\ Distinct(batch[t]) /\ Distinct(chan[t])
      /\ Apart(Elements(batch[t]), Elements(chan[t]))
  BY DEF Holders, ApartInTask
<1>4. Distinct(Tail(chan[t])) /\ Apart(Elements(Tail(chan[t])), {old})
  BY <1>1, <1>3, DistinctSeq
<1>5. /\ Held(t) = rest \cup {old} /\ Apart(rest, {old}) /\ SameReceive(c, old)
      /\ Held(t)' \subseteq rest \cup {c}
  <2>1. Held(t) = rest \cup {old}
    BY <1>1, <1>2 DEF Held
  <2>2. Apart(rest, {old})
    BY <1>2, <1>3, <1>4 DEF Apart
  <2>3. Held(t)' \subseteq rest \cup {c}
    BY <1>1 DEF Held
  <2>4. QED
    BY <2>1, <2>2, <2>3 DEF NextInChan
<1>6. \A u \in Task \ {t} : Held(u)' = Held(u)
  BY <1>1 DEF Held, Idle
<1>7. ASSUME NEW u \in Task PROVE ApartInTask(u)'
  <2>1. CASE u # t
    BY <1>1, <2>1 DEF Holders, ApartInTask, Idle
  <2>2. CASE u = t
    <3>1. Distinct(batch'[t]) /\ Distinct(chan'[t]) /\ Apart(Elements(batch'[t]), Elements(chan'[t]))
      BY <1>1, <1>2, <1>3, <1>4 DEF Apart
    <3>2. Apart({c}, rest)
      BY <1>5 DEF Apart, SameReceive
    <3>3. Apart({cur'[t]} \ {Idle}, Elements(batch'[t]) \cup Elements(chan'[t]))
      BY <1>1, <3>2 DEF Apart
    <3>4. QED
      BY <2>2, <3>1, <3>3 DEF ApartInTask, Idle
  <2>3. QED
    BY <2>1, <2>2
<1> HIDE DEF old, rest
<1>8. QED
  BY <1>5, <1>6, <1>7, SwapKeepsHolders

\* The main loop goes on with the message it has.
LEMMA GoOnKeepsHolders ==
    ASSUME Frame, Holders, NEW t \in Task, NEW c, Go(t, c),
           cur[t] # Idle, SameReceive(c, cur[t])
    PROVE  Holders'
<1> DEFINE rest == Elements(batch[t]) \cup Elements(chan[t])
<1>1. /\ cur'[t] = c /\ (\A u \in Task \ {t} : cur'[u] = cur[u])
      /\ batch' = batch /\ chan' = chan /\ UNCHANGED sqs
  BY DEF Go, Frame
<1>2. ApartInTask(t)
  BY DEF Holders
<1>3. Apart(rest, {cur[t]})
  BY <1>2 DEF ApartInTask, Apart, SameReceive
<1>4. Held(t) = rest \cup {cur[t]} /\ Held(t)' \subseteq rest \cup {c}
  BY <1>1 DEF Held
<1>5. \A u \in Task \ {t} : Held(u)' = Held(u)
  BY <1>1 DEF Held, Idle
<1>6. ASSUME NEW u \in Task PROVE ApartInTask(u)'
  <2>1. CASE u # t
    BY <1>1, <2>1 DEF Holders, ApartInTask, Idle
  <2>2. CASE u = t
    <3>1. Apart({cur'[t]} \ {Idle}, rest)
      BY <1>1, <1>3 DEF Apart, SameReceive
    <3>2. QED
      BY <1>1, <1>2, <2>2, <3>1 DEF ApartInTask, Idle
  <2>3. QED
    BY <2>1, <2>2
<1> HIDE DEF rest
<1>7. QED
  BY <1>3, <1>4, <1>5, <1>6, SwapKeepsHolders

\* A task drops a copy or all it holds, deleting the message or not.
LEMMA DropKeepsHolders ==
    ASSUME Holders, NEW t \in Task,
           Held(t)' \subseteq Held(t), \A u \in Task \ {t} : Held(u)' = Held(u),
           \A u \in Task : ApartInTask(u)'
    PROVE  Holders'
<1>1. \A v \in Task : \A u \in Task \ {v} : Apart(Held(v), Held(u))'
  <2>1. \A u \in Task \ {t} : Apart(Held(t)', Held(u))
    BY DEF Apart, Holders
  <2>2. QED
    BY <2>1, TasksStayApart
<1>2. QED
  BY <1>1 DEF Holders

\* Every step a loader makes is one of these.
Moves ==
    \/ Besides
    \/ UNCHANGED <<sqs, polling>>
    \/ \E t \in Task :
          \/ Discard(t) \/ Delete(t) \/ Panic(t) \/ Go(t, Idle)
          \/ \E c : Begin(t, c) /\ SameReceive(c, NextInChan(t))
          \/ \E c : Go(t, c) /\ cur[t] # Idle /\ SameReceive(c, cur[t])

LEMMA InitHolders ==
    ASSUME NEW sent, InitPolling(sent)
    PROVE  Holders
<1>1. \A t \in Task : /\ batch[t] = <<>> /\ chan[t] = <<>> /\ cur[t] = Idle
                      /\ Elements(batch[t]) = {} /\ Elements(chan[t]) = {} /\ Held(t) = {}
  BY DEF InitPolling, Elements, Held
<1>2. \A t \in Task : ApartInTask(t)
  BY <1>1 DEF ApartInTask, Apart, Distinct
<1>3. QED
  BY <1>1, <1>2 DEF Holders, Apart

LEMMA MovesKeepHolders ==
    ASSUME Shared, Shared', Holders, Moves
    PROVE  Holders'
<1>1. Frame /\ Frame'
  BY DEF Shared
<1>2. CASE UNCHANGED polling
  <2>1. \A t \in Task : Held(t)' = Held(t)
    BY <1>2 DEF polling, Held, Elements, Idle
  <2>2. \A t \in Task : ApartInTask(t)'
    BY <1>2 DEF polling, Holders, ApartInTask, Idle
  <2>3. QED
    BY <2>1, <2>2 DEF Holders
<1>3. ASSUME NEW t \in Task, Panic(t)
      PROVE  Holders'
  <2>1. /\ UNCHANGED sqs /\ Held(t)' = {}
        /\ (\A u \in Task \ {t} : Held(u)' = Held(u))
        /\ cur'[t] = Idle /\ \A u \in Task \ {t} : cur'[u] = cur[u]
    BY <1>1, <1>3, ForgetKeepsFrame DEF Panic
  <2>2. /\ batch'[t] = <<>> /\ chan'[t] = <<>>
        /\ \A u \in Task \ {t} : batch'[u] = batch[u] /\ chan'[u] = chan[u]
    BY <1>1, <1>3 DEF Panic, Forget, Frame
  <2>3. ASSUME NEW u \in Task PROVE ApartInTask(u)'
    <3>1. CASE u = t
      BY <2>1, <2>2, <3>1 DEF ApartInTask, Distinct, Apart, Elements, Idle
    <3>2. CASE u # t
      BY <2>1, <2>2, <3>2 DEF Holders, ApartInTask, Idle
    <3>3. QED
      BY <3>1, <3>2
  <2>4. QED
    BY <2>1, <2>3, DropKeepsHolders
<1>4. ASSUME NEW t \in Task, Delete(t) \/ Go(t, Idle)
      PROVE  Holders'
  <2>1. /\ cur'[t] = Idle /\ (\A u \in Task \ {t} : cur'[u] = cur[u])
        /\ batch' = batch /\ chan' = chan
    BY <1>1, <1>4 DEF Delete, Go, Frame
  <2>2. Held(t)' \subseteq Held(t) /\ \A u \in Task \ {t} : Held(u)' = Held(u)
    BY <2>1 DEF Held, Idle
  <2>3. ASSUME NEW u \in Task PROVE ApartInTask(u)'
    <3>1. ApartInTask(u)
      BY DEF Holders
    <3>2. CASE u = t
      BY <2>1, <3>1, <3>2 DEF ApartInTask, Apart, Idle
    <3>3. CASE u # t
      BY <2>1, <3>1, <3>3 DEF ApartInTask, Idle
    <3>4. QED
      BY <3>2, <3>3
  <2>4. QED
    BY <2>1, <2>2, <2>3, DropKeepsHolders
<1>5. ASSUME NEW t \in Task, Discard(t)
      PROVE  Holders'
  <2>1. /\ chan[t] # <<>> /\ chan[t] \in Seq(Copy) /\ chan'[t] = Tail(chan[t])
        /\ (\A u \in Task \ {t} : chan'[u] = chan[u])
        /\ batch' = batch /\ cur' = cur
    BY <1>1, <1>5 DEF Discard, Free, Take, Frame
  <2>2. Elements(chan'[t]) \subseteq Elements(chan[t])
    BY <2>1, ElementsOfSeq
  <2>3. Held(t)' \subseteq Held(t) /\ \A u \in Task \ {t} : Held(u)' = Held(u)
    BY <2>1, <2>2 DEF Held, Idle
  <2>4. ASSUME NEW u \in Task PROVE ApartInTask(u)'
    <3>1. ApartInTask(u)
      BY DEF Holders
    <3>2. CASE u = t
      <4>1. Distinct(chan'[t])
        BY <2>1, <3>1, <3>2, DistinctSeq DEF ApartInTask
      <4>2. QED
        BY <2>1, <2>2, <3>1, <3>2, <4>1 DEF ApartInTask, Apart, Idle
    <3>3. CASE u # t
      BY <2>1, <3>1, <3>3 DEF ApartInTask, Idle
    <3>4. QED
      BY <3>2, <3>3
  <2>5. QED
    BY <2>1, <2>3, <2>4, DropKeepsHolders
<1>6. CASE Besides
  <2>1. CASE \E m \in Message : VisibilityExpires(m)
    BY <1>2, <2>1 DEF VisibilityExpires
  <2>2. CASE \E t \in Task : Poll(t)
    <3>1. PICK t \in Task : Poll(t)
      BY <2>2
    <3>2. CASE \E ms \in Batches : Receive(t, ms)
      BY <1>1, <3>2, ReceiveKeepsFrame, GotKeepsHolders DEF Frame
    <3>3. CASE \E m \in Message : ReceiveDeleted(t, m)
      BY <1>1, <3>3, ReceiveDeletedKeepsFrame, GotKeepsHolders DEF Frame
    <3>4. QED
      BY <1>1, <3>1, <3>2, <3>3, PushKeepsHolders DEF Poll
  <2>3. CASE \E t \in Task : \E u \in kpl[t] : Reject(t, u)
    BY <1>2, <2>3 DEF Reject
  <2>4. CASE \E t \in Task : Crash(t)
    BY <1>3, <2>4 DEF Crash
  <2>5. QED
    BY <1>6, <2>1, <2>2, <2>3, <2>4 DEF Besides
<1>7. QED
  BY <1>1, <1>2, <1>3, <1>4, <1>5, <1>6, BeginKeepsHolders, GoOnKeepsHolders DEF Moves
=============================================================================
