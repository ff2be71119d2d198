--------------------------- MODULE S3ReaderProofs ---------------------------
(***************************************************************************)
(* The reader of load test production, for any jobs, archive, page size,   *)
(* tasks and faults: it implements Forwarder, and every name it sends too  *)
(* often has a reason.                                                     *)
(*                                                                         *)
(* That a job that is gone is done needs Progress: the hours behind a      *)
(* reader are done, and so is of its hour what is not in its hand.  That   *)
(* every sending is explained needs to be known of the copies of a job     *)
(* which name is still ahead of them (Due), and that no two readers hold   *)
(* the same receive (Alone).                                               *)
(***************************************************************************)
EXTENDS S3Reader, FiniteSetTheorems, FunctionTheorems, SequenceTheorems,
        WellFoundedInduction, TLAPS

-----------------------------------------------------------------------------
(* The queue and the counts: these lemmas are those of the loaders.        *)

\* A nonempty set of natural numbers has a least one.
LEMMA Least ==
    ASSUME NEW S \in SUBSET Nat, S # {}
    PROVE  \E n \in S : \A k \in S : n <= k
<1> DEFINE Less == OpToRel(<, Nat)
<1>1. \A k, n \in Nat : k < n => <<k, n>> \in Less
  BY DEF OpToRel
<1>2. IsWellFoundedOn(Less, Nat)
  BY NatLessThanWellFounded
<1> HIDE DEF Less
<1>3. \E n \in S : \A k \in S : ~(<<k, n>> \in Less)
  BY <1>2, WFMin
<1>4. PICK n \in S : \A k \in S : ~(<<k, n>> \in Less)
  BY <1>3
<1>5. ASSUME NEW k \in S PROVE n <= k
  <2>1. k \in Nat /\ n \in Nat /\ ~(k < n)
    BY <1>1, <1>4
  <2>2. QED
    BY <2>1
<1>6. QED
  BY <1>5

\* ReceiveMessages gives a message a receipt no copy of it carries: there are
\* more candidates than copies, and the least that is free is among them.
LEMMA FreshReceiptIsFresh ==
    ASSUME NEW copies, IsFiniteSet(copies)
    PROVE  /\ FreshReceipt(copies) \in Nat
           /\ \A c \in copies : c.rcpt # FreshReceipt(copies)
<1> DEFINE n == Cardinality(copies)
           used == {c.rcpt : c \in copies}
           free == {k \in Nat : k \notin used}
<1>1. n \in Nat
  BY FS_CardinalityType
<1>2. IsFiniteSet(used) /\ Cardinality(used) <= n
  <2> DEFINE f == [c \in copies |-> c.rcpt]
  <2>1. f \in Surjection(copies, used)
    BY DEF Surjection
  <2> HIDE DEF f, used
  <2>2. QED
    BY <2>1, FS_Surjection
<1>3. \E k \in 0..n : k \notin used
  <2> SUFFICES ASSUME 0..n \subseteq used PROVE FALSE
    OBVIOUS
  <2>1. Cardinality(0..n) = n + 1
    BY <1>1, FS_Interval
  <2>2. Cardinality(0..n) <= Cardinality(used)
    <3> HIDE DEF used, n
    <3>1. QED
      BY <1>2, FS_Subset
  <2>3. Cardinality(used) \in Nat
    <3> HIDE DEF used
    <3>1. QED
      BY <1>2, FS_CardinalityType
  <2> HIDE DEF used, n
  <2>4. QED
    BY <1>1, <1>2, <2>1, <2>2, <2>3
<1>4. PICK k \in free : \A j \in free : k <= j
  <2>1. free \in SUBSET Nat /\ free # {}
    BY <1>1, <1>3
  <2> HIDE DEF free
  <2>2. QED
    BY <2>1, Least
<1>5. k \in 0..n
  BY <1>1, <1>3, <1>4
<1>6. \A c \in copies : c.rcpt # k
  BY <1>4
<1>7. \A j \in 0..(k - 1) : \E c \in copies : c.rcpt = j
  <2> SUFFICES ASSUME NEW j \in 0..(k - 1), j \notin used
               PROVE  FALSE
    OBVIOUS
  <2>1. k \in Nat /\ j \in Nat /\ j < k
    BY <1>4
  <2>2. j \in free
    BY <2>1
  <2>3. QED
    BY <1>4, <2>1, <2>2
<1> DEFINE P(x) == /\ \A c \in copies : c.rcpt # x
                   /\ \A j \in 0..(x - 1) : \E c \in copies : c.rcpt = j
<1>8. \E x \in 0..n : P(x)
  BY <1>5, <1>6, <1>7
<1>9. FreshReceipt(copies) = CHOOSE x \in 0..n : P(x)
  BY DEF FreshReceipt
<1> HIDE DEF P
<1>10. FreshReceipt(copies) \in 0..n /\ P(FreshReceipt(copies))
  BY <1>8, <1>9
<1>11. QED
  BY <1>1, <1>10 DEF P

\* The arithmetic of such a step.
LEMMA Spending ==
    ASSUME NEW D, IsFiniteSet(D), NEW E, NEW p \in Nat, NEW q, NEW b \in Nat, NEW d \in Nat,
           p + Cardinality(D) <= b,
           \/ q = p /\ b <= d /\ E \subseteq D
           \/ q = p /\ b + 1 <= d /\ \E n \in Nat : E \subseteq D \cup {n}
           \/ q = p + 1 /\ b <= d /\ \E n \in D : E \subseteq D \ {n}
           \/ q = p + 1 /\ b + 1 <= d /\ E \subseteq D
    PROVE  q \in Nat /\ IsFiniteSet(E) /\ q + Cardinality(E) <= d
<1>1. Cardinality(D) \in Nat
  BY FS_CardinalityType
<1>2. ASSUME NEW C, IsFiniteSet(C), E \subseteq C
      PROVE  IsFiniteSet(E) /\ Cardinality(E) \in Nat /\ Cardinality(E) <= Cardinality(C)
  BY <1>2, FS_Subset, FS_CardinalityType
<1>3. CASE E \subseteq D /\ ((q = p /\ b <= d) \/ (q = p + 1 /\ b + 1 <= d))
  <2>1. IsFiniteSet(E) /\ Cardinality(E) \in Nat /\ Cardinality(E) <= Cardinality(D)
    BY <1>2, <1>3
  <2>2. QED
    BY <1>1, <1>3, <2>1
<1>4. CASE q = p /\ b + 1 <= d /\ \E n \in Nat : E \subseteq D \cup {n}
  <2>1. PICK n \in Nat : E \subseteq D \cup {n}
    BY <1>4
  <2>2. /\ IsFiniteSet(D \cup {n})
        /\ Cardinality(D \cup {n}) = IF n \in D THEN Cardinality(D) ELSE Cardinality(D) + 1
    BY FS_AddElement
  <2>3. Cardinality(D \cup {n}) \in Nat /\ Cardinality(D \cup {n}) <= Cardinality(D) + 1
    BY <1>1, <2>2
  <2>4. IsFiniteSet(E) /\ Cardinality(E) \in Nat /\ Cardinality(E) <= Cardinality(D \cup {n})
    BY <1>2, <2>1, <2>2
  <2>5. QED
    BY <1>1, <1>4, <2>3, <2>4
<1>5. CASE q = p + 1 /\ b <= d /\ \E n \in D : E \subseteq D \ {n}
  <2>1. PICK n \in D : E \subseteq D \ {n}
    BY <1>5
  <2>2. IsFiniteSet(D \ {n}) /\ Cardinality(D \ {n}) = Cardinality(D) - 1
    BY FS_RemoveElement
  <2>3. IsFiniteSet(E) /\ Cardinality(E) \in Nat /\ Cardinality(E) <= Cardinality(D \ {n})
    BY <1>2, <2>1, <2>2
  <2>4. QED
    BY <1>1, <1>5, <2>2, <2>3
<1>6. QED
  BY <1>3, <1>4, <1>5

-----------------------------------------------------------------------------
(* The range of a job.                                                     *)

LEMMA InstantIsInt ==
    ASSUME NEW d \in DateParts
    PROVE  Instant(d) \in Int
<1>1. \A text \in Seq(Int) : DatePart(text) \in Int
  BY DEF DatePart
<1>2. ASSUME NEW y \in Int, NEW mon \in 1..12 PROVE DaysBefore(y, mon) \in Int
  <2>1. DaysOfMonths[mon] \in Int
    BY DEF DaysOfMonths
  <2>2. QED
    BY <2>1 DEF DaysBefore
<1>3. ASSUME NEW y \in Int, NEW mon \in Int, NEW day \in Int, NEW h \in Int
      PROVE  Date(y, mon, day, h) \in Int
  <2>1. y + ((mon - 1) \div 12) \in Int /\ ((mon - 1) % 12) + 1 \in 1..12
    OBVIOUS
  <2>2. DaysBefore(y + ((mon - 1) \div 12), ((mon - 1) % 12) + 1) \in Int
    BY <1>2, <2>1
  <2>3. QED
    BY <2>2 DEF Date
<1>4. QED
  BY <1>1, <1>3 DEF Instant, DateParts

\* A job that is not reversed has a range, one that is has no end.
LEMMA Ranges ==
    ASSUME NEW m \in Message
    PROVE  /\ Start[m] \in 0..Horizon
           /\ m \in Reversed => End[m] = -1
           /\ m \notin Reversed => End[m] \in 0..Horizon /\ Start[m] <= End[m]
<1>1. Instant(JobOf[m].start) \in Int /\ Instant(JobOf[m].end) \in Int
  BY InstantIsInt, ReaderAssumption DEF Job
<1>2. \A i \in Int : HourOf(i) \in 0..Horizon
  BY ReaderAssumption DEF HourOf
<1>3. \A i, j \in Int : i <= j => HourOf(i) <= HourOf(j)
  BY ReaderAssumption DEF HourOf
<1>4. QED
  BY <1>1, <1>2, <1>3 DEF Start, End, Never, Reversed

OneToOne(s) == \A i, j \in DOMAIN s : s[i] = s[j] => i = j

\* What is in a sequence, and what its head and tail are.
LEMMA ElementsOfSeq ==
    ASSUME NEW S, NEW s \in Seq(S)
    PROVE  /\ Elements(s) \subseteq S
           /\ s # <<>> => /\ Head(s) \in S /\ Tail(s) \in Seq(S)
                          /\ Elements(s) = {Head(s)} \cup Elements(Tail(s))
                          /\ OneToOne(s) => /\ OneToOne(Tail(s))
                                            /\ Head(s) \notin Elements(Tail(s))
<1>1. Len(s) \in Nat /\ DOMAIN s = 1..Len(s) /\ \A i \in 1..Len(s) : s[i] \in S
  OBVIOUS
<1>2. Elements(s) \subseteq S
  BY <1>1 DEF Elements
<1>3. ASSUME s # <<>>
      PROVE  /\ Head(s) \in S /\ Tail(s) \in Seq(S)
             /\ Elements(s) = {Head(s)} \cup Elements(Tail(s))
             /\ OneToOne(s) => OneToOne(Tail(s)) /\ Head(s) \notin Elements(Tail(s))
  <2>1. /\ Tail(s) \in Seq(S) /\ Len(s) >= 1 /\ Head(s) = s[1] /\ Head(s) \in S
        /\ DOMAIN Tail(s) = 1..(Len(s) - 1)
        /\ \A i \in 1..(Len(s) - 1) : Tail(s)[i] = s[i + 1]
    BY <1>1, <1>3
  <2>2. \A i \in 1..(Len(s) - 1) : i + 1 \in 1..Len(s) /\ i + 1 # 1
    BY <1>1
  <2>3. ASSUME NEW x \in Elements(s) PROVE x = Head(s) \/ x \in Elements(Tail(s))
    <3>1. PICK i \in 1..Len(s) : x = s[i]
      BY <1>1 DEF Elements
    <3>2. CASE i = 1
      BY <2>1, <3>1, <3>2
    <3>3. CASE i # 1
      <4>1. i - 1 \in 1..(Len(s) - 1) /\ (i - 1) + 1 = i
        BY <1>1, <3>3
      <4>2. Tail(s)[i - 1] = x /\ i - 1 \in DOMAIN Tail(s)
        BY <2>1, <3>1, <4>1
      <4>3. QED
        BY <4>2 DEF Elements
    <3>4. QED
      BY <3>2, <3>3
  <2>4. Elements(Tail(s)) \subseteq Elements(s) /\ Head(s) \in Elements(s)
    BY <1>1, <2>1, <2>2 DEF Elements
  <2>5. ASSUME OneToOne(s) PROVE OneToOne(Tail(s)) /\ Head(s) \notin Elements(Tail(s))
    <3>1. \A i \in 1..(Len(s) - 1) : s[i + 1] # s[1]
      BY <1>1, <2>1, <2>2, <2>5 DEF OneToOne
    <3>2. \A i, j \in 1..(Len(s) - 1) : s[i + 1] = s[j + 1] => i = j
      <4> SUFFICES ASSUME NEW i \in 1..(Len(s) - 1), NEW j \in 1..(Len(s) - 1),
                          s[i + 1] = s[j + 1]
                   PROVE  i = j
        OBVIOUS
      <4>1. i + 1 = j + 1
        BY <1>1, <2>2, <2>5 DEF OneToOne
      <4>2. QED
        BY <4>1
    <3>3. OneToOne(Tail(s))
      BY <2>1, <3>2 DEF OneToOne
    <3>4. Head(s) \notin Elements(Tail(s))
      BY <2>1, <3>1 DEF Elements
    <3>5. QED
      BY <3>3, <3>4
  <2>6. QED
    BY <2>1, <2>3, <2>4, <2>5
<1>4. QED
  BY <1>2, <1>3

\* One page of an hour names objects of that hour, each once.
LEMMA Pages ==
    ASSUME NEW h
    PROVE  /\ FirstPage(h) \in Seq(Object) /\ OneToOne(FirstPage(h))
           /\ \A k \in Elements(FirstPage(h)) :
                  h \in ArchivedHour /\ \E i \in DOMAIN Archive[h] : Archive[h][i] = k
<1> DEFINE s == ObjectsIn(h)
           n == IF Len(s) < PageSize THEN Len(s) ELSE PageSize
<1>1. s \in Seq(Object) /\ Len(s) \in Nat /\ (h \notin ArchivedHour => s = <<>>)
  BY ReaderAssumption DEF ObjectsIn
<1>2. n \in 0..Len(s)
  BY <1>1, ReaderAssumption
<1>3. \A i \in 1..Len(s) : s[i] \in Object
  BY <1>1
<1>4. FirstPage(h) = SubSeq(s, 1, n)
  BY DEF FirstPage
<1>5. /\ FirstPage(h) \in Seq(Object) /\ Len(FirstPage(h)) = n
      /\ \A i \in 1..n : FirstPage(h)[i] = s[i]
  <2> HIDE DEF s, n
  <2>1. \A i \in 1..n : s[i] \in Object
    BY <1>1, <1>2, <1>3
  <2>2. /\ SubSeq(s, 1, n) \in Seq(Object)
        /\ Len(SubSeq(s, 1, n)) = IF 1 <= n THEN n - 1 + 1 ELSE 0
        /\ \A i \in 1..(n - 1 + 1) : SubSeq(s, 1, n)[i] = s[1 + i - 1]
    BY <1>1, <1>2, <2>1, SubSeqProperties
  <2>3. QED
    BY <1>1, <1>2, <1>4, <2>2
<1>6. DOMAIN FirstPage(h) = 1..n /\ 1..n \subseteq DOMAIN s
  <2> HIDE DEF s, n
  <2>1. QED
    BY <1>1, <1>2, <1>5
<1>7. \A i \in 1..n : h \in ArchivedHour /\ i \in DOMAIN Archive[h] /\ s[i] = Archive[h][i]
  <2>1. h \notin ArchivedHour => 1..n = {}
    <3>1. s = <<>> => Len(s) = 0
      OBVIOUS
    <3> HIDE DEF n, s
    <3>2. QED
      BY <1>1, <1>2, <3>1
  <2>2. h \in ArchivedHour => s = Archive[h]
    BY DEF ObjectsIn
  <2> HIDE DEF n, s
  <2>3. QED
    BY <1>6, <2>1, <2>2
<1> HIDE DEF n, s
<1>8. OneToOne(FirstPage(h))
  BY <1>5, <1>6, <1>7, ReaderAssumption DEF OneToOne
<1>9. QED
  BY <1>5, <1>6, <1>7, <1>8 DEF Elements

\* So no name is on the pages of two hours.
LEMMA PagesApart ==
    ASSUME NEW g, NEW h, NEW k \in Elements(FirstPage(g)), k \in Elements(FirstPage(h))
    PROVE  g = h
<1>1. g \in ArchivedHour /\ h \in ArchivedHour
  BY Pages
<1>2. PICK i \in DOMAIN Archive[g] : Archive[g][i] = k
  BY Pages
<1>3. PICK j \in DOMAIN Archive[h] : Archive[h][j] = k
  BY Pages
<1>4. QED
  BY <1>1, <1>2, <1>3, ReaderAssumption

-----------------------------------------------------------------------------
(* The jobs in hand.                                                       *)

Handed == {u \in Unit : sends[u] > 0}
Done   == Handed \cup refused

\* The hours behind c are done, and of its hour what it has not in hand.
Settled(c, done) ==
    c.msg \notin Reversed =>
        /\ \A h \in Start[c.msg]..(c.hour - 1) : UnitsFor(c.msg, FirstPage(h)) \subseteq done
        /\ c.listed =>
              UnitsFor(c.msg, FirstPage(c.hour)) \subseteq done \cup UnitsFor(c.msg, c.keys)

\* Its names are different ones of a page of its hour.
KeysOfHour(c) ==
    /\ ~c.listed => c.keys = <<>>
    /\ OneToOne(c.keys) /\ Elements(c.keys) \subseteq Elements(FirstPage(c.hour))

Place(c, done) == Working(c) /\ KeysOfHour(c) /\ Settled(c, done)

SameReceive(c, d) == c.msg = d.msg /\ c.rcpt = d.rcpt
Alone ==
    \A t, u \in Task : cur[t] # Idle /\ cur[u] # Idle /\ SameReceive(cur[t], cur[u]) => t = u

DeletedIsDone == \A m \in Deleted : m \notin Reversed /\ UnitsOf[m] \subseteq Done

IInv ==
    /\ QueueTypeOK /\ ServiceTypeOK
    /\ sends \in [Unit -> Nat] /\ refused \subseteq Unit
    /\ cur = [t \in Task |-> cur[t]]
    /\ \A m \in Message : IsFiniteSet(Copies[m])
    /\ \A t \in Task : cur[t] = Idle \/ Place(cur[t], Done)
    /\ Alone
    /\ DeletedIsDone

Mapped == <<Deleted, Handed, refused>>

\* A step that gives t something else in hand, or nothing, and takes back nothing
\* that is done.
LEMMA LoopStep ==
    ASSUME IInv, NEW t \in Task, NEW c, Go(t, c),
           c = Idle \/ (Place(c, Done') /\ cur[t] # Idle /\ SameReceive(c, cur[t])),
           QueueTypeOK', ServiceTypeOK', sends' \in [Unit -> Nat], refused' \subseteq Unit,
           Done \subseteq Done',
           \A m \in Deleted' \ Deleted : m \notin Reversed /\ UnitsOf[m] \subseteq Done
    PROVE  IInv'
<1>1. cur'[t] = c /\ (\A u \in Task \ {t} : cur'[u] = cur[u]) /\ cur' = [u \in Task |-> cur'[u]]
  BY DEF Go, IInv
<1>2. \A m \in Message : IsFiniteSet(Copies'[m])
  <2> SUFFICES ASSUME NEW m \in Message PROVE IsFiniteSet(Copies'[m])
    OBVIOUS
  <2>1. Copies'[m] \subseteq Copies[m] \cup {c}
    BY <1>1 DEF Copies, Held, Idle
  <2>2. IsFiniteSet(Copies[m] \cup {c})
    BY FS_AddElement DEF IInv
  <2>3. QED
    BY <2>1, <2>2, FS_Subset
<1>3. ASSUME NEW u \in Task PROVE cur'[u] = Idle \/ Place(cur'[u], Done')
  <2>1. CASE u = t
    BY <1>1, <2>1
  <2>2. CASE u # t
    BY <1>1, <2>2 DEF IInv, Place, Settled
  <2>3. QED
    BY <2>1, <2>2
<1>4. Alone'
  BY <1>1 DEF IInv, Alone, SameReceive, Idle
<1>5. DeletedIsDone'
  BY DEF IInv, DeletedIsDone
<1>6. QED
  BY <1>1, <1>2, <1>3, <1>4, <1>5 DEF IInv, Idle

\* What is in hand is a record.
Recs == [msg : Message, rcpt : Nat, hour : 0..Horizon, listed : BOOLEAN, keys : Seq(Object)]

LEMMA InHandFacts ==
    ASSUME IInv, NEW t \in Task, cur[t] # Idle
    PROVE  /\ Place(cur[t], Done)
           /\ cur[t] \in Recs
           /\ cur[t].msg \in Message /\ cur[t].rcpt \in Nat /\ cur[t].hour \in 0..Horizon
           /\ cur[t].keys \in Seq(Object)
BY DEF IInv, Place, Working, Recs

Rec(m, n, h, b, ks) == [msg |-> m, rcpt |-> n, hour |-> h, listed |-> b, keys |-> ks]

\* What is left of it when one part changes ...
LEMMA WithListed ==
    ASSUME NEW c \in Recs, NEW b \in BOOLEAN
    PROVE  [c EXCEPT !.listed = b] = Rec(c.msg, c.rcpt, c.hour, b, c.keys)
BY DEF Rec, Recs

LEMMA WithKeys ==
    ASSUME NEW c \in Recs, NEW ks
    PROVE  [c EXCEPT !.keys = ks] = Rec(c.msg, c.rcpt, c.hour, c.listed, ks)
BY DEF Rec, Recs

LEMMA WithHour ==
    ASSUME NEW c \in Recs, NEW h
    PROVE  [c EXCEPT !.hour = h] = Rec(c.msg, c.rcpt, h, c.listed, c.keys)
BY DEF Rec, Recs

\* ... or two.
LEMMA WithPage ==
    ASSUME NEW c \in Recs, NEW b \in BOOLEAN, NEW ks
    PROVE  [c EXCEPT !.listed = b, !.keys = ks] = Rec(c.msg, c.rcpt, c.hour, b, ks)
<1>1. [c EXCEPT !.listed = b, !.keys = ks] = [[c EXCEPT !.listed = b] EXCEPT !.keys = ks]
  OBVIOUS
<1>2. [c EXCEPT !.listed = b] = Rec(c.msg, c.rcpt, c.hour, b, c.keys)
  BY WithListed
<1>3. [Rec(c.msg, c.rcpt, c.hour, b, c.keys) EXCEPT !.keys = ks]
          = Rec(c.msg, c.rcpt, c.hour, b, ks)
  BY DEF Rec
<1>4. QED
  BY <1>1, <1>2, <1>3, Zenon

LEMMA WithHourUnlisted ==
    ASSUME NEW c \in Recs, NEW b \in BOOLEAN, NEW h
    PROVE  [c EXCEPT !.hour = h, !.listed = b] = Rec(c.msg, c.rcpt, h, b, c.keys)
<1>1. [c EXCEPT !.hour = h, !.listed = b] = [[c EXCEPT !.hour = h] EXCEPT !.listed = b]
  OBVIOUS
<1>2. [c EXCEPT !.hour = h] = Rec(c.msg, c.rcpt, h, c.listed, c.keys) /\ c.listed \in BOOLEAN
  BY WithHour DEF Recs
<1>3. \A l \in BOOLEAN : [Rec(c.msg, c.rcpt, h, l, c.keys) EXCEPT !.listed = b]
                             = Rec(c.msg, c.rcpt, h, b, c.keys)
  BY DEF Rec
<1>4. QED
  BY <1>1, <1>2, <1>3, Zenon

\* A record is in its place if its parts are.
LEMMA PlaceOfRec ==
    ASSUME NEW m \in Message, NEW n \in Nat, NEW h \in 0..Horizon, NEW b \in BOOLEAN,
           NEW ks \in Seq(Object), NEW done,
           m \notin Reversed => h \in Start[m]..End[m],
           b => h # End[m],
           ~b => ks = <<>>,
           OneToOne(ks), Elements(ks) \subseteq Elements(FirstPage(h)),
           m \notin Reversed =>
               /\ \A g \in Start[m]..(h - 1) : UnitsFor(m, FirstPage(g)) \subseteq done
               /\ b => UnitsFor(m, FirstPage(h)) \subseteq done \cup UnitsFor(m, ks)
    PROVE  Place(Rec(m, n, h, b, ks), done)
<1> DEFINE c == Rec(m, n, h, b, ks)
<1>1. /\ c.msg = m /\ c.rcpt = n /\ c.hour = h /\ c.listed = b /\ c.keys = ks
      /\ c \in [msg : Message, rcpt : Nat, hour : 0..Horizon, listed : BOOLEAN,
                keys : Seq(Object)]
  BY DEF Rec
<1> HIDE DEF c
<1>2. Working(c)
  BY <1>1 DEF Working
<1>3. KeysOfHour(c)
  BY <1>1 DEF KeysOfHour
<1>4. Settled(c, done)
  BY <1>1 DEF Settled
<1>5. QED
  BY <1>2, <1>3, <1>4 DEF Place, c

-----------------------------------------------------------------------------
(* The steps of the reader.                                                *)

LEMMA ServiceStep ==
    ASSUME ServiceTypeOK, Fault \/ Death \/ UNCHANGED service
    PROVE  ServiceTypeOK'
BY ServiceAssumption DEF ServiceTypeOK, Fault, Death, service

\* The reader holds what it held, whatever became of the queue.
LEMMA SameHands ==
    ASSUME IInv, QueueTypeOK', ServiceTypeOK', UNCHANGED <<cur, sends, refused>>,
           Deleted' = Deleted
    PROVE  IInv' /\ UNCHANGED Mapped
<1>1. Copies' = Copies
  BY DEF Copies, Held, Idle
<1>2. Done' = Done /\ Handed' = Handed
  BY DEF Done, Handed
<1>3. Alone' /\ DeletedIsDone'
  BY <1>2 DEF IInv, Alone, DeletedIsDone, Idle
<1>4. \A t \in Task : cur'[t] = Idle \/ Place(cur'[t], Done')
  BY <1>2 DEF IInv
<1>5. QED
  BY <1>1, <1>2, <1>3, <1>4 DEF IInv, Mapped, Idle

LEMMA ExpirySimulates ==
    ASSUME IInv, NEW m \in Message, VisibilityExpires(m)
    PROVE  IInv' /\ UNCHANGED Mapped
<1>1. /\ QueueTypeOK' /\ Deleted' = Deleted
      /\ UNCHANGED <<service, cur, sends, refused>>
  BY QueueAssumption DEF VisibilityExpires, Expire, IInv, QueueTypeOK, Deleted
<1>2. QED
  BY <1>1, SameHands, ServiceStep DEF IInv

\* The receipt of a receive is one no reader has.
LEMMA BeginFacts ==
    ASSUME IInv, NEW t \in Task, NEW m \in Message, Begin(t, m),
           receipt'[m] = FreshReceipt(Copies[m])
    PROVE  /\ receipt'[m] \in Nat /\ UNCHANGED <<faults, crashes, sends, refused>>
           /\ cur[t] = Idle /\ cur'[t] = Rec(m, receipt'[m], Start[m], FALSE, <<>>)
           /\ cur'[t] # Idle
           /\ \A u \in Task \ {t} : cur'[u] = cur[u]
           /\ cur' = [u \in Task |-> cur'[u]]
           /\ \A u \in Task : cur[u] # Idle /\ cur[u].msg = m => cur[u].rcpt # receipt'[m]
<1>1. /\ receipt'[m] \in Nat
      /\ \A c \in Copies[m] : c.rcpt # receipt'[m]
  BY FreshReceiptIsFresh DEF IInv
<1>2. /\ cur[t] = Idle /\ UNCHANGED <<faults, crashes, sends, refused>>
      /\ cur' = [cur EXCEPT ![t] = Rec(m, receipt'[m], Start[m], FALSE, <<>>)]
  BY DEF Begin, Go, service, Rec
<1>3. /\ cur'[t] = Rec(m, receipt'[m], Start[m], FALSE, <<>>)
      /\ (\A u \in Task \ {t} : cur'[u] = cur[u]) /\ cur' = [u \in Task |-> cur'[u]]
  BY <1>2 DEF IInv
<1>4. cur'[t] # Idle
  BY <1>3 DEF Rec, Idle
<1>5. ASSUME NEW u \in Task, cur[u] # Idle, cur[u].msg = m PROVE cur[u].rcpt # receipt'[m]
  <2>1. cur[u] \in Copies[m]
    BY <1>5 DEF Copies, Held
  <2>2. QED
    BY <1>1, <2>1
<1>6. QED
  BY <1>1, <1>2, <1>3, <1>4, <1>5

LEMMA BeginSimulates ==
    ASSUME IInv, NEW t \in Task, NEW m \in Message, Begin(t, m),
           receipt'[m] = FreshReceipt(Copies[m]), QueueTypeOK', Deleted' = Deleted
    PROVE  IInv' /\ UNCHANGED Mapped
<1> DEFINE c == Rec(m, receipt'[m], Start[m], FALSE, <<>>)
<1>1. /\ receipt'[m] \in Nat /\ UNCHANGED <<faults, crashes, sends, refused>>
      /\ cur'[t] = c /\ (\A u \in Task \ {t} : cur'[u] = cur[u])
      /\ cur' = [u \in Task |-> cur'[u]]
      /\ \A u \in Task : cur[u] # Idle /\ cur[u].msg = m => cur[u].rcpt # receipt'[m]
  BY BeginFacts, ZenonT(30)
<1>2. Done' = Done /\ Handed' = Handed
  BY <1>1 DEF Done, Handed
<1>3. c.msg = m /\ c.rcpt = receipt'[m]
  BY DEF Rec
<1>4. Place(c, Done)
  <2>1. /\ Start[m] \in 0..Horizon
        /\ m \notin Reversed => Start[m] \in Start[m]..End[m]
    BY Ranges
  <2>2. <<>> \in Seq(Object) /\ OneToOne(<<>>) /\ Elements(<<>>) = {}
    BY DEF OneToOne, Elements
  <2>3. \A g \in Start[m]..(Start[m] - 1) : FALSE
    BY <2>1
  <2>4. QED
    BY <1>1, <2>1, <2>2, <2>3, PlaceOfRec
<1> HIDE DEF c
<1>5. ASSUME NEW n \in Message PROVE IsFiniteSet(Copies'[n])
  <2>1. Copies'[n] \subseteq Copies[n] \cup {c}
    BY <1>1 DEF Copies, Held, Idle
  <2>2. IsFiniteSet(Copies[n] \cup {c})
    BY FS_AddElement DEF IInv
  <2>3. QED
    BY <2>1, <2>2, FS_Subset
<1>6. ASSUME NEW u \in Task PROVE cur'[u] = Idle \/ Place(cur'[u], Done')
  BY <1>1, <1>2, <1>4 DEF IInv
<1>7. Alone'
  BY <1>1, <1>3 DEF IInv, Alone, SameReceive, Idle
<1>8. DeletedIsDone'
  BY <1>2 DEF IInv, DeletedIsDone
<1>9. ServiceTypeOK'
  BY <1>1 DEF IInv, ServiceTypeOK
<1>10. QED
  BY <1>1, <1>2, <1>5, <1>6, <1>7, <1>8, <1>9 DEF IInv, Mapped, Idle

\* A job that was visible, or one that was deleted and comes once more.
LEMMA ReceiveFacts ==
    ASSUME IInv, NEW t \in Task, NEW m \in Message, Receive(t, m)
    PROVE  /\ Begin(t, m) /\ receipt'[m] = FreshReceipt(Copies[m])
           /\ QueueTypeOK' /\ queue[m] = "visible" /\ queue'[m] = "inflight"
           /\ \A n \in Message \ {m} : queue'[n] = queue[n] /\ receipt'[n] = receipt[n]
           /\ early' = early
<1>1. /\ m \in Visible /\ queue' = [n \in Message |-> IF n = m THEN "inflight" ELSE queue[n]]
      /\ receipt' = [n \in Message |-> IF n = m THEN FreshReceipt(Copies[n]) ELSE receipt[n]]
      /\ early' = early
  BY DEF Receive, ReceiveMessages, Hide
<1>2. \A n \in Message : FreshReceipt(Copies[n]) \in Nat
  BY FreshReceiptIsFresh DEF IInv
<1>3. QED
  BY <1>1, <1>2 DEF IInv, QueueTypeOK, Visible, Receive

LEMMA ReceiveDeletedFacts ==
    ASSUME IInv, NEW t \in Task, NEW m \in Message, ReceiveDeleted(t, m)
    PROVE  /\ Begin(t, m) /\ receipt'[m] = FreshReceipt(Copies[m])
           /\ QueueTypeOK' /\ queue[m] = "deleted" /\ queue' = queue
           /\ \A n \in Message \ {m} : receipt'[n] = receipt[n]
           /\ early' = early + 1
<1>1. /\ queue[m] = "deleted" /\ queue' = queue
      /\ receipt' = [receipt EXCEPT ![m] = FreshReceipt(Copies[m])]
      /\ early < MaxEarly /\ early' = early + 1
  BY DEF ReceiveDeleted, ReceiveAgain
<1>2. FreshReceipt(Copies[m]) \in Nat
  BY FreshReceiptIsFresh DEF IInv
<1>3. QED
  BY <1>1, <1>2, QueueAssumption DEF IInv, QueueTypeOK, ReceiveDeleted

LEMMA ReceiveSimulates ==
    ASSUME IInv, NEW t \in Task, NEW m \in Message, Receive(t, m) \/ ReceiveDeleted(t, m)
    PROVE  IInv' /\ UNCHANGED Mapped
<1>1. /\ Begin(t, m) /\ receipt'[m] = FreshReceipt(Copies[m]) /\ QueueTypeOK'
      /\ \A n \in Message : queue'[n] = "deleted" <=> queue[n] = "deleted"
  BY ReceiveFacts, ReceiveDeletedFacts
<1>2. Deleted' = Deleted
  BY <1>1 DEF Deleted
<1>3. QED
  BY <1>1, <1>2, BeginSimulates

\* An hour is listed, or the listing fails and its page is refused.
LEMMA ListSimulates ==
    ASSUME IInv, NEW t \in Task, ListObjects(t) \/ ListFails(t)
    PROVE  IInv' /\ [F!Next]_Mapped
<1> DEFINE m == cur[t].msg
           h == cur[t].hour
           page == UnitsFor(m, FirstPage(h))
<1>1. /\ cur[t] # Idle /\ h # End[m] /\ cur[t].listed = FALSE
      /\ UNCHANGED <<queue, receipt, early, sends>>
      /\ Fault \/ UNCHANGED service
  <2>1. AtHour(t) /\ UNCHANGED <<queue, receipt, early, sends>> /\ (Fault \/ UNCHANGED service)
    BY DEF ListObjects, ListFails, sqs
  <2>2. cur[t] # Idle /\ h # End[m] /\ ~cur[t].listed
    BY <2>1 DEF AtHour, MoreHours
  <2>3. QED
    BY <2>1, <2>2, InHandFacts
<1>2. /\ Place(cur[t], Done) /\ m \in Message /\ cur[t].rcpt \in Nat /\ h \in 0..Horizon
      /\ cur[t] \in Recs
  BY <1>1, InHandFacts
<1>3. /\ m \notin Reversed =>
            /\ h \in Start[m]..End[m]
            /\ \A g \in Start[m]..(h - 1) : UnitsFor(m, FirstPage(g)) \subseteq Done
      /\ cur[t].keys = <<>>
  BY <1>1, <1>2 DEF Place, Working, KeysOfHour, Settled
<1>4. page \subseteq Unit
  BY <1>2, Pages, ElementsOfSeq DEF UnitsFor, Unit
<1>5. QueueTypeOK' /\ ServiceTypeOK' /\ Deleted' = Deleted /\ Handed' = Handed
  BY <1>1, ServiceStep DEF IInv, QueueTypeOK, Deleted, Handed
<1>6. CASE ListObjects(t)
  <2> DEFINE c == Rec(m, cur[t].rcpt, h, TRUE, FirstPage(h))
  <2>1. Go(t, c) /\ refused' = refused
    <3>1. Go(t, [cur[t] EXCEPT !.listed = TRUE, !.keys = FirstPage(h)]) /\ refused' = refused
      BY <1>6 DEF ListObjects
    <3>2. TRUE \in BOOLEAN
      OBVIOUS
    <3>3. [cur[t] EXCEPT !.listed = TRUE, !.keys = FirstPage(h)] = c
      BY <1>2, <3>2, WithPage, Zenon
    <3>4. QED
      BY <3>1, <3>3
  <2>2. Place(c, Done)
    <3>1. FirstPage(h) \in Seq(Object) /\ OneToOne(FirstPage(h))
      BY Pages
    <3>2. UnitsFor(m, FirstPage(h)) \subseteq Done \cup UnitsFor(m, FirstPage(h))
      OBVIOUS
    <3>3. QED
      BY <1>1, <1>2, <1>3, <3>1, <3>2, PlaceOfRec
  <2>3. SameReceive(c, cur[t])
    BY DEF SameReceive, Rec
  <2> HIDE DEF c
  <2>4. Done' = Done
    BY <1>5, <2>1 DEF Done
  <2>5. IInv'
    BY <1>1, <1>5, <2>1, <2>2, <2>3, <2>4, LoopStep DEF IInv
  <2>6. QED
    BY <1>5, <2>1, <2>5 DEF Mapped
<1>7. CASE ListFails(t)
  <2> DEFINE c == Rec(m, cur[t].rcpt, h, TRUE, <<>>)
  <2>1. Go(t, c) /\ refused' = refused \cup page
    <3>1. /\ Go(t, [cur[t] EXCEPT !.listed = TRUE])
          /\ refused' = refused \cup page
      BY <1>7 DEF ListFails
    <3>2. [cur[t] EXCEPT !.listed = TRUE] = c
      <4>1. TRUE \in BOOLEAN
        OBVIOUS
      <4>2. [cur[t] EXCEPT !.listed = TRUE] = Rec(m, cur[t].rcpt, h, TRUE, cur[t].keys)
        BY <1>2, <4>1, WithListed, Zenon
      <4>3. QED
        BY <1>3, <4>2
    <3>3. QED
      BY <3>1, <3>2
  <2>2. Done \subseteq Done' /\ page \subseteq Done' /\ refused' \subseteq Unit
    BY <1>4, <1>5, <2>1 DEF Done, IInv
  <2>3. Place(c, Done')
    <3>1. <<>> \in Seq(Object) /\ OneToOne(<<>>) /\ Elements(<<>>) = {}
      BY DEF OneToOne, Elements
    <3>2. m \notin Reversed =>
            \A g \in Start[m]..(h - 1) : UnitsFor(m, FirstPage(g)) \subseteq Done'
      BY <1>3, <2>2
    <3>3. QED
      BY <1>1, <1>2, <1>3, <2>2, <3>1, <3>2, PlaceOfRec
  <2>4. SameReceive(c, cur[t])
    BY DEF SameReceive, Rec
  <2> HIDE DEF c
  <2>5. IInv'
    BY <1>1, <1>5, <2>1, <2>2, <2>3, <2>4, LoopStep DEF IInv
  <2>6. F!Refuse(page)
    BY <1>5, <2>1 DEF F!Refuse, Handed
  <2>7. QED
    BY <1>4, <2>5, <2>6 DEF F!Next
<1>8. QED
  BY <1>6, <1>7

LEMMA HandIsNext ==
    ASSUME NEW u \in Unit, Handed' = Handed \cup {u}, refused' = refused, Deleted' = Deleted
    PROVE  F!Next
<1>1. F!Hand(u)
  BY DEF F!Hand, Handed
<1>2. QED
  BY <1>1 DEF F!Next

LEMMA RefuseIsNext ==
    ASSUME NEW u \in Unit, Handed' = Handed, refused' = refused \cup {u}, Deleted' = Deleted
    PROVE  F!Next
<1>1. F!Refuse({u})
  BY DEF F!Refuse, Handed
<1>2. {u} \in SUBSET Unit
  OBVIOUS
<1>3. QED
  BY <1>1, <1>2 DEF F!Next

\* A name is sent, or sending it fails and it is refused.
LEMMA KeySimulates ==
    ASSUME IInv, NEW t \in Task, SendMessage(t) \/ SendFails(t)
    PROVE  IInv' /\ [F!Next]_Mapped
<1> DEFINE m == cur[t].msg
           h == cur[t].hour
           ks == cur[t].keys
           k == Head(ks)
           u == <<m, k>>
           c == Rec(m, cur[t].rcpt, h, cur[t].listed, Tail(ks))
<1>1. /\ cur[t] # Idle /\ cur[t].listed /\ h # End[m] /\ ks # <<>>
      /\ UNCHANGED <<queue, receipt, early>>
      /\ Fault \/ UNCHANGED service
      /\ Go(t, [cur[t] EXCEPT !.keys = Tail(ks)])
  BY DEF SendMessage, SendFails, AtKey, MoreHours, KeyDone, sqs
<1>2. /\ Place(cur[t], Done) /\ m \in Message /\ cur[t].rcpt \in Nat /\ h \in 0..Horizon
      /\ cur[t] \in Recs /\ ks \in Seq(Object) /\ cur[t].listed \in BOOLEAN
  BY <1>1, InHandFacts DEF Recs
<1>3. Go(t, c)
  <2>1. [cur[t] EXCEPT !.keys = Tail(ks)] = c
    BY <1>2, WithKeys, Zenon
  <2>2. QED
    BY <1>1, <2>1, Zenon
<1>4. /\ m \notin Reversed =>
            /\ h \in Start[m]..End[m]
            /\ \A g \in Start[m]..(h - 1) : UnitsFor(m, FirstPage(g)) \subseteq Done
            /\ UnitsFor(m, FirstPage(h)) \subseteq Done \cup UnitsFor(m, ks)
      /\ OneToOne(ks) /\ Elements(ks) \subseteq Elements(FirstPage(h))
  BY <1>1, <1>2 DEF Place, Working, KeysOfHour, Settled
<1>5. /\ k \in Object /\ Tail(ks) \in Seq(Object) /\ OneToOne(Tail(ks))
      /\ Elements(ks) = {k} \cup Elements(Tail(ks))
  BY <1>1, <1>2, <1>4, ElementsOfSeq
<1>6. u \in Unit /\ UnitsFor(m, ks) = {u} \cup UnitsFor(m, Tail(ks))
  BY <1>2, <1>5 DEF Unit, UnitsFor
<1>7. QueueTypeOK' /\ ServiceTypeOK' /\ Deleted' = Deleted
  BY <1>1, ServiceStep DEF IInv, QueueTypeOK, Deleted
<1>8. /\ sends' \in [Unit -> Nat] /\ refused' \subseteq Unit /\ Done' = Done \cup {u}
      /\ \/ Handed' = Handed \cup {u} /\ refused' = refused
         \/ Handed' = Handed /\ refused' = refused \cup {u}
  <2>1. CASE SendMessage(t)
    <3>1. sends' = [sends EXCEPT ![u] = sends[u] + 1] /\ refused' = refused
      BY <2>1 DEF SendMessage, UnitAt
    <3> HIDE DEF u
    <3>2. sends' \in [Unit -> Nat] /\ Handed' = Handed \cup {u}
      BY <1>6, <3>1 DEF IInv, Handed
    <3>3. QED
      BY <3>1, <3>2 DEF Done, IInv
  <2>2. CASE SendFails(t)
    <3>1. refused' = refused \cup {u} /\ sends' = sends
      BY <2>2 DEF SendFails, UnitAt
    <3> HIDE DEF u
    <3>2. QED
      BY <1>6, <3>1 DEF Done, Handed, IInv
  <2>3. QED
    BY <2>1, <2>2
<1>9. Place(c, Done')
  <2>1. m \notin Reversed =>
            /\ \A g \in Start[m]..(h - 1) : UnitsFor(m, FirstPage(g)) \subseteq Done'
            /\ UnitsFor(m, FirstPage(h)) \subseteq Done' \cup UnitsFor(m, Tail(ks))
    BY <1>4, <1>6, <1>8
  <2>2. Elements(Tail(ks)) \subseteq Elements(FirstPage(h))
    BY <1>4, <1>5
  <2>3. QED
    BY <1>1, <1>2, <1>4, <1>5, <2>1, <2>2, PlaceOfRec
<1>10. SameReceive(c, cur[t])
  BY DEF SameReceive, Rec
<1> HIDE DEF c, u
<1>11. IInv'
  BY <1>1, <1>3, <1>7, <1>8, <1>9, <1>10, LoopStep
<1>12. F!Next
  BY <1>6, <1>7, <1>8, HandIsNext, RefuseIsNext
<1>13. QED
  BY <1>11, <1>12

\* A send whose reply is lost hands the name on too, and it is still to send.
LEMMA ReplyLostSimulates ==
    ASSUME IInv, NEW t \in Task, ReplyLost(t)
    PROVE  IInv' /\ [F!Next]_Mapped
<1> DEFINE u == UnitAt(t)
<1>1. /\ cur[t] # Idle /\ cur[t].keys # <<>> /\ Fault
      /\ sends' = [sends EXCEPT ![u] = sends[u] + 1]
      /\ UNCHANGED <<queue, receipt, early, cur, refused>>
  BY DEF ReplyLost, AtKey, MoreHours, sqs
<1>2. u \in Unit
  <2>1. cur[t].msg \in Message /\ cur[t].keys \in Seq(Object)
    BY <1>1, InHandFacts
  <2>2. Head(cur[t].keys) \in Object
    BY <1>1, <2>1
  <2>3. QED
    BY <2>1, <2>2 DEF UnitAt, Unit
<1> HIDE DEF u
<1>3. /\ QueueTypeOK' /\ ServiceTypeOK' /\ Deleted' = Deleted /\ Copies' = Copies
      /\ sends' \in [Unit -> Nat] /\ Handed' = Handed \cup {u}
  <2>1. QueueTypeOK' /\ ServiceTypeOK' /\ Deleted' = Deleted /\ Copies' = Copies
    BY <1>1, ServiceStep DEF IInv, QueueTypeOK, Deleted, Copies, Held, Idle
  <2>2. sends' \in [Unit -> Nat] /\ Handed' = Handed \cup {u}
    BY <1>1, <1>2 DEF IInv, Handed
  <2>3. QED
    BY <2>1, <2>2
<1>4. Done \subseteq Done'
  BY <1>1, <1>3 DEF Done
<1>5. \A v \in Task : cur'[v] = Idle \/ Place(cur'[v], Done')
  BY <1>1, <1>4 DEF IInv, Place, Settled
<1>6. Alone' /\ DeletedIsDone'
  BY <1>1, <1>3, <1>4 DEF IInv, Alone, DeletedIsDone, Idle
<1>7. IInv'
  BY <1>1, <1>3, <1>5, <1>6 DEF IInv, Idle
<1>8. QED
  BY <1>1, <1>2, <1>3, <1>7, HandIsNext

\* The reader goes on to the next hour.
LEMMA HourSimulates ==
    ASSUME IInv, NEW t \in Task, HourDone(t)
    PROVE  IInv' /\ UNCHANGED Mapped
<1> DEFINE m == cur[t].msg
           h == cur[t].hour
           c == Rec(m, cur[t].rcpt, HourLater(h), FALSE, <<>>)
<1>1. /\ cur[t] # Idle /\ cur[t].listed /\ h # End[m] /\ cur[t].keys = <<>>
      /\ UNCHANGED <<queue, receipt, early, service, sends, refused>>
      /\ Go(t, [cur[t] EXCEPT !.hour = HourLater(h), !.listed = FALSE])
  BY DEF HourDone, MoreHours, NextHour, sqs
<1>2. /\ Place(cur[t], Done) /\ m \in Message /\ cur[t].rcpt \in Nat /\ h \in 0..Horizon
      /\ cur[t] \in Recs
  BY <1>1, InHandFacts
<1>3. Go(t, c)
  <2>1. FALSE \in BOOLEAN
    OBVIOUS
  <2>2. [cur[t] EXCEPT !.hour = HourLater(h), !.listed = FALSE]
            = Rec(m, cur[t].rcpt, HourLater(h), FALSE, cur[t].keys)
    BY <1>2, <2>1, WithHourUnlisted, Zenon
  <2>3. QED
    BY <1>1, <2>2, Zenon
<1>4. m \notin Reversed =>
          /\ h \in Start[m]..End[m]
          /\ \A g \in Start[m]..(h - 1) : UnitsFor(m, FirstPage(g)) \subseteq Done
          /\ UnitsFor(m, FirstPage(h)) \subseteq Done
  <2>1. UnitsFor(m, cur[t].keys) = {}
    BY <1>1 DEF UnitsFor, Elements
  <2>2. QED
    BY <1>1, <1>2, <2>1 DEF Place, Working, Settled
<1>5. QueueTypeOK' /\ ServiceTypeOK' /\ Deleted' = Deleted /\ Done' = Done /\ Handed' = Handed
  BY <1>1 DEF IInv, QueueTypeOK, ServiceTypeOK, service, Deleted, Done, Handed
<1>6. Place(c, Done)
  <2>1. HourLater(h) \in 0..Horizon
    BY <1>2, ReaderAssumption DEF HourLater
  <2>2. ASSUME m \notin Reversed
        PROVE  /\ HourLater(h) \in Start[m]..End[m]
               /\ \A g \in Start[m]..(HourLater(h) - 1) : UnitsFor(m, FirstPage(g)) \subseteq Done
    <3>1. Start[m] \in 0..Horizon /\ End[m] \in 0..Horizon
      BY <1>2, <2>2, Ranges
    <3>2. HourLater(h) = h + 1 /\ h + 1 \in Start[m]..End[m]
      BY <1>1, <1>2, <1>4, <2>2, <3>1, ReaderAssumption DEF HourLater
    <3>3. \A g \in Start[m]..((h + 1) - 1) : g = h \/ g \in Start[m]..(h - 1)
      BY <1>2, <3>1
    <3>4. QED
      BY <1>4, <2>2, <3>2, <3>3
  <2>3. <<>> \in Seq(Object) /\ OneToOne(<<>>) /\ Elements(<<>>) = {}
    BY DEF OneToOne, Elements
  <2>4. QED
    BY <1>2, <2>1, <2>2, <2>3, PlaceOfRec
<1>7. SameReceive(c, cur[t])
  BY DEF SameReceive, Rec
<1> HIDE DEF c
<1>8. IInv'
  BY <1>1, <1>3, <1>5, <1>6, <1>7, LoopStep DEF IInv
<1>9. QED
  BY <1>1, <1>5, <1>8 DEF Mapped

\* A job leaves the queue at the end of its range, when all of it is done.
LEMMA DeleteSimulates ==
    ASSUME IInv, NEW t \in Task, DeleteMessage(t)
    PROVE  IInv' /\ [F!Next]_Mapped
<1> DEFINE m == cur[t].msg
<1>1. /\ cur[t] # Idle /\ cur[t].hour = End[m] /\ Go(t, Idle)
      /\ queue' = [queue EXCEPT ![m] = "deleted"] \/ UNCHANGED queue
      /\ UNCHANGED <<receipt, early, service, sends, refused>>
  BY DEF DeleteMessage, DeleteMessages, JobDone, MoreHours
<1>2. Place(cur[t], Done) /\ m \in Message /\ cur[t].hour \in 0..Horizon
  BY <1>1, InHandFacts
<1>3. m \notin Reversed
  BY <1>1, <1>2, Ranges, ReaderAssumption
<1>4. UnitsOf[m] \subseteq Done
  BY <1>1, <1>2, <1>3 DEF Place, Settled, UnitsOf, HoursOf
<1>5. /\ QueueTypeOK' /\ ServiceTypeOK' /\ Done' = Done /\ Handed' = Handed
      /\ Deleted' = Deleted \cup {m} \/ Deleted' = Deleted
  BY <1>1, <1>2 DEF IInv, QueueTypeOK, ServiceTypeOK, service, Deleted, Done, Handed
<1> HIDE DEF m
<1>6. IInv'
  BY <1>1, <1>3, <1>4, <1>5, LoopStep DEF IInv
<1>7. F!Remove(m) \/ UNCHANGED Mapped
  BY <1>1, <1>3, <1>4, <1>5 DEF F!Remove, Mapped, Done, Handed
<1>8. QED
  BY <1>2, <1>6, <1>7 DEF F!Next, m

\* A reader that dies, or whose delete fails, forgets its job.
LEMMA DropsSimulate ==
    ASSUME IInv, NEW t \in Task, DeleteFails(t) \/ Crash(t)
    PROVE  IInv' /\ UNCHANGED Mapped
<1>1. Go(t, Idle) /\ UNCHANGED <<queue, receipt, early, sends, refused>> /\ (Fault \/ Death)
  BY DEF DeleteFails, Crash, sqs
<1>2. /\ QueueTypeOK' /\ ServiceTypeOK' /\ Done' = Done /\ Handed' = Handed
      /\ Deleted' = Deleted
  BY <1>1, ServiceStep DEF IInv, QueueTypeOK, Deleted, Done, Handed
<1>3. IInv'
  BY <1>1, <1>2, LoopStep DEF IInv
<1>4. QED
  BY <1>1, <1>2, <1>3 DEF Mapped

LEMMA NextSimulates ==
    ASSUME IInv, [Next]_vars
    PROVE  IInv' /\ [F!Next]_Mapped
<1>1. CASE \E m \in Message : VisibilityExpires(m)
  BY <1>1, ExpirySimulates
<1>2. CASE \E t \in Task, m \in Message : Receive(t, m) \/ ReceiveDeleted(t, m)
  BY <1>2, ReceiveSimulates
<1>3. CASE \E t \in Task : ListObjects(t) \/ ListFails(t)
  BY <1>3, ListSimulates
<1>4. CASE \E t \in Task : SendMessage(t) \/ SendFails(t)
  BY <1>4, KeySimulates
<1>5. CASE \E t \in Task : ReplyLost(t)
  BY <1>5, ReplyLostSimulates
<1>6. CASE \E t \in Task : HourDone(t)
  BY <1>6, HourSimulates
<1>7. CASE \E t \in Task : DeleteMessage(t)
  BY <1>7, DeleteSimulates
<1>8. CASE \E t \in Task : DeleteFails(t) \/ Crash(t)
  BY <1>8, DropsSimulate
<1>9. CASE UNCHANGED vars
  <2>1. UNCHANGED <<queue, receipt, early, service, cur, sends, refused>>
    BY <1>9 DEF vars, sqs
  <2>2. QueueTypeOK' /\ ServiceTypeOK' /\ Deleted' = Deleted
    BY <2>1, ServiceStep DEF IInv, QueueTypeOK, Deleted
  <2>3. QED
    BY <2>1, <2>2, SameHands
<1>10. QED
  BY <1>1, <1>2, <1>3, <1>4, <1>5, <1>6, <1>7, <1>8, <1>9 DEF Next, MainLoop

LEMMA InitIInv ==
    ASSUME Init
    PROVE  IInv /\ F!Init
<1>1. QueueTypeOK /\ ServiceTypeOK /\ Deleted = {}
  BY QueueAssumption, ServiceAssumption
     DEF Init, InitQueue, InitService, QueueTypeOK, ServiceTypeOK, Deleted
<1>2. sends \in [Unit -> Nat] /\ refused = {} /\ Handed = {}
  BY DEF Init, Handed
<1>3. cur = [t \in Task |-> cur[t]] /\ \A t \in Task : cur[t] = Idle
  BY DEF Init
<1>4. \A m \in Message : IsFiniteSet(Copies[m])
  <2>1. Held = {}
    BY <1>3 DEF Held
  <2>2. \A m \in Message : Copies[m] = {}
    BY <2>1 DEF Copies
  <2>3. QED
    BY <2>2, FS_EmptySet
<1>5. Alone /\ DeletedIsDone
  BY <1>1, <1>3 DEF Alone, DeletedIsDone
<1>6. QED
  BY <1>1, <1>2, <1>3, <1>4, <1>5 DEF IInv, F!Init, Handed

\* A task at work on a job that ends after it starts is at an hour of that job,
\* and has a listing only for an hour before its end.
THEOREM TypeCorrect == Spec => []TypeOK
<1>1. Init => IInv
  BY InitIInv
<1>2. IInv /\ [Next]_vars => IInv'
  BY NextSimulates
<1>3. IInv => TypeOK
  BY DEF IInv, TypeOK, Place
<1>4. QED
  BY <1>1, <1>2, <1>3, PTL DEF Spec

\* The reader is a forwarder of jobs: a job leaves the queue only when every name
\* listed for its hours was sent or hit by a fault, and a reversed one never does.
THEOREM Refinement == Spec => IsForwarder
<1>1. Init => IInv /\ F!Init
  BY InitIInv
<1>2. IInv /\ [Next]_vars => IInv' /\ [F!Next]_Mapped
  BY NextSimulates
<1>3. QED
  BY <1>1, <1>2, PTL DEF Spec, IsForwarder, F!Spec, Mapped, Handed

-----------------------------------------------------------------------------
(* The sendings.                                                           *)

\* The name k is still to come for c: in an hour to list, or in its hand.
Ahead(c, k) ==
    \/ \E g \in ArchivedHour : /\ k \in Elements(FirstPage(g))
                               /\ g > c.hour \/ (g = c.hour /\ ~c.listed)
    \/ c.listed /\ k \in Elements(c.keys)

\* The receives of m for which k is still to come.
Unsent(m, k) ==
    {n \in Nat : \E t \in Task : /\ cur[t] # Idle /\ cur[t].msg = m /\ cur[t].rcpt = n
                                 /\ Ahead(cur[t], k)}

\* Of these, the ones the message does not hide behind any more: their reason is
\* in the counters already.
Old(m, n) == queue[m] # "inflight" \/ n # receipt[m]
Due(m, k) == {n \in Unsent(m, k) : Old(m, n)}

\* The sending that needs no reason is made: the job is deleted, or its last
\* receive is in the hand of a reader that is past k.
JustSent(t, m, k) ==
    cur[t] # Idle /\ cur[t].msg = m /\ cur[t].rcpt = receipt[m] /\ ~Ahead(cur[t], k)
SentNow(m, k) ==
    \/ queue[m] = "deleted"
    \/ queue[m] = "inflight" /\ \E t \in Task : JustSent(t, m, k)

Budget(m, k) == crashes + faults + early + (IF SentNow(m, k) THEN 1 ELSE 0)

Sent(m, k) == sends[<<m, k>>]
Explained(m, k) ==
    /\ Sent(m, k) \in Nat
    /\ IsFiniteSet(Due(m, k))
    /\ Sent(m, k) + Cardinality(Due(m, k)) <= Budget(m, k)
AllExplained == \A m \in Message, k \in Object : Explained(m, k)

\* What a step may do to the sendings of k for m: one that is made, or becomes
\* due, has a reason that is new, or it was due.
Spends(m, k) ==
    \/ /\ Sent(m, k)' = Sent(m, k) /\ Budget(m, k) <= Budget(m, k)'
       /\ Due(m, k)' \subseteq Due(m, k)
    \/ /\ Sent(m, k)' = Sent(m, k) /\ Budget(m, k) + 1 <= Budget(m, k)'
       /\ \E n \in Nat : Due(m, k)' \subseteq Due(m, k) \cup {n}
    \/ /\ Sent(m, k)' = Sent(m, k) + 1 /\ Budget(m, k) <= Budget(m, k)'
       /\ \E n \in Due(m, k) : Due(m, k)' \subseteq Due(m, k) \ {n}
    \/ /\ Sent(m, k)' = Sent(m, k) + 1 /\ Budget(m, k) + 1 <= Budget(m, k)'
       /\ Due(m, k)' \subseteq Due(m, k)

LEMMA BudgetType ==
    ASSUME IInv, NEW m, NEW k
    PROVE  Budget(m, k) \in Nat /\ early \in Nat /\ crashes \in Nat /\ faults \in Nat
BY QueueAssumption, ServiceAssumption DEF IInv, QueueTypeOK, ServiceTypeOK, Budget

LEMMA SpendsKeepsExplained ==
    ASSUME IInv, IInv', NEW m \in Message, NEW k \in Object, Explained(m, k), Spends(m, k)
    PROVE  Explained(m, k)'
<1>1. Budget(m, k) \in Nat /\ Budget(m, k)' \in Nat
  <2>1. Budget(m, k)' \in Nat
    BY QueueAssumption, ServiceAssumption DEF IInv, QueueTypeOK, ServiceTypeOK, Budget
  <2>2. QED
    BY <2>1, BudgetType
<1> DEFINE D == Due(m, k)
           E == Due(m, k)'
           b == Budget(m, k)
           d == Budget(m, k)'
           p == Sent(m, k)
           q == Sent(m, k)'
<1>2. /\ IsFiniteSet(D) /\ p \in Nat /\ p + Cardinality(D) <= b
      /\ \/ q = p /\ b <= d /\ E \subseteq D
         \/ q = p /\ b + 1 <= d /\ \E n \in Nat : E \subseteq D \cup {n}
         \/ q = p + 1 /\ b <= d /\ \E n \in D : E \subseteq D \ {n}
         \/ q = p + 1 /\ b + 1 <= d /\ E \subseteq D
  BY DEF Explained, Spends
<1>3. q \in Nat /\ IsFiniteSet(E) /\ q + Cardinality(E) <= d
  <2>1. b \in Nat /\ d \in Nat
    BY <1>1
  <2> HIDE DEF D, E, b, d, p, q
  <2>2. QED
    BY <1>2, <2>1, Spending
<1>4. QED
  BY <1>3 DEF Explained

\* A receive in the hand of a reader that is past k is not one k is to come for.
LEMMA JustSentIsNotUnsent ==
    ASSUME IInv, NEW t \in Task, NEW m, NEW k, cur[t] # Idle, cur[t].msg = m,
           ~Ahead(cur[t], k)
    PROVE  cur[t].rcpt \notin Unsent(m, k)
<1> SUFFICES ASSUME NEW u \in Task, cur[u] # Idle, cur[u].msg = m,
                    cur[u].rcpt = cur[t].rcpt, Ahead(cur[u], k)
             PROVE  FALSE
  BY DEF Unsent
<1>1. u = t
  BY DEF IInv, Alone, SameReceive
<1>2. QED
  BY <1>1

\* A reader goes on with its job, nothing new ahead of it; or it forgets the job,
\* for a fault or a death.
LEMMA MovesOn ==
    ASSUME IInv, NEW t \in Task, NEW c, Go(t, c), cur[t] # Idle, UNCHANGED sqs,
           NEW m, NEW k, Sent(m, k)' = Sent(m, k),
           c # Idle => SameReceive(c, cur[t]) /\ (Ahead(c, k) => Ahead(cur[t], k)),
           \/ faults' = faults /\ crashes' = crashes /\ c # Idle
           \/ faults' = faults + 1 /\ crashes' = crashes
           \/ faults' = faults /\ crashes' = crashes + 1
    PROVE  Spends(m, k)
<1>1. cur'[t] = c /\ \A u \in Task \ {t} : cur'[u] = cur[u]
  BY DEF Go, IInv
<1>2. UNCHANGED <<queue, receipt, early>>
  BY DEF sqs
<1>3. ASSUME NEW u \in Task, cur'[u] # Idle
      PROVE  /\ cur[u] # Idle /\ cur'[u].msg = cur[u].msg /\ cur'[u].rcpt = cur[u].rcpt
             /\ Ahead(cur'[u], k) => Ahead(cur[u], k)
  <2>1. CASE u = t
    BY <1>1, <1>3, <2>1 DEF SameReceive
  <2>2. CASE u # t
    BY <1>1, <1>3, <2>2
  <2>3. QED
    BY <2>1, <2>2
<1>4. Unsent(m, k)' \subseteq Unsent(m, k)
  <2> SUFFICES ASSUME NEW n \in Nat, NEW u \in Task, cur'[u] # Idle, cur'[u].msg = m,
                      cur'[u].rcpt = n, Ahead(cur'[u], k)
               PROVE  n \in Unsent(m, k)
    BY DEF Unsent, Ahead, Idle
  <2>1. QED
    BY <1>3 DEF Unsent
<1>5. Due(m, k)' \subseteq Due(m, k)
  BY <1>2, <1>4 DEF Due, Old
<1>6. c # Idle /\ SentNow(m, k) => SentNow(m, k)'
  <2> SUFFICES ASSUME c # Idle, NEW u \in Task, JustSent(u, m, k)
               PROVE  JustSent(u, m, k)'
    BY <1>2 DEF SentNow
  <2>1. cur'[u] # Idle
    BY <1>1 DEF JustSent
  <2>2. /\ cur'[u].msg = m /\ cur'[u].rcpt = receipt'[m] /\ ~Ahead(cur'[u], k)
    BY <1>2, <1>3, <2>1 DEF JustSent
  <2>3. QED
    BY <2>1, <2>2 DEF JustSent, Ahead, Idle
<1>7. Budget(m, k) <= Budget(m, k)'
  <2>1. crashes \in Nat /\ faults \in Nat /\ early \in Nat
    BY BudgetType
  <2>2. QED
    BY <1>2, <1>6, <2>1 DEF Budget
<1>8. QED
  BY <1>5, <1>7 DEF Spends

\* A reader forgets its job, or goes on without sending.
LEMMA OtherStepsSpend ==
    ASSUME IInv, NEW t \in Task,
           \/ ListObjects(t) \/ ListFails(t) \/ SendFails(t) \/ HourDone(t)
           \/ DeleteFails(t) \/ Crash(t),
           NEW m, NEW k
    PROVE  Spends(m, k)
<1>1. Sent(m, k)' = Sent(m, k) /\ UNCHANGED sqs
  BY DEF ListObjects, ListFails, SendFails, HourDone, DeleteFails, Crash, Sent
<1>2. CASE DeleteFails(t)
  <2>1. Go(t, Idle) /\ cur[t] # Idle /\ faults' = faults + 1 /\ crashes' = crashes
    BY <1>2 DEF DeleteFails, JobDone, Fault
  <2>2. QED
    BY <1>1, <2>1, MovesOn
<1>3. CASE Crash(t)
  <2>1. Go(t, Idle) /\ faults' = faults /\ crashes' = crashes + 1
    BY <1>3 DEF Crash, Death
  <2>2. CASE cur[t] # Idle
    BY <1>1, <2>1, <2>2, MovesOn
  <2>3. CASE cur[t] = Idle
    <3>1. cur' = cur
      BY <2>1, <2>3 DEF Go, IInv
    <3>2. UNCHANGED <<queue, receipt, early>>
      BY <1>1 DEF sqs
    <3>3. Unsent(m, k)' = Unsent(m, k)
      BY <3>1 DEF Unsent, Ahead, Idle
    <3>4. Due(m, k)' = Due(m, k)
      BY <3>2, <3>3 DEF Due, Old
    <3>5. SentNow(m, k)' <=> SentNow(m, k)
      BY <3>1, <3>2 DEF SentNow, JustSent, Ahead, Idle
    <3>6. Budget(m, k) <= Budget(m, k)'
      BY <2>1, <3>2, <3>5, BudgetType DEF Budget
    <3>7. QED
      BY <1>1, <3>4, <3>6 DEF Spends
  <2>4. QED
    BY <2>2, <2>3
<1>4. CASE ListObjects(t) \/ ListFails(t) \/ SendFails(t) \/ HourDone(t)
  <2> DEFINE c == cur'[t]
  <2>1. cur[t] # Idle /\ Go(t, c)
    <3>1. \E d : Go(t, d)
      BY <1>4 DEF ListObjects, ListFails, SendFails, HourDone, KeyDone
    <3>2. cur[t] # Idle
      BY <1>4 DEF ListObjects, ListFails, SendFails, HourDone, AtHour, AtKey, MoreHours
    <3>3. QED
      BY <3>1, <3>2 DEF Go, IInv
  <2>2. /\ cur[t] \in Recs /\ cur[t].hour \in 0..Horizon /\ cur[t].keys \in Seq(Object)
        /\ cur[t].listed \in BOOLEAN /\ Place(cur[t], Done)
    BY <2>1, InHandFacts DEF Recs
  <2>3. \/ faults' = faults /\ crashes' = crashes
        \/ faults' = faults + 1 /\ crashes' = crashes
    BY <1>4 DEF ListObjects, ListFails, SendFails, HourDone, Fault, service
  <2>4. c # Idle /\ SameReceive(c, cur[t]) /\ (Ahead(c, k) => Ahead(cur[t], k))
    <3> DEFINE m0 == cur[t].msg
               n0 == cur[t].rcpt
               h0 == cur[t].hour
    <3>1. ASSUME NEW h, NEW b, NEW ks, c = Rec(m0, n0, h, b, ks)
          PROVE  /\ c # Idle /\ SameReceive(c, cur[t])
                 /\ c.hour = h /\ c.listed = b /\ c.keys = ks
      BY <3>1 DEF Rec, Idle, SameReceive
    <3>2. h0 \in ArchivedHour \/ FirstPage(h0) = <<>>
      BY DEF FirstPage, ObjectsIn
    <3>3. CASE ListObjects(t)
      <4>1. ~cur[t].listed /\ c = [cur[t] EXCEPT !.listed = TRUE, !.keys = FirstPage(h0)]
        BY <2>1, <3>3 DEF ListObjects, AtHour, Go, IInv
      <4>2. TRUE \in BOOLEAN
        OBVIOUS
      <4>3. c = Rec(m0, n0, h0, TRUE, FirstPage(h0))
        BY <2>2, <4>1, <4>2, WithPage, Zenon
      <4>4. c # Idle /\ SameReceive(c, cur[t]) /\ c.hour = h0 /\ c.listed /\ c.keys = FirstPage(h0)
        BY <3>1, <4>3
      <4>5. QED
        BY <4>1, <4>4, Pages DEF Ahead
    <3>4. CASE ListFails(t)
      <4>1. ~cur[t].listed /\ c = [cur[t] EXCEPT !.listed = TRUE]
        BY <2>1, <3>4 DEF ListFails, AtHour, Go, IInv
      <4>2. TRUE \in BOOLEAN
        OBVIOUS
      <4>3. c = Rec(m0, n0, h0, TRUE, cur[t].keys) /\ cur[t].keys = <<>>
        BY <2>2, <4>1, <4>2, WithListed, Zenon DEF Place, KeysOfHour
      <4>4. c # Idle /\ SameReceive(c, cur[t]) /\ c.hour = h0 /\ c.listed /\ c.keys = <<>>
        BY <3>1, <4>3
      <4>5. QED
        BY <4>4 DEF Ahead, Elements
    <3>5. CASE SendFails(t)
      <4>1. /\ cur[t].listed /\ cur[t].keys # <<>>
            /\ c = [cur[t] EXCEPT !.keys = Tail(cur[t].keys)]
        BY <2>1, <3>5 DEF SendFails, AtKey, KeyDone, Go, IInv
      <4>2. c = Rec(m0, n0, h0, cur[t].listed, Tail(cur[t].keys))
        BY <2>2, <4>1, WithKeys, Zenon
      <4>3. /\ c # Idle /\ SameReceive(c, cur[t]) /\ c.hour = h0 /\ c.listed = cur[t].listed
            /\ c.keys = Tail(cur[t].keys)
        BY <3>1, <4>2
      <4>4. Elements(Tail(cur[t].keys)) \subseteq Elements(cur[t].keys)
        BY <2>2, <4>1, ElementsOfSeq
      <4>5. QED
        BY <4>1, <4>3, <4>4 DEF Ahead
    <3>6. CASE HourDone(t)
      <4>1. c = [cur[t] EXCEPT !.hour = HourLater(h0), !.listed = FALSE]
        BY <2>1, <3>6 DEF HourDone, NextHour, Go, IInv
      <4>2. FALSE \in BOOLEAN
        OBVIOUS
      <4>3. c = Rec(m0, n0, HourLater(h0), FALSE, cur[t].keys)
        BY <2>2, <4>1, <4>2, WithHourUnlisted, Zenon
      <4>4. c # Idle /\ SameReceive(c, cur[t]) /\ c.hour = HourLater(h0) /\ ~c.listed
        BY <3>1, <4>3
      <4>5. \A g \in ArchivedHour : g >= HourLater(h0) => g > h0
        BY <2>2, ReaderAssumption DEF ArchivedHour, HourLater
      <4>6. ASSUME Ahead(c, k) PROVE Ahead(cur[t], k)
        <5>1. PICK g \in ArchivedHour : k \in Elements(FirstPage(g)) /\ (g > c.hour \/ g = c.hour)
          BY <4>4, <4>6 DEF Ahead
        <5>2. g \in Int /\ HourLater(h0) \in Int
          BY <2>2, ReaderAssumption DEF ArchivedHour, HourLater
        <5>3. g > h0
          BY <4>4, <4>5, <5>1, <5>2
        <5>4. QED
          BY <5>1, <5>3 DEF Ahead
      <4>7. QED
        BY <4>4, <4>6
    <3>7. QED
      BY <1>4, <3>3, <3>4, <3>5, <3>6
  <2> HIDE DEF c
  <2>5. QED
    BY <1>1, <2>1, <2>3, <2>4, MovesOn
<1>5. QED
  BY <1>2, <1>3, <1>4

\* A visibility timeout ends.  The receive that was current becomes an old one:
\* if k is still to come for it, it is due from now on, for the timeout that was
\* counted; if not, the sending that was free is charged to that timeout.
LEMMA ExpirySpends ==
    ASSUME IInv, NEW x \in Message, VisibilityExpires(x), NEW m \in Message, NEW k
    PROVE  Spends(m, k)
<1>1. /\ queue[x] = "inflight" /\ queue'[x] = "visible" /\ receipt' = receipt
      /\ \A n \in Message \ {x} : queue'[n] = queue[n]
      /\ UNCHANGED <<cur, sends, faults, crashes>>
      /\ early' = early \/ early' = early + 1
      /\ Copies[x] # {} => early' = early + 1
  BY DEF VisibilityExpires, Expire, service, IInv, QueueTypeOK
<1>2. crashes \in Nat /\ faults \in Nat /\ early \in Nat
  BY BudgetType
<1>3. Unsent(m, k)' = Unsent(m, k) /\ Sent(m, k)' = Sent(m, k)
  BY <1>1 DEF Unsent, Ahead, Idle, Sent
<1>4. CASE m # x
  <2>1. Due(m, k)' = Due(m, k) /\ (SentNow(m, k)' <=> SentNow(m, k))
    BY <1>1, <1>3, <1>4 DEF Due, Old, SentNow, JustSent, Ahead, Idle
  <2>2. Budget(m, k) <= Budget(m, k)'
    BY <1>1, <1>2, <2>1 DEF Budget
  <2>3. QED
    BY <1>3, <2>1, <2>2 DEF Spends
<1>5. CASE m = x
  <2>1. /\ Due(m, k)' \subseteq Due(m, k) \cup {receipt[m]} /\ receipt[m] \in Nat
        /\ Due(m, k)' \subseteq Unsent(m, k)
    BY <1>1, <1>3, <1>5 DEF Due, Old, IInv, QueueTypeOK
  <2>2. CASE SentNow(m, k)
    <3>1. PICK t \in Task : JustSent(t, m, k)
      BY <1>1, <1>5, <2>2 DEF SentNow
    <3>2. receipt[m] \notin Unsent(m, k)
      BY <3>1, JustSentIsNotUnsent DEF JustSent
    <3>3. Due(m, k)' \subseteq Due(m, k)
      BY <2>1, <3>2
    <3>4. early' = early + 1
      <4>1. cur[t] \in Copies[m]
        BY <3>1 DEF JustSent, Copies, Held
      <4>2. QED
        BY <1>1, <1>5, <4>1
    <3>5. Budget(m, k) <= Budget(m, k)'
      BY <1>1, <1>2, <3>4 DEF Budget
    <3>6. QED
      BY <1>3, <3>3, <3>5 DEF Spends
  <2>3. CASE ~SentNow(m, k) /\ early' = early + 1
    <3>1. Budget(m, k) + 1 <= Budget(m, k)'
      BY <1>1, <1>2, <2>3 DEF Budget
    <3>2. QED
      BY <1>3, <2>1, <3>1 DEF Spends
  <2>4. CASE ~SentNow(m, k) /\ early' = early
    <3>1. Copies[m] = {}
      BY <1>1, <1>2, <1>5, <2>4
    <3>2. \A t \in Task : cur[t] # Idle => cur[t].msg # m
      BY <3>1 DEF Copies, Held
    <3>3. Unsent(m, k) = {}
      BY <3>2 DEF Unsent
    <3>4. Due(m, k)' \subseteq Due(m, k)
      BY <2>1, <3>3
    <3>5. Budget(m, k) <= Budget(m, k)'
      BY <1>1, <1>2, <2>4 DEF Budget
    <3>6. QED
      BY <1>3, <3>4, <3>5 DEF Spends
  <2>5. QED
    BY <1>1, <2>2, <2>3, <2>4
<1>6. QED
  BY <1>4, <1>5

\* The reader that begins a job has the one receive that is new.
LEMMA BegunFacts ==
    ASSUME IInv, NEW t \in Task, NEW x \in Message, Begin(t, x),
           receipt'[x] = FreshReceipt(Copies[x])
    PROVE  /\ UNCHANGED <<faults, crashes, sends>>
           /\ cur[t] = Idle /\ cur'[t].msg = x /\ cur'[t].rcpt = receipt'[x]
           /\ \A u \in Task \ {t} : cur'[u] = cur[u]
<1> DEFINE c == Rec(x, receipt'[x], Start[x], FALSE, <<>>)
<1>1. c.msg = x /\ c.rcpt = receipt'[x]
  BY DEF Rec
<1>2. cur'[t] = c
  BY BeginFacts
<1> HIDE DEF c
<1>3. cur'[t].msg = x /\ cur'[t].rcpt = receipt'[x]
  BY <1>1, <1>2
<1>4. /\ UNCHANGED <<faults, crashes, sends>>
      /\ cur[t] = Idle /\ \A u \in Task \ {t} : cur'[u] = cur[u]
  BY BeginFacts, ZenonT(30)
<1>5. QED
  BY <1>3, <1>4

LEMMA BeginsOne ==
    ASSUME IInv, NEW t \in Task, NEW x \in Message, Begin(t, x),
           receipt'[x] = FreshReceipt(Copies[x]), NEW m \in Message, NEW k
    PROVE  \A n \in Unsent(m, k)' : n \in Unsent(m, k) \/ (m = x /\ n = receipt'[m])
<1> SUFFICES ASSUME NEW n \in Unsent(m, k)'
             PROVE  n \in Unsent(m, k) \/ (m = x /\ n = receipt'[m])
  OBVIOUS
<1>1. n \in Nat /\ \E u \in Task : /\ cur'[u] # Idle /\ cur'[u].msg = m /\ cur'[u].rcpt = n
                                   /\ Ahead(cur'[u], k)
  BY DEF Unsent, Ahead, Idle
<1>2. PICK u \in Task : /\ cur'[u] # Idle /\ cur'[u].msg = m /\ cur'[u].rcpt = n
                        /\ Ahead(cur'[u], k)
  BY <1>1
<1>3. CASE u = t
  BY <1>2, <1>3, BegunFacts
<1>4. CASE u # t
  <2>1. cur'[u] = cur[u]
    BY <1>4, BegunFacts
  <2>2. QED
    BY <1>1, <1>2, <2>1 DEF Unsent
<1>5. QED
  BY <1>3, <1>4

\* A deleted job that comes once more: what is to come for it is due at once, for
\* the delivery that was counted.
LEMMA ReceiveDeletedSpends ==
    ASSUME IInv, NEW t \in Task, NEW x \in Message, ReceiveDeleted(t, x),
           NEW m \in Message, NEW k
    PROVE  Spends(m, k)
<1>1. /\ queue[x] = "deleted" /\ queue' = queue
      /\ \A n \in Message \ {x} : receipt'[n] = receipt[n]
      /\ receipt'[x] \in Nat
      /\ early' = early + 1 /\ UNCHANGED <<faults, crashes, sends>>
      /\ cur[t] = Idle /\ \A u \in Task \ {t} : cur'[u] = cur[u]
      /\ \A n \in Unsent(m, k)' : n \in Unsent(m, k) \/ (m = x /\ n = receipt'[m])
  <2>1. /\ queue[x] = "deleted" /\ queue' = queue
        /\ \A n \in Message \ {x} : receipt'[n] = receipt[n]
        /\ receipt'[x] \in Nat /\ early' = early + 1
    BY ReceiveDeletedFacts DEF QueueTypeOK
  <2>2. /\ UNCHANGED <<faults, crashes, sends>>
        /\ cur[t] = Idle /\ \A u \in Task \ {t} : cur'[u] = cur[u]
    BY ReceiveDeletedFacts, BegunFacts
  <2>3. \A n \in Unsent(m, k)' : n \in Unsent(m, k) \/ (m = x /\ n = receipt'[m])
    BY ReceiveDeletedFacts, BeginsOne
  <2>4. QED
    BY <2>1, <2>2, <2>3
<1>2. Sent(m, k)' = Sent(m, k) /\ receipt'[m] \in Nat
  <2>1. receipt[m] \in Nat
    BY DEF IInv, QueueTypeOK
  <2>2. QED
    BY <1>1, <2>1 DEF Sent
<1>3. Due(m, k)' \subseteq Due(m, k) \cup {receipt'[m]}
  BY <1>1 DEF Due, Old
<1>4. SentNow(m, k) => SentNow(m, k)'
  <2>1. CASE m = x
    BY <1>1, <2>1 DEF SentNow
  <2>2. CASE m # x /\ queue[m] = "inflight"
    <3> SUFFICES ASSUME NEW u \in Task, JustSent(u, m, k) PROVE JustSent(u, m, k)'
      BY <1>1, <2>2 DEF SentNow
    <3>1. u # t
      BY <1>1 DEF JustSent
    <3>2. QED
      BY <1>1, <2>2, <3>1 DEF JustSent, Ahead, Idle
  <2>3. CASE queue[m] = "deleted"
    BY <1>1, <2>3 DEF SentNow
  <2>4. QED
    BY <2>1, <2>2, <2>3 DEF SentNow
<1>5. Budget(m, k) + 1 <= Budget(m, k)'
  BY <1>1, <1>4, BudgetType DEF Budget
<1>6. QED
  BY <1>2, <1>3, <1>5 DEF Spends

\* A job that is received hides behind its receipt all that is to come for it.
LEMMA ReceiveSpends ==
    ASSUME IInv, NEW t \in Task, NEW x \in Message, Receive(t, x), NEW m \in Message, NEW k
    PROVE  Spends(m, k)
<1>1. /\ queue[x] = "visible" /\ queue'[x] = "inflight"
      /\ \A n \in Message \ {x} : queue'[n] = queue[n] /\ receipt'[n] = receipt[n]
      /\ early' = early /\ UNCHANGED <<faults, crashes, sends>>
      /\ cur[t] = Idle /\ cur'[t].msg = x /\ cur'[t].rcpt = receipt'[x]
      /\ \A u \in Task \ {t} : cur'[u] = cur[u]
  BY BegunFacts, ReceiveFacts
<1>2. Sent(m, k)' = Sent(m, k)
  BY <1>1 DEF Sent
<1>3. \A n \in Unsent(m, k)' : n \in Unsent(m, k) \/ (m = x /\ n = receipt'[m])
  BY ReceiveFacts, BeginsOne
<1>4. Due(m, k)' \subseteq Due(m, k)
  <2> SUFFICES ASSUME NEW n \in Due(m, k)' PROVE n \in Due(m, k)
    OBVIOUS
  <2>1. n \in Unsent(m, k)' /\ (queue'[m] # "inflight" \/ n # receipt'[m])
    BY DEF Due, Old
  <2>2. CASE m = x
    BY <1>1, <1>3, <2>1, <2>2 DEF Due, Old
  <2>3. CASE m # x
    BY <1>1, <1>3, <2>1, <2>3 DEF Due, Old
  <2>4. QED
    BY <2>2, <2>3
<1>5. SentNow(m, k) => SentNow(m, k)'
  <2>1. CASE queue[m] = "deleted"
    BY <1>1, <2>1 DEF SentNow
  <2>2. CASE queue[m] = "inflight"
    <3> SUFFICES ASSUME NEW u \in Task, JustSent(u, m, k) PROVE JustSent(u, m, k)'
      BY <1>1, <2>2 DEF SentNow
    <3>1. u # t /\ m # x
      BY <1>1, <2>2 DEF JustSent
    <3>2. QED
      BY <1>1, <3>1 DEF JustSent, Ahead, Idle
  <2>3. QED
    BY <2>1, <2>2 DEF SentNow
<1>6. Budget(m, k) <= Budget(m, k)'
  BY <1>1, <1>5, BudgetType DEF Budget
<1>7. QED
  BY <1>2, <1>4, <1>6 DEF Spends

\* A delete by an old receipt may make the current one due: then the free sending
\* was not made yet, and it is the old one's.
LEMMA DeleteSpends ==
    ASSUME IInv, NEW t \in Task, DeleteMessage(t), NEW m \in Message, NEW k
    PROVE  Spends(m, k)
<1> DEFINE x == cur[t].msg
<1>1. /\ cur[t] # Idle /\ Go(t, Idle)
      /\ queue' = [queue EXCEPT ![x] = "deleted"] \/ (cur[t].rcpt # receipt[x] /\ queue' = queue)
      /\ UNCHANGED <<receipt, early, faults, crashes, sends>>
  BY DEF DeleteMessage, DeleteMessages, JobDone, service
<1>2. /\ cur'[t] = Idle /\ (\A u \in Task \ {t} : cur'[u] = cur[u])
      /\ \A n \in Message \ {x} : queue'[n] = queue[n]
      /\ x \in Message
      /\ queue'[x] = "deleted" \/ (cur[t].rcpt # receipt[x] /\ queue' = queue)
  BY <1>1, InHandFacts DEF Go, IInv, QueueTypeOK
<1>3. Unsent(m, k)' \subseteq Unsent(m, k) /\ Sent(m, k)' = Sent(m, k)
  BY <1>1, <1>2 DEF Unsent, Ahead, Idle, Sent
<1>4. crashes \in Nat /\ faults \in Nat /\ early \in Nat /\ receipt[m] \in Nat
  BY BudgetType DEF IInv, QueueTypeOK
<1>5. CASE queue'[m] = queue[m]
  <2>1. Due(m, k)' \subseteq Due(m, k)
    BY <1>1, <1>3, <1>5 DEF Due, Old
  <2>2. SentNow(m, k) => SentNow(m, k)'
    <3>1. CASE queue[m] = "deleted"
      BY <1>5, <3>1 DEF SentNow
    <3>2. CASE queue[m] = "inflight"
      <4> SUFFICES ASSUME NEW u \in Task, JustSent(u, m, k) PROVE JustSent(u, m, k)'
        BY <1>5, <3>2 DEF SentNow
      <4>1. u # t
        BY <1>2, <1>5, <3>2 DEF JustSent
      <4>2. QED
        BY <1>1, <1>2, <4>1 DEF JustSent, Ahead, Idle
    <3>3. QED
      BY <3>1, <3>2 DEF SentNow
  <2>3. Budget(m, k) <= Budget(m, k)'
    BY <1>1, <1>4, <2>2 DEF Budget
  <2>4. QED
    BY <1>3, <2>1, <2>3 DEF Spends
<1>6. CASE queue'[m] # queue[m]
  <2>1. m = x /\ queue'[m] = "deleted" /\ queue[m] # "deleted" /\ SentNow(m, k)'
    BY <1>2, <1>6 DEF SentNow
  <2>2. /\ Due(m, k)' \subseteq Due(m, k) \cup {receipt[m]}
        /\ Due(m, k)' \subseteq Unsent(m, k)
    BY <1>3 DEF Due, Old
  <2>3. CASE SentNow(m, k)
    <3>1. PICK u \in Task : JustSent(u, m, k)
      BY <2>1, <2>3 DEF SentNow
    <3>2. receipt[m] \notin Unsent(m, k)
      BY <3>1, JustSentIsNotUnsent DEF JustSent
    <3>3. Due(m, k)' \subseteq Due(m, k)
      BY <2>2, <3>2
    <3>4. Budget(m, k) <= Budget(m, k)'
      BY <1>1, <1>4, <2>1 DEF Budget
    <3>5. QED
      BY <1>3, <3>3, <3>4 DEF Spends
  <2>4. CASE ~SentNow(m, k)
    <3>1. Budget(m, k) + 1 <= Budget(m, k)'
      BY <1>1, <1>4, <2>1, <2>4 DEF Budget
    <3>2. QED
      BY <1>3, <1>4, <2>2, <3>1 DEF Spends
  <2>5. QED
    BY <2>3, <2>4
<1>7. QED
  BY <1>5, <1>6

\* After a name is sent it is not to come any more: it is once in the listing, and
\* on no page of a later hour.
LEMMA SentIsBehind ==
    ASSUME IInv, NEW t \in Task, SendMessage(t),
           NEW x, x = cur[t].msg, NEW n, n = cur[t].rcpt, NEW s, s = Head(cur[t].keys)
    PROVE  /\ cur[t] # Idle /\ Ahead(cur[t], s) /\ x \in Message /\ n \in Nat
           /\ cur'[t] # Idle /\ cur'[t].msg = x /\ cur'[t].rcpt = n /\ ~Ahead(cur'[t], s)
           /\ \A k : Ahead(cur'[t], k) => Ahead(cur[t], k)
           /\ \A u \in Task \ {t} : cur'[u] = cur[u]
           /\ sends' = [sends EXCEPT ![<<x, s>>] = sends[<<x, s>>] + 1]
           /\ UNCHANGED <<queue, receipt, early, faults, crashes>>
<1> DEFINE ks == cur[t].keys
           h == cur[t].hour
           c == Rec(x, n, h, cur[t].listed, Tail(ks))
<1>1. /\ cur[t] # Idle /\ cur[t].listed /\ ks # <<>>
      /\ Go(t, [cur[t] EXCEPT !.keys = Tail(ks)])
      /\ sends' = [sends EXCEPT ![<<x, s>>] = sends[<<x, s>>] + 1]
      /\ UNCHANGED <<queue, receipt, early, faults, crashes>>
  BY DEF SendMessage, AtKey, MoreHours, KeyDone, UnitAt, sqs, service
<1>2. /\ Place(cur[t], Done) /\ x \in Message /\ n \in Nat /\ h \in 0..Horizon
      /\ cur[t] \in Recs /\ ks \in Seq(Object) /\ cur[t].listed \in BOOLEAN
  BY <1>1, InHandFacts DEF Recs
<1>3. cur'[t] = c /\ \A u \in Task \ {t} : cur'[u] = cur[u]
  <2>1. [cur[t] EXCEPT !.keys = Tail(ks)] = c
    BY <1>2, WithKeys, Zenon
  <2>2. Go(t, c)
    BY <1>1, <2>1, Zenon
  <2> HIDE DEF c
  <2>3. QED
    BY <2>2 DEF Go, IInv
<1>4. /\ c.msg = x /\ c.rcpt = n /\ c.hour = h /\ c.listed = cur[t].listed /\ c.keys = Tail(ks)
      /\ c # Idle
  BY DEF Rec, Idle
<1> HIDE DEF c
<1>5. OneToOne(ks) /\ Elements(ks) \subseteq Elements(FirstPage(h))
  BY <1>2 DEF Place, KeysOfHour
<1>6. /\ Elements(ks) = {s} \cup Elements(Tail(ks)) /\ s \notin Elements(Tail(ks))
  BY <1>1, <1>2, <1>5, ElementsOfSeq
<1>7. Ahead(cur[t], s)
  BY <1>1, <1>6 DEF Ahead
<1>8. ~Ahead(c, s)
  <2> SUFFICES ASSUME NEW g \in ArchivedHour, s \in Elements(FirstPage(g)), g > h
               PROVE  FALSE
    BY <1>1, <1>4, <1>6 DEF Ahead
  <2>1. s \in Elements(FirstPage(h))
    BY <1>5, <1>6
  <2>2. g = h
    BY <2>1, PagesApart
  <2>3. QED
    BY <1>2, <2>2
<1>9. \A k : Ahead(c, k) => Ahead(cur[t], k)
  BY <1>1, <1>4, <1>6 DEF Ahead
<1>10. QED
  BY <1>1, <1>2, <1>3, <1>4, <1>7, <1>8, <1>9

\* A sending whose reply is lost is charged to the call that failed.
LEMMA ReplyLostSpends ==
    ASSUME IInv, NEW t \in Task, ReplyLost(t), NEW m \in Message, NEW k \in Object,
           Sent(m, k) \in Nat
    PROVE  Spends(m, k)
<1>1. /\ sends' = [sends EXCEPT ![UnitAt(t)] = sends[UnitAt(t)] + 1]
      /\ UNCHANGED <<queue, receipt, early, cur, crashes>> /\ faults' = faults + 1
  BY DEF ReplyLost, Fault, sqs
<1>2. Unsent(m, k)' = Unsent(m, k)
  BY <1>1 DEF Unsent, Ahead, Idle
<1>3. Due(m, k)' = Due(m, k) /\ (SentNow(m, k)' <=> SentNow(m, k))
  BY <1>1, <1>2 DEF Due, Old, SentNow, JustSent, Ahead, Idle
<1>4. Budget(m, k) + 1 <= Budget(m, k)'
  BY <1>1, <1>3, BudgetType DEF Budget
<1>5. Budget(m, k) <= Budget(m, k)'
  BY <1>1, <1>3, BudgetType DEF Budget
<1>6. Sent(m, k)' = Sent(m, k) \/ Sent(m, k)' = Sent(m, k) + 1
  BY <1>1 DEF Sent, IInv, Unit
<1>7. QED
  BY <1>3, <1>4, <1>5, <1>6 DEF Spends

\* The sending of a name that was due, or the one that is free.
LEMMA SendSpends ==
    ASSUME IInv, NEW t \in Task, SendMessage(t), NEW m \in Message, NEW k \in Object,
           Sent(m, k) \in Nat
    PROVE  Spends(m, k)
<1>1. PICK x, n, s : x = cur[t].msg /\ n = cur[t].rcpt /\ s = Head(cur[t].keys)
  OBVIOUS
<1>2. /\ cur[t] # Idle /\ Ahead(cur[t], s) /\ x \in Message /\ n \in Nat
      /\ cur'[t] # Idle /\ cur'[t].msg = x /\ cur'[t].rcpt = n /\ ~Ahead(cur'[t], s)
      /\ Ahead(cur'[t], k) => Ahead(cur[t], k)
      /\ \A u \in Task \ {t} : cur'[u] = cur[u]
      /\ sends' = [sends EXCEPT ![<<x, s>>] = sends[<<x, s>>] + 1]
      /\ UNCHANGED <<queue, receipt, early, faults, crashes>>
  BY <1>1, SentIsBehind
<1>3. Unsent(m, k)' \subseteq Unsent(m, k)
  <2> SUFFICES ASSUME NEW j \in Nat, NEW u \in Task, cur'[u] # Idle, cur'[u].msg = m,
                      cur'[u].rcpt = j, Ahead(cur'[u], k)
               PROVE  j \in Unsent(m, k)
    BY DEF Unsent, Ahead, Idle
  <2>1. CASE u = t
    BY <1>1, <1>2, <2>1 DEF Unsent
  <2>2. CASE u # t
    BY <1>2, <2>2 DEF Unsent
  <2>3. QED
    BY <2>1, <2>2
<1>4. SentNow(m, k) => SentNow(m, k)'
  <2> SUFFICES ASSUME NEW u \in Task, JustSent(u, m, k) PROVE JustSent(u, m, k)'
    BY <1>2 DEF SentNow
  <2>1. cur'[u] # Idle /\ cur'[u].msg = m /\ cur'[u].rcpt = receipt'[m] /\ ~Ahead(cur'[u], k)
    <3>1. CASE u = t
      BY <1>1, <1>2, <3>1 DEF JustSent
    <3>2. CASE u # t
      BY <1>2, <3>2 DEF JustSent
    <3>3. QED
      BY <3>1, <3>2
  <2>2. QED
    BY <2>1 DEF JustSent, Ahead, Idle
<1>5. crashes \in Nat /\ faults \in Nat /\ early \in Nat
  BY BudgetType
<1>6. Due(m, k)' \subseteq Due(m, k) /\ Budget(m, k) <= Budget(m, k)'
  BY <1>2, <1>3, <1>4, <1>5 DEF Due, Old, Budget
<1>7. CASE m # x \/ k # s
  <2>1. <<m, k>> # <<x, s>>
    BY <1>7
  <2>2. Sent(m, k)' = Sent(m, k)
    BY <1>2, <2>1 DEF Sent, IInv, Unit
  <2>3. QED
    BY <1>6, <2>2 DEF Spends
<1>8. CASE m = x /\ k = s
  <2>1. Sent(m, k)' = Sent(m, k) + 1
    BY <1>2, <1>8 DEF Sent, IInv, Unit
  <2>2. n \in Unsent(m, k)
    BY <1>1, <1>2, <1>8 DEF Unsent
  <2>3. n \notin Unsent(m, k)'
    <3> SUFFICES ASSUME NEW u \in Task, cur'[u] # Idle, cur'[u].msg = m, cur'[u].rcpt = n,
                        Ahead(cur'[u], k)
                 PROVE  FALSE
      BY DEF Unsent, Ahead, Idle
    <3>1. u # t
      BY <1>2, <1>8
    <3>2. cur[u] # Idle /\ SameReceive(cur[u], cur[t])
      BY <1>1, <1>2, <1>8, <3>1 DEF SameReceive
    <3>3. QED
      BY <1>2, <3>1, <3>2 DEF IInv, Alone
  <2>4. CASE Old(m, n)
    <3>1. n \in Due(m, k) /\ Due(m, k)' \subseteq Due(m, k) \ {n}
      BY <1>6, <2>2, <2>3, <2>4 DEF Due
    <3>2. QED
      BY <1>6, <2>1, <3>1 DEF Spends
  <2>5. CASE ~Old(m, n)
    <3>1. queue[m] = "inflight" /\ n = receipt[m]
      BY <2>5 DEF Old
    <3>2. ~SentNow(m, k)
      <4> SUFFICES ASSUME NEW u \in Task, JustSent(u, m, k) PROVE FALSE
        BY <3>1 DEF SentNow
      <4>1. receipt[m] \notin Unsent(m, k)
        BY JustSentIsNotUnsent DEF JustSent
      <4>2. QED
        BY <2>2, <3>1, <4>1
    <3>3. SentNow(m, k)'
      <4>1. JustSent(t, m, k)'
        BY <1>2, <1>8, <3>1 DEF JustSent, Ahead, Idle
      <4>2. QED
        BY <1>2, <3>1, <4>1 DEF SentNow
    <3>4. Budget(m, k) + 1 <= Budget(m, k)'
      BY <1>2, <1>5, <3>2, <3>3 DEF Budget
    <3>5. QED
      BY <1>6, <2>1, <3>4 DEF Spends
  <2>6. QED
    BY <2>4, <2>5
<1>9. QED
  BY <1>7, <1>8

LEMMA NextSpends ==
    ASSUME IInv, [Next]_vars, NEW m \in Message, NEW k \in Object, Sent(m, k) \in Nat
    PROVE  Spends(m, k)
<1>1. CASE \E x \in Message : VisibilityExpires(x)
  BY <1>1, ExpirySpends
<1>2. CASE \E t \in Task, x \in Message : Receive(t, x)
  BY <1>2, ReceiveSpends
<1>3. CASE \E t \in Task, x \in Message : ReceiveDeleted(t, x)
  BY <1>3, ReceiveDeletedSpends
<1>4. CASE \E t \in Task : \/ ListObjects(t) \/ ListFails(t) \/ SendFails(t) \/ HourDone(t)
                           \/ DeleteFails(t) \/ Crash(t)
  BY <1>4, OtherStepsSpend
<1>5. CASE \E t \in Task : SendMessage(t)
  BY <1>5, SendSpends
<1>6. CASE \E t \in Task : ReplyLost(t)
  BY <1>6, ReplyLostSpends
<1>7. CASE \E t \in Task : DeleteMessage(t)
  BY <1>7, DeleteSpends
<1>8. CASE UNCHANGED vars
  <2>1. UNCHANGED <<queue, receipt, early, faults, crashes, cur, sends>>
    BY <1>8 DEF vars, sqs, service
  <2>2. Unsent(m, k)' = Unsent(m, k) /\ Sent(m, k)' = Sent(m, k)
    BY <2>1 DEF Unsent, Ahead, Idle, Sent
  <2>3. Due(m, k)' = Due(m, k)
    BY <2>1, <2>2 DEF Due, Old
  <2>4. SentNow(m, k)' <=> SentNow(m, k)
    BY <2>1 DEF SentNow, JustSent, Ahead, Idle
  <2>5. Budget(m, k) <= Budget(m, k)'
    BY <2>1, <2>4, BudgetType DEF Budget
  <2>6. QED
    BY <2>2, <2>3, <2>5 DEF Spends
<1>9. QED
  BY <1>1, <1>2, <1>3, <1>4, <1>5, <1>6, <1>7, <1>8 DEF Next, MainLoop

LEMMA InitExplained ==
    ASSUME Init
    PROVE  AllExplained
<1> SUFFICES ASSUME NEW m \in Message, NEW k \in Object PROVE Explained(m, k)
  BY DEF AllExplained
<1>1. IInv
  BY InitIInv
<1>2. \A t \in Task : cur[t] = Idle
  BY DEF Init
<1>3. Due(m, k) = {}
  BY <1>2 DEF Due, Unsent
<1>4. Sent(m, k) = 0
  BY DEF Init, Sent, Unit
<1>5. Budget(m, k) \in Nat
  BY <1>1, BudgetType
<1>6. QED
  BY <1>3, <1>4, <1>5, FS_EmptySet DEF Explained

LEMMA NextKeepsExplained ==
    ASSUME IInv, AllExplained, [Next]_vars
    PROVE  AllExplained'
<1> SUFFICES ASSUME NEW m \in Message, NEW k \in Object PROVE Explained(m, k)'
  BY DEF AllExplained
<1>1. IInv'
  BY NextSimulates
<1>2. Explained(m, k) /\ Sent(m, k) \in Nat
  BY DEF AllExplained, Explained
<1>3. Spends(m, k)
  BY <1>2, NextSpends
<1>4. QED
  BY <1>1, <1>2, <1>3, SpendsKeepsExplained

LEMMA ExplainedBounds ==
    ASSUME IInv, AllExplained, NEW m \in Message, NEW k \in Object
    PROVE  sends[<<m, k>>] \in Nat /\ sends[<<m, k>>] <= 1 + crashes + faults + early
<1>1. /\ Sent(m, k) \in Nat /\ IsFiniteSet(Due(m, k))
      /\ Sent(m, k) + Cardinality(Due(m, k)) <= Budget(m, k)
  BY DEF AllExplained, Explained
<1>2. Cardinality(Due(m, k)) \in Nat
  BY <1>1, FS_CardinalityType
<1>3. Budget(m, k) <= 1 + crashes + faults + early /\ Budget(m, k) \in Nat
      /\ early \in Nat /\ crashes \in Nat /\ faults \in Nat
  BY BudgetType DEF Budget
<1>4. QED
  BY <1>1, <1>2, <1>3 DEF Sent

\* What the loader gets twice has a reason: a name is sent once for a job, and
\* once more at most for every reader that died, every call that failed (a send
\* that arrived and lost its reply among them) and every job that came back to
\* the readers too early.
THEOREM SendsCorrect == Spec => []SendsExplained
<1>1. Init => IInv /\ AllExplained
  BY InitIInv, InitExplained
<1>2. IInv /\ AllExplained /\ [Next]_vars => IInv' /\ AllExplained'
  BY NextSimulates, NextKeepsExplained
<1>3. IInv /\ AllExplained => SendsExplained
  BY ExplainedBounds DEF SendsExplained, Unit
<1>4. QED
  BY <1>1, <1>2, <1>3, PTL DEF Spec
=============================================================================
