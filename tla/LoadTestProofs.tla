--------------------------- MODULE LoadTestProofs ---------------------------
(***************************************************************************)
(* Load test production, for any jobs, archive, messages, contents, tasks  *)
(* and faults: the loader implements Forwarder, although a message it      *)
(* cannot read kills the task, and it does so behind the reader as well,   *)
(* where nothing a job promised is lost between the two queues.            *)
(***************************************************************************)
EXTENDS LoadTest, KplLoaderProofs

Done == Accepted \cup refused

\* The loop of c is past row i: it was put, skipped or refused, or cut off.
Settled(c, done) ==
    \A i \in 1..Len(Content[c.msg]) :
        Content[c.msg][i] = "ok" /\ c.rows # NotRead /\ (i < c.row \/ i > c.rows)
            => <<c.msg, i>> \in done

Progress == \A t \in Task : cur[t] = Idle \/ Settled(cur[t], Done)

\* Working, of a place instead of a task.
Place(c) ==
    /\ c \in [msg : Message, rcpt : Nat, rows : Int, row : Nat]
    /\ c.rows = NotRead => c.row = 1
    /\ c.rows # NotRead => /\ c.msg \notin Malformed
                           /\ c.rows \in 0..Len(Content[c.msg])
                           /\ c.row \in 1..(c.rows + 1)

\* As for the other loader: a message that is gone is done.
DeletedIsDone ==
    \A m \in Deleted : m \notin Malformed /\ UnitsOf[m] \subseteq Done

IInv ==
    /\ Shared
    /\ \A t \in Task : cur[t] = Idle \/ Place(cur[t])
    /\ Accepted \subseteq Unit /\ refused \subseteq Unit
    /\ Progress
    /\ DeletedIsDone

-----------------------------------------------------------------------------
LEMMA Contents ==
    ASSUME NEW m \in Message
    PROVE  Len(Content[m]) \in Nat
BY LtpdAssumption

\* A unit is a good row of a message.
LEMMA UnitForm ==
    ASSUME NEW m \in Message, NEW n \in Nat
    PROVE  /\ \A u \in RowsFrom(m, n) : \E i \in n..Len(Content[m]) :
                  Content[m][i] = "ok" /\ u = <<m, i>>
           /\ \A i \in n..Len(Content[m]) : Content[m][i] = "ok" => <<m, i>> \in RowsFrom(m, n)
BY DEF RowsFrom

LEMMA RowsAreUnits ==
    ASSUME NEW m \in Message, NEW n \in Nat \ {0}
    PROVE  RowsFrom(m, n) \subseteq Unit
<1>1. RowsFrom(m, n) \subseteq RowsFrom(m, 1)
  BY Contents DEF RowsFrom
<1>2. QED
  BY <1>1 DEF Unit, UnitsOf

LEMMA PlaceIsWorking ==
    ASSUME NEW t \in Task
    PROVE  Place(cur[t]) => Working(t)
BY DEF Place, Working, RowCount

\* A step that disturbs the main loop of t alone, takes back nothing that is done,
\* and deletes nothing.
LEMMA LoopStep ==
    ASSUME IInv, Shared', NEW t \in Task,
           \A u \in Task \ {t} : cur'[u] = cur[u] \/ cur'[u] = Idle,
           cur'[t] = Idle \/ (Place(cur'[t]) /\ Settled(cur'[t], Done')),
           Done \subseteq Done', Accepted' \subseteq Unit, refused' \subseteq Unit,
           Deleted' = Deleted
    PROVE  IInv'
<1>1. \A u \in Task : cur'[u] = Idle \/ Place(cur'[u])
  BY DEF IInv
<1>2. \A u \in Task \ {t} : cur'[u] = Idle \/ Settled(cur'[u], Done')
  BY DEF IInv, Progress, Settled
<1>3. Progress'
  BY <1>2 DEF Progress
<1>4. DeletedIsDone'
  BY DEF IInv, DeletedIsDone
<1>5. QED
  BY <1>1, <1>3, <1>4 DEF IInv

Mapped == <<Deleted, Accepted, refused>>

LEMMA BesidesSimulates ==
    ASSUME IInv, Besides
    PROVE  IInv' /\ UNCHANGED Mapped
<1>1. /\ Shared' /\ Deleted' = Deleted /\ Accepted' = Accepted /\ refused' = refused
      /\ \A t \in Task : cur'[t] = cur[t] \/ cur'[t] = Idle
  BY BesidesKeepsShared DEF IInv
<1>2. \A t \in Task : cur'[t] = Idle \/ Place(cur'[t])
  BY <1>1 DEF IInv
<1>3. Progress'
  BY <1>1 DEF IInv, Progress, Settled, Done
<1>4. QED
  BY <1>1, <1>2, <1>3 DEF IInv, DeletedIsDone, Done, Mapped

LEMMA StartMessageSimulates ==
    ASSUME IInv, NEW t \in Task, StartMessage(t)
    PROVE  IInv' /\ UNCHANGED Mapped
<1> DEFINE c == [msg |-> NextInChan(t).msg, rcpt |-> NextInChan(t).rcpt,
                 rows |-> NotRead, row |-> 1]
<1>1. Begin(t, c)
  BY DEF StartMessage
<1> HIDE DEF c
<1>2. /\ Shared' /\ Deleted' = Deleted /\ Accepted' = Accepted /\ refused' = refused
      /\ cur'[t] = c /\ (\A u \in Task \ {t} : cur'[u] = cur[u])
      /\ NextInChan(t) \in Copy
  BY <1>1, BeginKeepsShared DEF IInv
<1>3. Place(c) /\ Settled(c, Done')
  BY <1>2 DEF Place, Settled, c, NotRead, Copy
<1>4. IInv'
  BY <1>2, <1>3, LoopStep DEF IInv, Done
<1>5. QED
  BY <1>2, <1>4 DEF Mapped

\* n rows of the object are read, and the rest, if any, is refused.
LEMMA ReadStep ==
    ASSUME IInv, NEW t \in Task, AtObject(t), cur[t].msg \notin Malformed,
           NEW n \in 0..RowCount(t), NEW more, RowsFrom(cur[t].msg, n + 1) \subseteq more
    PROVE  Place([cur[t] EXCEPT !.rows = n]) /\ Settled([cur[t] EXCEPT !.rows = n], more)
<1> DEFINE c == cur[t]
           d == [c EXCEPT !.rows = n]
<1>1. /\ c \in [msg : Message, rcpt : Nat, rows : Int, row : Nat]
      /\ c.msg \in Message \ Malformed /\ c.row = 1 /\ RowCount(t) = Len(Content[c.msg])
      /\ n \in 0..Len(Content[c.msg]) /\ n + 1 \in Nat
  BY Contents DEF AtObject, IInv, Place, RowCount
<1>2. RowsFrom(c.msg, n + 1) \subseteq more
  OBVIOUS
<1> HIDE DEF c
<1>3. /\ d \in [msg : Message, rcpt : Nat, rows : Int, row : Nat]
      /\ d.msg = c.msg /\ d.rows = n /\ d.row = 1
  BY <1>1, Contents
<1> HIDE DEF d
<1>4. Place(d)
  BY <1>1, <1>3, Contents DEF Place, NotRead
<1>5. Settled(d, more)
  <2> SUFFICES ASSUME NEW i \in 1..Len(Content[c.msg]), Content[c.msg][i] = "ok", i > n
               PROVE  <<c.msg, i>> \in more
    BY <1>1, <1>3, Contents DEF Settled
  <2>1. i \in (n + 1)..Len(Content[c.msg])
    BY <1>1, Contents
  <2>2. QED
    BY <1>1, <1>2, <2>1, UnitForm
<1>6. QED
  BY <1>4, <1>5 DEF d, c

LEMMA GetObjectSimulates ==
    ASSUME IInv, NEW t \in Task, GetObject(t)
    PROVE  IInv' /\ UNCHANGED Mapped
<1> DEFINE c == [cur[t] EXCEPT !.rows = RowCount(t)]
<1>1. AtObject(t) /\ cur[t].msg \notin Malformed /\ Go(t, c) /\ UNCHANGED <<sidecars, service>>
  BY DEF GetObject
<1>2. RowCount(t) \in 0..RowCount(t) /\ RowsFrom(cur[t].msg, RowCount(t) + 1) \subseteq Done
  <2>1. RowCount(t) \in Nat
    BY <1>1, Contents DEF AtObject, IInv, Place, RowCount
  <2>2. RowsFrom(cur[t].msg, RowCount(t) + 1) = {}
    BY <2>1 DEF RowsFrom, RowCount
  <2>3. QED
    BY <2>1, <2>2
<1>3. Place(c) /\ Settled(c, Done)
  BY <1>1, <1>2, ReadStep
<1> HIDE DEF c
<1>4. /\ Shared' /\ Deleted' = Deleted /\ Accepted' = Accepted /\ refused' = refused
      /\ cur'[t] = c /\ \A u \in Task \ {t} : cur'[u] = cur[u]
  BY <1>1, GoKeepsShared DEF IInv
<1>5. IInv'
  BY <1>3, <1>4, LoopStep DEF IInv, Done
<1>6. QED
  BY <1>4, <1>5 DEF Mapped

LEMMA GetObjectTruncatedSimulates ==
    ASSUME IInv, NEW t \in Task, GetObjectTruncated(t)
    PROVE  IInv' /\ F!Next
<1>1. PICK n \in 0..(RowCount(t) - 1) :
          /\ AtObject(t) /\ cur[t].msg \notin Malformed /\ Fault
          /\ Go(t, [cur[t] EXCEPT !.rows = n])
          /\ Refuse(RowsFrom(cur[t].msg, n + 1))
  BY DEF GetObjectTruncated
<1> DEFINE c == [cur[t] EXCEPT !.rows = n]
           rest == RowsFrom(cur[t].msg, n + 1)
<1>2. rest \subseteq Unit /\ n \in 0..RowCount(t)
  <2>1. cur[t].msg \in Message /\ RowCount(t) \in Nat
    BY <1>1, Contents DEF AtObject, IInv, Place, RowCount
  <2>2. QED
    BY <2>1, RowsAreUnits
<1>3. Place(c) /\ Settled(c, Done \cup rest)
  BY <1>1, <1>2, ReadStep
<1> HIDE DEF c, rest
<1>4. /\ Shared' /\ Deleted' = Deleted /\ Accepted' = Accepted
      /\ refused' = refused \cup rest
      /\ cur'[t] = c /\ \A u \in Task \ {t} : cur'[u] = cur[u]
  BY <1>1, RefuseKeepsShared DEF IInv, c, rest
<1>5. IInv'
  <2>1. Done' = Done \cup rest
    BY <1>4 DEF Done
  <2>2. QED
    BY <1>2, <1>3, <1>4, <2>1, LoopStep DEF IInv
<1>6. QED
  BY <1>2, <1>4, <1>5 DEF F!Next, F!Refuse

\* A panic loses the loop's place and the batch, and nothing else.
LEMMA PanicSimulates ==
    ASSUME IInv, NEW t \in Task, PanicMalformed(t) \/ GetObjectFails(t)
    PROVE  IInv' /\ UNCHANGED Mapped
<1>1. Panic(t) /\ (Fault \/ UNCHANGED service)
  BY DEF PanicMalformed, GetObjectFails, ReadNilBody
<1>2. /\ Shared' /\ Deleted' = Deleted /\ Accepted' = Accepted /\ refused' = refused
      /\ cur'[t] = Idle /\ \A u \in Task \ {t} : cur'[u] = cur[u]
  BY <1>1, PanicKeepsShared, ServiceStep DEF IInv, Shared
<1>3. IInv'
  BY <1>2, LoopStep DEF IInv, Done
<1>4. QED
  BY <1>2, <1>3 DEF Mapped

\* Where a row finds the main loop.
LEMMA AtRowFacts ==
    ASSUME IInv, NEW t \in Task, AtRow(t)
    PROVE  /\ Place(cur[t]) /\ Settled(cur[t], Done)
           /\ cur[t].msg \in Message /\ cur[t].row \in 1..Len(Content[cur[t].msg])
           /\ cur[t].rows # NotRead /\ cur[t].row <= cur[t].rows
           /\ RowKind(t) = "ok" => UnitAt(t) \in Unit
<1>1. /\ Place(cur[t]) /\ Settled(cur[t], Done)
      /\ cur[t].msg \in Message /\ cur[t].row \in 1..Len(Content[cur[t].msg])
      /\ cur[t].rows # NotRead /\ cur[t].row <= cur[t].rows
  BY Contents DEF AtRow, IInv, Progress, Place
<1>2. RowKind(t) = "ok" => UnitAt(t) \in Unit
  BY <1>1, UnitForm DEF RowKind, UnitAt, Unit, UnitsOf
<1>3. QED
  BY <1>1, <1>2

\* To the next row: the one behind is no row to put, or it is done.
LEMMA RowStep ==
    ASSUME IInv, NEW t \in Task, AtRow(t), NEW more, Done \subseteq more,
           RowKind(t) = "ok" => UnitAt(t) \in more
    PROVE  Place(NextRow(cur[t])) /\ Settled(NextRow(cur[t]), more)
<1> DEFINE c == cur[t]
           n == NextRow(c)
<1>1. /\ Settled(c, Done)
      /\ c \in [msg : Message, rcpt : Nat, rows : Int, row : Nat]
      /\ c.msg \in Message \ Malformed
      /\ c.rows # NotRead /\ c.rows \in 0..Len(Content[c.msg])
      /\ c.row \in 1..c.rows
  BY AtRowFacts, Contents DEF Place
<1>2. Content[c.msg][c.row] = "ok" => <<c.msg, c.row>> \in more
  BY DEF RowKind, UnitAt
<1> HIDE DEF c
<1>3. /\ n \in [msg : Message, rcpt : Nat, rows : Int, row : Nat]
      /\ n.msg = c.msg /\ n.rows = c.rows /\ n.row = c.row + 1
  <2>1. n = [c EXCEPT !.row = c.row + 1] /\ c.row + 1 \in Nat
    BY <1>1 DEF NextRow
  <2> HIDE DEF n
  <2>2. QED
    BY <1>1, <2>1
<1> HIDE DEF n
<1>4. Place(n)
  BY <1>1, <1>3, Contents DEF Place
<1>5. Settled(n, more)
  <2> SUFFICES ASSUME NEW i \in 1..Len(Content[c.msg]), Content[c.msg][i] = "ok",
                      i < c.row + 1 \/ i > c.rows
               PROVE  <<c.msg, i>> \in more
    BY <1>1, <1>3 DEF Settled
  <2>1. i < c.row \/ i > c.rows \/ i = c.row
    BY <1>1, Contents
  <2>2. QED
    BY <1>1, <1>2, <2>1 DEF Settled
<1>6. QED
  BY <1>4, <1>5 DEF n, c

LEMMA SkipRowSimulates ==
    ASSUME IInv, NEW t \in Task, SkipRow(t)
    PROVE  IInv' /\ UNCHANGED Mapped
<1>1. /\ AtRow(t) /\ RowKind(t) # "ok" /\ Go(t, NextRow(cur[t]))
      /\ UNCHANGED <<sidecars, service>>
  BY DEF SkipRow
<1>2. Place(NextRow(cur[t])) /\ Settled(NextRow(cur[t]), Done)
  BY <1>1, RowStep
<1>3. /\ Shared' /\ Deleted' = Deleted /\ Accepted' = Accepted /\ refused' = refused
      /\ cur'[t] = NextRow(cur[t]) /\ \A u \in Task \ {t} : cur'[u] = cur[u]
  BY <1>1, GoKeepsShared DEF IInv
<1>4. IInv'
  BY <1>2, <1>3, LoopStep DEF IInv, Done
<1>5. QED
  BY <1>3, <1>4 DEF Mapped

LEMMA PutRecordSimulates ==
    ASSUME IInv, NEW t \in Task, PutRecord(t)
    PROVE  IInv' /\ F!Next
<1>1. /\ AtRow(t) /\ RowKind(t) = "ok" /\ Go(t, NextRow(cur[t]))
      /\ Accept(t, UnitAt(t)) /\ UNCHANGED service
  BY DEF PutRecord
<1>2. UnitAt(t) \in Unit
  BY <1>1, AtRowFacts
<1>3. Place(NextRow(cur[t])) /\ Settled(NextRow(cur[t]), Done \cup {UnitAt(t)})
  BY <1>1, RowStep
<1>4. /\ Shared' /\ Deleted' = Deleted /\ Accepted' = Accepted \cup {UnitAt(t)}
      /\ refused' = refused
      /\ cur'[t] = NextRow(cur[t]) /\ \A u \in Task \ {t} : cur'[u] = cur[u]
  BY <1>1, PutKeepsShared DEF IInv
<1>5. IInv'
  <2>1. Done' = Done \cup {UnitAt(t)}
    BY <1>4 DEF Done
  <2>2. Accepted' \subseteq Unit /\ refused' \subseteq Unit
    BY <1>2, <1>4 DEF IInv
  <2>3. QED
    BY <1>3, <1>4, <2>1, <2>2, LoopStep
<1>6. QED
  BY <1>2, <1>4, <1>5 DEF F!Next, F!Hand

LEMMA PutRecordFailsSimulates ==
    ASSUME IInv, NEW t \in Task, PutRecordFails(t)
    PROVE  IInv' /\ F!Next
<1>1. /\ AtRow(t) /\ RowKind(t) = "ok" /\ Go(t, NextRow(cur[t]))
      /\ Refuse({UnitAt(t)}) /\ Fault
  BY DEF PutRecordFails
<1>2. UnitAt(t) \in Unit
  BY <1>1, AtRowFacts
<1>3. Place(NextRow(cur[t])) /\ Settled(NextRow(cur[t]), Done \cup {UnitAt(t)})
  BY <1>1, RowStep
<1>4. /\ Shared' /\ Deleted' = Deleted /\ Accepted' = Accepted
      /\ refused' = refused \cup {UnitAt(t)}
      /\ cur'[t] = NextRow(cur[t]) /\ \A u \in Task \ {t} : cur'[u] = cur[u]
  BY <1>1, RefuseKeepsShared DEF IInv
<1>5. IInv'
  <2>1. Done' = Done \cup {UnitAt(t)}
    BY <1>4 DEF Done
  <2>2. Accepted' \subseteq Unit /\ refused' \subseteq Unit
    BY <1>2, <1>4 DEF IInv
  <2>3. QED
    BY <1>3, <1>4, <2>1, <2>2, LoopStep
<1>6. QED
  BY <1>2, <1>4, <1>5 DEF F!Next, F!Refuse

\* At the end of the loop all of the message is done.
LEMMA DoneAtEnd ==
    ASSUME IInv, NEW t \in Task, MessageDone(t)
    PROVE  /\ cur[t].msg \in Message \ Malformed
           /\ UnitsOf[cur[t].msg] \subseteq Done
<1> DEFINE c == cur[t]
<1>1. Place(c) /\ Settled(c, Done) /\ c.rows # NotRead /\ c.row > c.rows
  BY DEF MessageDone, IInv, Progress
<1> HIDE DEF c
<1>2. c.msg \in Message \ Malformed /\ c.row = c.rows + 1 /\ c.rows \in Nat
  BY <1>1, Contents DEF Place
<1>3. ASSUME NEW u \in UnitsOf[c.msg] PROVE u \in Done
  <2>1. PICK i \in 1..Len(Content[c.msg]) : Content[c.msg][i] = "ok" /\ u = <<c.msg, i>>
    BY <1>2, UnitForm DEF UnitsOf
  <2>2. i < c.row \/ i > c.rows
    BY <1>2, Contents
  <2>3. QED
    BY <1>1, <2>1, <2>2 DEF Settled
<1>4. QED
  BY <1>2, <1>3 DEF c

LEMMA DeleteMessageSimulates ==
    ASSUME IInv, NEW t \in Task, DeleteMessage(t)
    PROVE  IInv' /\ [F!Next]_Mapped
<1> DEFINE m == cur[t].msg
<1>1. Delete(t) /\ m \in Message \ Malformed /\ UnitsOf[m] \subseteq Done
  BY DoneAtEnd DEF DeleteMessage
<1>2. /\ Shared' /\ Accepted' = Accepted /\ refused' = refused
      /\ Deleted \subseteq Deleted' /\ Deleted' \subseteq Deleted \cup {m}
      /\ cur'[t] = Idle /\ \A u \in Task \ {t} : cur'[u] = cur[u]
  BY <1>1, DeleteKeepsShared DEF IInv
<1> HIDE DEF m
<1>3. \A u \in Task : cur'[u] = Idle \/ Place(cur'[u])
  BY <1>2 DEF IInv
<1>4. Progress'
  BY <1>2 DEF IInv, Progress, Settled, Done
<1>5. DeletedIsDone'
  BY <1>1, <1>2 DEF IInv, DeletedIsDone, Done
<1>6. IInv'
  BY <1>2, <1>3, <1>4, <1>5 DEF IInv
<1>7. CASE Deleted' = Deleted
  BY <1>2, <1>6, <1>7 DEF Mapped
<1>8. CASE Deleted' # Deleted
  <2>1. Deleted' = Deleted \cup {m}
    BY <1>2, <1>8
  <2>2. QED
    BY <1>1, <1>2, <1>6, <2>1 DEF F!Next, F!Remove, Done
<1>9. QED
  BY <1>7, <1>8

LEMMA DeleteFailsSimulates ==
    ASSUME IInv, NEW t \in Task, DeleteFails(t)
    PROVE  IInv' /\ UNCHANGED Mapped
<1>1. Fault /\ Go(t, Idle) /\ UNCHANGED sidecars
  BY DEF DeleteFails, KeepInQueue
<1>2. /\ Shared' /\ Deleted' = Deleted /\ Accepted' = Accepted /\ refused' = refused
      /\ cur'[t] = Idle /\ \A u \in Task \ {t} : cur'[u] = cur[u]
  BY <1>1, GoKeepsShared DEF IInv
<1>3. IInv'
  BY <1>2, LoopStep DEF IInv, Done
<1>4. QED
  BY <1>2, <1>3 DEF Mapped

-----------------------------------------------------------------------------
LEMMA InitImplies == Init => IInv /\ F!Init
<1> SUFFICES ASSUME Init PROVE IInv /\ F!Init
  OBVIOUS
<1>1. /\ Shared /\ Deleted = {} /\ Accepted = {} /\ refused = {}
      /\ \A t \in Task : cur[t] = Idle
  BY InitShared DEF Init
<1>2. QED
  BY <1>1 DEF IInv, Progress, DeletedIsDone, F!Init

LEMMA StepImplies == IInv /\ [Next]_vars => IInv' /\ [F!Next]_Mapped
<1> SUFFICES ASSUME IInv, [Next]_vars PROVE IInv' /\ [F!Next]_Mapped
  OBVIOUS
<1>1. CASE Besides
  BY <1>1, BesidesSimulates
<1>2. CASE \E t \in Task : MainLoop(t)
  BY <1>2, StartMessageSimulates, GetObjectSimulates, PanicSimulates,
     SkipRowSimulates, PutRecordSimulates, DeleteMessageSimulates DEF MainLoop
<1>3. CASE \E t \in Task : Faults(t)
  BY <1>3, GetObjectTruncatedSimulates, PanicSimulates,
     PutRecordFailsSimulates, DeleteFailsSimulates DEF Faults
<1>4. CASE UNCHANGED vars
  <2>1. Shared' /\ UNCHANGED <<Deleted, Accepted, refused, cur>>
    BY <1>4, StutterKeepsShared DEF IInv
  <2>2. QED
    BY <2>1 DEF IInv, Progress, Settled, Done, DeletedIsDone, Mapped
<1>5. QED
  BY <1>1, <1>2, <1>3, <1>4 DEF Next

LEMMA Invariance == Spec => []IInv
<1>1. Init => IInv
  BY InitImplies
<1>2. IInv /\ [Next]_vars => IInv'
  BY StepImplies
<1>3. QED
  BY <1>1, <1>2, PTL DEF Spec

LEMMA IInvImpliesTypeOK == IInv => TypeOK
<1> SUFFICES ASSUME IInv PROVE TypeOK
  OBVIOUS
<1>1. PollingTypeOK
  BY ElementsIn DEF IInv, Shared, Frame, PollingTypeOK
<1>2. QED
  BY <1>1, PlaceIsWorking DEF IInv, Shared, TypeOK

\* The type invariant: no main loop ever works past the rows of its object, and
\* none is at the rows of a message that names no object.
THEOREM TypeCorrect == Spec => []TypeOK
BY IInvImpliesTypeOK, Invariance, PTL

\* startProcess implements the forwarder, panics included: a malformed message is
\* never deleted, and any other only when each of its rows was accepted or hit by
\* a fault.
THEOREM Refinement == Spec => IsForwarder
<1>1. Init => F!Init
  BY InitImplies
<1>2. IInv /\ [Next]_vars => [F!Next]_Mapped
  BY StepImplies
<1>3. QED
  BY <1>1, <1>2, Invariance, PTL DEF Spec, IsForwarder, F!Spec, Mapped

-----------------------------------------------------------------------------
(* The reader before the loader: its proofs, with the names it has here.   *)

RP == INSTANCE S3ReaderProofs WITH
        Task <- Reader, Message <- JobMessage,
        queue <- jobs, receipt <- jobReceipt,
        cur <- reading, refused <- unsent

LEMMA ReaderAssumptions ==
    RP!ServiceAssumption /\ RP!QueueAssumption /\ RP!ReaderAssumption
BY LoadTestAssumption, ServiceAssumption, QueueAssumption
   DEF RP!ServiceAssumption, RP!QueueAssumption, RP!ReaderAssumption, R!ReaderAssumption,
       R!ArchivedHour, RP!ArchivedHour, R!Job, RP!Job, R!DateParts, RP!DateParts

\* R and RP are the same reader, definition by definition.
LEMMA SameRanges == R!Reversed = RP!Reversed /\ R!Start = RP!Start /\ R!End = RP!End
<1>1. \A y, mon : R!DaysBefore(y, mon) = RP!DaysBefore(y, mon)
  BY DEF R!DaysBefore, RP!DaysBefore, R!IsLeap, RP!IsLeap, R!DaysOfMonths, RP!DaysOfMonths
<1>2. \A d : R!Instant(d) = RP!Instant(d)
  BY <1>1 DEF R!Instant, RP!Instant, R!Date, RP!Date, R!DatePart, RP!DatePart
<1>3. \A i : R!HourOf(i) = RP!HourOf(i)
  BY DEF R!HourOf, RP!HourOf
<1>4. R!Reversed = RP!Reversed
  BY <1>2 DEF R!Reversed, RP!Reversed
<1>5. QED
  BY <1>2, <1>3, <1>4 DEF R!Start, RP!Start, R!End, RP!End, R!Never, RP!Never

LEMMA SamePages ==
    /\ \A h : R!FirstPage(h) = RP!FirstPage(h)
    /\ \A m, ks : R!UnitsFor(m, ks) = RP!UnitsFor(m, ks)
BY DEF R!FirstPage, RP!FirstPage, R!ObjectsIn, RP!ObjectsIn, R!ArchivedHour, RP!ArchivedHour,
       R!UnitsFor, RP!UnitsFor, R!Elements, RP!Elements

LEMMA SameUnits ==
    R!Deleted = RP!Deleted /\ R!Unit = RP!Unit /\ R!UnitsOf = RP!UnitsOf
BY SameRanges, SamePages
   DEF R!Deleted, RP!Deleted, R!Unit, RP!Unit, R!UnitsOf, RP!UnitsOf, R!HoursOf, RP!HoursOf

LEMMA SameCopies ==
    /\ R!Idle = RP!Idle /\ R!Copies = RP!Copies
    /\ \A copies : R!FreshReceipt(copies) = RP!FreshReceipt(copies)
<1>1. R!Idle = RP!Idle /\ R!Copies = RP!Copies
  BY DEF R!Copies, RP!Copies, R!Held, RP!Held, R!Idle, RP!Idle
<1>2. \A S : R!Cardinality(S) = RP!Cardinality(S)
  BY Zenon DEF R!Cardinality, RP!Cardinality, R!IsFiniteSet, RP!IsFiniteSet
<1>3. \A copies : R!FreshReceipt(copies) = RP!FreshReceipt(copies)
  BY <1>2, Zenon DEF R!FreshReceipt, RP!FreshReceipt
<1>4. QED
  BY <1>1, <1>3

LEMMA SameInit == R!Init => RP!Init
BY DEF R!Init, RP!Init, R!InitQueue, RP!InitQueue, R!InitService, RP!InitService, R!Idle,
       RP!Idle, R!Unit, RP!Unit

LEMMA SameNext == R!Next => RP!Next
<1>1. ASSUME NEW m PROVE R!VisibilityExpires(m) => RP!VisibilityExpires(m)
  BY SameCopies
     DEF R!VisibilityExpires, RP!VisibilityExpires, R!Expire, RP!Expire, R!service, RP!service
<1>2. ASSUME NEW t, NEW m
      PROVE  R!Receive(t, m) \/ R!ReceiveDeleted(t, m)
                => RP!Receive(t, m) \/ RP!ReceiveDeleted(t, m)
  <2>1. R!Begin(t, m) => RP!Begin(t, m)
    BY SameRanges, SameCopies
       DEF R!Begin, RP!Begin, R!Go, RP!Go, R!service, RP!service
  <2>2. R!Receive(t, m) => RP!Receive(t, m)
    BY <2>1, SameCopies
       DEF R!Receive, RP!Receive, R!ReceiveMessages, RP!ReceiveMessages, R!Hide, RP!Hide,
         R!Visible, RP!Visible
  <2>3. R!ReceiveDeleted(t, m) => RP!ReceiveDeleted(t, m)
    BY <2>1, SameCopies
       DEF R!ReceiveDeleted, RP!ReceiveDeleted, R!ReceiveAgain, RP!ReceiveAgain
  <2>4. QED
    BY <2>2, <2>3
<1>3. ASSUME NEW t PROVE R!ListObjects(t) => RP!ListObjects(t)
  BY SameRanges, SamePages, SameCopies
     DEF R!ListObjects, RP!ListObjects, R!AtHour, RP!AtHour, R!MoreHours, RP!MoreHours, R!Go,
       RP!Go, R!service, RP!service, R!sqs, RP!sqs
<1>4. ASSUME NEW t PROVE R!ListFails(t) => RP!ListFails(t)
  BY SameRanges, SamePages, SameCopies
     DEF R!ListFails, RP!ListFails, R!AtHour, RP!AtHour, R!MoreHours, RP!MoreHours, R!Go, RP!Go,
       R!Fault, RP!Fault, R!sqs, RP!sqs
<1>5. ASSUME NEW t PROVE R!SendMessage(t) => RP!SendMessage(t)
  BY SameRanges, SameCopies
     DEF R!SendMessage, RP!SendMessage, R!AtKey, RP!AtKey, R!MoreHours, RP!MoreHours, R!KeyDone,
       RP!KeyDone, R!UnitAt, RP!UnitAt, R!Go, RP!Go, R!service, RP!service, R!sqs, RP!sqs
<1>6. ASSUME NEW t
      PROVE  (R!SendFails(t) => RP!SendFails(t)) /\ (R!ReplyLost(t) => RP!ReplyLost(t))
  BY SameRanges, SameCopies
     DEF R!SendFails, RP!SendFails, R!ReplyLost, RP!ReplyLost, R!AtKey, RP!AtKey, R!MoreHours,
       RP!MoreHours, R!KeyDone, RP!KeyDone, R!UnitAt, RP!UnitAt, R!Go, RP!Go, R!Fault, RP!Fault,
       R!sqs, RP!sqs
<1>7. ASSUME NEW t PROVE R!HourDone(t) => RP!HourDone(t)
  BY SameRanges, SameCopies
     DEF R!HourDone, RP!HourDone, R!MoreHours, RP!MoreHours, R!NextHour, RP!NextHour, R!HourLater,
       RP!HourLater, R!Go, RP!Go, R!service, RP!service, R!sqs, RP!sqs
<1>8. ASSUME NEW t PROVE R!DeleteMessage(t) => RP!DeleteMessage(t)
  BY SameRanges, SameCopies
     DEF R!DeleteMessage, RP!DeleteMessage, R!JobDone, RP!JobDone, R!MoreHours, RP!MoreHours,
       R!DeleteMessages, RP!DeleteMessages, R!Go, RP!Go, R!service, RP!service
<1>9. ASSUME NEW t PROVE R!DeleteFails(t) => RP!DeleteFails(t)
  BY SameRanges, SameCopies
     DEF R!DeleteFails, RP!DeleteFails, R!JobDone, RP!JobDone, R!MoreHours, RP!MoreHours, R!Go,
       RP!Go, R!Fault, RP!Fault, R!sqs, RP!sqs
<1>10. ASSUME NEW t PROVE R!Crash(t) => RP!Crash(t)
  BY SameCopies DEF R!Crash, RP!Crash, R!Death, RP!Death, R!Go, RP!Go, R!sqs, RP!sqs
<1>11. QED
  BY <1>1, <1>2, <1>3, <1>4, <1>5, <1>6, <1>7, <1>8, <1>9, <1>10
     DEF R!Next, RP!Next, R!MainLoop, RP!MainLoop

\* What the reader's own proofs say of it.
ReaderInv == RP!IInv /\ RP!AllExplained

LEMMA ReaderInit == R!Init => ReaderInv
BY SameInit, ReaderAssumptions, RP!InitIInv, RP!InitExplained
   DEF ReaderInv, RP!ServiceAssumption, RP!QueueAssumption, RP!ReaderAssumption

LEMMA ReaderStep == ReaderInv /\ R!Next => ReaderInv'
BY SameNext, ReaderAssumptions, RP!NextSimulates, RP!NextKeepsExplained
   DEF ReaderInv, RP!ServiceAssumption, RP!QueueAssumption, RP!ReaderAssumption

-----------------------------------------------------------------------------
(* The two together: they share no state but the queue between them, the   *)
(* counters, and the names of the reader, which are the messages.          *)

\* Each sending of the reader is a message of the loader that was sent.
Arrived ==
    \A u \in R!Unit : \A n \in 1..sends[u] :
        <<u, n>> \in Message /\ queue[<<u, n>>] # "unsent"

LoadTestIInv == ReaderInv /\ IInv /\ Arrived

\* The loader leaves the queue to the reader: what was sent is not unsent again,
\* and the counters only grow.
LEMMA LoaderOnlyCounts ==
    ASSUME IInv, [Next]_vars
    PROVE  /\ faults <= faults' /\ crashes <= crashes' /\ early <= early'
           /\ \A m \in Message : queue[m] # "unsent" => queue'[m] # "unsent"
<1>0. /\ queue \in [Message -> {"unsent", "visible", "inflight", "deleted"}]
      /\ early \in Nat /\ faults \in Nat /\ crashes \in Nat
      /\ MaxFaults \in Nat
  BY ServiceAssumption, QueueAssumption
     DEF IInv, Shared, Frame, QueueTypeOK, ServiceTypeOK
<1>1. CASE \E m \in Message : VisibilityExpires(m)
  BY <1>0, <1>1 DEF VisibilityExpires, Expire, service
<1>2. CASE \E t \in Task : Poll(t)
  <2>1. PICK t \in Task : Poll(t)
    BY <1>2
  <2>2. CASE \E ms \in Batches : Receive(t, ms)
    BY <1>0, <2>2 DEF Receive, ReceiveMessages, Hide, service
  <2>3. CASE \E m \in Message : ReceiveDeleted(t, m)
    BY <1>0, <2>3 DEF ReceiveDeleted, ReceiveAgain, service
  <2>4. CASE Push(t)
    BY <1>0, <2>4 DEF Push, sqs, service
  <2>5. QED
    BY <2>1, <2>2, <2>3, <2>4 DEF Poll
<1>3. CASE \E t \in Task : \E u \in kpl[t] : Reject(t, u)
  BY <1>0, <1>3 DEF Reject, ErrHandler, sqs
<1>4. CASE \E t \in Task : Crash(t)
  BY <1>0, <1>4 DEF Crash, Panic, Forget, sqs, Death
<1>5. CASE \E t \in Task : StartMessage(t)
  BY <1>0, <1>5 DEF StartMessage, Begin, sqs, service
<1>6. CASE \E t \in Task : GetObject(t) \/ SkipRow(t) \/ PutRecord(t)
  BY <1>0, <1>6 DEF GetObject, SkipRow, PutRecord, Go, sqs, service
<1>7. CASE \E t \in Task : PanicMalformed(t) \/ GetObjectFails(t)
  BY <1>0, <1>7 DEF PanicMalformed, GetObjectFails, ReadNilBody, Panic, Forget, sqs, Fault, service
<1>8. CASE \E t \in Task : GetObjectTruncated(t) \/ PutRecordFails(t) \/ DeleteFails(t)
  BY <1>0, <1>8 DEF GetObjectTruncated, PutRecordFails, DeleteFails, KeepInQueue, Go, sqs, Fault
<1>9. CASE \E t \in Task : DeleteMessage(t)
  <2>1. PICK t \in Task : Delete(t)
    BY <1>9 DEF DeleteMessage
  <2>2. /\ queue' = [queue EXCEPT ![cur[t].msg] = "deleted"] \/ queue' = queue
        /\ early' = early /\ UNCHANGED service
    BY <2>1 DEF Delete, DeleteMessages
  <2>3. QED
    BY <1>0, <2>2 DEF service
<1>10. CASE UNCHANGED vars
  BY <1>0, <1>10 DEF vars, sqs, service
<1>11. QED
  BY <1>1, <1>2, <1>3, <1>4, <1>5, <1>6, <1>7, <1>8, <1>9, <1>10
     DEF Next, Besides, MainLoop, Faults

\* The reader holds what it held while the loader works.
LEMMA LoaderKeepsReader ==
    ASSUME ReaderInv, IInv, IInv', [Next]_vars, UNCHANGED reader
    PROVE  ReaderInv'
<1>1. UNCHANGED <<jobs, jobReceipt, reading, sends, unsent>>
  BY DEF reader
<1>2. RP!QueueTypeOK' /\ RP!ServiceTypeOK' /\ RP!Deleted' = RP!Deleted
  BY <1>1 DEF ReaderInv, RP!IInv, RP!QueueTypeOK, RP!ServiceTypeOK, RP!Deleted,
              IInv, Shared, Frame, QueueTypeOK, ServiceTypeOK
<1>3. RP!IInv'
  BY <1>1, <1>2, ReaderAssumptions, RP!SameHands
     DEF ReaderInv, RP!ServiceAssumption, RP!QueueAssumption, RP!ReaderAssumption
<1>4. /\ early \in Nat /\ crashes \in Nat /\ faults \in Nat
      /\ early' \in Nat /\ crashes' \in Nat /\ faults' \in Nat
  BY ServiceAssumption, QueueAssumption
     DEF IInv, Shared, Frame, QueueTypeOK, ServiceTypeOK
<1>5. crashes + faults + early <= crashes' + faults' + early'
  <2>1. faults <= faults' /\ crashes <= crashes' /\ early <= early'
    BY LoaderOnlyCounts
  <2>2. \A a, b, c, x, y, z \in Nat : a <= x /\ b <= y /\ c <= z => a + b + c <= x + y + z
    OBVIOUS
  <2>3. QED
    BY <1>4, <2>1, <2>2
<1>6. ASSUME NEW m \in JobMessage, NEW k \in Object, RP!Explained(m, k)
      PROVE  RP!Explained(m, k)'
  <2>1. /\ RP!Sent(m, k)' = RP!Sent(m, k) /\ RP!Due(m, k)' = RP!Due(m, k)
        /\ RP!SentNow(m, k)' = RP!SentNow(m, k)
    BY <1>1 DEF RP!Sent, RP!Due, RP!Unsent, RP!Old, RP!SentNow, RP!JustSent, RP!Ahead, RP!Idle
  <2>2. RP!Budget(m, k) <= RP!Budget(m, k)'
    BY <1>4, <1>5, <2>1 DEF RP!Budget, IInv, Shared, Frame, QueueTypeOK, ServiceTypeOK
  <2>3. RP!Spends(m, k)
    BY <2>1, <2>2 DEF RP!Spends
  <2>4. QED
    BY <1>3, <1>6, <2>3, ReaderAssumptions, RP!SpendsKeepsExplained
       DEF ReaderInv, RP!ServiceAssumption, RP!QueueAssumption, RP!ReaderAssumption
<1>7. RP!AllExplained'
  BY <1>6 DEF ReaderInv, RP!AllExplained
<1>8. QED
  BY <1>3, <1>7 DEF ReaderInv

\* A step of the reader counts a sending of at most one name, and adds 1 to it.
LEMMA ReaderSendsOne ==
    ASSUME ReaderInv, R!Next
    PROVE  /\ sends \in [R!Unit -> Nat] /\ sends' \in [R!Unit -> Nat]
           /\ \A u \in R!Unit : sends'[u] = sends[u] \/ sends'[u] = sends[u] + 1
<1>1. sends \in [R!Unit -> Nat] /\ sends' \in [R!Unit -> Nat]
  BY ReaderStep, SameUnits DEF ReaderInv, RP!IInv, R!Unit, RP!Unit
<1>2. sends' = sends \/ \E t \in Reader : sends' = [sends EXCEPT ![R!UnitAt(t)] = @ + 1]
  BY DEF R!Next, R!MainLoop, R!VisibilityExpires, R!Receive, R!ReceiveDeleted, R!Begin,
         R!ListObjects, R!ListFails, R!SendMessage, R!ReplyLost, R!SendFails, R!HourDone, R!DeleteMessage, R!DeleteFails, R!Crash
<1>3. QED
  BY <1>1, <1>2

\* What a step of the reader does to the loader's queue.
LEMMA ForwardedFacts ==
    ASSUME ReaderInv, IInv, R!Next, Forwarded
    PROVE  /\ QueueTypeOK' /\ ServiceTypeOK' /\ Deleted' = Deleted
           /\ UNCHANGED <<polling, sidecars>>
           /\ \A m \in Message : queue[m] # "unsent" => queue'[m] = queue[m]
           /\ \A u \in R!Unit : sends'[u] # sends[u] /\ <<u, sends'[u]>> \in Message
                                   => queue'[<<u, sends'[u]>>] = "visible"
<1>1. ServiceTypeOK' /\ early' \in 0..MaxEarly /\ UNCHANGED <<polling, sidecars>>
  BY ReaderStep DEF ReaderInv, RP!IInv, RP!QueueTypeOK, RP!ServiceTypeOK, ServiceTypeOK, Forwarded
<1>2. /\ queue \in [Message -> {"unsent", "visible", "inflight", "deleted"}]
      /\ receipt \in [Message -> Nat]
  BY DEF IInv, Shared, Frame, QueueTypeOK
<1>3. CASE sends' = sends
  BY <1>1, <1>2, <1>3 DEF Forwarded, QueueTypeOK, Deleted
<1>4. CASE sends' # sends
  <2>1. PICK u \in R!Unit : sends'[u] # sends[u]
    BY <1>4, ReaderSendsOne
  <2>2. \A v \in R!Unit : sends'[v] # sends[v] => Send({<<v, sends'[v]>>})
    BY DEF Forwarded
  <2>3. PICK m : Send({m})
    BY <2>1, <2>2
  <2>4. /\ queue[m] = "unsent"
        /\ queue' = [n \in Message |-> IF n = m THEN "visible" ELSE queue[n]]
        /\ receipt' = receipt
    BY <2>3 DEF Send
  <2>5. QueueTypeOK' /\ Deleted' = Deleted
    BY <1>1, <1>2, <2>4 DEF QueueTypeOK, Deleted
  <2>6. ASSUME NEW v \in R!Unit, sends'[v] # sends[v], <<v, sends'[v]>> \in Message
        PROVE  queue'[<<v, sends'[v]>>] = "visible"
    BY <1>2, <2>2, <2>6 DEF Send
  <2>7. QED
    BY <1>1, <1>2, <2>4, <2>5, <2>6
<1>5. QED
  BY <1>3, <1>4

\* The loader holds what it held while the reader works.
LEMMA ReaderKeepsLoader ==
    ASSUME ReaderInv, IInv, R!Next, Forwarded
    PROVE  IInv' /\ UNCHANGED Mapped
<1>1. /\ QueueTypeOK' /\ ServiceTypeOK' /\ Deleted' = Deleted
      /\ UNCHANGED <<batch, chan, cur, kpl, stream, dlq, lost, refused>>
  BY ForwardedFacts DEF polling, sidecars
<1>2. Copies' = Copies /\ Accepted' = Accepted
  BY <1>1 DEF Copies, Held, Elements, Idle, Accepted, Rejected
<1>3. Shared'
  BY <1>1, <1>2 DEF IInv, Shared, Frame, SidecarsTypeOK
<1>4. Progress' /\ DeletedIsDone'
  BY <1>1, <1>2 DEF IInv, Progress, Settled, Done, DeletedIsDone, Idle
<1>5. QED
  BY <1>1, <1>2, <1>3, <1>4 DEF IInv, Mapped, Idle

\* There is a message for every sending, as none is sent more often than explained.
SendingsAreMessages == \A u \in R!Unit : \A n \in 1..sends[u] : <<u, n>> \in Message

LEMMA ExplainedSendings == ReaderInv => SendingsAreMessages
<1> SUFFICES ASSUME ReaderInv, NEW u \in R!Unit, NEW n \in 1..sends[u]
             PROVE  <<u, n>> \in Message
  BY DEF SendingsAreMessages
<1>1. PICK m \in JobMessage, k \in Object : u = <<m, k>>
  BY DEF R!Unit
<1>2. sends[u] \in Nat /\ sends[u] <= 1 + crashes + faults + early
  BY <1>1, ReaderAssumptions, RP!ExplainedBounds
     DEF ReaderInv, RP!ServiceAssumption, RP!QueueAssumption, RP!ReaderAssumption
<1>3. /\ crashes \in 0..MaxCrashes /\ faults \in 0..MaxFaults /\ early \in 0..MaxEarly
      /\ MaxCrashes \in Nat /\ MaxFaults \in Nat /\ MaxEarly \in Nat
  BY ServiceAssumption, QueueAssumption
     DEF ReaderInv, RP!IInv, RP!ServiceTypeOK, RP!QueueTypeOK
<1>4. n \in 1..MaxCopies
  BY <1>2, <1>3 DEF MaxCopies
<1>5. <<u, n>> \in Names
  BY <1>1, <1>4 DEF Names
<1>6. QED
  BY <1>5, LoadTestAssumption

LEMMA LoadTestInitImplies == LoadTestInit => LoadTestIInv /\ F!Init
<1> SUFFICES ASSUME LoadTestInit PROVE LoadTestIInv /\ F!Init
  OBVIOUS
<1>1. ReaderInv
  BY ReaderInit DEF LoadTestInit
<1>2. /\ Shared /\ Deleted = {} /\ Accepted = {} /\ refused = {}
      /\ \A t \in Task : cur[t] = Idle
  BY InitShared DEF LoadTestInit
<1>3. IInv /\ F!Init
  BY <1>2 DEF IInv, Progress, DeletedIsDone, F!Init
<1>4. Arrived
  BY DEF LoadTestInit, R!Init, Arrived
<1>5. QED
  BY <1>1, <1>3, <1>4 DEF LoadTestIInv

LEMMA LoadTestStepImplies ==
    LoadTestIInv /\ [LoadTestNext]_<<vars, reader>> => LoadTestIInv' /\ [F!Next]_Mapped
<1> SUFFICES ASSUME LoadTestIInv, [LoadTestNext]_<<vars, reader>>
             PROVE  LoadTestIInv' /\ [F!Next]_Mapped
  OBVIOUS
<1>0. ReaderInv /\ IInv /\ Arrived
  BY DEF LoadTestIInv
<1>1. CASE R!Next /\ Forwarded
  <2>1. ReaderInv' /\ IInv' /\ UNCHANGED Mapped
    BY <1>0, <1>1, ReaderStep, ReaderKeepsLoader
  <2>2. ASSUME NEW u \in R!Unit, NEW n \in 1..sends'[u]
        PROVE  <<u, n>> \in Message /\ queue'[<<u, n>>] # "unsent"
    <3>0. SendingsAreMessages'
      BY <2>1, ExplainedSendings, PTL
    <3>1. <<u, n>> \in Message
      BY <3>0 DEF SendingsAreMessages, R!Unit
    <3>2. sends[u] \in Nat /\ (sends'[u] = sends[u] \/ sends'[u] = sends[u] + 1)
      BY <1>0, <1>1, ReaderSendsOne
    <3>3. CASE n \in 1..sends[u]
      BY <1>0, <1>1, <3>1, <3>3, ForwardedFacts DEF Arrived
    <3>4. CASE n \notin 1..sends[u]
      <4>1. n = sends'[u] /\ sends'[u] # sends[u]
        BY <3>2, <3>4
      <4>2. QED
        BY <1>0, <1>1, <3>1, <4>1, ForwardedFacts
    <3>5. QED
      BY <3>1, <3>3, <3>4
  <2>3. Arrived'
    BY <2>2 DEF Arrived, R!Unit
  <2>4. QED
    BY <2>1, <2>3 DEF LoadTestIInv
<1>2. CASE [Next]_vars /\ UNCHANGED reader
  <2>1. IInv' /\ [F!Next]_Mapped
    BY <1>0, <1>2, StepImplies
  <2>2. ReaderInv'
    BY <1>0, <1>2, <2>1, LoaderKeepsReader
  <2>3. sends' = sends
    BY <1>2 DEF reader
  <2>4. Arrived'
    BY <1>0, <1>2, <2>3, LoaderOnlyCounts DEF Arrived, R!Unit
  <2>5. QED
    BY <2>1, <2>2, <2>4 DEF LoadTestIInv
<1>3. QED
  BY <1>1, <1>2 DEF LoadTestNext, vars

LEMMA LoadTestInvariance == LoadTestSpec => []LoadTestIInv
<1>1. LoadTestInit => LoadTestIInv
  BY LoadTestInitImplies
<1>2. LoadTestIInv /\ [LoadTestNext]_<<vars, reader>> => LoadTestIInv'
  BY LoadTestStepImplies
<1>3. QED
  BY <1>1, <1>2, PTL DEF LoadTestSpec

\* With a reader before it the loader stays within its types ...
THEOREM TypeCorrectBehindReader == LoadTestSpec => []TypeOK
<1>1. LoadTestIInv => TypeOK
  BY IInvImpliesTypeOK DEF LoadTestIInv
<1>2. QED
  BY <1>1, LoadTestInvariance, PTL

\* ... and a forwarder: no message comes into its queue in a way that lets it
\* delete one it is not done with.
THEOREM RefinementBehindReader == LoadTestSpec => IsForwarder
<1>1. LoadTestInit => F!Init
  BY LoadTestInitImplies
<1>2. LoadTestIInv /\ [LoadTestNext]_<<vars, reader>> => [F!Next]_Mapped
  BY LoadTestStepImplies
<1>3. QED
  BY <1>1, <1>2, LoadTestInvariance, PTL DEF LoadTestSpec, IsForwarder, F!Spec, Mapped

\* What a job promised is not lost between the queues: of each object listed for a
\* job that is gone the name was sent, and each sending of it is still in the
\* loader's queue, or each good row of the object is accepted; what is missing was
\* hit by a fault.
THEOREM JobsCorrect == LoadTestSpec => []GoneJobsAreDone
<1>1. ASSUME LoadTestIInv PROVE GoneJobsAreDone
  <2> SUFFICES ASSUME NEW j \in R!Deleted, NEW u \in R!UnitsOf[j] \ unsent
               PROVE  /\ Sent(u) # {}
                      /\ \A m \in Sent(u) : \/ queue[m] \in {"visible", "inflight"}
                                            \/ UnitsOf[m] \subseteq Done
    BY DEF GoneJobsAreDone, Done
  <2>1. ReaderInv /\ IInv /\ Arrived
    BY <1>1 DEF LoadTestIInv
  <2>2. u \in R!Unit /\ sends[u] \in Nat /\ sends[u] > 0
    BY <2>1, SameUnits DEF ReaderInv, RP!IInv, RP!DeletedIsDone, RP!Done, RP!Handed
  <2>3. Sent(u) # {}
    <3>1. <<u, 1>> \in Sent(u)
      BY <2>2 DEF Sent
    <3>2. QED
      BY <3>1
  <2>4. ASSUME NEW m \in Sent(u)
        PROVE  queue[m] \in {"visible", "inflight"} \/ UnitsOf[m] \subseteq Done
    <3>1. m \in Message /\ queue[m] # "unsent"
      BY <2>1, <2>2 DEF Sent, Arrived
    <3>2. queue[m] \in {"visible", "inflight"} \/ m \in Deleted
      BY <2>1, <3>1 DEF IInv, Shared, Frame, QueueTypeOK, Deleted
    <3>3. QED
      BY <2>1, <3>2 DEF IInv, DeletedIsDone
  <2>5. QED
    BY <2>3, <2>4
<1>2. QED
  BY <1>1, LoadTestInvariance, PTL
=============================================================================
