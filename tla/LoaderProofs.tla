---------------------------- MODULE LoaderProofs ----------------------------
(***************************************************************************)
(* The loader of the data mart, for any messages, contents, tasks and      *)
(* faults: it implements Forwarder.                                        *)
(*                                                                         *)
(* That a message is done when its loop comes to DeleteMessages is known   *)
(* from Progress, which says what of it is done at each place of the loop. *)
(***************************************************************************)
EXTENDS Loader, KplLoaderProofs

\* The loop of c is past row i of object o for destination d: at a later object,
\* or at the same object and past the row, or the row is one the read cut off.
Past(c, o, i, d) ==
    \/ o < c.obj
    \/ /\ o = c.obj /\ c.rows # NotRead
       /\ \/ i < c.row
          \/ i > c.rows
          \/ i = c.row /\ d = DataMart /\ c.dest = SlowProd

Done == Accepted \cup refused

Settled(c, done) ==
    \A o \in 1..Objects(c.msg) : \A i \in 1..Len(Content[c.msg][o]) : \A d \in Dest :
        Content[c.msg][o][i] = "ok" /\ Past(c, o, i, d) => <<c.msg, o, i, d>> \in done

Progress == \A t \in Task : cur[t] = Idle \/ Settled(cur[t], Done)

\* Working, of a place instead of a task; and an object that was not read yet
\* begins with the data mart.
Place(c) ==
    /\ c \in [msg : Message \ Unreadable, rcpt : Nat, obj : Nat, rows : Int,
              row : Nat, dest : Dest]
    /\ c.obj \in 1..(Objects(c.msg) + 1)
    /\ c.rows = NotRead => c.row = 1 /\ c.dest = DataMart
    /\ c.rows # NotRead => /\ c.obj <= Objects(c.msg)
                           /\ c.rows \in 0..Len(Content[c.msg][c.obj])
                           /\ c.row \in 1..(c.rows + 1)

IInv ==
    /\ Shared
    /\ \A t \in Task : cur[t] = Idle \/ Place(cur[t])
    /\ Accepted \subseteq Unit /\ refused \subseteq Unit
    /\ Progress

-----------------------------------------------------------------------------
\* The contents of a message are sequences of sequences of rows.
LEMMA Contents ==
    ASSUME NEW m \in Message
    PROVE  /\ Objects(m) \in Nat
           /\ \A o \in 1..Objects(m) : Len(Content[m][o]) \in Nat
BY LoaderAssumption DEF Objects

\* A unit is a good row and a destination.
LEMMA UnitForm ==
    ASSUME NEW m \in Message, NEW u \in UnitsOf[m]
    PROVE  \E o \in 1..Objects(m) : \E i \in 1..Len(Content[m][o]) : \E d \in Dest :
               Content[m][o][i] = "ok" /\ u = <<m, o, i, d>>
<1>1. PICK o \in 1..Objects(m) : u \in RowsFrom(m, o, 1)
  BY DEF UnitsOf
<1>2. PICK i \in 1..Len(Content[m][o]) : u \in RowUnits(m, o, i)
  BY <1>1 DEF RowsFrom
<1>3. Content[m][o][i] = "ok" /\ u \in {<<m, o, i, d>> : d \in Dest}
  BY <1>2 DEF RowUnits
<1>4. QED
  BY <1>3

LEMMA IsUnit ==
    ASSUME NEW m \in Message, NEW o \in 1..Objects(m), NEW i \in 1..Len(Content[m][o]),
           Content[m][o][i] = "ok", NEW d \in Dest
    PROVE  /\ <<m, o, i, d>> \in Unit
           /\ \A n \in 1..i : <<m, o, i, d>> \in RowsFrom(m, o, n)
<1>1. <<m, o, i, d>> \in RowUnits(m, o, i)
  BY DEF RowUnits
<1>2. \A n \in 1..i : <<m, o, i, d>> \in RowsFrom(m, o, n)
  <2> SUFFICES ASSUME NEW n \in 1..i PROVE <<m, o, i, d>> \in RowsFrom(m, o, n)
    OBVIOUS
  <2>1. i \in n..Len(Content[m][o])
    BY Contents
  <2>2. QED
    BY <1>1, <2>1 DEF RowsFrom
<1>3. <<m, o, i, d>> \in UnitsOf[m]
  <2>1. 1 \in 1..i
    BY Contents
  <2>2. QED
    BY <1>2, <2>1 DEF UnitsOf
<1>4. QED
  BY <1>2, <1>3 DEF Unit

LEMMA RowsAreUnits ==
    ASSUME NEW m \in Message, NEW o \in 1..Objects(m), NEW n \in Nat \ {0}
    PROVE  RowsFrom(m, o, n) \subseteq Unit
<1> SUFFICES ASSUME NEW u \in RowsFrom(m, o, n) PROVE u \in Unit
  OBVIOUS
<1>1. PICK i \in n..Len(Content[m][o]) : u \in RowUnits(m, o, i)
  BY DEF RowsFrom
<1>2. i \in 1..Len(Content[m][o])
  BY Contents
<1>3. Content[m][o][i] = "ok" /\ \E d \in Dest : u = <<m, o, i, d>>
  BY <1>1 DEF RowUnits
<1>4. QED
  BY <1>2, <1>3, IsUnit

-----------------------------------------------------------------------------
LEMMA PlaceIsWorking ==
    ASSUME NEW t \in Task
    PROVE  Place(cur[t]) => Working(t)
<1>1. Place(cur[t]) => cur[t] # Idle
  BY DEF Place, Idle
<1>2. QED
  BY <1>1 DEF Place, Working, MoreObjects, RowCount

\* A step that disturbs the main loop of t alone, takes back nothing that is done,
\* and deletes nothing.
LEMMA LoopStep ==
    ASSUME IInv, Shared', NEW t \in Task,
           \A u \in Task \ {t} : cur'[u] = cur[u] \/ cur'[u] = Idle,
           cur'[t] = Idle \/ (Place(cur'[t]) /\ Settled(cur'[t], Done')),
           Done \subseteq Done', Accepted' \subseteq Unit, refused' \subseteq Unit,
           Deleted' = Deleted
    PROVE  IInv'
<1>1. \A u \in Task : cur'[u] = Idle \/ Place(cur'[u])
  BY DEF IInv
<1>2. \A u \in Task \ {t} : cur'[u] = Idle \/ Settled(cur'[u], Done')
  BY DEF IInv, Progress, Settled
<1>3. Progress'
  BY <1>2 DEF Progress
<1>4. QED
  BY <1>1, <1>3 DEF IInv

\* The row a main loop is at is a unit for the destination it is at.
LEMMA UnitAtIsUnit ==
    ASSUME IInv, NEW t \in Task, AtRow(t)
    PROVE  /\ Place(cur[t]) /\ Settled(cur[t], Done)
           /\ cur[t].msg \in Message /\ cur[t].obj \in 1..Objects(cur[t].msg)
           /\ cur[t].row \in 1..Len(Content[cur[t].msg][cur[t].obj])
           /\ RowKind(t) = "ok" => UnitAt(t) \in Unit
<1> DEFINE c == cur[t]
<1>1. /\ Place(c) /\ Settled(c, Done)
      /\ c.rows # NotRead /\ c.row <= c.rows /\ c.obj <= Objects(c.msg)
  BY DEF IInv, Progress, AtRow, MoreObjects
<1> HIDE DEF c
<1>2. /\ c.msg \in Message /\ c.obj \in 1..Objects(c.msg) /\ c.dest \in Dest
      /\ c.rows \in 0..Len(Content[c.msg][c.obj]) /\ c.row \in 1..(c.rows + 1)
  BY <1>1, Contents DEF Place
<1>3. c.row \in 1..Len(Content[c.msg][c.obj])
  BY <1>1, <1>2, Contents
<1>4. Content[c.msg][c.obj][c.row] = "ok" => <<c.msg, c.obj, c.row, c.dest>> \in Unit
  BY <1>2, <1>3, IsUnit
<1>5. QED
  BY <1>1, <1>2, <1>3, <1>4 DEF c, RowKind, UnitAt

\* To the next destination or row: what is new behind the loop is the row it was
\* at, if that is a good row.
LEMMA RowStep ==
    ASSUME NEW c, Place(c), NEW done, NEW more, Settled(c, done),
           c.rows # NotRead, c.row <= c.rows, done \subseteq more,
           NEW n,
           \/ /\ n = AfterPut(c)
              /\ <<c.msg, c.obj, c.row, c.dest>> \in more
           \/ n = NextRow(c) /\ Content[c.msg][c.obj][c.row] # "ok"
    PROVE  Place(n) /\ Settled(n, more)
<1>1. /\ c \in [msg : Message \ Unreadable, rcpt : Nat, obj : Nat, rows : Int,
                row : Nat, dest : Dest]
      /\ c.msg \in Message
      /\ c.obj \in 1..Objects(c.msg) /\ c.rows \in 0..Len(Content[c.msg][c.obj])
      /\ c.row \in 1..c.rows
  BY Contents DEF Place
<1>2. CASE n = [c EXCEPT !.dest = SlowProd] /\ c.dest = DataMart
           /\ <<c.msg, c.obj, c.row, c.dest>> \in more
  <2>1. /\ n \in [msg : Message \ Unreadable, rcpt : Nat, obj : Nat, rows : Int,
                  row : Nat, dest : Dest]
        /\ n.msg = c.msg /\ n.obj = c.obj /\ n.rows = c.rows /\ n.row = c.row
        /\ n.dest = SlowProd
    BY <1>1, <1>2 DEF Dest
  <2>2. Place(n)
    BY <2>1 DEF Place
  <2>3. Settled(n, more)
    BY <1>2, <2>1 DEF Settled, Past, DataMart, SlowProd
  <2>4. QED
    BY <2>2, <2>3
<1>3. CASE /\ n = NextRow(c)
           /\ \A d \in Dest : Content[c.msg][c.obj][c.row] = "ok"
                                => <<c.msg, c.obj, c.row, d>> \in more
  <2>1. /\ n \in [msg : Message \ Unreadable, rcpt : Nat, obj : Nat, rows : Int,
                  row : Nat, dest : Dest]
        /\ n.msg = c.msg /\ n.obj = c.obj /\ n.rows = c.rows /\ n.row = c.row + 1
        /\ n.dest = DataMart
    <3>1. c.row + 1 \in Nat /\ DataMart \in Dest
      BY <1>1, Contents DEF Dest
    <3>2. n = [c EXCEPT !.row = c.row + 1, !.dest = DataMart]
      BY <1>3 DEF NextRow
    <3>3. QED
      BY <1>1, <3>1, <3>2
  <2>2. Place(n)
    BY <1>1, <2>1, Contents DEF Place
  <2>3. Settled(n, more)
    <3> SUFFICES ASSUME NEW o \in 1..Objects(c.msg), NEW i \in 1..Len(Content[c.msg][o]),
                        NEW d \in Dest, Content[c.msg][o][i] = "ok", Past(n, o, i, d)
                 PROVE  <<c.msg, o, i, d>> \in more
      BY <2>1 DEF Settled
    <3>1. Past(c, o, i, d) \/ (o = c.obj /\ i = c.row)
      <4>1. DataMart # SlowProd /\ i \in Nat
        BY <1>1, Contents DEF DataMart, SlowProd
      <4>2. QED
        BY <1>1, <2>1, <4>1 DEF Past
    <3>2. CASE Past(c, o, i, d)
      BY <3>2 DEF Settled
    <3>3. CASE o = c.obj /\ i = c.row
      BY <1>3, <3>3
    <3>4. QED
      BY <3>1, <3>2, <3>3
  <2>4. QED
    BY <2>2, <2>3
<1>4. CASE n = AfterPut(c) /\ <<c.msg, c.obj, c.row, c.dest>> \in more
  <2>1. CASE c.dest = DataMart
    BY <1>2, <1>4, <2>1 DEF AfterPut
  <2>2. CASE c.dest # DataMart
    <3>1. n = NextRow(c) /\ c.dest = SlowProd
      BY <1>1, <1>4, <2>2 DEF AfterPut, Dest
    <3>2. ASSUME Content[c.msg][c.obj][c.row] = "ok"
          PROVE  <<c.msg, c.obj, c.row, DataMart>> \in more
      <4>1. Past(c, c.obj, c.row, DataMart)
        BY <3>1 DEF Past
      <4>2. c.row \in 1..Len(Content[c.msg][c.obj])
        BY <1>1, Contents
      <4>3. QED
        BY <1>1, <3>2, <4>1, <4>2 DEF Settled, Dest
    <3>3. QED
      BY <1>3, <1>4, <3>1, <3>2 DEF Dest
  <2>3. QED
    BY <2>1, <2>2
<1>5. QED
  BY <1>3, <1>4

-----------------------------------------------------------------------------
(* The actions of the main loop: each keeps the invariant, and is a step   *)
(* of the forwarder or none.                                               *)

Mapped == <<Deleted, Accepted, refused>>

LEMMA BesidesSimulates ==
    ASSUME IInv, Besides
    PROVE  IInv' /\ UNCHANGED Mapped
<1>1. /\ Shared' /\ Deleted' = Deleted /\ Accepted' = Accepted /\ refused' = refused
      /\ \A t \in Task : cur'[t] = cur[t] \/ cur'[t] = Idle
  BY BesidesKeepsShared DEF IInv
<1>2. \A t \in Task : cur'[t] = Idle \/ Place(cur'[t])
  BY <1>1 DEF IInv
<1>3. Progress'
  BY <1>1 DEF IInv, Progress, Settled, Done
<1>4. QED
  BY <1>1, <1>2, <1>3 DEF IInv, Mapped

LEMMA SkipMessageSimulates ==
    ASSUME IInv, NEW t \in Task, SkipMessage(t)
    PROVE  IInv' /\ UNCHANGED Mapped
<1>1. /\ Shared' /\ Deleted' = Deleted /\ Accepted' = Accepted /\ refused' = refused
      /\ cur' = cur
  BY DiscardKeepsShared DEF IInv, SkipMessage
<1>2. QED
  BY <1>1 DEF IInv, Progress, Settled, Done, Mapped

LEMMA StartMessageSimulates ==
    ASSUME IInv, NEW t \in Task, StartMessage(t)
    PROVE  IInv' /\ UNCHANGED Mapped
<1> DEFINE c == [msg |-> NextInChan(t).msg, rcpt |-> NextInChan(t).rcpt,
                 obj |-> 1, rows |-> NotRead, row |-> 1, dest |-> DataMart]
<1>1. Begin(t, c) /\ NextInChan(t).msg \notin Unreadable
  BY DEF StartMessage
<1> HIDE DEF c
<1>2. /\ Shared' /\ Deleted' = Deleted /\ Accepted' = Accepted /\ refused' = refused
      /\ cur'[t] = c /\ (\A u \in Task \ {t} : cur'[u] = cur[u])
      /\ NextInChan(t) \in Copy
  BY <1>1, BeginKeepsShared DEF IInv
<1>3. NextInChan(t).msg \in Message \ Unreadable /\ NextInChan(t).rcpt \in Nat
  BY <1>1, <1>2 DEF Copy
<1>4. Place(c)
  BY <1>3, Contents DEF Place, c, NotRead, Dest
<1>5. Settled(c, Done')
  <2>1. c.obj = 1 /\ c.rows = NotRead /\ c.msg \in Message
    BY <1>3 DEF c
  <2>2. QED
    BY <2>1, Contents DEF Settled, Past
<1>6. IInv'
  BY <1>2, <1>4, <1>5, LoopStep DEF IInv, Done
<1>7. QED
  BY <1>2, <1>6 DEF Mapped

\* Where GetObject finds the main loop.
LEMMA AtObjectFacts ==
    ASSUME IInv, NEW t \in Task, AtObject(t)
    PROVE  /\ Place(cur[t]) /\ Settled(cur[t], Done)
           /\ cur[t] \in [msg : Message \ Unreadable, rcpt : Nat, obj : Nat, rows : Int,
                          row : Nat, dest : Dest]
           /\ cur[t].msg \in Message /\ cur[t].obj \in 1..Objects(cur[t].msg)
           /\ cur[t].rows = NotRead /\ cur[t].row = 1 /\ cur[t].dest = DataMart
           /\ RowCount(t) \in Nat
<1>1. Place(cur[t]) /\ Settled(cur[t], Done) /\ cur[t].rows = NotRead
      /\ cur[t].obj <= Objects(cur[t].msg)
  BY DEF AtObject, MoreObjects, IInv, Progress
<1>2. QED
  BY <1>1, Contents DEF Place, RowCount

\* n rows of the object are read, and the rest, if any, is done or refused.
LEMMA ReadStep ==
    ASSUME IInv, NEW t \in Task, AtObject(t), NEW n \in 0..RowCount(t),
           NEW more, Done \subseteq more,
           RowsFrom(cur[t].msg, cur[t].obj, n + 1) \subseteq more
    PROVE  Place([cur[t] EXCEPT !.rows = n]) /\ Settled([cur[t] EXCEPT !.rows = n], more)
<1> DEFINE c == cur[t]
           d == [c EXCEPT !.rows = n]
<1>1. /\ Settled(c, Done)
      /\ c \in [msg : Message \ Unreadable, rcpt : Nat, obj : Nat, rows : Int,
                row : Nat, dest : Dest]
      /\ c.msg \in Message /\ c.obj \in 1..Objects(c.msg)
      /\ c.rows = NotRead /\ c.row = 1 /\ c.dest = DataMart
      /\ RowCount(t) \in Nat /\ RowCount(t) = Len(Content[c.msg][c.obj])
  BY AtObjectFacts DEF RowCount
<1>2. RowsFrom(c.msg, c.obj, n + 1) \subseteq more
  OBVIOUS
<1> HIDE DEF c
<1>3. /\ d \in [msg : Message \ Unreadable, rcpt : Nat, obj : Nat, rows : Int,
                row : Nat, dest : Dest]
      /\ d.msg = c.msg /\ d.obj = c.obj /\ d.rows = n /\ d.row = 1 /\ d.dest = DataMart
  BY <1>1
<1> HIDE DEF d
<1>4. Place(d)
  BY <1>1, <1>3, Contents DEF Place, NotRead
<1>5. Settled(d, more)
  <2> SUFFICES ASSUME NEW o \in 1..Objects(c.msg), NEW i \in 1..Len(Content[c.msg][o]),
                      NEW e \in Dest, Content[c.msg][o][i] = "ok", Past(d, o, i, e)
               PROVE  <<c.msg, o, i, e>> \in more
    BY <1>3 DEF Settled
  <2>1. Past(c, o, i, e) \/ (o = c.obj /\ i > n)
    <3>1. i >= 1 /\ DataMart # SlowProd
      BY <1>1, Contents DEF DataMart, SlowProd
    <3>2. QED
      BY <1>1, <1>3, <3>1 DEF Past
  <2>2. CASE Past(c, o, i, e)
    BY <1>1, <2>2 DEF Settled
  <2>3. CASE o = c.obj /\ i > n
    <3>1. n + 1 \in 1..i
      BY <1>1, <2>3, Contents
    <3>2. QED
      BY <1>1, <1>2, <2>3, <3>1, IsUnit
  <2>4. QED
    BY <2>1, <2>2, <2>3
<1>6. QED
  BY <1>4, <1>5 DEF d, c

LEMMA GetObjectSimulates ==
    ASSUME IInv, NEW t \in Task, GetObject(t)
    PROVE  IInv' /\ UNCHANGED Mapped
<1> DEFINE c == [cur[t] EXCEPT !.rows = RowCount(t)]
<1>1. AtObject(t) /\ Go(t, c) /\ UNCHANGED <<sidecars, service>>
  BY DEF GetObject
<1>2. RowCount(t) \in 0..RowCount(t)
      /\ RowsFrom(cur[t].msg, cur[t].obj, RowCount(t) + 1) \subseteq Done
  <2>1. RowCount(t) \in Nat
    BY <1>1, AtObjectFacts
  <2>2. RowsFrom(cur[t].msg, cur[t].obj, RowCount(t) + 1) = {}
    <3>1. (RowCount(t) + 1)..RowCount(t) = {}
      BY <2>1
    <3>2. (RowCount(t) + 1)..Len(Content[cur[t].msg][cur[t].obj]) = {}
      BY <3>1 DEF RowCount
    <3>3. QED
      BY <3>2 DEF RowsFrom
  <2>3. QED
    BY <2>1, <2>2
<1>3. Place(c) /\ Settled(c, Done)
  BY <1>1, <1>2, ReadStep
<1> HIDE DEF c
<1>4. /\ Shared' /\ Deleted' = Deleted /\ Accepted' = Accepted /\ refused' = refused
      /\ cur'[t] = c /\ \A u \in Task \ {t} : cur'[u] = cur[u]
  BY <1>1, GoKeepsShared DEF IInv
<1>5. IInv'
  BY <1>3, <1>4, LoopStep DEF IInv, Done
<1>6. QED
  BY <1>4, <1>5 DEF Mapped

LEMMA GetObjectTruncatedSimulates ==
    ASSUME IInv, NEW t \in Task, GetObjectTruncated(t)
    PROVE  IInv' /\ F!Next
<1>1. PICK n \in 0..(RowCount(t) - 1) :
          /\ AtObject(t) /\ Fault
          /\ Go(t, [cur[t] EXCEPT !.rows = n])
          /\ Refuse(RowsFrom(cur[t].msg, cur[t].obj, n + 1))
  BY DEF GetObjectTruncated
<1> DEFINE c == [cur[t] EXCEPT !.rows = n]
           rest == RowsFrom(cur[t].msg, cur[t].obj, n + 1)
<1>2. rest \subseteq Unit /\ n \in 0..RowCount(t)
  BY <1>1, AtObjectFacts, RowsAreUnits
<1>3. Place(c) /\ Settled(c, Done \cup rest)
  BY <1>1, <1>2, ReadStep
<1> HIDE DEF c, rest
<1>4. /\ Shared' /\ Deleted' = Deleted /\ Accepted' = Accepted
      /\ refused' = refused \cup rest
      /\ cur'[t] = c /\ \A u \in Task \ {t} : cur'[u] = cur[u]
  BY <1>1, RefuseKeepsShared DEF IInv, c, rest
<1>5. IInv'
  <2>1. Done' = Done \cup rest
    BY <1>4 DEF Done
  <2>2. QED
    BY <1>2, <1>3, <1>4, <2>1, LoopStep DEF IInv
<1>6. QED
  BY <1>2, <1>4, <1>5 DEF F!Next, F!Refuse

\* To the next object: all rows of the one that is left are done or refused.
LEMMA ObjectStep ==
    ASSUME NEW c, Place(c), c.obj <= Objects(c.msg),
           NEW done, NEW more, Settled(c, done), done \subseteq more,
           \/ RowsFrom(c.msg, c.obj, 1) \subseteq more
           \/ c.rows # NotRead /\ c.row > c.rows
    PROVE  Place(NextObject(c)) /\ Settled(NextObject(c), more)
<1> DEFINE n == NextObject(c)
<1>1. /\ c \in [msg : Message \ Unreadable, rcpt : Nat, obj : Nat, rows : Int,
                row : Nat, dest : Dest]
      /\ c.msg \in Message /\ c.obj \in 1..Objects(c.msg) /\ Objects(c.msg) \in Nat
  BY Contents DEF Place
<1>2. /\ n \in [msg : Message \ Unreadable, rcpt : Nat, obj : Nat, rows : Int,
                row : Nat, dest : Dest]
      /\ n.msg = c.msg /\ n.obj = c.obj + 1 /\ n.rows = NotRead /\ n.row = 1
      /\ n.dest = DataMart
  <2>1. c.obj + 1 \in Nat /\ DataMart \in Dest /\ NotRead \in Int
    BY <1>1 DEF Dest, NotRead
  <2>2. n = [c EXCEPT !.obj = c.obj + 1, !.rows = NotRead, !.row = 1, !.dest = DataMart]
    BY DEF NextObject
  <2> HIDE DEF n
  <2>3. QED
    BY <1>1, <2>1, <2>2
<1> HIDE DEF n
<1>3. Place(n)
  BY <1>1, <1>2 DEF Place
<1>4. Settled(n, more)
  <2> SUFFICES ASSUME NEW o \in 1..Objects(c.msg), NEW i \in 1..Len(Content[c.msg][o]),
                      NEW d \in Dest, Content[c.msg][o][i] = "ok", Past(n, o, i, d)
               PROVE  <<c.msg, o, i, d>> \in more
    BY <1>2 DEF Settled
  <2>1. o < c.obj \/ o = c.obj
    BY <1>1, <1>2 DEF Past
  <2>2. CASE o < c.obj
    BY <2>2 DEF Settled, Past
  <2>3. CASE o = c.obj
    <3>1. CASE RowsFrom(c.msg, c.obj, 1) \subseteq more
      <4>1. 1 \in 1..i
        BY <1>1, Contents
      <4>2. QED
        BY <1>1, <2>3, <3>1, <4>1, IsUnit
    <3>2. CASE c.rows # NotRead /\ c.row > c.rows
      <4>1. i < c.row \/ i > c.rows
        BY <1>1, <3>2, Contents DEF Place
      <4>2. QED
        BY <2>3, <3>2, <4>1 DEF Settled, Past
    <3>3. QED
      BY <3>1, <3>2
  <2>4. QED
    BY <2>1, <2>2, <2>3
<1>5. QED
  BY <1>3, <1>4 DEF n

LEMMA GetObjectFailsSimulates ==
    ASSUME IInv, NEW t \in Task, GetObjectFails(t)
    PROVE  IInv' /\ F!Next
<1> DEFINE c == NextObject(cur[t])
           rows == RowsFrom(cur[t].msg, cur[t].obj, 1)
<1>1. AtObject(t) /\ Fault /\ Go(t, c) /\ Refuse(rows)
  BY DEF GetObjectFails
<1>2. rows \subseteq Unit
  BY <1>1, AtObjectFacts, RowsAreUnits
<1>3. Place(c) /\ Settled(c, Done \cup rows)
  <2>1. Place(cur[t]) /\ Settled(cur[t], Done) /\ cur[t].obj <= Objects(cur[t].msg)
    BY <1>1, AtObjectFacts, Contents
  <2>2. Done \subseteq Done \cup rows /\ rows \subseteq Done \cup rows
    OBVIOUS
  <2>3. QED
    BY <2>1, <2>2, ObjectStep
<1> HIDE DEF c, rows
<1>4. /\ Shared' /\ Deleted' = Deleted /\ Accepted' = Accepted
      /\ refused' = refused \cup rows
      /\ cur'[t] = c /\ \A u \in Task \ {t} : cur'[u] = cur[u]
  BY <1>1, RefuseKeepsShared DEF IInv
<1>5. IInv'
  <2>1. Done' = Done \cup rows
    BY <1>4 DEF Done
  <2>2. QED
    BY <1>2, <1>3, <1>4, <2>1, LoopStep DEF IInv
<1>6. QED
  BY <1>2, <1>4, <1>5 DEF F!Next, F!Refuse

LEMMA SkipRowSimulates ==
    ASSUME IInv, NEW t \in Task, SkipRow(t)
    PROVE  IInv' /\ UNCHANGED Mapped
<1>1. /\ AtRow(t) /\ RowKind(t) # "ok" /\ Go(t, NextRow(cur[t]))
      /\ UNCHANGED <<sidecars, service>>
  BY DEF SkipRow
<1>2. Place(NextRow(cur[t])) /\ Settled(NextRow(cur[t]), Done)
  BY <1>1, UnitAtIsUnit, RowStep DEF AtRow, RowKind
<1>3. /\ Shared' /\ Deleted' = Deleted /\ Accepted' = Accepted /\ refused' = refused
      /\ cur'[t] = NextRow(cur[t]) /\ \A u \in Task \ {t} : cur'[u] = cur[u]
  BY <1>1, GoKeepsShared DEF IInv
<1>4. IInv'
  BY <1>2, <1>3, LoopStep DEF IInv, Done
<1>5. QED
  BY <1>3, <1>4 DEF Mapped

LEMMA PutRecordSimulates ==
    ASSUME IInv, NEW t \in Task, PutRecord(t)
    PROVE  IInv' /\ F!Next
<1>1. /\ AtRow(t) /\ RowKind(t) = "ok" /\ Go(t, AfterPut(cur[t]))
      /\ Accept(t, UnitAt(t)) /\ UNCHANGED service
  BY DEF PutRecord
<1>2. UnitAt(t) \in Unit
  BY <1>1, UnitAtIsUnit
<1>3. Place(AfterPut(cur[t])) /\ Settled(AfterPut(cur[t]), Done \cup {UnitAt(t)})
  BY <1>1, UnitAtIsUnit, RowStep DEF AtRow, UnitAt
<1>4. /\ Shared' /\ Deleted' = Deleted /\ Accepted' = Accepted \cup {UnitAt(t)}
      /\ refused' = refused
      /\ cur'[t] = AfterPut(cur[t]) /\ \A u \in Task \ {t} : cur'[u] = cur[u]
  BY <1>1, PutKeepsShared DEF IInv
<1>5. IInv'
  <2>1. Done' = Done \cup {UnitAt(t)}
    BY <1>4 DEF Done
  <2>2. Accepted' \subseteq Unit /\ refused' \subseteq Unit
    BY <1>2, <1>4 DEF IInv
  <2>3. QED
    BY <1>3, <1>4, <2>1, <2>2, LoopStep
<1>6. QED
  BY <1>2, <1>4, <1>5 DEF F!Next, F!Hand

LEMMA PutRecordFailsSimulates ==
    ASSUME IInv, NEW t \in Task, PutRecordFails(t)
    PROVE  IInv' /\ F!Next
<1>1. /\ AtRow(t) /\ RowKind(t) = "ok" /\ Go(t, AfterPut(cur[t]))
      /\ Refuse({UnitAt(t)}) /\ Fault
  BY DEF PutRecordFails
<1>2. UnitAt(t) \in Unit
  BY <1>1, UnitAtIsUnit
<1>3. Place(AfterPut(cur[t])) /\ Settled(AfterPut(cur[t]), Done \cup {UnitAt(t)})
  BY <1>1, UnitAtIsUnit, RowStep DEF AtRow, UnitAt
<1>4. /\ Shared' /\ Deleted' = Deleted /\ Accepted' = Accepted
      /\ refused' = refused \cup {UnitAt(t)}
      /\ cur'[t] = AfterPut(cur[t]) /\ \A u \in Task \ {t} : cur'[u] = cur[u]
  BY <1>1, RefuseKeepsShared DEF IInv
<1>5. IInv'
  <2>1. Done' = Done \cup {UnitAt(t)}
    BY <1>4 DEF Done
  <2>2. Accepted' \subseteq Unit /\ refused' \subseteq Unit
    BY <1>2, <1>4 DEF IInv
  <2>3. QED
    BY <1>3, <1>4, <2>1, <2>2, LoopStep
<1>6. QED
  BY <1>2, <1>4, <1>5 DEF F!Next, F!Refuse

LEMMA ObjectDoneSimulates ==
    ASSUME IInv, NEW t \in Task, ObjectDone(t)
    PROVE  IInv' /\ UNCHANGED Mapped
<1>1. /\ MoreObjects(t) /\ cur[t].rows # NotRead /\ cur[t].row > cur[t].rows
      /\ Go(t, NextObject(cur[t])) /\ UNCHANGED <<sidecars, service>>
  BY DEF ObjectDone
<1>2. Place(NextObject(cur[t])) /\ Settled(NextObject(cur[t]), Done)
  <2>1. Place(cur[t]) /\ Settled(cur[t], Done) /\ cur[t].obj <= Objects(cur[t].msg)
    BY <1>1 DEF MoreObjects, IInv, Progress
  <2>2. QED
    BY <1>1, <2>1, ObjectStep
<1>3. /\ Shared' /\ Deleted' = Deleted /\ Accepted' = Accepted /\ refused' = refused
      /\ cur'[t] = NextObject(cur[t]) /\ \A u \in Task \ {t} : cur'[u] = cur[u]
  BY <1>1, GoKeepsShared DEF IInv
<1>4. IInv'
  BY <1>2, <1>3, LoopStep DEF IInv, Done
<1>5. QED
  BY <1>3, <1>4 DEF Mapped

\* At the end of the loop all of the message is done.
LEMMA DoneAtEnd ==
    ASSUME IInv, NEW t \in Task, MessageDone(t)
    PROVE  /\ cur[t].msg \in Message \ Unreadable
           /\ UnitsOf[cur[t].msg] \subseteq Done
<1> DEFINE c == cur[t]
<1>1. Place(c) /\ Settled(c, Done) /\ c.obj > Objects(c.msg)
  BY DEF MessageDone, IInv, Progress
<1> HIDE DEF c
<1>2. c.msg \in Message \ Unreadable /\ c.obj \in Nat
  BY <1>1 DEF Place
<1>3. ASSUME NEW u \in UnitsOf[c.msg] PROVE u \in Done
  <2>1. PICK o \in 1..Objects(c.msg) :
            \E i \in 1..Len(Content[c.msg][o]) : \E d \in Dest :
                Content[c.msg][o][i] = "ok" /\ u = <<c.msg, o, i, d>>
    BY <1>2, UnitForm
  <2>2. o < c.obj
    BY <1>1, <1>2, Contents
  <2>3. QED
    BY <1>1, <2>1, <2>2 DEF Settled, Past
<1>4. QED
  BY <1>2, <1>3 DEF c

LEMMA DeleteMessageSimulates ==
    ASSUME IInv, NEW t \in Task, DeleteMessage(t)
    PROVE  IInv' /\ [F!Next]_Mapped
<1> DEFINE m == cur[t].msg
<1>1. Delete(t) /\ m \in Message \ Unreadable /\ UnitsOf[m] \subseteq Done
  BY DoneAtEnd DEF DeleteMessage
<1>2. /\ Shared' /\ Accepted' = Accepted /\ refused' = refused
      /\ Deleted \subseteq Deleted' /\ Deleted' \subseteq Deleted \cup {m}
      /\ cur'[t] = Idle /\ \A u \in Task \ {t} : cur'[u] = cur[u]
  BY <1>1, DeleteKeepsShared DEF IInv
<1> HIDE DEF m
<1>3. \A u \in Task : cur'[u] = Idle \/ Place(cur'[u])
  BY <1>2 DEF IInv
<1>4. Progress'
  BY <1>2 DEF IInv, Progress, Settled, Done
<1>5. IInv'
  BY <1>2, <1>3, <1>4 DEF IInv
<1>6. CASE Deleted' = Deleted
  BY <1>2, <1>5, <1>6 DEF Mapped
<1>7. CASE Deleted' # Deleted
  <2>1. Deleted' = Deleted \cup {m}
    BY <1>2, <1>7
  <2>2. QED
    BY <1>1, <1>2, <1>5, <2>1 DEF F!Next, F!Remove, Done
<1>8. QED
  BY <1>6, <1>7

LEMMA DeleteFailsSimulates ==
    ASSUME IInv, NEW t \in Task, DeleteFails(t)
    PROVE  IInv' /\ UNCHANGED Mapped
<1>1. Fault /\ Go(t, Idle) /\ UNCHANGED sidecars
  BY DEF DeleteFails, KeepInQueue
<1>2. /\ Shared' /\ Deleted' = Deleted /\ Accepted' = Accepted /\ refused' = refused
      /\ cur'[t] = Idle /\ \A u \in Task \ {t} : cur'[u] = cur[u]
  BY <1>1, GoKeepsShared DEF IInv
<1>3. IInv'
  BY <1>2, LoopStep DEF IInv, Done
<1>4. QED
  BY <1>2, <1>3 DEF Mapped

-----------------------------------------------------------------------------
LEMMA InitImplies == Init => IInv /\ F!Init
<1> SUFFICES ASSUME Init PROVE IInv /\ F!Init
  OBVIOUS
<1>1. /\ Shared /\ Deleted = {} /\ Accepted = {} /\ refused = {}
      /\ \A t \in Task : cur[t] = Idle
  BY InitShared DEF Init
<1>2. QED
  BY <1>1 DEF IInv, Progress, F!Init

LEMMA StepImplies == IInv /\ [Next]_vars => IInv' /\ [F!Next]_Mapped
<1> SUFFICES ASSUME IInv, [Next]_vars PROVE IInv' /\ [F!Next]_Mapped
  OBVIOUS
<1>1. CASE Besides
  BY <1>1, BesidesSimulates
<1>2. CASE \E t \in Task : MainLoop(t)
  BY <1>2, SkipMessageSimulates, StartMessageSimulates, GetObjectSimulates,
     SkipRowSimulates, PutRecordSimulates, ObjectDoneSimulates, DeleteMessageSimulates
     DEF MainLoop
<1>3. CASE \E t \in Task : Faults(t)
  BY <1>3, GetObjectTruncatedSimulates, GetObjectFailsSimulates,
     PutRecordFailsSimulates, DeleteFailsSimulates DEF Faults
<1>4. CASE UNCHANGED vars
  <2>1. Shared' /\ UNCHANGED <<Deleted, Accepted, refused, cur>>
    BY <1>4, StutterKeepsShared DEF IInv
  <2>2. QED
    BY <2>1 DEF IInv, Progress, Settled, Done, Mapped
<1>5. QED
  BY <1>1, <1>2, <1>3, <1>4 DEF Next

LEMMA Invariance == Spec => []IInv
<1>1. Init => IInv
  BY InitImplies
<1>2. IInv /\ [Next]_vars => IInv'
  BY StepImplies
<1>3. QED
  BY <1>1, <1>2, PTL DEF Spec

\* The type invariant: the main loop of every task is at an object and a row of
\* its message or just past the last, whatever the messages hold.
THEOREM TypeCorrect == Spec => []TypeOK
<1>1. IInv => TypeOK
  <2> SUFFICES ASSUME IInv PROVE TypeOK
    OBVIOUS
  <2>1. PollingTypeOK
    BY ElementsIn DEF IInv, Shared, Frame, PollingTypeOK
  <2>2. QED
    BY <2>1, PlaceIsWorking DEF IInv, Shared, TypeOK
<1>2. QED
  BY <1>1, Invariance, PTL

\* startProcess implements the forwarder: each of its steps hands one unit on,
\* refuses units a fault took, removes a message that is done, or is invisible.
THEOREM Refinement == Spec => IsForwarder
<1>1. Init => F!Init
  BY InitImplies
<1>2. IInv /\ [Next]_vars => [F!Next]_Mapped
  BY StepImplies
<1>3. QED
  BY <1>1, <1>2, Invariance, PTL DEF Spec, IsForwarder, F!Spec, Mapped
=============================================================================
