------------------------------- MODULE Loader -------------------------------
(***************************************************************************)
(* The loader that copies the raw archive into the data mart and the slow  *)
(* production streams: a queue of S3 events, and tasks of a poller, a main *)
(* loop and two KPL sidecars whose rejected rows go to one shared queue.   *)
(*                                                                         *)
(* A message holds S3 objects, an object holds rows, and a row is "ok",    *)
(* "bad" (no JSON) or "empty".  A unit of work is <<m, o, i, d>>: row i of *)
(* object o of message m for destination d.                                *)
(***************************************************************************)
EXTENDS KplLoader

CONSTANTS
    Malformed,    (* messages that do not unmarshal to an S3 event             *)
    Content       (* the rows of each object of each message                   *)

ASSUME LoaderAssumption ==
    /\ Malformed \subseteq Message
    /\ Content \in [Message -> Seq(Seq({"ok", "bad", "empty"}))]

DataMart == "DMT"
SlowProd == "SLPD"
Dest     == {DataMart, SlowProd}

Objects(m)      == Len(Content[m])
RowUnits(m, o, i) ==
    IF Content[m][o][i] = "ok" THEN {<<m, o, i, d>> : d \in Dest} ELSE {}
RowsFrom(m, o, n) == UNION {RowUnits(m, o, i) : i \in n..Len(Content[m][o])}
Unreadable      == {m \in Message : m \in Malformed \/ Content[m] = <<>>}
UnitsOf         == [m \in Message |-> UNION {RowsFrom(m, o, 1) : o \in 1..Objects(m)}]
Unit            == UNION {UnitsOf[m] : m \in Message}

Init == InitLoader(Message)

-----------------------------------------------------------------------------
(* startProcess: the main loop.  cur holds the message in hand, the object *)
(* the loop is at, how many of its rows were read (NotRead before          *)
(* GetObject), the row it is at, and the destination that row goes to      *)
(* next.                                                                   *)

NotRead == -1

\* A message that is no S3 event, or has no records, is left in the queue.
SkipMessage(t) ==
    /\ Discard(t)
    /\ NextInChan(t).msg \in Unreadable
    /\ UNCHANGED <<sidecars, service>>

StartMessage(t) ==
    /\ Begin(t, [msg |-> NextInChan(t).msg, rcpt |-> NextInChan(t).rcpt,
                 obj |-> 1, rows |-> NotRead, row |-> 1, dest |-> DataMart])
    /\ NextInChan(t).msg \notin Unreadable

MoreObjects(t) == cur[t] # Idle /\ cur[t].obj <= Objects(cur[t].msg)
RowCount(t)    == Len(Content[cur[t].msg][cur[t].obj])
AtObject(t)    == MoreObjects(t) /\ cur[t].rows = NotRead
AtRow(t)       == MoreObjects(t) /\ cur[t].rows # NotRead /\ cur[t].row <= cur[t].rows
RowKind(t)     == Content[cur[t].msg][cur[t].obj][cur[t].row]
UnitAt(t)      == <<cur[t].msg, cur[t].obj, cur[t].row, cur[t].dest>>

KeepRow(c) ==                                                  \* faulty variant
    [c EXCEPT !.obj = @ + 1, !.rows = NotRead, !.dest = DataMart]
NextObject(c) ==
    [c EXCEPT !.obj = @ + 1, !.rows = NotRead, !.row = 1, !.dest = DataMart]

SameRow(c) == [c EXCEPT !.dest = DataMart]                     \* faulty variant
NextRow(c) == [c EXCEPT !.row = @ + 1, !.dest = DataMart]

GetObject(t) ==
    /\ AtObject(t)
    /\ Go(t, [cur[t] EXCEPT !.rows = RowCount(t)])
    /\ UNCHANGED <<sidecars, service>>

\* The error of ReadFrom is not looked at: the rows read until then count.
GetObjectTruncated(t) ==
    /\ AtObject(t)
    /\ Fault
    /\ \E n \in 0..(RowCount(t) - 1) :
          /\ Go(t, [cur[t] EXCEPT !.rows = n])
          /\ Refuse(RowsFrom(cur[t].msg, cur[t].obj, n + 1))

\* The loop goes on with the next record of the S3 event.
GetObjectFails(t) ==
    /\ AtObject(t)
    /\ Fault
    /\ Go(t, NextObject(cur[t]))
    /\ Refuse(RowsFrom(cur[t].msg, cur[t].obj, 1))

SkipRow(t) ==
    /\ AtRow(t)
    /\ RowKind(t) # "ok"
    /\ Go(t, NextRow(cur[t]))
    /\ UNCHANGED <<sidecars, service>>

\* After the data mart comes slow production, after both the next row.
DataMartOnly(c) == NextRow(c)                                  \* faulty variant
AfterPut(c) ==
    IF c.dest = DataMart THEN [c EXCEPT !.dest = SlowProd] ELSE NextRow(c)

PutRecord(t) ==
    /\ AtRow(t)
    /\ RowKind(t) = "ok"
    /\ Go(t, AfterPut(cur[t]))
    /\ Accept(t, UnitAt(t))
    /\ UNCHANGED service

\* The error is logged, the loop goes on.
PutRecordFails(t) ==
    /\ AtRow(t)
    /\ RowKind(t) = "ok"
    /\ Fault
    /\ Go(t, AfterPut(cur[t]))
    /\ Refuse({UnitAt(t)})

ObjectDone(t) ==
    /\ MoreObjects(t)
    /\ cur[t].rows # NotRead /\ cur[t].row > cur[t].rows
    /\ Go(t, NextObject(cur[t]))
    /\ UNCHANGED <<sidecars, service>>

MessageDone(t)    == cur[t] # Idle /\ cur[t].obj > Objects(cur[t].msg)

DeleteMessage(t) == MessageDone(t) /\ Delete(t)
DeleteFails(t)   == MessageDone(t) /\ KeepInQueue(t)

-----------------------------------------------------------------------------
MainLoop(t) ==
    \/ SkipMessage(t) \/ StartMessage(t)
    \/ GetObject(t) \/ SkipRow(t) \/ PutRecord(t) \/ ObjectDone(t)
    \/ DeleteMessage(t)

Faults(t) ==
    \/ GetObjectTruncated(t) \/ GetObjectFails(t)
    \/ PutRecordFails(t) \/ DeleteFails(t)

Next == Besides \/ \E t \in Task : MainLoop(t) \/ Faults(t)

Spec == Init /\ [][Next]_vars

\* The main loop runs, and the rest as the frame has it.
Fairness == PollingFairness /\ \A t \in Task : WF_vars(MainLoop(t))
FairSpec == Spec /\ Fairness

-----------------------------------------------------------------------------
(* Properties.                                                             *)

\* A main loop at work is in bounds of the message, the object and its rows.
Working(t) ==
    LET c == cur[t]
    IN  /\ c \in [msg : Message \ Unreadable, rcpt : Nat, obj : Nat, rows : Int,
                   row : Nat, dest : Dest]
        /\ c.obj \in 1..(Objects(c.msg) + 1)
        /\ c.rows = NotRead => c.row = 1
        /\ c.rows # NotRead => /\ MoreObjects(t)
                               /\ c.rows \in 0..RowCount(t)
                               /\ c.row \in 1..(c.rows + 1)

\* A task at work is at an object of its message and at a row of that object, or
\* just past the last of them, and the queue and channel hold messages.
TypeOK ==
    /\ PollingTypeOK
    /\ ServiceTypeOK
    /\ \A t \in Task : cur[t] = Idle \/ Working(t)
    /\ Accepted \subseteq Unit
    /\ refused \subseteq Unit

\* Every readable message is processed and deleted in the end, however often
\* unreadable ones come back and whichever task dies.
EventuallyDeleted ==
    \A m \in Message \ Unreadable : <>(queue[m] = "deleted")

\* The loader is a forwarder: a message leaves the queue only when each of its
\* rows was accepted for both destinations, or a fault the loader answers with a
\* warning took it.  Neither crashes, nor a second task with the same message, nor
\* a receipt that is no longer valid makes it delete what is not done.
F == INSTANCE Forwarder WITH
        removed <- Deleted,
        handed  <- Accepted,
        refused <- refused
\* In the terms above, startProcess implements the forwarder.
IsForwarder == F!Spec
=============================================================================
