----------------------------- MODULE LtpdLoader -----------------------------
(***************************************************************************)
(* s3-loader-ltpd: a message names one S3 object, whose rows go to one     *)
(* stream through one sidecar.  Unlike the other loader it has no way      *)
(* around a message it cannot unmarshal or an object it cannot get: it     *)
(* logs the error, reads from the body that is not there, and panics.      *)
(*                                                                         *)
(* A unit of work is <<m, i>>, row i of the object of message m; a row is  *)
(* "ok", "bad" (no JSON) or "empty".                                       *)
(***************************************************************************)
EXTENDS KplLoader

CONSTANTS
    Malformed,    (* messages that name no object                              *)
    Content       (* the rows of the object of each message                    *)

ASSUME LtpdAssumption ==
    /\ Malformed \subseteq Message
    /\ Content \in [Message -> Seq({"ok", "bad", "empty"})]

RowsFrom(m, n) == {<<m, i>> : i \in {j \in n..Len(Content[m]) : Content[m][j] = "ok"}}
UnitsOf        == [m \in Message |-> RowsFrom(m, 1)]
Unit           == UNION {UnitsOf[m] : m \in Message}

Init == InitLoader(Message)

-----------------------------------------------------------------------------
(* startProcess: cur holds the message in hand, how many rows of its       *)
(* object were read (NotRead before GetObject), and the row the loop is at.*)

NotRead == -1

StartMessage(t) ==
    Begin(t, [msg |-> NextInChan(t).msg, rcpt |-> NextInChan(t).rcpt,
              rows |-> NotRead, row |-> 1])

RowCount(t) == Len(Content[cur[t].msg])
AtObject(t) == cur[t] # Idle /\ cur[t].rows = NotRead
AtRow(t)    == cur[t] # Idle /\ cur[t].rows # NotRead /\ cur[t].row <= cur[t].rows
RowKind(t)  == Content[cur[t].msg][cur[t].row]
UnitAt(t)   == <<cur[t].msg, cur[t].row>>

SkipTwo(c) == [c EXCEPT !.row = @ + 2]                         \* faulty variant
NextRow(c) == [c EXCEPT !.row = @ + 1]

GetObject(t) ==
    /\ AtObject(t)
    /\ cur[t].msg \notin Malformed
    /\ Go(t, [cur[t] EXCEPT !.rows = RowCount(t)])
    /\ UNCHANGED <<sidecars, service>>

\* The error of ReadFrom is not looked at: the rows read until then count.
GetObjectTruncated(t) ==
    /\ AtObject(t)
    /\ cur[t].msg \notin Malformed
    /\ Fault
    /\ \E n \in 0..(RowCount(t) - 1) :
          /\ Go(t, [cur[t] EXCEPT !.rows = n])
          /\ Refuse(RowsFrom(cur[t].msg, n + 1))

\* Reading from the body that is not there.
GoOn(t)        == Go(t, [cur[t] EXCEPT !.rows = 0]) /\ UNCHANGED sidecars  \* faulty variant
ReadNilBody(t) == Panic(t)

PanicMalformed(t) ==
    /\ AtObject(t)
    /\ cur[t].msg \in Malformed
    /\ ReadNilBody(t)
    /\ UNCHANGED service

GetObjectFails(t) ==
    /\ AtObject(t)
    /\ cur[t].msg \notin Malformed
    /\ Fault
    /\ ReadNilBody(t)

SkipRow(t) ==
    /\ AtRow(t)
    /\ RowKind(t) # "ok"
    /\ Go(t, NextRow(cur[t]))
    /\ UNCHANGED <<sidecars, service>>

PutRecord(t) ==
    /\ AtRow(t)
    /\ RowKind(t) = "ok"
    /\ Go(t, NextRow(cur[t]))
    /\ Accept(t, UnitAt(t))
    /\ UNCHANGED service

\* The error is logged, the loop goes on.
PutRecordFails(t) ==
    /\ AtRow(t)
    /\ RowKind(t) = "ok"
    /\ Fault
    /\ Go(t, NextRow(cur[t]))
    /\ Refuse({UnitAt(t)})

MessageDone(t) == cur[t] # Idle /\ cur[t].rows # NotRead /\ cur[t].row > cur[t].rows

DeleteMessage(t) == MessageDone(t) /\ Delete(t)
DeleteFails(t)   == MessageDone(t) /\ KeepInQueue(t)

-----------------------------------------------------------------------------
MainLoop(t) ==
    \/ StartMessage(t) \/ GetObject(t) \/ PanicMalformed(t)
    \/ SkipRow(t) \/ PutRecord(t) \/ DeleteMessage(t)

Faults(t) ==
    \/ GetObjectTruncated(t) \/ GetObjectFails(t)
    \/ PutRecordFails(t) \/ DeleteFails(t)

Next == Besides \/ \E t \in Task : MainLoop(t) \/ Faults(t)

Spec == Init /\ [][Next]_vars

-----------------------------------------------------------------------------
(* Properties.                                                             *)

Working(t) ==
    LET c == cur[t]
    IN  /\ c \in [msg : Message, rcpt : Nat, rows : Int, row : Nat]
        /\ c.rows = NotRead => c.row = 1
        /\ c.rows # NotRead => /\ c.msg \notin Malformed
                               /\ c.rows \in 0..RowCount(t)
                               /\ c.row \in 1..(c.rows + 1)

\* A task at work is at an object of its message and at a row of that object, or
\* just past the last of them, and the queue and channel hold messages.
TypeOK ==
    /\ PollingTypeOK
    /\ ServiceTypeOK
    /\ \A t \in Task : cur[t] = Idle \/ Working(t)
    /\ Accepted \subseteq Unit
    /\ refused \subseteq Unit

\* A malformed message is never deleted, an object that could not be got is
\* never taken for done, and any other message leaves the queue only when each
\* of its rows was accepted or hit by a fault: a panic in the middle of one
\* message deletes neither it nor the ones that wait behind it.
F == INSTANCE Forwarder WITH
        removed    <- Deleted,
        handed     <- Accepted,
        refused    <- refused,
        Unreadable <- Malformed
\* In the terms above, startProcess implements the forwarder.
IsForwarder == F!Spec
=============================================================================
