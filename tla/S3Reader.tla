------------------------------ MODULE S3Reader ------------------------------
(***************************************************************************)
(* s3-reader-ltpd: a job names a range of hours; the reader lists the      *)
(* objects of each hour, sends their names to the loader's queue, and      *)
(* deletes the job when it has reached the end of the range.               *)
(*                                                                         *)
(* Hours are counted from the first hour of the archive.  The hours before *)
(* it and from Horizon on hold no objects, and each lot is one hour here.  *)
(***************************************************************************)
EXTENDS Service, SqsQueue, JobDates

CONSTANTS
    JobOf,        (* the job in each message                                   *)
    Epoch,        (* the first hour of the archive                             *)
    Horizon,      (* bound: the first hour after the archive                   *)
    Object,       (* names of the objects of the archive                       *)
    Archive,      (* the objects of each hour before Horizon, in key order; a  *)
                  (* name starts with its hour, so no two objects share it     *)
    PageSize      (* objects one ListObjectsV2 returns at most (1000)          *)

ArchivedHour == 0..(Horizon - 1)

ASSUME ReaderAssumption ==
    /\ Horizon \in Nat /\ PageSize \in Nat \ {0} /\ Epoch \in Int
    /\ JobOf \in [Message -> Job]
    /\ Archive \in [ArchivedHour -> Seq(Object)]
    /\ \A g, h \in ArchivedHour : \A i \in DOMAIN Archive[g], j \in DOMAIN Archive[h] :
          Archive[g][i] = Archive[h][j] => g = h /\ i = j

-----------------------------------------------------------------------------
(* The range of a job.                                                     *)

\* end.Before(start) is logged and nothing more.
Reversed == {m \in Message : Instant(JobOf[m].end) < Instant(JobOf[m].start)}

HourOf(instant) ==
    IF instant < Epoch THEN 0
    ELSE IF instant - Epoch < Horizon THEN instant - Epoch ELSE Horizon

\* An end that is behind the reader is never met: Never is no hour.
Never == -1
Start == [m \in Message |-> HourOf(Instant(JobOf[m].start))]
End   == [m \in Message |-> IF m \in Reversed THEN Never ELSE HourOf(Instant(JobOf[m].end))]

VARIABLES
    cur,      (* the job a task is at, the hour, whether the hour is listed,   *)
              (* and the names left to send; or Idle                           *)
    sends,    (* how often a name came to the loader's queue for a job         *)
    refused   (* history: units <<job, object>> a fault took                   *)

vars == <<sqs, service, cur, sends, refused>>

Idle   == [msg |-> "none"]
Held   == {cur[t] : t \in Task} \ {Idle}
Copies == [m \in Message |-> {c \in Held : c.msg = m}]

\* What one call lists: the first page, and nobody asks for the second.
ObjectsIn(h) == IF h \in ArchivedHour THEN Archive[h] ELSE <<>>
FirstPage(h) ==
    SubSeq(ObjectsIn(h), 1, IF Len(ObjectsIn(h)) < PageSize THEN Len(ObjectsIn(h)) ELSE PageSize)

Elements(s)     == {s[i] : i \in DOMAIN s}
UnitsFor(m, ks) == {<<m, k>> : k \in Elements(ks)}
Unit            == Message \X Object

HoursOf(m) == Start[m]..(End[m] - 1)
UnitsOf == [m \in Message |-> UNION {UnitsFor(m, FirstPage(h)) : h \in HoursOf(m)}]

Init ==
    /\ InitQueue(Message) /\ InitService
    /\ cur = [t \in Task |-> Idle]
    /\ sends = [u \in Unit |-> 0] /\ refused = {}

-----------------------------------------------------------------------------
VisibilityExpires(m) ==
    /\ Expire(m, Copies[m])
    /\ UNCHANGED <<service, cur, sends, refused>>

Go(t, c) == cur' = [cur EXCEPT ![t] = c]

\* One job at a time.
Begin(t, m) ==
    /\ cur[t] = Idle
    /\ Go(t, [msg |-> m, rcpt |-> receipt'[m],
              hour |-> Start[m], listed |-> FALSE, keys |-> <<>>])
    /\ UNCHANGED <<service, sends, refused>>

Receive(t, m)        == ReceiveMessages({m}, Copies) /\ Begin(t, m)
ReceiveDeleted(t, m) == ReceiveAgain(m, Copies) /\ Begin(t, m)

\* for !start.Equal(end): an hour that is past the end is one more hour to do.
OneHourLess(t) == cur[t] # Idle /\ cur[t].hour + 1 # End[cur[t].msg]  \* faulty variant
MoreHours(t)   == cur[t] # Idle /\ cur[t].hour # End[cur[t].msg]

AtHour(t) == MoreHours(t) /\ ~cur[t].listed
AtKey(t)  == MoreHours(t) /\ cur[t].listed /\ cur[t].keys # <<>>

ListObjects(t) ==
    /\ AtHour(t)
    /\ Go(t, [cur[t] EXCEPT !.listed = TRUE, !.keys = FirstPage(cur[t].hour)])
    /\ UNCHANGED <<sqs, service, sends, refused>>

\* The error is logged, the hour has no objects.
ListFails(t) ==
    /\ AtHour(t)
    /\ Fault
    /\ Go(t, [cur[t] EXCEPT !.listed = TRUE])
    /\ refused' = refused \cup UnitsFor(cur[t].msg, FirstPage(cur[t].hour))
    /\ UNCHANGED <<sqs, sends>>

UnitAt(t)  == <<cur[t].msg, Head(cur[t].keys)>>
KeyDone(t) == Go(t, [cur[t] EXCEPT !.keys = Tail(@)])

SendMessage(t) ==
    /\ AtKey(t)
    /\ sends' = [sends EXCEPT ![UnitAt(t)] = @ + 1]
    /\ KeyDone(t)
    /\ UNCHANGED <<sqs, service, refused>>

\* The name is in the queue, the reply is lost: SendMessage waits and tries again.
ReplyLost(t) ==
    /\ AtKey(t)
    /\ Fault
    /\ sends' = [sends EXCEPT ![UnitAt(t)] = @ + 1]
    /\ UNCHANGED <<sqs, cur, refused>>

\* Four minutes of retries fail: the error is logged, the loop goes on.
SendFails(t) ==
    /\ AtKey(t)
    /\ Fault
    /\ refused' = refused \cup {UnitAt(t)}
    /\ KeyDone(t)
    /\ UNCHANGED <<sqs, sends>>

HourLater(h)     == IF h < Horizon THEN h + 1 ELSE Horizon

KeepListing(c) == [c EXCEPT !.hour = HourLater(@)]             \* faulty variant
NextHour(c)    == [c EXCEPT !.hour = HourLater(@), !.listed = FALSE]

HourDone(t) ==
    /\ MoreHours(t) /\ cur[t].listed /\ cur[t].keys = <<>>
    /\ Go(t, NextHour(cur[t]))
    /\ UNCHANGED <<sqs, service, sends, refused>>

JobDone(t) == cur[t] # Idle /\ ~MoreHours(t)

DeleteForgotten(t) ==                                          \* faulty variant
    /\ JobDone(t)
    /\ Go(t, Idle)
    /\ UNCHANGED <<sqs, service, sends, refused>>
DeleteMessage(t) ==
    /\ JobDone(t)
    /\ DeleteMessages(cur[t])
    /\ Go(t, Idle)
    /\ UNCHANGED <<service, sends, refused>>

DeleteFails(t) ==
    /\ JobDone(t)
    /\ Fault
    /\ Go(t, Idle)
    /\ UNCHANGED <<sqs, sends, refused>>

Crash(t) ==
    /\ Death
    /\ Go(t, Idle)
    /\ UNCHANGED <<sqs, sends, refused>>

-----------------------------------------------------------------------------
MainLoop(t) ==
    ListObjects(t) \/ SendMessage(t) \/ HourDone(t) \/ DeleteMessage(t)

Next ==
    \/ \E m \in Message : VisibilityExpires(m)
    \/ \E t \in Task :
          \/ \E m \in Message : Receive(t, m) \/ ReceiveDeleted(t, m)
          \/ MainLoop(t)
          \/ ListFails(t) \/ ReplyLost(t) \/ SendFails(t) \/ DeleteFails(t)
          \/ Crash(t)

Spec == Init /\ [][Next]_vars

\* The loop runs, a visibility timeout ends, and a job that keeps becoming
\* visible while a reader is free is received in the end.
Fairness ==
    /\ \A t \in Task : WF_vars(MainLoop(t))
    /\ \A m \in Message :
          /\ WF_vars(Copies[m] = {} /\ VisibilityExpires(m))
          /\ SF_vars(\E t \in Task : Receive(t, m))
FairSpec == Spec /\ Fairness

-----------------------------------------------------------------------------
(* Properties.                                                             *)

Working(c) ==
    /\ c \in [msg : Message, rcpt : Nat, hour : 0..Horizon, listed : BOOLEAN,
              keys : Seq(Object)]
    /\ c.msg \notin Reversed => c.hour \in Start[c.msg]..End[c.msg]
    /\ c.listed => c.hour # End[c.msg]

\* A task at work on a job that ends after it starts is at an hour of that job,
\* and has a listing only for an hour before its end.
TypeOK ==
    /\ QueueTypeOK /\ ServiceTypeOK
    /\ \A t \in Task : cur[t] = Idle \/ Working(cur[t])
    /\ sends \in [Unit -> Nat]
    /\ refused \subseteq Unit

\* What the loader gets twice has a reason: a name is sent once for a job, and
\* once more at most for every reader that died, every call that failed (a send
\* that arrived and lost its reply among them) and every job that came back to
\* the readers too early.
SendsExplained ==
    \A u \in Unit : sends[u] <= 1 + crashes + faults + early

\* The reader is a forwarder of jobs: a job leaves the queue only when every
\* name listed for its hours was sent or hit by a fault, and a job whose end is
\* before its start never leaves it.
F == INSTANCE Forwarder WITH
        removed    <- Deleted,
        handed     <- {u \in Unit : sends[u] > 0},
        refused    <- refused,
        Unreadable <- Reversed
\* In the terms above, startProcess implements the forwarder.
IsForwarder == F!Spec

\* README.md of the reader: it continues until it reaches the end of the range,
\* for every job, and the job leaves the queue.
JobsEnd == \A m \in Message : <>(m \in Deleted)
=============================================================================
