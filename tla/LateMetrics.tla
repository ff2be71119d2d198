---------------------------- MODULE LateMetrics ----------------------------
(***************************************************************************)
(* late_s3_metrics: for every object that lands in the late bucket, adds   *)
(* the number of its rows to a metric an alarm watches.  The call for an   *)
(* S3 event is asynchronous: one that fails is repeated from its first     *)
(* object, and given up after MaxTries.                                    *)
(***************************************************************************)
EXTENDS Integers, Sequences, FiniteSets

CONSTANTS
    S3Event,
    Object,
    Records,     (* the objects of each event, all different                   *)
    MaxTries,    (* calls for one event (3: an asynchronous call and 2 retries) *)
    MaxFaults    (* bound: failing calls, and events delivered once more       *)

ASSUME LateAssumption ==
    /\ Records \in [S3Event -> Seq(Object)]
    /\ MaxTries \in Nat \ {0}
    /\ MaxFaults \in Nat

VARIABLES
    status,    (* "waiting", "running", "done" or "dropped", for each event    *)
    at,        (* the record the loop of its call is at                        *)
    got,       (* what its call has of that object: "none", "whole" or "short" *)
    tries,     (* calls for it that failed                                     *)
    resent,    (* puts of its calls that the client repeated                   *)
    counted,   (* how often a count of an object's rows went into the metric   *)
    short,     (* how often that was the count of a part of them               *)
    skipped,   (* objects that could not be read                               *)
    again,     (* events delivered once more                                   *)
    faults

call == <<status, at, got>>
metric == <<counted, short>>
vars == <<call, tries, resent, metric, skipped, again, faults>>

Init ==
    /\ status = [e \in S3Event |-> "waiting"]
    /\ at = [e \in S3Event |-> 1]
    /\ got = [e \in S3Event |-> "none"]
    /\ tries = [e \in S3Event |-> 0]
    /\ resent = [e \in S3Event |-> 0]
    /\ counted = [e \in S3Event |-> [o \in Object |-> 0]]
    /\ short = counted
    /\ skipped = [e \in S3Event |-> {}]
    /\ again = {}
    /\ faults = 0

Fault == faults < MaxFaults /\ faults' = faults + 1

Invoke(e) ==
    /\ status[e] = "waiting"
    /\ status' = [status EXCEPT ![e] = "running"]
    /\ at' = [at EXCEPT ![e] = 1]
    /\ got' = [got EXCEPT ![e] = "none"]
    /\ UNCHANGED <<tries, resent, metric, skipped, again, faults>>

InLoop(e)   == status[e] = "running" /\ at[e] \in DOMAIN Records[e]
ObjectAt(e) == Records[e][at[e]]
HasBody(e)  == InLoop(e) /\ got[e] # "none"
SkipTwo(e) ==                                                  \* faulty variant
    at' = [at EXCEPT ![e] = @ + 2] /\ got' = [got EXCEPT ![e] = "none"]
NextRecord(e) ==
    at' = [at EXCEPT ![e] = @ + 1] /\ got' = [got EXCEPT ![e] = "none"]

\* The error of GetObject is logged, the loop goes on with the next record.
GetObjectFails(e) ==
    /\ InLoop(e) /\ got[e] = "none"
    /\ Fault
    /\ skipped' = [skipped EXCEPT ![e] = @ \cup {ObjectAt(e)}]
    /\ NextRecord(e)
    /\ UNCHANGED <<status, tries, resent, metric, again>>

GetObject(e) ==
    /\ InLoop(e) /\ got[e] = "none"
    /\ got' = [got EXCEPT ![e] = "whole"]
    /\ UNCHANGED <<status, at, tries, resent, metric, skipped, again, faults>>

\* The body breaks off; the error of ReadFrom is dropped, and the rows up to
\* there are counted as if they were all.
GetObjectTruncated(e) ==
    /\ InLoop(e) /\ got[e] = "none"
    /\ Fault
    /\ got' = [got EXCEPT ![e] = "short"]
    /\ UNCHANGED <<status, at, tries, resent, metric, skipped, again>>

Count(e) ==
    /\ counted' = [counted EXCEPT ![e][ObjectAt(e)] = @ + 1]
    /\ short' = IF got[e] = "short" THEN [short EXCEPT ![e][ObjectAt(e)] = @ + 1]
                                    ELSE short

PutMetricData(e) ==
    /\ HasBody(e)
    /\ Count(e)
    /\ NextRecord(e)
    /\ UNCHANGED <<status, tries, resent, skipped, again, faults>>

\* The metric took the data, the reply was lost and the client sends it again.
PutMetricResent(e) ==
    /\ HasBody(e)
    /\ Fault
    /\ Count(e)
    /\ resent' = [resent EXCEPT ![e] = @ + 1]
    /\ UNCHANGED <<call, tries, skipped, again>>

RetryUncounted(e) ==                                           \* faulty variant
    status' = [status EXCEPT ![e] = "waiting"] /\ UNCHANGED tries
CallFails(e) ==
    /\ tries' = [tries EXCEPT ![e] = @ + 1]
    /\ status' = [status EXCEPT ![e] = IF tries[e] + 1 < MaxTries THEN "waiting" ELSE "dropped"]

\* The error of PutMetricData ends the call, whether the metric took the data or
\* not.
PutMetricFails(e) ==
    /\ HasBody(e)
    /\ Fault
    /\ Count(e) \/ UNCHANGED metric
    /\ CallFails(e)
    /\ UNCHANGED <<at, got, resent, skipped, again>>

\* So does the time limit, wherever the call is.
TimesOut(e) ==
    /\ status[e] = "running"
    /\ Fault
    /\ CallFails(e)
    /\ UNCHANGED <<at, got, resent, metric, skipped, again>>

Finish(e) ==
    /\ status[e] = "running" /\ at[e] \notin DOMAIN Records[e]
    /\ status' = [status EXCEPT ![e] = "done"]
    /\ UNCHANGED <<at, got, tries, resent, metric, skipped, again, faults>>

\* S3 delivers an event at least once.
DeliverAgain(e) ==
    /\ status[e] = "done" /\ e \notin again
    /\ Fault
    /\ again' = again \cup {e}
    /\ status' = [status EXCEPT ![e] = "waiting"]
    /\ UNCHANGED <<at, got, tries, resent, metric, skipped>>

Next ==
    \E e \in S3Event :
        \/ Invoke(e) \/ GetObject(e) \/ PutMetricData(e) \/ Finish(e)
        \/ GetObjectFails(e) \/ GetObjectTruncated(e)
        \/ PutMetricResent(e) \/ PutMetricFails(e) \/ TimesOut(e)
        \/ DeliverAgain(e)

Spec == Init /\ [][Next]_vars

-----------------------------------------------------------------------------
(* Properties.                                                             *)

\* An object is in the metric more than once only because calls for its event
\* failed, a put of one was repeated or the event came again: at most once for
\* each call and each repetition.
RecountsExplained ==
    \A e \in S3Event : \A o \in Object :
        counted[e][o] <= 1 + tries[e] + resent[e] + (IF e \in again THEN 1 ELSE 0)

\* An event is done only if of each of its objects all rows were counted, in
\* whichever of its calls, or it could not be read, or not to its end.
F == INSTANCE Forwarder WITH
        Message    <- S3Event,
        Unit       <- S3Event \X Object,
        UnitsOf    <- [e \in S3Event |-> {e} \X {Records[e][i] : i \in DOMAIN Records[e]}],
        Unreadable <- {},
        removed    <- {e \in S3Event : status[e] = "done" \/ e \in again},
        handed     <- {u \in S3Event \X Object : counted[u[1]][u[2]] > short[u[1]][u[2]]},
        refused    <- UNION {{e} \X (skipped[e] \cup {o \in Object : short[e][o] > 0})
                             : e \in S3Event}
\* In the terms above, lambdaHandler implements the forwarder.
IsForwarder == F!Spec
=============================================================================
