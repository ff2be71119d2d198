---------------------------- MODULE MCDeadLetters ----------------------------
(***************************************************************************)
(* One request: a good event, and a second whose session id is a long      *)
(* array, at which the handler panics.  The good event may be up to two    *)
(* messages of the queue.                                                  *)
(***************************************************************************)
EXTENDS DeadLetters, TLC

CONSTANT r1

P == INSTANCE EventPayload

Plain ==
    [eventName |-> P!Text(12), eventType |-> P!Text(8), session |-> P!Absent,
     sessionid |-> P!Absent, ipAddress |-> P!Absent]
OddId == [Plain EXCEPT !.session = P!Other(30)]

OneBatch   == r1 :> <<Plain, OddId>>
OneBatchOf == ({r1} \X (1..2)) \X (1..ServerFaults)
=============================================================================
