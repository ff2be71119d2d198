---------------------------- MODULE SqsKplLoader ----------------------------
(***************************************************************************)
(* sqs-kpl-loader: puts the records of a dead letter queue back into a     *)
(* stream.  A message is a record; it is deleted only when the sidecar     *)
(* accepted it, and stays in the queue when the sidecar refuses it.        *)
(***************************************************************************)
EXTENDS KplLoader

Init == InitLoader(Message)

-----------------------------------------------------------------------------
(* startProcess.  cur holds the message in hand and whether it was put.    *)

StartMessage(t) ==
    Begin(t, [msg |-> NextInChan(t).msg, rcpt |-> NextInChan(t).rcpt, put |-> FALSE])

InHand(t) == cur[t] # Idle /\ ~cur[t].put

PutAgain(c) == c                                               \* faulty variant
WasPut(c)   == [c EXCEPT !.put = TRUE]

PutRecord(t) ==
    /\ InHand(t)
    /\ Accept(t, cur[t].msg)
    /\ Go(t, WasPut(cur[t]))
    /\ UNCHANGED service

\* The message is left in the queue.
AsIfPut(c) == WasPut(c)                                        \* faulty variant
NotPut(c)  == Idle

PutRecordFails(t) ==
    /\ InHand(t)
    /\ Fault
    /\ Go(t, NotPut(cur[t]))
    /\ UNCHANGED sidecars

MessageDone(t) == cur[t] # Idle /\ cur[t].put

DeleteMessage(t) == MessageDone(t) /\ Delete(t)
DeleteFails(t)   == MessageDone(t) /\ KeepInQueue(t)

-----------------------------------------------------------------------------
MainLoop(t) == StartMessage(t) \/ PutRecord(t) \/ DeleteMessage(t)

Faults(t) == PutRecordFails(t) \/ DeleteFails(t)

Next == Besides \/ \E t \in Task : MainLoop(t) \/ Faults(t)

Spec == Init /\ [][Next]_vars

\* The main loop runs, and the rest as the frame has it.
Fairness == PollingFairness /\ \A t \in Task : WF_vars(MainLoop(t))
FairSpec == Spec /\ Fairness

-----------------------------------------------------------------------------
(* Properties.                                                             *)

\* The loader is a forwarder that refuses nothing: a record leaves the queue
\* only when the sidecar accepted it, whatever fails.
F == INSTANCE Forwarder WITH
        Unit       <- Message,
        UnitsOf    <- [m \in Message |-> {m}],
        Unreadable <- {},
        removed    <- Deleted,
        handed     <- Accepted,
        refused    <- {}
\* In the terms above, startProcess implements the forwarder.
IsForwarder == F!Spec
=============================================================================
