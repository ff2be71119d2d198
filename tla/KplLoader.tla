------------------------------ MODULE KplLoader ------------------------------
(***************************************************************************)
(* What the three loaders have in common: the poller, the channel and the  *)
(* main loop of a task, its KPL sidecars, and how a message ends.  A       *)
(* loader says what its main loop does with the message in hand.           *)
(***************************************************************************)
EXTENDS SqsPolling, KplSidecar

vars == <<sqs, polling, sidecars, service>>

InitLoader(sent) == InitPolling(sent) /\ InitSidecars /\ InitService

\* The main loop takes the next message, to work on it as c.
Begin(t, c) ==
    /\ Free(t)
    /\ Take(t)
    /\ cur' = [cur EXCEPT ![t] = c]
    /\ UNCHANGED <<sqs, batch, sidecars, service>>

\* The message in hand is deleted, or the call fails and its error is dropped:
\* then the message is back after its visibility timeout.
DeleteForgotten(t) ==                                          \* faulty variant
    /\ cur' = [cur EXCEPT ![t] = Idle]
    /\ UNCHANGED <<sqs, batch, chan, sidecars, service>>
Delete(t) ==
    /\ DeleteMessages(cur[t])
    /\ cur' = [cur EXCEPT ![t] = Idle]
    /\ UNCHANGED <<batch, chan, sidecars, service>>

KeepInQueue(t) ==
    /\ Fault
    /\ Go(t, Idle)
    /\ UNCHANGED sidecars

-----------------------------------------------------------------------------
(* What runs beside the main loop.                                         *)

Reject(t, u) == ErrHandler(t, u) /\ UNCHANGED <<sqs, polling>>

\* The task dies with everything it holds, and its sidecars with it.
Panic(t) == Forget(t) /\ SidecarsDie(t)
Crash(t) == Death /\ Panic(t)

Besides ==
    \/ \E m \in Message : VisibilityExpires(m) /\ UNCHANGED sidecars
    \/ \E t \in Task :
          \/ Poll(t) /\ UNCHANGED sidecars
          \/ \E u \in kpl[t] : Reject(t, u)
          \/ Crash(t)

\* The poller runs, visibility timeouts end, and a message that keeps becoming
\* visible is received in the end.
PollingFairness ==
    /\ \A t \in Task : WF_vars(Push(t) /\ UNCHANGED sidecars)
    /\ \A m \in Message :
          /\ WF_vars(Copies[m] = {} /\ VisibilityExpires(m) /\ UNCHANGED sidecars)
          /\ SF_vars(ReceiveOf(m) /\ UNCHANGED sidecars)
=============================================================================
