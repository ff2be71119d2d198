----------------------------- MODULE DeadLetters -----------------------------
(***************************************************************************)
(* The ingest, the dead letter queue its error handlers send to, and       *)
(* sqs-kpl-loader, which puts what is in that queue back into the raw      *)
(* stream.  A message <<u, n>> of the queue is the n-th with the data of   *)
(* an event u of a request.  What the replay's own sidecar refuses goes to *)
(* a second queue, which nobody reads.  Each side has its own budget of    *)
(* faults.                                                                 *)
(***************************************************************************)
EXTENDS SqsKplLoader

CONSTANTS
    Server, ServerFaults, ServerCrashes,        (* the tasks of the ingest     *)
    Request, Body, Encrypts, Quiet, Threshold

VARIABLES
    handling, answer, down, inService, streak,
    serverKpl, rawStream, rawDlq, serverLost, serverRefused,
    serverFaultCount, serverCrashCount,
    puts      (* history: how often the replay put a message                   *)

I == INSTANCE HttpIngest WITH
        Task <- Server, MaxFaults <- ServerFaults, MaxCrashes <- ServerCrashes,
        kpl <- serverKpl, stream <- rawStream, dlq <- rawDlq,
        lost <- serverLost, refused <- serverRefused,
        faults <- serverFaultCount, crashes <- serverCrashCount

ingest == <<handling, answer, down, inService, streak, serverKpl, rawStream, rawDlq,
            serverLost, serverRefused, serverFaultCount, serverCrashCount>>

ASSUME DeadLetterAssumption ==
    /\ I!ServiceAssumption
    /\ \A r \in Request : \A i \in DOMAIN Body[r] :
          {<<r, i>>} \X (1..ServerFaults) \subseteq Message

DeadLettersInit ==
    /\ I!Init
    /\ InitLoader({})
    /\ puts = [m \in Message |-> 0]

-----------------------------------------------------------------------------
\* What an error handler of the ingest sends is a message from then on.
Sent ==
    /\ Send(rawDlq' \ rawDlq)
    /\ UNCHANGED <<polling, sidecars, service>>

PutBy(t, m) == InHand(t) /\ cur[t].msg = m /\ cur'[t] # Idle /\ cur'[t].put
CountPuts ==
    puts' = [m \in Message |-> puts[m] + Cardinality({t \in Task : PutBy(t, m)})]

DeadLettersNext ==
    \/ I!Next /\ Sent /\ UNCHANGED puts
    \/ Next /\ CountPuts /\ UNCHANGED ingest

\* What the ingest does is not hurried, the replay runs.
DeadLettersSpec ==
    /\ DeadLettersInit
    /\ [][DeadLettersNext]_<<vars, ingest, puts>>
    /\ Fairness

-----------------------------------------------------------------------------
(* Properties.                                                             *)

Waiting     == {m \in Message : queue[m] \in {"visible", "inflight"}}
Events(ms)  == {m[1] : m \in ms}

\* An event a sidecar of the ingest took does not vanish: it is in that sidecar
\* or the raw stream, it waits in the dead letter queue, the replay's sidecar has
\* had it, or a sidecar that died or an error handler that could not reach its
\* queue lost it.
EventsAccounted ==
    I!Accepted \subseteq
        (UNION {serverKpl[s] : s \in Server}) \cup rawStream \cup serverLost
            \cup Events(Waiting) \cup Events(Accepted)

\* The raw stream gets a dead letter twice only for a reason.  An event is one
\* message for its rejection and one more for every reply to SendMessage that was
\* lost; and a message is put once, and once more for every put that was not
\* followed by its delete (the task died, the delete failed) and for every time
\* the message came back too early.
PutsExplained ==
    /\ \A u \in Events(rawDlq) :
          Cardinality({m \in rawDlq : m[1] = u}) <= serverFaultCount
    /\ \A m \in Message : puts[m] <= 1 + crashes + faults + early

\* Every message sent to the dead letter queue is put back and deleted in the end,
\* whenever it was sent, and although the poller waits when the channel is full.
DeadLettersReplayed == \A m \in Message : m \in rawDlq ~> m \in Deleted
=============================================================================
