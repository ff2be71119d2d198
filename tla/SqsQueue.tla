------------------------------ MODULE SqsQueue ------------------------------
(***************************************************************************)
(* An SQS standard queue as pkg/sqs uses it.  A message that is received   *)
(* is hidden until its visibility timeout ends or it is deleted by its     *)
(* receipt handle; there is no redrive policy, so it may come back for     *)
(* ever.  The queue delivers at least once: now and then it gives a        *)
(* message out again although a task has it, or although it was deleted.   *)
(* A copy is what a task holds of a message: a record with at least the    *)
(* message and the receipt of its receive.                                 *)
(***************************************************************************)
EXTENDS Integers, FiniteSets

CONSTANTS
    Message,  (* the messages of the queue                                     *)
    MaxEarly  (* bound: deliveries of a message a task holds or has deleted    *)

ASSUME QueueAssumption == MaxEarly \in Nat

VARIABLES
    queue,    (* "unsent", "visible", "inflight" or "deleted", for each message*)
    receipt,  (* the receipt handle of the last receive of a message           *)
    early     (* how often a message came back too early: while a task held it *)
              (* (its visibility timeout was too short, or the queue delivered *)
              (* it again all the same), or when it was deleted                *)

sqs == <<queue, receipt, early>>

InitQueue(sent) ==
    /\ queue = [m \in Message |-> IF m \in sent THEN "visible" ELSE "unsent"]
    /\ receipt = [m \in Message |-> 0]
    /\ early = 0

Visible == {m \in Message : queue[m] = "visible"}

\* What arrives of the attempts a SendMessage makes: each is a message of its own.
Send(ms) ==
    /\ \A m \in ms : queue[m] = "unsent"
    /\ queue' = [m \in Message |-> IF m \in ms THEN "visible" ELSE queue[m]]
    /\ UNCHANGED <<receipt, early>>

\* A message nobody holds comes back for sure, one a task holds may.
Expire(m, copies) ==
    /\ queue[m] = "inflight"
    /\ queue' = [queue EXCEPT ![m] = "visible"]
    /\ IF copies = {} THEN UNCHANGED early ELSE early < MaxEarly /\ early' = early + 1
    /\ UNCHANGED receipt

\* Receipts of a message are told apart; a number no copy carries any more is
\* used again.
FreshReceipt(copies) ==
    CHOOSE n \in 0..Cardinality(copies) :
        /\ \A c \in copies : c.rcpt # n
        /\ \A k \in 0..(n - 1) : \E c \in copies : c.rcpt = k

\* What is received is hidden from other receivers for the visibility timeout.
Hide(got) ==
    /\ got \subseteq Visible
    /\ queue' = [m \in Message |-> IF m \in got THEN "inflight" ELSE queue[m]]

\* ReceiveMessages: copies gives for each message the copies tasks hold of it.
ReceiveMessages(got, copies) ==
    /\ Hide(got)
    /\ receipt' = [m \in Message |->
                      IF m \in got THEN FreshReceipt(copies[m]) ELSE receipt[m]]
    /\ UNCHANGED early

\* The queue delivers m once more although it is deleted.
ReceiveAgain(m, copies) ==
    /\ queue[m] = "deleted"
    /\ early < MaxEarly /\ early' = early + 1
    /\ receipt' = [receipt EXCEPT ![m] = FreshReceipt(copies[m])]
    /\ UNCHANGED queue

\* DeleteMessages: the queue honours the receipt of the last receive; with an
\* older one it may or may not delete.
DeleteMessages(copy) ==
    /\ \/ queue' = [queue EXCEPT ![copy.msg] = "deleted"]
       \/ copy.rcpt # receipt[copy.msg] /\ UNCHANGED queue
    /\ UNCHANGED <<receipt, early>>

Deleted == {m \in Message : queue[m] = "deleted"}

QueueTypeOK ==
    /\ queue \in [Message -> {"unsent", "visible", "inflight", "deleted"}]
    /\ receipt \in [Message -> Nat]
    /\ early \in 0..MaxEarly
=============================================================================
