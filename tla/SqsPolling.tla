----------------------------- MODULE SqsPolling -----------------------------
(***************************************************************************)
(* The frame the loaders share: a poller goroutine that receives batches   *)
(* and sends them on one message at a time, a bounded channel, and a main  *)
(* loop with one message in hand.                                          *)
(***************************************************************************)
EXTENDS Service, SqsQueue, Sequences

CONSTANT
    MaxMessages   (* sqsMaxMessages: of one receive, and the channel's size    *)

ASSUME PollingAssumption == MaxMessages \in Nat \ {0}

VARIABLES
    batch,  (* what a task's poller received and has not sent on               *)
    chan,   (* a task's channel of messages                                    *)
    cur     (* the message in a task's main loop and where the loop is with    *)
            (* it, or Idle                                                     *)

polling == <<batch, chan, cur>>

Idle == [msg |-> "none"]

InitPolling(sent) ==
    /\ InitQueue(sent)
    /\ batch = [t \in Task |-> <<>>]
    /\ chan = [t \in Task |-> <<>>]
    /\ cur = [t \in Task |-> Idle]

Elements(s) == {s[i] : i \in DOMAIN s}
Held(t) == Elements(batch[t]) \cup Elements(chan[t]) \cup ({cur[t]} \ {Idle})
Copies  == [m \in Message |-> UNION {{c \in Held(t) : c.msg = m} : t \in Task}]

VisibilityExpires(m) ==
    /\ Expire(m, Copies[m])
    /\ UNCHANGED <<polling, service>>

\* pollSqs is back at ReceiveMessages only when all of its last batch is in the
\* channel.  A receive that fails returns no messages and changes nothing.
Receive(t, ms) ==
    /\ batch[t] = <<>>
    /\ ReceiveMessages(Elements(ms), Copies)
    /\ batch' = [batch EXCEPT ![t] =
                    [i \in DOMAIN ms |-> [msg |-> ms[i], rcpt |-> receipt'[ms[i]]]]]
    /\ UNCHANGED <<chan, cur, service>>

\* A batch is a sequence of different visible messages.
Batches ==
    UNION {{ms \in [1..n -> Visible] : \A i, j \in 1..n : i # j => ms[i] # ms[j]}
           : n \in 1..MaxMessages}

\* The channel blocks the poller when it is full.
Push(t) ==
    /\ batch[t] # <<>>
    /\ Len(chan[t]) < MaxMessages
    /\ chan'  = [chan EXCEPT ![t] = Append(@, Head(batch[t]))]
    /\ batch' = [batch EXCEPT ![t] = Tail(@)]
    /\ UNCHANGED <<sqs, cur, service>>

\* The same with a message that was deleted.
ReceiveDeleted(t, m) ==
    /\ batch[t] = <<>>
    /\ ReceiveAgain(m, Copies)
    /\ batch' = [batch EXCEPT ![t] = <<[msg |-> m, rcpt |-> receipt'[m]]>>]
    /\ UNCHANGED <<chan, cur, service>>

Poll(t) ==
    \/ \E ms \in Batches : Receive(t, ms)
    \/ \E m \in Message : ReceiveDeleted(t, m)
    \/ Push(t)

\* The main loop takes the next message of the channel when it has none, and
\* then works on it: these set chan and cur and leave the rest alone.
Free(t)       == cur[t] = Idle /\ chan[t] # <<>>
NextInChan(t) == Head(chan[t])
Take(t)       == chan' = [chan EXCEPT ![t] = Tail(@)]

\* It has c in hand next.
Go(t, c) == cur' = [cur EXCEPT ![t] = c] /\ UNCHANGED <<sqs, batch, chan>>

Discard(t) == Free(t) /\ Take(t) /\ UNCHANGED <<sqs, batch, cur>>

\* A dead task forgets all it holds; its messages come back in time.
Forget(t) ==
    /\ batch' = [batch EXCEPT ![t] = <<>>]
    /\ chan'  = [chan EXCEPT ![t] = <<>>]
    /\ cur'   = [cur EXCEPT ![t] = Idle]
    /\ UNCHANGED sqs

ReceiveOf(m) == \E t \in Task : \E ms \in Batches : m \in Elements(ms) /\ Receive(t, ms)

Copy == [msg : Message, rcpt : Nat]

PollingTypeOK ==
    /\ QueueTypeOK
    /\ \A t \in Task :
          /\ Elements(batch[t]) \subseteq Copy
          /\ Elements(chan[t]) \subseteq Copy
          /\ Len(chan[t]) <= MaxMessages
=============================================================================
