-------------------------- MODULE DeadLettersProofs --------------------------
(***************************************************************************)
(* The replay of the dead letter queue of the ingest, for any number of    *)
(* tasks, events, faults and deaths on either side: the replay implements  *)
(* Forwarder, no event an ingest sidecar took vanishes, and every put too  *)
(* many has a reason.                                                      *)
(*                                                                         *)
(* PutsExplained is not inductive.  The messages with an event are         *)
(* numbered up to the faults of the ingest.  A copy that came back to the  *)
(* queue will be put in its time, and the reason for that put is spent.    *)
(* Explained counts the copies that are due beside the puts that were      *)
(* made, and needs what KplLoaderProofs knows of who holds a receipt.      *)
(***************************************************************************)
EXTENDS DeadLetters, KplLoaderProofs

Place(c, accepted) ==
    /\ c \in [msg : Message, rcpt : Nat, put : BOOLEAN]
    /\ c.put => c.msg \in accepted

LInv ==
    /\ Shared
    /\ \A t \in Task : cur[t] = Idle \/ Place(cur[t], Accepted)
    /\ Deleted \subseteq Accepted

Mapped == <<Deleted, Accepted, {}>>

-----------------------------------------------------------------------------
(* The replay by itself.                                                   *)

\* A step that disturbs the main loop of t alone and deletes nothing.
LEMMA LoopStep ==
    ASSUME LInv, Shared', NEW t \in Task,
           \A u \in Task \ {t} : cur'[u] = cur[u] \/ cur'[u] = Idle,
           cur'[t] = Idle \/ Place(cur'[t], Accepted'),
           Accepted \subseteq Accepted', Deleted' = Deleted
    PROVE  LInv'
BY DEF LInv, Place, Idle

LEMMA BesidesSimulates ==
    ASSUME LInv, Besides
    PROVE  LInv' /\ UNCHANGED Mapped
<1>1. /\ Shared' /\ Deleted' = Deleted /\ Accepted' = Accepted
      /\ \A t \in Task : cur'[t] = cur[t] \/ cur'[t] = Idle
  BY BesidesKeepsShared DEF LInv
<1>2. QED
  BY <1>1 DEF LInv, Mapped, Idle

LEMMA StartMessageSimulates ==
    ASSUME LInv, NEW t \in Task, StartMessage(t)
    PROVE  LInv' /\ UNCHANGED Mapped
<1> DEFINE c == [msg |-> NextInChan(t).msg, rcpt |-> NextInChan(t).rcpt, put |-> FALSE]
<1>1. Begin(t, c)
  BY DEF StartMessage
<1> HIDE DEF c
<1>2. /\ Shared' /\ Deleted' = Deleted /\ Accepted' = Accepted
      /\ cur'[t] = c /\ (\A u \in Task \ {t} : cur'[u] = cur[u])
      /\ NextInChan(t) \in Copy
  BY <1>1, BeginKeepsShared DEF LInv
<1>3. Place(c, Accepted)
  BY <1>2 DEF c, Place, Copy
<1>4. QED
  BY <1>2, <1>3, LoopStep DEF Mapped

\* What is in a main loop is a copy and a mark.
LEMMA InLoopFacts ==
    ASSUME LInv, NEW t \in Task, cur[t] # Idle
    PROVE  /\ cur[t] \in [msg : Message, rcpt : Nat, put : BOOLEAN]
           /\ cur[t].msg \in Message /\ cur[t].rcpt \in Nat
           /\ WasPut(cur[t]) = [msg |-> cur[t].msg, rcpt |-> cur[t].rcpt, put |-> TRUE]
           /\ WasPut(cur[t]) # Idle
<1>1. cur[t] \in [msg : Message, rcpt : Nat, put : BOOLEAN]
  BY DEF LInv, Place
<1>2. ASSUME NEW c \in [msg : Message, rcpt : Nat, put : BOOLEAN], NEW b \in BOOLEAN
      PROVE  [c EXCEPT !.put = b] = [msg |-> c.msg, rcpt |-> c.rcpt, put |-> b]
  OBVIOUS
<1>3. WasPut(cur[t]) = [msg |-> cur[t].msg, rcpt |-> cur[t].rcpt, put |-> TRUE]
  BY <1>1, <1>2, Zenon DEF WasPut
<1>4. QED
  BY <1>1, <1>3 DEF Idle

LEMMA PutRecordSimulates ==
    ASSUME LInv, NEW t \in Task, PutRecord(t)
    PROVE  LInv' /\ F!Next
<1>1. /\ cur[t] # Idle /\ Accept(t, cur[t].msg) /\ Go(t, WasPut(cur[t]))
      /\ UNCHANGED service
  BY DEF PutRecord, InHand
<1>2. /\ Shared' /\ Deleted' = Deleted /\ Accepted' = Accepted \cup {cur[t].msg}
      /\ cur'[t] = WasPut(cur[t]) /\ \A u \in Task \ {t} : cur'[u] = cur[u]
  BY <1>1, PutKeepsShared DEF LInv
<1>3. cur[t].msg \in Message /\ Place(WasPut(cur[t]), Accepted')
  <2>1. cur[t].msg \in Message /\ cur[t].rcpt \in Nat
        /\ WasPut(cur[t]) = [msg |-> cur[t].msg, rcpt |-> cur[t].rcpt, put |-> TRUE]
    BY <1>1, InLoopFacts
  <2>2. QED
    BY <1>2, <2>1 DEF Place
<1>4. LInv'
  BY <1>2, <1>3, LoopStep
<1>5. F!Hand(cur[t].msg)
  BY <1>2 DEF F!Hand
<1>6. QED
  BY <1>3, <1>4, <1>5 DEF F!Next

\* The record the sidecar refuses, and the delete that fails.
LEMMA DropsSimulate ==
    ASSUME LInv, NEW t \in Task, PutRecordFails(t) \/ DeleteFails(t)
    PROVE  LInv' /\ UNCHANGED Mapped
<1>1. Fault /\ Go(t, Idle) /\ UNCHANGED sidecars
  BY DEF PutRecordFails, NotPut, DeleteFails, KeepInQueue
<1>2. /\ Shared' /\ Deleted' = Deleted /\ Accepted' = Accepted
      /\ cur'[t] = Idle /\ \A u \in Task \ {t} : cur'[u] = cur[u]
  BY <1>1, GoKeepsShared DEF LInv
<1>3. QED
  BY <1>2, LoopStep DEF Mapped

LEMMA DeleteMessageSimulates ==
    ASSUME LInv, NEW t \in Task, DeleteMessage(t)
    PROVE  LInv' /\ [F!Next]_Mapped
<1> DEFINE m == cur[t].msg
<1>1. Delete(t) /\ m \in Message /\ m \in Accepted
  BY DEF DeleteMessage, MessageDone, LInv, Place
<1>2. /\ Shared' /\ Accepted' = Accepted
      /\ Deleted \subseteq Deleted' /\ Deleted' \subseteq Deleted \cup {m}
      /\ cur'[t] = Idle /\ \A u \in Task \ {t} : cur'[u] = cur[u]
  BY <1>1, DeleteKeepsShared DEF LInv
<1>3. LInv'
  BY <1>1, <1>2 DEF LInv
<1>4. CASE Deleted' = Deleted
  BY <1>2, <1>3, <1>4 DEF Mapped
<1>5. CASE Deleted' = Deleted \cup {m}
  <2>1. F!Remove(m)
    BY <1>1, <1>2, <1>5 DEF F!Remove
  <2>2. QED
    BY <1>1, <1>3, <2>1 DEF F!Next
<1>6. QED
  BY <1>2, <1>4, <1>5

LEMMA StepImplies == LInv /\ [Next]_vars => LInv' /\ [F!Next]_Mapped
<1> SUFFICES ASSUME LInv, [Next]_vars PROVE LInv' /\ [F!Next]_Mapped
  OBVIOUS
<1>1. CASE UNCHANGED vars
  <2>1. Shared' /\ UNCHANGED <<Deleted, Accepted, cur>>
    BY <1>1, StutterKeepsShared DEF LInv
  <2>2. QED
    BY <2>1 DEF LInv, Mapped, Idle
<1>2. QED
  BY <1>1, BesidesSimulates, StartMessageSimulates, PutRecordSimulates,
     DropsSimulate, DeleteMessageSimulates DEF Next, MainLoop, Faults

LEMMA InitImplies ==
    ASSUME NEW sent, InitLoader(sent)
    PROVE  LInv /\ F!Init
BY InitShared DEF LInv, F!Init

\* sqs-kpl-loader by itself implements the forwarder: of a queue that is full from
\* the start it deletes only what its sidecar accepted.
THEOREM Refinement == Spec => IsForwarder
<1>1. Init => LInv /\ F!Init
  BY InitImplies DEF Init
<1>2. LInv /\ [Next]_vars => LInv' /\ [F!Next]_Mapped
  BY StepImplies
<1>3. QED
  BY <1>1, <1>2, PTL DEF Spec, IsForwarder, F!Spec, Mapped

-----------------------------------------------------------------------------
(* The ingest, as far as its dead letters go.                              *)

Units == UNION {{r} \X (DOMAIN Body[r]) : r \in Request}

LEMMA ServerFaultsType == ServerFaults \in Nat
BY DeadLetterAssumption DEF I!ServiceAssumption

\* Whatever a sidecar of the ingest took is an event, and the messages with an event
\* are numbered up to the faults there were: each sending costs one.
IngestInv ==
    /\ serverKpl = [s \in Server |-> serverKpl[s]]
    /\ \A s \in Server : serverKpl[s] \subseteq Units
    /\ serverFaultCount \in 0..ServerFaults
    /\ rawDlq \subseteq Units \X (1..serverFaultCount)

OnlyMessages == rawDlq \subseteq Message

LEMMA DeadLettersAreMessages == IngestInv => OnlyMessages
<1> SUFFICES ASSUME IngestInv, NEW m \in rawDlq PROVE m \in Message
  BY DEF OnlyMessages
<1>1. PICK u \in Units, n \in 1..serverFaultCount : m = <<u, n>>
  BY DEF IngestInv
<1>2. PICK r \in Request : \E i \in DOMAIN Body[r] : u = <<r, i>>
  BY DEF Units
<1>3. n \in 1..ServerFaults
  BY ServerFaultsType DEF IngestInv
<1>4. QED
  BY <1>1, <1>2, <1>3, DeadLetterAssumption

LEMMA IngestStep ==
    ASSUME IngestInv, I!Next \/ UNCHANGED ingest
    PROVE  IngestInv' /\ rawDlq \subseteq rawDlq'
<1>0. /\ ServerFaults \in Nat /\ serverFaultCount \in Nat
      /\ serverFaultCount <= ServerFaults
  BY ServerFaultsType DEF IngestInv
<1>1. ASSUME UNCHANGED rawDlq, serverFaultCount' = serverFaultCount \/ I!Fault,
             serverKpl' = [s \in Server |-> serverKpl'[s]],
             \A s \in Server : serverKpl'[s] \subseteq Units
      PROVE  IngestInv' /\ rawDlq \subseteq rawDlq'
  <2>1. serverFaultCount' \in 0..ServerFaults /\ serverFaultCount <= serverFaultCount'
    BY <1>0, <1>1 DEF I!Fault
  <2>2. 1..serverFaultCount \subseteq 1..serverFaultCount'
    BY <1>0, <2>1
  <2>3. QED
    BY <1>1, <2>1, <2>2 DEF IngestInv
<1>2. ASSUME NEW r \in Request, I!PutRecord(r)
      PROVE  IngestInv' /\ rawDlq \subseteq rawDlq'
  <2> DEFINE s == handling[r].task
             u == <<r, handling[r].next>>
  <2>1. /\ serverKpl' = [serverKpl EXCEPT ![s] = @ \cup {u}]
        /\ rawDlq' = rawDlq /\ handling[r].next \in DOMAIN Body[r]
        /\ serverFaultCount' = serverFaultCount
    BY <1>2 DEF I!PutRecord, I!Puttable, I!InLoop, I!Accept, I!UnitAt, I!service
  <2>2. u \in Units
    BY <2>1 DEF Units
  <2> HIDE DEF s, u
  <2>3. /\ serverKpl' = [v \in Server |-> serverKpl'[v]]
        /\ \A v \in Server : serverKpl'[v] \subseteq serverKpl[v] \cup {u}
    BY <2>1 DEF IngestInv
  <2>4. QED
    BY <1>1, <2>1, <2>2, <2>3 DEF IngestInv
<1>3. ASSUME NEW s \in Server, NEW u \in serverKpl[s], I!KinesisError(s, u)
      PROVE  IngestInv' /\ rawDlq \subseteq rawDlq'
  <2>1. serverKpl' = [serverKpl EXCEPT ![s] = @ \ {u}]
    BY <1>3 DEF I!KinesisError, I!ErrHandler
  <2>2. PICK n \in 0..(ServerFaults - serverFaultCount) :
            /\ serverFaultCount' = serverFaultCount + (IF n = 0 THEN 1 ELSE n)
            /\ rawDlq' = rawDlq \cup {<<u, k>> : k \in 1..n}
    BY <1>3 DEF I!KinesisError, I!ErrHandler
  <2>3. serverFaultCount < ServerFaults
    BY <1>3 DEF I!KinesisError, I!ErrHandler
  <2>4. /\ serverFaultCount' \in 0..ServerFaults /\ serverFaultCount <= serverFaultCount'
        /\ n \in Nat /\ n <= serverFaultCount'
    BY <1>0, <2>2, <2>3
  <2>5. 1..serverFaultCount \subseteq 1..serverFaultCount' /\ 1..n \subseteq 1..serverFaultCount'
    BY <1>0, <2>4
  <2>6. u \in Units
    BY DEF IngestInv
  <2>7. {<<u, k>> : k \in 1..n} \subseteq Units \X (1..serverFaultCount')
    BY <2>5, <2>6
  <2>8. rawDlq' \subseteq Units \X (1..serverFaultCount')
    BY <2>2, <2>5, <2>7 DEF IngestInv
  <2>9. /\ serverKpl' = [v \in Server |-> serverKpl'[v]]
        /\ \A v \in Server : serverKpl'[v] \subseteq serverKpl[v]
    BY <2>1 DEF IngestInv
  <2>10. QED
    BY <2>2, <2>4, <2>8, <2>9 DEF IngestInv
<1>4. ASSUME NEW s \in Server, I!Stop(s), serverFaultCount' = serverFaultCount
      PROVE  IngestInv' /\ rawDlq \subseteq rawDlq'
  <2>1. serverKpl' = [serverKpl EXCEPT ![s] = {}] /\ rawDlq' = rawDlq
    BY <1>4 DEF I!Stop, I!SidecarsDie
  <2>2. /\ serverKpl' = [v \in Server |-> serverKpl'[v]]
        /\ \A v \in Server : serverKpl'[v] \subseteq serverKpl[v]
    BY <2>1 DEF IngestInv
  <2>3. QED
    BY <1>1, <1>4, <2>1, <2>2 DEF IngestInv
<1>5. ASSUME NEW r \in Request,
             \/ \E s \in Server : I!Route(r, s)
             \/ I!Screen(r) \/ I!EventInvalid(r) \/ I!EventPanics(r) \/ I!Finish(r)
             \/ I!BodyUnreadable(r) \/ I!SecretFails(r) \/ I!SecretNoKey(r)
             \/ I!PutRecordFails(r)
      PROVE  IngestInv' /\ rawDlq \subseteq rawDlq'
  <2>1. UNCHANGED <<serverKpl, rawDlq>>
    BY <1>5 DEF I!Route, I!Screen, I!EventInvalid, I!EventPanics, I!Finish,
                I!BodyUnreadable, I!SecretFails, I!SecretNoKey, I!PutRecordFails,
                I!Refuse, I!sidecars
  <2>2. serverFaultCount' = serverFaultCount \/ I!Fault
    BY <1>5 DEF I!Route, I!Screen, I!EventInvalid, I!EventPanics, I!Finish,
                I!BodyUnreadable, I!SecretFails, I!SecretNoKey, I!PutRecordFails, I!service
  <2>3. QED
    BY <1>1, <2>1, <2>2 DEF IngestInv
<1>6. CASE I!Interval \/ UNCHANGED ingest
  <2>1. UNCHANGED <<serverKpl, rawDlq, serverFaultCount>>
    BY <1>6 DEF I!Interval, I!sidecars, I!service, ingest
  <2>2. QED
    BY <1>1, <2>1 DEF IngestInv
<1>7. ASSUME NEW s \in Server, I!Replace(s) \/ I!Crash(s)
      PROVE  IngestInv' /\ rawDlq \subseteq rawDlq'
  BY <1>4, <1>7 DEF I!Replace, I!Crash, I!Death, I!service
<1>8. QED
  BY <1>2, <1>3, <1>5, <1>6, <1>7 DEF I!Next, I!ProcessData

-----------------------------------------------------------------------------
(* The two together.                                                       *)

Arrived == \A m \in rawDlq : queue[m] # "unsent"

\* Messages are sent, or nothing of the replay changes.
LEMMA SentFacts ==
    ASSUME IngestInv, QueueTypeOK, I!Next, Sent
    PROVE  /\ UNCHANGED <<polling, sidecars, service, receipt, early>>
           /\ rawDlq \subseteq rawDlq' /\ rawDlq' \subseteq Message
           /\ \A m \in rawDlq' \ rawDlq : queue[m] = "unsent" /\ queue'[m] = "visible"
           /\ \A m \in Message \ (rawDlq' \ rawDlq) : queue'[m] = queue[m]
           /\ QueueTypeOK'
<1>1. IngestInv' /\ rawDlq \subseteq rawDlq'
  BY IngestStep
<1>2. rawDlq' \subseteq Message
  <2>1. OnlyMessages'
    BY <1>1, DeadLettersAreMessages, PTL
  <2>2. QED
    BY <2>1 DEF OnlyMessages
<1>3. /\ UNCHANGED <<polling, sidecars, service, receipt, early>>
      /\ \A m \in rawDlq' \ rawDlq : queue[m] = "unsent"
      /\ queue' = [m \in Message |-> IF m \in rawDlq' \ rawDlq THEN "visible" ELSE queue[m]]
  BY DEF Sent, Send
<1>4. QueueTypeOK'
  BY <1>3 DEF QueueTypeOK
<1>5. QED
  BY <1>1, <1>2, <1>3, <1>4

\* What the ingest does, the replay sees as messages that are sent.
LEMMA SentKeepsLInv ==
    ASSUME IngestInv, LInv, I!Next, Sent
    PROVE  LInv' /\ UNCHANGED Mapped /\ (Holders => Holders')
<1>1. QueueTypeOK /\ Frame
  BY DEF LInv, Shared, Frame
<1>2. /\ UNCHANGED <<batch, chan, cur, sidecars, service, receipt, early>>
      /\ QueueTypeOK'
      /\ \A m \in Message : queue'[m] = queue[m] \/ (queue[m] = "unsent" /\ queue'[m] = "visible")
  BY <1>1, SentFacts DEF polling
<1>3. Deleted' = Deleted
  BY <1>2 DEF Deleted
<1>4. Copies' = Copies /\ \A t \in Task : Held(t)' = Held(t)
  BY <1>2 DEF Copies, Held, Elements, Idle
<1>5. Frame'
  BY <1>1, <1>2, <1>3, <1>4 DEF Frame
<1>6. SidecarsTypeOK' /\ ServiceTypeOK' /\ Accepted' = Accepted
  BY <1>2 DEF LInv, Shared, SidecarsTypeOK, ServiceTypeOK, Accepted, Rejected,
             sidecars, service
<1>7. LInv' /\ UNCHANGED Mapped
  BY <1>2, <1>3, <1>5, <1>6 DEF LInv, Shared, Mapped, Idle
<1>8. ASSUME Holders PROVE Holders'
  <2>1. \A t \in Task : ApartInTask(t)'
    BY <1>2, <1>8 DEF Holders, ApartInTask, Idle
  <2>2. QED
    BY <1>4, <1>8, <2>1 DEF Holders
<1>9. QED
  BY <1>7, <1>8

\* The steps of the replay, as KplLoaderProofs names them.
LEMMA StepMoves ==
    ASSUME LInv, [Next]_vars
    PROVE  Moves
<1>1. ASSUME NEW t \in Task, MainLoop(t) \/ Faults(t)
      PROVE  Moves
  <2> DEFINE c == [msg |-> NextInChan(t).msg, rcpt |-> NextInChan(t).rcpt, put |-> FALSE]
  <2>1. CASE StartMessage(t)
    <3>1. Begin(t, c) /\ SameReceive(c, NextInChan(t))
      BY <2>1 DEF StartMessage, SameReceive
    <3>2. QED
      BY <3>1 DEF Moves
  <2>2. CASE PutRecord(t)
    <3>1. Go(t, WasPut(cur[t])) /\ cur[t] # Idle
      BY <2>2 DEF PutRecord, InHand
    <3>2. WasPut(cur[t]) = [msg |-> cur[t].msg, rcpt |-> cur[t].rcpt, put |-> TRUE]
      BY <3>1, InLoopFacts
    <3>3. SameReceive(WasPut(cur[t]), cur[t])
      BY <3>2 DEF SameReceive
    <3>4. QED
      BY <3>1, <3>3 DEF Moves
  <2>3. CASE PutRecordFails(t) \/ DeleteMessage(t) \/ DeleteFails(t)
    BY <2>3 DEF PutRecordFails, NotPut, DeleteMessage, DeleteFails, KeepInQueue, Moves
  <2>4. QED
    BY <1>1, <2>1, <2>2, <2>3 DEF MainLoop, Faults
<1>2. CASE UNCHANGED vars
  BY <1>2 DEF vars, Moves
<1>3. QED
  BY <1>1, <1>2 DEF Next, Moves

\* A message once sent stays sent.
LEMMA StaysSent ==
    ASSUME LInv, Moves, NEW m \in Message, queue[m] # "unsent"
    PROVE  queue'[m] # "unsent"
<1>1. Frame /\ QueueTypeOK
  BY DEF LInv, Shared, Frame
<1>2. CASE \E n \in Message : VisibilityExpires(n)
  BY <1>1, <1>2 DEF VisibilityExpires, Expire, QueueTypeOK
<1>3. CASE \E t \in Task : \E ms \in Batches : Receive(t, ms)
  BY <1>3 DEF Receive, ReceiveMessages, Hide
<1>4. CASE \E t \in Task : \E n \in Message : ReceiveDeleted(t, n)
  BY <1>4 DEF ReceiveDeleted, ReceiveAgain
<1>5. CASE \E t \in Task : Delete(t)
  BY <1>1, <1>5 DEF Delete, DeleteMessages, QueueTypeOK
<1>6. CASE queue' = queue
  BY <1>6
<1>7. QED
  BY <1>2, <1>3, <1>4, <1>5, <1>6
     DEF Moves, Besides, Poll, Push, Reject, Crash, Panic, Forget, Discard, Go, Begin, sqs

Safe == IngestInv /\ LInv /\ Arrived /\ Holders

LEMMA InitSafe ==
    ASSUME DeadLettersInit
    PROVE  Safe /\ F!Init
<1>1. IngestInv /\ rawDlq = {}
  BY ServerFaultsType
     DEF DeadLettersInit, I!Init, I!InitSidecars, I!InitService, IngestInv
<1>2. Holders
  BY InitHolders DEF DeadLettersInit, InitLoader
<1>3. QED
  BY <1>1, <1>2, InitImplies DEF DeadLettersInit, Safe, Arrived

LEMMA NextKeepsSafe ==
    ASSUME Safe, [DeadLettersNext]_<<vars, ingest, puts>>
    PROVE  Safe' /\ [F!Next]_Mapped
<1>1. LInv /\ Holders /\ IngestInv /\ QueueTypeOK /\ Shared
  BY DEF Safe, LInv, Shared, Frame
<1>2. CASE I!Next /\ Sent
  <2>1. IngestInv' /\ LInv' /\ Holders' /\ UNCHANGED Mapped
    BY <1>1, <1>2, IngestStep, SentKeepsLInv
  <2>2. /\ rawDlq' \subseteq Message
        /\ \A m \in rawDlq' \ rawDlq : queue'[m] = "visible"
        /\ \A m \in Message \ (rawDlq' \ rawDlq) : queue'[m] = queue[m]
    BY <1>1, <1>2, SentFacts
  <2>3. Arrived'
    BY <2>2 DEF Safe, Arrived
  <2>4. QED
    BY <2>1, <2>3 DEF Safe
<1>3. CASE [Next]_vars /\ UNCHANGED ingest
  <2>1. IngestInv'
    BY <1>1, <1>3, IngestStep
  <2>2. LInv' /\ [F!Next]_Mapped
    BY <1>1, <1>3, StepImplies
  <2>3. Shared' /\ Moves
    BY <1>1, <1>3, <2>2, StepMoves DEF LInv
  <2>4. Holders'
    BY <1>1, <2>3, MovesKeepHolders
  <2>5. rawDlq' = rawDlq
    BY <1>3 DEF ingest
  <2>6. Arrived'
    BY <1>1, <2>3, <2>5, StaysSent, DeadLettersAreMessages DEF Safe, Arrived, OnlyMessages
  <2>7. QED
    BY <2>1, <2>2, <2>4, <2>6 DEF Safe
<1>4. QED
  BY <1>2, <1>3 DEF DeadLettersNext

\* A dead letter waits, is deleted, or both: it is never unsent again.
LEMMA SafeImpliesAccounted ==
    ASSUME Safe
    PROVE  EventsAccounted
<1>1. ASSUME NEW m \in rawDlq PROVE m \in Waiting \cup Accepted
  <2>1. m \in Message /\ queue[m] \in {"visible", "inflight", "deleted"}
    BY DeadLettersAreMessages DEF Safe, OnlyMessages, Arrived, LInv, Shared, Frame, QueueTypeOK
  <2>2. queue[m] = "deleted" => m \in Accepted
    BY <2>1 DEF Safe, LInv, Deleted
  <2>3. QED
    BY <2>1, <2>2 DEF Waiting
<1>2. I!Rejected \subseteq Events(Waiting) \cup Events(Accepted)
  BY <1>1 DEF I!Rejected, Events
<1>3. QED
  BY <1>2 DEF EventsAccounted, I!Accepted

\* Whatever the ingest, its queue and the replay do, and whatever fails or dies on
\* either side, an event a sidecar of the ingest took is in one of the places
\* EventsAccounted names.
THEOREM AccountedCorrect == DeadLettersSpec => []EventsAccounted
<1>1. DeadLettersInit => Safe
  BY InitSafe
<1>2. Safe /\ [DeadLettersNext]_<<vars, ingest, puts>> => Safe'
  BY NextKeepsSafe
<1>3. Safe => EventsAccounted
  BY SafeImpliesAccounted
<1>4. QED
  BY <1>1, <1>2, <1>3, PTL DEF DeadLettersSpec

\* The replay is the forwarder of a queue the ingest fills as it goes: it deletes
\* a dead letter only when its sidecar accepted it.
THEOREM ReplayRefinement == DeadLettersSpec => IsForwarder
<1>1. DeadLettersInit => Safe /\ F!Init
  BY InitSafe
<1>2. Safe /\ [DeadLettersNext]_<<vars, ingest, puts>> => Safe' /\ [F!Next]_Mapped
  BY NextKeepsSafe
<1>3. QED
  BY <1>1, <1>2, PTL DEF DeadLettersSpec, IsForwarder, F!Spec, Mapped

-----------------------------------------------------------------------------
(* The puts.                                                               *)

\* The copies of a task that are still to be put, and their receipts.
Open(t)  == Elements(batch[t]) \cup Elements(chan[t])
                \cup (IF InHand(t) THEN {cur[t]} ELSE {})
Unput(m) == {n \in Nat : \E t \in Task : \E c \in Open(t) : c.msg = m /\ c.rcpt = n}

\* Of these, the ones that are not of a receive the message still hides behind:
\* their reason is in the counters already.
Old(m, n) == queue[m] # "inflight" \/ n # receipt[m]
Due(m)    == {n \in Unput(m) : Old(m, n)}

\* The put that needs no reason is made: the message is deleted, or its last
\* receive is in a main loop that waits for the delete.
JustPut(t, m) == MessageDone(t) /\ cur[t].msg = m /\ cur[t].rcpt = receipt[m]
PutNow(m) ==
    \/ queue[m] = "deleted"
    \/ queue[m] = "inflight" /\ \E t \in Task : JustPut(t, m)

Budget(m) == crashes + faults + early + (IF PutNow(m) THEN 1 ELSE 0)

Explained(m) ==
    /\ puts[m] \in Nat
    /\ IsFiniteSet(Due(m))
    /\ puts[m] + Cardinality(Due(m)) <= Budget(m)

\* What a step may do to the puts of m: a put or a copy that becomes due has a
\* reason that is new, or it is the put of a copy that was due.
Spends(m) ==
    \/ puts'[m] = puts[m] /\ Budget(m) <= Budget(m)' /\ Due(m)' \subseteq Due(m)
    \/ /\ puts'[m] = puts[m] /\ Budget(m) + 1 <= Budget(m)'
       /\ \E n \in Nat : Due(m)' \subseteq Due(m) \cup {n}
    \/ /\ puts'[m] = puts[m] + 1 /\ Budget(m) <= Budget(m)'
       /\ \E n \in Due(m) : Due(m)' \subseteq Due(m) \ {n}
    \/ /\ puts'[m] = puts[m] + 1 /\ Budget(m) + 1 <= Budget(m)'
       /\ Due(m)' \subseteq Due(m)

\* The arithmetic of such a step.
LEMMA Spending ==
    ASSUME NEW D, IsFiniteSet(D), NEW E, NEW p \in Nat, NEW q, NEW b \in Nat, NEW d \in Nat,
           p + Cardinality(D) <= b,
           \/ q = p /\ b <= d /\ E \subseteq D
           \/ q = p /\ b + 1 <= d /\ \E n \in Nat : E \subseteq D \cup {n}
           \/ q = p + 1 /\ b <= d /\ \E n \in D : E \subseteq D \ {n}
           \/ q = p + 1 /\ b + 1 <= d /\ E \subseteq D
    PROVE  q \in Nat /\ IsFiniteSet(E) /\ q + Cardinality(E) <= d
<1>1. Cardinality(D) \in Nat
  BY FS_CardinalityType
<1>2. ASSUME NEW C, IsFiniteSet(C), E \subseteq C
      PROVE  IsFiniteSet(E) /\ Cardinality(E) \in Nat /\ Cardinality(E) <= Cardinality(C)
  BY <1>2, FS_Subset, FS_CardinalityType
<1>3. CASE E \subseteq D /\ ((q = p /\ b <= d) \/ (q = p + 1 /\ b + 1 <= d))
  <2>1. IsFiniteSet(E) /\ Cardinality(E) \in Nat /\ Cardinality(E) <= Cardinality(D)
    BY <1>2, <1>3
  <2>2. QED
    BY <1>1, <1>3, <2>1
<1>4. CASE q = p /\ b + 1 <= d /\ \E n \in Nat : E \subseteq D \cup {n}
  <2>1. PICK n \in Nat : E \subseteq D \cup {n}
    BY <1>4
  <2>2. /\ IsFiniteSet(D \cup {n})
        /\ Cardinality(D \cup {n}) = IF n \in D THEN Cardinality(D) ELSE Cardinality(D) + 1
    BY FS_AddElement
  <2>3. Cardinality(D \cup {n}) \in Nat /\ Cardinality(D \cup {n}) <= Cardinality(D) + 1
    BY <1>1, <2>2
  <2>4. IsFiniteSet(E) /\ Cardinality(E) \in Nat /\ Cardinality(E) <= Cardinality(D \cup {n})
    BY <1>2, <2>1, <2>2
  <2>5. QED
    BY <1>1, <1>4, <2>3, <2>4
<1>5. CASE q = p + 1 /\ b <= d /\ \E n \in D : E \subseteq D \ {n}
  <2>1. PICK n \in D : E \subseteq D \ {n}
    BY <1>5
  <2>2. IsFiniteSet(D \ {n}) /\ Cardinality(D \ {n}) = Cardinality(D) - 1
    BY FS_RemoveElement
  <2>3. IsFiniteSet(E) /\ Cardinality(E) \in Nat /\ Cardinality(E) <= Cardinality(D \ {n})
    BY <1>2, <2>1, <2>2
  <2>4. QED
    BY <1>1, <1>5, <2>2, <2>3
<1>6. QED
  BY <1>3, <1>4, <1>5

LEMMA BudgetType ==
    ASSUME LInv, NEW m
    PROVE  Budget(m) \in Nat /\ early \in Nat /\ crashes \in Nat /\ faults \in Nat
BY QueueAssumption, ServiceAssumption
   DEF LInv, Shared, Frame, QueueTypeOK, ServiceTypeOK, Budget

LEMMA SpendsKeepsExplained ==
    ASSUME LInv, LInv', NEW m \in Message, Explained(m), Spends(m)
    PROVE  Explained(m)'
<1>1. Budget(m) \in Nat /\ Budget(m)' \in Nat
  <2>1. Budget(m)' \in Nat
    BY QueueAssumption, ServiceAssumption
       DEF LInv, Shared, Frame, QueueTypeOK, ServiceTypeOK, Budget
  <2>2. QED
    BY <2>1, BudgetType
<1> DEFINE D == Due(m)
           E == Due(m)'
           b == Budget(m)
           d == Budget(m)'
<1>2. /\ IsFiniteSet(D) /\ puts[m] \in Nat /\ puts[m] + Cardinality(D) <= b
      /\ \/ puts'[m] = puts[m] /\ b <= d /\ E \subseteq D
         \/ puts'[m] = puts[m] /\ b + 1 <= d /\ \E n \in Nat : E \subseteq D \cup {n}
         \/ puts'[m] = puts[m] + 1 /\ b <= d /\ \E n \in D : E \subseteq D \ {n}
         \/ puts'[m] = puts[m] + 1 /\ b + 1 <= d /\ E \subseteq D
  BY DEF Explained, Spends
<1>3. puts'[m] \in Nat /\ IsFiniteSet(E) /\ puts'[m] + Cardinality(E) <= d
  <2> HIDE DEF D, E, b, d
  <2>1. b \in Nat /\ d \in Nat
    BY <1>1 DEF b, d
  <2>2. QED
    BY <1>2, <2>1, Spending
<1>4. QED
  BY <1>3 DEF Explained

-----------------------------------------------------------------------------
(* Whose receive it is.                                                    *)

\* No open copy is of the receive a main loop has in hand, but the one it has in
\* hand itself; nor has another main loop that receive.
LEMMA OwnReceive ==
    ASSUME LInv, Holders, NEW t \in Task, cur[t] # Idle, NEW u \in Task
    PROVE  /\ \A c \in Open(u) : SameReceive(c, cur[t]) => u = t /\ InHand(t) /\ c = cur[t]
           /\ cur[u] # Idle /\ SameReceive(cur[u], cur[t]) => u = t
<1>1. cur[t] \in Held(t) /\ Open(u) \subseteq Held(u) /\ (cur[u] # Idle => cur[u] \in Held(u))
  BY DEF Open, Held, InHand
<1>2. u # t => \A c \in Held(u) : ~SameReceive(c, cur[t])
  BY <1>1 DEF Holders, Apart, SameReceive
<1>3. \A c \in Elements(batch[t]) \cup Elements(chan[t]) : ~SameReceive(c, cur[t])
  BY DEF Holders, ApartInTask, Apart, SameReceive
<1>4. ASSUME u = t, NEW c \in Open(t), SameReceive(c, cur[t])
      PROVE  InHand(t) /\ c = cur[t]
  BY <1>3, <1>4 DEF Open
<1>5. QED
  BY <1>1, <1>2, <1>4

\* So a receive that is put is not open any more.
LEMMA PutIsClosed ==
    ASSUME LInv, Holders, NEW t \in Task, MessageDone(t)
    PROVE  cur[t].rcpt \notin Unput(cur[t].msg)
<1>1. cur[t] # Idle /\ cur[t].put
  BY DEF MessageDone
<1>2. \A u \in Task : \A c \in Open(u) : ~SameReceive(c, cur[t])
  BY <1>1, OwnReceive DEF InHand
<1>3. QED
  BY <1>2 DEF Unput, SameReceive

LEMMA PutNowIsClosed ==
    ASSUME LInv, Holders, NEW m \in Message, queue[m] = "inflight", PutNow(m)
    PROVE  receipt[m] \notin Unput(m)
<1>1. PICK t \in Task : JustPut(t, m)
  BY DEF PutNow
<1>2. QED
  BY <1>1, PutIsClosed DEF JustPut

\* The receipts that are open after a step that opens none.
LEMMA NoneOpened ==
    ASSUME NEW m, \A t \in Task : \A c \in Open(t)' : \E d \in Open(t) : SameReceive(c, d)
    PROVE  Unput(m)' \subseteq Unput(m)
<1> SUFFICES ASSUME NEW n \in Unput(m)' PROVE n \in Unput(m)
  OBVIOUS
<1>1. PICK t \in Task : \E c \in Open(t)' : c.msg = m /\ c.rcpt = n
  BY DEF Unput
<1>2. PICK d \in Open(t) : d.msg = m /\ d.rcpt = n
  BY <1>1 DEF SameReceive
<1>3. QED
  BY <1>2 DEF Unput

\* A step of which no main loop makes a put.
LEMMA NothingPut ==
    ASSUME CountPuts, NEW m \in Message, puts[m] \in Nat,
           \A t \in Task : cur'[t] = cur[t] \/ cur'[t] = Idle \/ cur[t] = Idle
    PROVE  puts'[m] = puts[m]
<1>1. {t \in Task : PutBy(t, m)} = {}
  BY DEF PutBy, InHand
<1>2. Cardinality({t \in Task : PutBy(t, m)}) = 0
  BY <1>1, FS_EmptySet
<1>3. puts'[m] = puts[m] + 0
  BY <1>2 DEF CountPuts
<1>4. QED
  BY <1>3

-----------------------------------------------------------------------------
(* The steps of the replay.                                                *)

\* A step that leaves the queue alone, opens nothing and forgets at most a put
\* for which it counts a fault or a death.
LEMMA DropSpends ==
    ASSUME LInv, NEW m \in Message, UNCHANGED sqs, puts'[m] = puts[m],
           \A t \in Task : \A c \in Open(t)' : \E d \in Open(t) : SameReceive(c, d),
           \/ faults' = faults /\ crashes' = crashes /\ (PutNow(m) => PutNow(m)')
           \/ faults' \in Nat /\ faults + 1 <= faults' /\ crashes' = crashes
           \/ faults' = faults /\ crashes' = crashes + 1
    PROVE  Spends(m)
<1>1. Unput(m)' \subseteq Unput(m)
  BY NoneOpened
<1>2. Due(m)' \subseteq Due(m)
  BY <1>1 DEF Due, Old, sqs
<1>3. Budget(m) <= Budget(m)'
  <2>1. crashes \in Nat /\ faults \in Nat /\ early \in Nat /\ early' = early
    BY BudgetType DEF sqs
  <2>2. QED
    BY <2>1 DEF Budget
<1>4. QED
  BY <1>2, <1>3 DEF Spends

\* A visibility timeout ends.  The receive that was current becomes an old one:
\* if its copy is open it is due from now on, for the timeout that was counted;
\* if it is put, the put that was free of charge is charged to that timeout.
LEMMA ExpirySpends ==
    ASSUME LInv, Holders, NEW x \in Message, VisibilityExpires(x),
           NEW m \in Message, puts'[m] = puts[m]
    PROVE  Spends(m)
<1>1. /\ queue[x] = "inflight" /\ queue'[x] = "visible" /\ receipt' = receipt
      /\ \A n \in Message \ {x} : queue'[n] = queue[n]
      /\ UNCHANGED <<batch, chan, cur, faults, crashes>>
      /\ early' = early \/ early' = early + 1
      /\ Copies[x] # {} => early' = early + 1
  BY DEF VisibilityExpires, Expire, polling, service, LInv, Shared, Frame, QueueTypeOK
<1>2. crashes \in Nat /\ faults \in Nat /\ early \in Nat
  BY BudgetType
<1>3. Unput(m)' = Unput(m)
  BY <1>1 DEF Unput, Open, InHand, Elements, Idle
<1>4. CASE m # x
  <2>1. Due(m)' = Due(m) /\ (PutNow(m)' <=> PutNow(m))
    BY <1>1, <1>3, <1>4 DEF Due, Old, PutNow, JustPut, MessageDone, Idle
  <2>2. Budget(m) <= Budget(m)'
    BY <1>1, <1>2, <2>1 DEF Budget
  <2>3. QED
    BY <2>1, <2>2 DEF Spends
<1>5. CASE m = x
  <2>1. Due(m)' \subseteq Due(m) \cup {receipt[m]} /\ receipt[m] \in Nat /\ Due(m)' \subseteq Unput(m)
    BY <1>1, <1>3, <1>5 DEF Due, Old, LInv, Shared, Frame, QueueTypeOK
  <2>2. CASE PutNow(m)
    <3>1. receipt[m] \notin Unput(m)
      BY <1>1, <1>5, <2>2, PutNowIsClosed
    <3>2. Due(m)' \subseteq Due(m)
      BY <2>1, <3>1
    <3>3. early' = early + 1
      <4>1. PICK t \in Task : JustPut(t, m)
        BY <1>1, <1>5, <2>2 DEF PutNow
      <4>2. cur[t] \in Copies[m]
        BY <4>1 DEF JustPut, MessageDone, Copies, Held
      <4>3. QED
        BY <1>1, <1>5, <4>2
    <3>4. Budget(m) <= Budget(m)'
      BY <1>1, <1>2, <3>3 DEF Budget
    <3>5. QED
      BY <3>2, <3>4 DEF Spends
  <2>3. CASE ~PutNow(m) /\ early' = early + 1
    <3>1. Budget(m) + 1 <= Budget(m)'
      BY <1>1, <1>2, <2>3 DEF Budget
    <3>2. QED
      BY <2>1, <3>1 DEF Spends
  <2>4. CASE ~PutNow(m) /\ early' = early
    <3>1. Copies[m] = {}
      BY <1>1, <1>2, <1>5, <2>4
    <3>2. \A t \in Task : \A c \in Open(t) : c.msg # m
      BY <3>1 DEF Copies, Held, Open, InHand
    <3>3. Unput(m) = {}
      BY <3>2 DEF Unput
    <3>4. Due(m)' \subseteq Due(m)
      BY <2>1, <3>3
    <3>5. Budget(m) <= Budget(m)'
      BY <1>1, <1>2, <2>4 DEF Budget
    <3>6. QED
      BY <3>4, <3>5 DEF Spends
  <2>5. QED
    BY <1>1, <2>2, <2>3, <2>4
<1>6. QED
  BY <1>4, <1>5

\* A receive hides behind its receipt all it opens.
LEMMA ReceiveSpends ==
    ASSUME LInv, Holders, NEW t \in Task, NEW ms \in Batches, Receive(t, ms),
           NEW m \in Message, puts'[m] = puts[m]
    PROVE  Spends(m)
<1>1. /\ \A n \in Message \ Elements(ms) : queue'[n] = queue[n]
      /\ \A n \in Elements(ms) : queue[n] = "visible" /\ queue'[n] = "inflight"
      /\ early' = early
  BY ReceiveKeepsFrame DEF LInv, Shared
<1>2. m \notin Elements(ms) => receipt'[m] = receipt[m]
  BY DEF Receive, ReceiveMessages
<1>3. /\ batch[t] = <<>>
      /\ batch'[t] = [i \in DOMAIN ms |-> [msg |-> ms[i], rcpt |-> receipt'[ms[i]]]]
      /\ \A u \in Task \ {t} : batch'[u] = batch[u]
      /\ UNCHANGED <<chan, cur, faults, crashes>>
  BY DEF Receive, LInv, Shared, Frame, service
<1>4. \A u \in Task \ {t} : Open(u)' = Open(u)
  BY <1>3 DEF Open, InHand, Idle
<1>5. \A c \in Open(t)' : c \in Open(t) \/ (c.msg \in Elements(ms) /\ c.rcpt = receipt'[c.msg])
  <2>1. \A c \in Elements(batch'[t]) : c.msg \in Elements(ms) /\ c.rcpt = receipt'[c.msg]
    BY <1>3 DEF Elements
  <2>2. QED
    BY <1>3, <2>1 DEF Open, InHand, Idle
<1>6. ASSUME NEW n \in Unput(m)'
      PROVE  n \in Unput(m) \/ (m \in Elements(ms) /\ n = receipt'[m])
  <2>1. PICK u \in Task : \E c \in Open(u)' : c.msg = m /\ c.rcpt = n
    BY <1>6 DEF Unput
  <2>2. PICK c \in Open(u)' : c.msg = m /\ c.rcpt = n
    BY <2>1
  <2>3. CASE c \in Open(u)
    BY <1>6, <2>2, <2>3 DEF Unput
  <2>4. CASE c \notin Open(u)
    BY <1>4, <1>5, <2>2, <2>4
  <2>5. QED
    BY <2>3, <2>4
<1>7. Due(m)' \subseteq Due(m)
  <2> SUFFICES ASSUME NEW n \in Due(m)' PROVE n \in Due(m)
    OBVIOUS
  <2>1. n \in Unput(m)' /\ (queue'[m] # "inflight" \/ n # receipt'[m])
    BY DEF Due, Old
  <2>2. CASE m \in Elements(ms)
    BY <1>1, <1>6, <2>1, <2>2 DEF Due, Old
  <2>3. CASE m \notin Elements(ms)
    BY <1>1, <1>2, <1>6, <2>1, <2>3 DEF Due, Old
  <2>4. QED
    BY <2>2, <2>3
<1>8. PutNow(m) => PutNow(m)'
  BY <1>1, <1>2, <1>3 DEF PutNow, JustPut, MessageDone, Idle
<1>9. Budget(m) <= Budget(m)'
  <2>1. crashes \in Nat /\ faults \in Nat /\ early \in Nat
    BY BudgetType
  <2>2. QED
    BY <1>1, <1>3, <1>8, <2>1 DEF Budget
<1>10. QED
  BY <1>7, <1>9 DEF Spends

\* A deleted message that comes once more is due at once, for the delivery that was
\* counted.
LEMMA ReceiveDeletedSpends ==
    ASSUME LInv, Holders, NEW t \in Task, NEW x \in Message, ReceiveDeleted(t, x),
           NEW m \in Message, puts'[m] = puts[m]
    PROVE  Spends(m)
<1>1. /\ queue[x] = "deleted" /\ queue' = queue /\ early' = early + 1
      /\ \A n \in Message \ {x} : receipt'[n] = receipt[n]
      /\ receipt'[x] \in Nat /\ receipt[m] \in Nat
  BY ReceiveDeletedKeepsFrame DEF LInv, Shared, Frame, QueueTypeOK
<1>2. /\ batch[t] = <<>> /\ batch'[t] = <<[msg |-> x, rcpt |-> receipt'[x]]>>
      /\ \A u \in Task \ {t} : batch'[u] = batch[u]
      /\ UNCHANGED <<chan, cur, faults, crashes>>
  BY DEF ReceiveDeleted, LInv, Shared, Frame, service
<1>3. \A u \in Task \ {t} : Open(u)' = Open(u)
  BY <1>2 DEF Open, InHand, Idle
<1>4. \A c \in Open(t)' : c \in Open(t) \/ (c.msg = x /\ c.rcpt = receipt'[x])
  <2>1. \A c \in Elements(batch'[t]) : c.msg = x /\ c.rcpt = receipt'[x]
    BY <1>2 DEF Elements
  <2>2. QED
    BY <1>2, <2>1 DEF Open, InHand, Idle
<1>5. ASSUME NEW n \in Unput(m)'
      PROVE  n \in Unput(m) \/ (m = x /\ n = receipt'[m])
  <2>1. PICK u \in Task : \E c \in Open(u)' : c.msg = m /\ c.rcpt = n
    BY <1>5 DEF Unput
  <2>2. PICK c \in Open(u)' : c.msg = m /\ c.rcpt = n
    BY <2>1
  <2>3. CASE c \in Open(u)
    BY <1>5, <2>2, <2>3 DEF Unput
  <2>4. CASE c \notin Open(u)
    BY <1>3, <1>4, <2>2, <2>4
  <2>5. QED
    BY <2>3, <2>4
<1>6. Due(m)' \subseteq Due(m) \cup {receipt'[m]}
  BY <1>1, <1>5 DEF Due, Old
<1>7. PutNow(m) => PutNow(m)'
  BY <1>1, <1>2 DEF PutNow, JustPut, MessageDone, Idle
<1>8. Budget(m) + 1 <= Budget(m)'
  <2>1. crashes \in Nat /\ faults \in Nat /\ early \in Nat
    BY BudgetType
  <2>2. QED
    BY <1>1, <1>2, <1>7, <2>1 DEF Budget
<1>9. receipt'[m] \in Nat
  BY <1>1
<1>10. QED
  BY <1>6, <1>8, <1>9 DEF Spends

\* A copy moves on inside its task; a task or a main loop forgets, for a fault or
\* a death.
LEMMA OtherStepsSpend ==
    ASSUME LInv, Holders, NEW t \in Task,
           \/ Push(t) /\ UNCHANGED sidecars
           \/ StartMessage(t)
           \/ PutRecordFails(t)
           \/ DeleteFails(t)
           \/ Crash(t)
           \/ \E u \in kpl[t] : Reject(t, u),
           NEW m \in Message, puts'[m] = puts[m]
    PROVE  Spends(m)
<1>1. Frame /\ batch[t] \in Seq(Copy) /\ chan[t] \in Seq(Copy)
  BY DEF LInv, Shared, Frame
<1>2. CASE Push(t)
  <2>1. /\ batch[t] # <<>> /\ chan'[t] = Append(chan[t], Head(batch[t]))
        /\ batch'[t] = Tail(batch[t])
        /\ \A u \in Task \ {t} : batch'[u] = batch[u] /\ chan'[u] = chan[u]
        /\ UNCHANGED <<sqs, cur, service>>
    BY <1>1, <1>2 DEF Push, Frame
  <2>2. Elements(batch'[t]) \cup Elements(chan'[t]) = Elements(batch[t]) \cup Elements(chan[t])
    BY <1>1, <2>1, ElementsOfSeq
  <2>3. \A u \in Task : Open(u)' = Open(u)
    BY <2>1, <2>2 DEF Open, InHand, Idle
  <2>4. PutNow(m) => PutNow(m)'
    BY <2>1 DEF PutNow, JustPut, MessageDone, Idle, sqs
  <2>5. QED
    BY <2>1, <2>3, <2>4, DropSpends DEF SameReceive, service
<1>3. CASE StartMessage(t)
  <2> DEFINE c == [msg |-> NextInChan(t).msg, rcpt |-> NextInChan(t).rcpt, put |-> FALSE]
  <2>1. /\ cur[t] = Idle /\ chan[t] # <<>> /\ chan'[t] = Tail(chan[t]) /\ cur'[t] = c
        /\ \A u \in Task \ {t} : chan'[u] = chan[u] /\ cur'[u] = cur[u]
        /\ UNCHANGED <<sqs, batch, service>>
    BY <1>1, <1>3 DEF StartMessage, Begin, Free, Take, Frame
  <2>2. Elements(chan'[t]) \subseteq Elements(chan[t]) /\ NextInChan(t) \in Elements(chan[t])
    BY <1>1, <2>1, ElementsOfSeq DEF NextInChan
  <2>3. \A d \in Open(t)' : d \in Open(t) \/ SameReceive(d, NextInChan(t))
    BY <2>1, <2>2 DEF Open, SameReceive
  <2>4. \A u \in Task : \A d \in Open(u)' : \E e \in Open(u) : SameReceive(d, e)
    <3>1. NextInChan(t) \in Open(t)
      BY <2>2 DEF Open
    <3>2. \A u \in Task \ {t} : Open(u)' = Open(u)
      BY <2>1 DEF Open, InHand, Idle
    <3>3. QED
      BY <2>3, <3>1, <3>2 DEF SameReceive
  <2>5. PutNow(m) => PutNow(m)'
    <3> SUFFICES ASSUME NEW u \in Task, JustPut(u, m) PROVE JustPut(u, m)'
      BY <2>1 DEF PutNow, sqs
    <3>1. u # t
      BY <2>1 DEF JustPut, MessageDone
    <3>2. QED
      BY <2>1, <3>1 DEF JustPut, MessageDone, Idle, sqs
  <2>6. QED
    BY <2>1, <2>4, <2>5, DropSpends DEF service
<1>4. CASE PutRecordFails(t) \/ DeleteFails(t)
  <2>1. /\ Fault /\ Go(t, Idle)
    BY <1>4 DEF PutRecordFails, NotPut, DeleteFails, KeepInQueue
  <2>2. /\ cur'[t] = Idle /\ (\A u \in Task \ {t} : cur'[u] = cur[u])
        /\ UNCHANGED <<sqs, batch, chan>> /\ faults' = faults + 1 /\ crashes' = crashes
    BY <1>1, <2>1 DEF Go, Fault, Frame
  <2>3. \A u \in Task : Open(u)' \subseteq Open(u)
    BY <2>2 DEF Open, InHand, Idle
  <2>4. faults' \in Nat /\ faults + 1 <= faults'
    <3>1. faults \in Nat
      BY BudgetType
    <3>2. QED
      BY <2>2, <3>1
  <2>5. QED
    BY <2>2, <2>3, <2>4, DropSpends DEF SameReceive
<1>5. CASE Crash(t)
  <2>1. Death /\ Forget(t)
    BY <1>5 DEF Crash, Panic
  <2>2. /\ batch'[t] = <<>> /\ chan'[t] = <<>> /\ cur'[t] = Idle
        /\ \A u \in Task \ {t} :
              batch'[u] = batch[u] /\ chan'[u] = chan[u] /\ cur'[u] = cur[u]
        /\ UNCHANGED sqs /\ crashes' = crashes + 1 /\ faults' = faults
    BY <1>1, <2>1 DEF Forget, Death, Frame
  <2>3. \A u \in Task : Open(u)' \subseteq Open(u)
    BY <2>2 DEF Open, InHand, Idle, Elements
  <2>4. QED
    BY <2>2, <2>3, DropSpends DEF SameReceive
<1>6. CASE \E u \in kpl[t] : Reject(t, u)
  <2>1. PICK v \in kpl[t] : ErrHandler(t, v) /\ UNCHANGED <<sqs, polling>>
    BY <1>6 DEF Reject
  <2>2. PICK n \in 0..(MaxFaults - faults) : faults' = faults + (IF n = 0 THEN 1 ELSE n)
    BY <2>1 DEF ErrHandler
  <2>3. faults' \in Nat /\ faults + 1 <= faults'
    <3>1. faults \in Nat /\ MaxFaults \in Nat
      BY BudgetType, ServiceAssumption
    <3>2. QED
      BY <2>2, <3>1
  <2>4. UNCHANGED <<sqs, batch, chan, cur>> /\ crashes' = crashes
    BY <2>1 DEF ErrHandler, polling
  <2>5. \A u \in Task : Open(u)' = Open(u)
    BY <2>4 DEF Open, InHand, Idle
  <2>6. QED
    BY <2>3, <2>4, <2>5, DropSpends DEF SameReceive
<1>7. QED
  BY <1>2, <1>3, <1>4, <1>5, <1>6

\* The put of a copy that was due, or the put that is free of charge.
LEMMA PutSpends ==
    ASSUME LInv, Holders, NEW t \in Task, PutRecord(t), CountPuts,
           NEW m \in Message, puts[m] \in Nat
    PROVE  Spends(m)
<1> DEFINE n == cur[t].rcpt
<1>1. /\ cur[t] # Idle /\ ~cur[t].put /\ Go(t, WasPut(cur[t])) /\ UNCHANGED service
  BY DEF PutRecord, InHand
<1>2. /\ cur[t].msg \in Message /\ n \in Nat
      /\ WasPut(cur[t]) = [msg |-> cur[t].msg, rcpt |-> n, put |-> TRUE]
      /\ WasPut(cur[t]) # Idle
  BY <1>1, InLoopFacts
<1>3. /\ cur'[t] = WasPut(cur[t]) /\ (\A u \in Task \ {t} : cur'[u] = cur[u])
      /\ UNCHANGED <<batch, chan, queue, receipt, early, faults, crashes>>
  BY <1>1 DEF Go, LInv, Shared, Frame, sqs, service
<1>4. cur'[t].msg = cur[t].msg /\ cur'[t].rcpt = n /\ cur'[t].put /\ cur'[t] # Idle
  BY <1>2, <1>3
<1>5. /\ \A u \in Task : Open(u)' \subseteq Open(u)
      /\ \A c \in Open(t)' : c \in Elements(batch[t]) \cup Elements(chan[t])
  BY <1>3, <1>4 DEF Open, InHand, Idle
<1>6. Unput(m)' \subseteq Unput(m)
  BY <1>5, NoneOpened DEF SameReceive
<1>7. PutNow(m) => PutNow(m)'
  <2> SUFFICES ASSUME NEW u \in Task, JustPut(u, m) PROVE JustPut(u, m)'
    BY <1>3 DEF PutNow
  <2>1. u # t
    BY <1>1 DEF JustPut, MessageDone
  <2>2. QED
    BY <1>3, <2>1 DEF JustPut, MessageDone, Idle
<1>8. crashes \in Nat /\ faults \in Nat /\ early \in Nat
  BY BudgetType
<1>9. Due(m)' \subseteq Due(m) /\ Budget(m) <= Budget(m)'
  BY <1>3, <1>6, <1>7, <1>8 DEF Due, Old, Budget
<1>10. CASE m # cur[t].msg
  <2>1. {u \in Task : PutBy(u, m)} = {}
    BY <1>3, <1>10 DEF PutBy, InHand
  <2>2. puts'[m] = puts[m] + 0
    BY <2>1, FS_EmptySet DEF CountPuts
  <2>3. QED
    BY <1>9, <2>2 DEF Spends
<1>11. CASE m = cur[t].msg
  <2>1. {u \in Task : PutBy(u, m)} = {t}
    BY <1>1, <1>3, <1>4, <1>11 DEF PutBy, InHand
  <2>2. Cardinality({t}) = 1
    <3>1. Cardinality({} \cup {t}) = 1
      BY FS_EmptySet, FS_AddElement
    <3>2. {} \cup {t} = {t}
      OBVIOUS
    <3>3. QED
      BY <3>1, <3>2
  <2>3. puts'[m] = puts[m] + 1
    BY <2>1, <2>2 DEF CountPuts
  <2>4. n \in Unput(m)
    <3>1. cur[t] \in Open(t)
      BY <1>1 DEF Open, InHand
    <3>2. QED
      BY <1>2, <1>11, <3>1 DEF Unput
  <2>5. n \notin Unput(m)'
    <3> SUFFICES ASSUME NEW u \in Task, NEW c \in Open(u)', c.msg = m, c.rcpt = n
                 PROVE  FALSE
      BY DEF Unput
    <3>1. c \in Open(u) /\ SameReceive(c, cur[t])
      BY <1>5, <1>11 DEF SameReceive
    <3>2. u = t
      BY <1>1, <3>1, OwnReceive
    <3>3. c \in Elements(batch[t]) \cup Elements(chan[t])
      BY <1>5, <3>2
    <3>4. QED
      BY <1>1, <3>1, <3>3 DEF Holders, ApartInTask, Apart, SameReceive
  <2>6. CASE Old(m, n)
    <3>1. n \in Due(m) /\ Due(m)' \subseteq Due(m) \ {n}
      BY <1>9, <2>4, <2>5, <2>6 DEF Due
    <3>2. QED
      BY <1>9, <2>3, <3>1 DEF Spends
  <2>7. CASE ~Old(m, n)
    <3>1. queue[m] = "inflight" /\ n = receipt[m]
      BY <2>7 DEF Old
    <3>2. ~PutNow(m)
      <4> SUFFICES ASSUME NEW u \in Task, JustPut(u, m) PROVE FALSE
        BY <3>1 DEF PutNow
      <4>1. u = t
        BY <1>1, <1>11, <3>1, OwnReceive DEF JustPut, MessageDone, SameReceive
      <4>2. QED
        BY <1>1, <4>1 DEF JustPut, MessageDone
    <3>3. PutNow(m)'
      <4>1. JustPut(t, m)'
        BY <1>3, <1>4, <1>11, <3>1 DEF JustPut, MessageDone, Idle
      <4>2. QED
        BY <1>3, <3>1, <4>1 DEF PutNow
    <3>4. Budget(m) + 1 <= Budget(m)'
      BY <1>3, <1>8, <3>2, <3>3 DEF Budget
    <3>5. QED
      BY <1>9, <2>3, <3>4 DEF Spends
  <2>8. QED
    BY <2>6, <2>7
<1>12. QED
  BY <1>10, <1>11

\* A delete by an old receipt may make the current one due: then the message was
\* not put by that receive, and the put that is free of charge is the old one.
LEMMA DeleteSpends ==
    ASSUME LInv, Holders, NEW t \in Task, DeleteMessage(t),
           NEW m \in Message, puts'[m] = puts[m]
    PROVE  Spends(m)
<1> DEFINE x == cur[t].msg
<1>1. MessageDone(t) /\ Delete(t) /\ DeleteMessages(cur[t]) /\ cur[t] # Idle
  BY DEF DeleteMessage, Delete, MessageDone
<1>2. /\ cur'[t] = Idle /\ (\A u \in Task \ {t} : cur'[u] = cur[u])
      /\ UNCHANGED <<batch, chan, receipt, early, faults, crashes>>
      /\ \A n \in Message \ {x} : queue'[n] = queue[n]
      /\ x \in Message
      /\ \/ queue'[x] = "deleted"
         \/ cur[t].rcpt # receipt[x] /\ queue' = queue
  BY <1>1, InLoopFacts
     DEF Delete, DeleteMessages, LInv, Shared, Frame, QueueTypeOK, service
<1>3. \A u \in Task : Open(u)' = Open(u)
  BY <1>1, <1>2 DEF Open, InHand, MessageDone, Idle
<1>4. Unput(m)' = Unput(m)
  BY <1>3 DEF Unput
<1>5. crashes \in Nat /\ faults \in Nat /\ early \in Nat /\ receipt[m] \in Nat
  BY BudgetType DEF LInv, Shared, Frame, QueueTypeOK
<1>6. CASE queue'[m] = queue[m]
  <2>1. Due(m)' = Due(m)
    BY <1>2, <1>4, <1>6 DEF Due, Old
  <2>2. PutNow(m) => PutNow(m)'
    <3>1. CASE queue[m] = "deleted"
      BY <1>6, <3>1 DEF PutNow
    <3>2. CASE queue[m] = "inflight"
      <4> SUFFICES ASSUME NEW u \in Task, JustPut(u, m) PROVE JustPut(u, m)'
        BY <1>6, <3>2 DEF PutNow
      <4>1. u # t
        BY <1>2, <1>6, <3>2 DEF JustPut
      <4>2. QED
        BY <1>2, <4>1 DEF JustPut, MessageDone, Idle
    <3>3. QED
      BY <3>1, <3>2 DEF PutNow
  <2>3. Budget(m) <= Budget(m)'
    BY <1>2, <1>5, <2>2 DEF Budget
  <2>4. QED
    BY <2>1, <2>3 DEF Spends
<1>7. CASE queue'[m] # queue[m]
  <2>1. m = x /\ queue'[m] = "deleted" /\ queue[m] # "deleted" /\ PutNow(m)'
    BY <1>2, <1>7 DEF PutNow
  <2>2. Due(m)' \subseteq Due(m) \cup {receipt[m]} /\ Due(m)' \subseteq Unput(m)
    BY <1>4 DEF Due, Old
  <2>3. CASE PutNow(m)
    <3>1. receipt[m] \notin Unput(m)
      BY <2>1, <2>3, PutNowIsClosed DEF PutNow
    <3>2. Due(m)' \subseteq Due(m)
      BY <2>2, <3>1
    <3>3. Budget(m) <= Budget(m)'
      BY <1>2, <1>5, <2>1 DEF Budget
    <3>4. QED
      BY <3>2, <3>3 DEF Spends
  <2>4. CASE ~PutNow(m)
    <3>1. Budget(m) + 1 <= Budget(m)'
      BY <1>2, <1>5, <2>1, <2>4 DEF Budget
    <3>2. QED
      BY <1>5, <2>2, <3>1 DEF Spends
  <2>5. QED
    BY <2>3, <2>4
<1>8. QED
  BY <1>6, <1>7

\* A step of the replay by itself, or of the ingest.
LEMMA NextSpends ==
    ASSUME LInv, Holders, Next, CountPuts, NEW m \in Message, puts[m] \in Nat
    PROVE  Spends(m)
<1>1. LInv' /\ Shared /\ Frame
  BY StepImplies DEF LInv, Shared
<1>2. CASE \E t \in Task : PutRecord(t)
  BY <1>2, PutSpends
<1>3. CASE \/ Besides
           \/ \E t \in Task : \/ StartMessage(t) \/ DeleteMessage(t)
                              \/ PutRecordFails(t) \/ DeleteFails(t)
  <2>1. \A t \in Task : cur'[t] = cur[t] \/ cur'[t] = Idle \/ cur[t] = Idle
    <3>1. CASE Besides
      BY <1>1, <3>1, BesidesKeepsShared
    <3>2. ASSUME NEW t \in Task,
                 \/ StartMessage(t) \/ DeleteMessage(t)
                 \/ PutRecordFails(t) \/ DeleteFails(t)
          PROVE  \A u \in Task : cur'[u] = cur[u] \/ cur'[u] = Idle \/ cur[u] = Idle
      <4>1. cur[t] = Idle \/ cur' = [cur EXCEPT ![t] = Idle]
        BY <3>2 DEF StartMessage, Begin, Free, DeleteMessage, Delete, PutRecordFails,
                    NotPut, DeleteFails, KeepInQueue, Go
      <4>2. \E c : cur' = [cur EXCEPT ![t] = c]
        BY <3>2 DEF StartMessage, Begin, DeleteMessage, Delete, PutRecordFails,
                    DeleteFails, KeepInQueue, Go
      <4>3. QED
        BY <1>1, <4>1, <4>2 DEF Frame
    <3>3. QED
      BY <1>3, <3>1, <3>2
  <2>2. puts'[m] = puts[m]
    BY <2>1, NothingPut
  <2>3. CASE Besides
    <3>1. CASE \E x \in Message : VisibilityExpires(x)
      BY <2>2, <3>1, ExpirySpends
    <3>2. CASE \E t \in Task : Poll(t) /\ UNCHANGED sidecars
      BY <2>2, <3>2, ReceiveSpends, ReceiveDeletedSpends, OtherStepsSpend DEF Poll
    <3>3. CASE \E t \in Task : (\E u \in kpl[t] : Reject(t, u)) \/ Crash(t)
      BY <2>2, <3>3, OtherStepsSpend
    <3>4. QED
      BY <2>3, <3>1, <3>2, <3>3 DEF Besides
  <2>4. QED
    BY <1>3, <2>2, <2>3, OtherStepsSpend, DeleteSpends
<1>4. QED
  BY <1>2, <1>3 DEF Next, MainLoop, Faults

LEMMA SentSpends ==
    ASSUME IngestInv, LInv, (I!Next /\ Sent) \/ UNCHANGED vars, UNCHANGED puts, NEW m \in Message
    PROVE  Spends(m)
<1>1. QueueTypeOK
  BY DEF LInv, Shared, Frame
<1>2. /\ UNCHANGED <<batch, chan, cur, receipt, early, faults, crashes>>
      /\ queue'[m] = queue[m] \/ (queue[m] = "unsent" /\ queue'[m] = "visible")
  <2>1. CASE I!Next /\ Sent
    BY <1>1, <2>1, SentFacts DEF polling, service
  <2>2. CASE UNCHANGED vars
    BY <2>2 DEF vars, sqs, polling, service
  <2>3. QED
    BY <2>1, <2>2
<1>3. Unput(m)' = Unput(m)
  BY <1>2 DEF Unput, Open, InHand, Elements, Idle
<1>4. Due(m)' \subseteq Due(m)
  BY <1>2, <1>3 DEF Due, Old
<1>5. PutNow(m)' <=> PutNow(m)
  BY <1>2 DEF PutNow, JustPut, MessageDone, Idle
<1>6. Budget(m) <= Budget(m)'
  BY <1>2, <1>5, BudgetType DEF Budget
<1>7. QED
  BY <1>4, <1>6 DEF Spends

AllExplained == \A m \in Message : Explained(m)

LEMMA InitExplained ==
    ASSUME DeadLettersInit
    PROVE  AllExplained
<1> SUFFICES ASSUME NEW m \in Message PROVE Explained(m)
  BY DEF AllExplained
<1>1. LInv
  BY InitSafe DEF Safe
<1>2. \A t \in Task : Open(t) = {}
  BY DEF DeadLettersInit, InitLoader, InitPolling, Open, InHand, Elements
<1>3. Due(m) = {}
  BY <1>2 DEF Due, Unput
<1>4. puts[m] = 0
  BY DEF DeadLettersInit
<1>5. QED
  BY <1>1, <1>3, <1>4, BudgetType, FS_EmptySet DEF Explained

LEMMA NextKeepsExplained ==
    ASSUME Safe, AllExplained, [DeadLettersNext]_<<vars, ingest, puts>>
    PROVE  AllExplained'
<1> SUFFICES ASSUME NEW m \in Message PROVE Explained(m)'
  BY DEF AllExplained
<1>1. LInv /\ LInv' /\ IngestInv /\ Holders
  BY NextKeepsSafe DEF Safe
<1>2. Explained(m) /\ puts[m] \in Nat
  BY DEF AllExplained, Explained
<1>3. Spends(m)
  BY <1>1, <1>2, NextSpends, SentSpends DEF DeadLettersNext
<1>4. QED
  BY <1>1, <1>2, <1>3, SpendsKeepsExplained

\* An event is as many messages as faults of the ingest at most.
LEMMA FewMessages ==
    ASSUME IngestInv, NEW u
    PROVE  Cardinality({m \in rawDlq : m[1] = u}) <= serverFaultCount
<1> DEFINE M == {m \in rawDlq : m[1] = u}
           N == 1..serverFaultCount
           number == [m \in M |-> m[2]]
<1>1. serverFaultCount \in Nat
  BY ServerFaultsType DEF IngestInv
<1>2. IsFiniteSet(N) /\ Cardinality(N) = serverFaultCount
  BY <1>1, FS_Interval
<1>3. \A m \in M : m[2] \in N /\ m = <<u, m[2]>>
  BY DEF IngestInv
<1>4. number \in Injection(M, N)
  BY <1>3 DEF Injection, IsInjective
<1>5. Cardinality(M) <= Cardinality(N)
  BY <1>2, <1>4, FS_Injection
<1>6. QED
  BY <1>2, <1>5

\* However many tasks replay the queue, an event is no more messages of it than calls
\* of the ingest failed, a lost reply to a send among them, and a message is put into
\* the raw stream at most once more than tasks died, calls failed and deliveries came
\* too early.
THEOREM PutsCorrect == DeadLettersSpec => []PutsExplained
<1>1. DeadLettersInit => Safe /\ AllExplained
  BY InitSafe, InitExplained
<1>2. Safe /\ AllExplained /\ [DeadLettersNext]_<<vars, ingest, puts>>
          => Safe' /\ AllExplained'
  BY NextKeepsSafe, NextKeepsExplained
<1>3. ASSUME Safe, AllExplained PROVE PutsExplained
  <2>1. ASSUME NEW m \in Message PROVE puts[m] <= 1 + crashes + faults + early
    <3>1. /\ puts[m] \in Nat /\ IsFiniteSet(Due(m))
          /\ puts[m] + Cardinality(Due(m)) <= Budget(m)
      BY <1>3 DEF AllExplained, Explained
    <3>2. Cardinality(Due(m)) \in Nat
      BY <3>1, FS_CardinalityType
    <3>3. Budget(m) <= 1 + crashes + faults + early /\ Budget(m) \in Nat
          /\ early \in Nat /\ crashes \in Nat /\ faults \in Nat
      BY <1>3, BudgetType DEF Safe, Budget
    <3>4. QED
      BY <3>1, <3>2, <3>3
  <2>2. \A u \in Events(rawDlq) :
            Cardinality({m \in rawDlq : m[1] = u}) <= serverFaultCount
    BY <1>3, FewMessages DEF Safe
  <2>3. QED
    BY <2>1, <2>2 DEF PutsExplained
<1>4. QED
  BY <1>1, <1>2, <1>3, PTL DEF DeadLettersSpec
=============================================================================
