-------------------------- MODULE HttpIngestProofs --------------------------
(***************************************************************************)
(* The HTTP ingest, for any tasks, batches of events, health check periods *)
(* and faults: what a request has offered to the sidecar is a prefix of    *)
(* its batch, an error takes its task out of service and time brings it    *)
(* back, and processData implements Forwarder.                             *)
(*                                                                         *)
(* OfferedPrefix is not inductive: how long the prefix is, is known from   *)
(* where the handler stands (Prefix).  Nor is HealthFollowsErrors: that    *)
(* the load balancer has changed its mind in time is known from how many   *)
(* contrary answers it has counted since (Streaks).                        *)
(***************************************************************************)
EXTENDS HttpIngest, TLAPS

Functions ==
    /\ kpl = [t \in Task |-> kpl[t]]
    /\ handling = [r \in Request |-> handling[r]]
    /\ answer = [r \in Request |-> answer[r]]

\* While a request is handled, all before the event it is at was offered to the
\* sidecar; before it is routed nothing was, and once it is answered with 201 all.
Prefix(r) ==
    \E n \in 0..Len(Body[r]) :
        /\ Offered(r) = 1..n
        /\ \A i \in 1..n : Good(Body[r][i])
        /\ answer[r] = "created" => n = Len(Body[r])
        /\ handling[r] # Idle => answer[r] = "none" /\ handling[r].next = n + 1
        /\ handling[r] = Idle /\ answer[r] = "none" => n = 0

\* Each interval since an error in which the task was in service, and each since
\* it answers well again in which it was not, is in the streak.
Streaks ==
    \A t \in Task :
        /\ down[t] < Quiet /\ t \in inService => streak[t] >= down[t]
        /\ down[t] >= Quiet /\ t \notin inService => streak[t] >= down[t] - Quiet

HandlerRecords ==
    \A r \in Request : handling[r] = Idle \/ handling[r] \in [task : Task, next : Nat]

IInv ==
    /\ TypeOK /\ HandlerRecords /\ Functions
    /\ \A r \in Request : Prefix(r)
    /\ Streaks

Created == {r \in Request : answer[r] = "created"}
Mapped  == <<Created, Accepted, refused>>

-----------------------------------------------------------------------------
(* Events and sidecars.                                                    *)

LEMMA Bodies ==
    ASSUME NEW r \in Request
    PROVE  /\ Body[r] \in Seq(EventType) /\ Len(Body[r]) \in Nat
           /\ DOMAIN Body[r] = 1..Len(Body[r])
           /\ \A i \in DOMAIN Body[r] : Body[r][i] \in EventType
BY HttpAssumption

\* What validateFields lets through, and makes no type assertion panic, is good.
LEMMA ValidIsGood ==
    ASSUME NEW e \in EventType, IsValid(e), ~IdPanics(e)
    PROVE  Good(e)
<1>1. /\ e.eventName \in Value /\ e.eventType \in Value /\ e.session \in Value
  BY DEF EventType
<1>2. \A v \in {e.eventName, e.eventType} : v.kind \notin {"absent", "nullword"} /\ v # Text(0)
  BY <1>1 DEF IsValid, Missing, Text
<1>3. CASE e.session.kind = "absent"
  <2>1. e.session = Absent
    BY <1>1, <1>3 DEF Value, Absent
  <2>2. QED
    BY <1>2, <2>1 DEF Good
<1>4. CASE e.session.kind = "string"
  <2> DEFINE n == e.session.len - 2
  <2>1. e.session.len \in Nat /\ e.session.len >= 30
    BY <1>1, <1>4 DEF Value, IsValid
  <2>2. n \in 28..e.session.len /\ n + 2 = e.session.len
    BY <2>1
  <2>3. e.session = [kind |-> "string", len |-> e.session.len]
    BY <1>1, <1>4 DEF Value
  <2>4. e.session = Text(n)
    BY <2>2, <2>3 DEF Text
  <2>5. QED
    BY <1>2, <2>2, <2>4 DEF Good
<1>5. QED
  BY <1>3, <1>4 DEF IdPanics

\* What the sidecars have had of the requests only grows, by the unit put.
LEMMA AcceptAdds ==
    ASSUME Functions, NEW t \in Task, NEW u, Accept(t, u)
    PROVE  kpl' = [v \in Task |-> kpl'[v]] /\ Accepted' = Accepted \cup {u}
<1>1. /\ kpl' = [kpl EXCEPT ![t] = kpl[t] \cup {u}]
      /\ UNCHANGED <<stream, dlq, lost>>
  BY DEF Accept
<1>2. /\ kpl'[t] = kpl[t] \cup {u} /\ \A v \in Task \ {t} : kpl'[v] = kpl[v]
      /\ kpl' = [v \in Task |-> kpl'[v]]
  BY <1>1 DEF Functions
<1>3. QED
  BY <1>1, <1>2 DEF Accepted, Rejected

LEMMA ErrHandlerKeepsAccepted ==
    ASSUME Functions, ServiceTypeOK, NEW t \in Task, NEW u, ErrHandler(t, u)
    PROVE  /\ kpl' = [v \in Task |-> kpl'[v]] /\ ServiceTypeOK'
           /\ Accepted' = Accepted /\ refused' = refused
<1>1. /\ u \in kpl[t] /\ kpl' = [kpl EXCEPT ![t] = kpl[t] \ {u}]
      /\ faults < MaxFaults /\ UNCHANGED <<stream, refused, crashes>>
  BY DEF ErrHandler
<1>2. PICK n \in 0..(MaxFaults - faults) :
          /\ faults' = faults + (IF n = 0 THEN 1 ELSE n)
          /\ dlq' = dlq \cup {<<u, k>> : k \in 1..n}
          /\ lost' = IF n = 0 THEN lost \cup {u} ELSE lost
  BY DEF ErrHandler
<1>3. ServiceTypeOK'
  BY <1>1, <1>2, ServiceAssumption DEF ServiceTypeOK
<1>4. Rejected' \cup lost' = Rejected \cup lost \cup {u}
  <2>1. Rejected' = Rejected \cup {x[1] : x \in {<<u, k>> : k \in 1..n}}
    BY <1>2 DEF Rejected
  <2>2. {x[1] : x \in {<<u, k>> : k \in 1..n}} \subseteq {u}
    OBVIOUS
  <2>3. CASE n = 0
    BY <1>2, <2>1, <2>2, <2>3
  <2>4. CASE n # 0
    <3>1. 1 \in 1..n
      BY <1>1, <2>4, ServiceAssumption DEF ServiceTypeOK
    <3>2. <<u, 1>> \in {<<u, k>> : k \in 1..n} /\ <<u, 1>>[1] = u
      BY <3>1
    <3>3. u \in {x[1] : x \in {<<u, k>> : k \in 1..n}}
      BY <3>2
    <3>4. QED
      BY <1>2, <2>1, <2>2, <2>4, <3>3
  <2>5. QED
    BY <2>3, <2>4
<1>5. /\ kpl'[t] = kpl[t] \ {u} /\ \A v \in Task \ {t} : kpl'[v] = kpl[v]
      /\ kpl' = [v \in Task |-> kpl'[v]]
  BY <1>1 DEF Functions
<1>6. (UNION {kpl'[v] : v \in Task}) \cup {u} = UNION {kpl[v] : v \in Task}
  BY <1>1, <1>5
<1>7. QED
  BY <1>1, <1>3, <1>4, <1>5, <1>6 DEF Accepted

LEMMA SidecarsDieKeepsAccepted ==
    ASSUME Functions, NEW t \in Task, SidecarsDie(t)
    PROVE  kpl' = [v \in Task |-> kpl'[v]] /\ Accepted' = Accepted
<1>1. /\ kpl' = [kpl EXCEPT ![t] = {}] /\ dlq' = dlq
      /\ stream' \cup lost' = stream \cup lost \cup kpl[t]
  BY DEF SidecarsDie
<1>2. /\ kpl'[t] = {} /\ \A v \in Task \ {t} : kpl'[v] = kpl[v]
      /\ kpl' = [v \in Task |-> kpl'[v]]
  BY <1>1 DEF Functions
<1>3. (UNION {kpl'[v] : v \in Task}) \cup kpl[t] = UNION {kpl[v] : v \in Task}
  BY <1>2
<1>4. QED
  BY <1>1, <1>2, <1>3 DEF Accepted, Rejected

-----------------------------------------------------------------------------
(* The handlers.                                                           *)

LEMMA ServiceStep ==
    ASSUME ServiceTypeOK, Fault \/ Death \/ UNCHANGED service
    PROVE  ServiceTypeOK'
BY ServiceAssumption DEF ServiceTypeOK, Fault, Death, service

LEMMA OfferedSame ==
    ASSUME Accepted' = Accepted, refused' = refused
    PROVE  \A r \in Request : Offered(r)' = Offered(r)
BY DEF Offered

\* A request that is left alone, or turned down or aborted where it is, keeps the
\* prefix it has.
LEMMA PrefixKept ==
    ASSUME NEW r \in Request, Prefix(r), Offered(r)' = Offered(r),
           \/ handling'[r] = handling[r] /\ answer'[r] = answer[r]
           \/ handling'[r] = Idle /\ answer'[r] \in {"bad_request", "aborted"}
    PROVE  Prefix(r)'
<1>1. PICK n \in 0..Len(Body[r]) :
        /\ Offered(r) = 1..n
        /\ \A i \in 1..n : Good(Body[r][i])
        /\ answer[r] = "created" => n = Len(Body[r])
        /\ handling[r] # Idle => answer[r] = "none" /\ handling[r].next = n + 1
        /\ handling[r] = Idle /\ answer[r] = "none" => n = 0
  BY DEF Prefix
<1>2. Idle' = Idle
  BY DEF Idle
<1>3. QED
  BY <1>1, <1>2 DEF Prefix

\* A step of the handler of r alone, after which r is in order again.
LEMMA HandlerStep ==
    ASSUME IInv, NEW r \in Request, UNCHANGED health, ServiceTypeOK',
           kpl' = [t \in Task |-> kpl'[t]],
           handling' = [handling EXCEPT ![r] = handling'[r]],
           answer' = [answer EXCEPT ![r] = answer'[r]],
           \/ handling'[r] = Idle
           \/ /\ handling'[r] \in [task : Task, next : Nat]
              /\ handling'[r].next \in 1..(Len(Body[r]) + 1),
           answer'[r] \in {"none", "created", "bad_request", "aborted"},
           Prefix(r)', \A s \in Request \ {r} : Offered(s)' = Offered(s)
    PROVE  IInv'
<1>1. /\ handling' = [s \in Request |-> handling'[s]]
      /\ answer' = [s \in Request |-> answer'[s]]
      /\ \A s \in Request \ {r} : handling'[s] = handling[s] /\ answer'[s] = answer[s]
  BY DEF IInv, Functions
<1>2. Functions'
  BY <1>1 DEF Functions
<1>3. TypeOK'
  BY <1>1 DEF IInv, TypeOK, health, Idle
<1>7. HandlerRecords'
  BY <1>1 DEF IInv, HandlerRecords, Idle
<1>4. \A s \in Request : Prefix(s)'
  <2>1. \A s \in Request \ {r} : Prefix(s)'
    BY <1>1, PrefixKept DEF IInv
  <2>2. QED
    BY <2>1
<1>5. Streaks'
  BY DEF IInv, Streaks, health
<1>6. QED
  BY <1>2, <1>3, <1>4, <1>5, <1>7 DEF IInv

\* A request that is turned down or aborted.
LEMMA TurnedDown ==
    ASSUME IInv, NEW r \in Request, handling[r] # Idle,
           NEW a \in {"bad_request", "aborted"}, Respond(r, a),
           UNCHANGED <<health, sidecars>>, Fault \/ UNCHANGED service
    PROVE  IInv' /\ UNCHANGED Mapped
<1>1. Accepted' = Accepted /\ refused' = refused /\ kpl' = kpl
  BY DEF sidecars, Accepted, Rejected
<1>2. /\ handling'[r] = Idle /\ answer'[r] = a
      /\ handling' = [handling EXCEPT ![r] = handling'[r]]
      /\ answer' = [answer EXCEPT ![r] = answer'[r]]
      /\ \A s \in Request \ {r} : answer'[s] = answer[s]
  BY DEF Respond, IInv, Functions
<1>3. answer[r] = "none"
  BY DEF IInv, Prefix
<1>4. Prefix(r)'
  BY <1>1, <1>2, OfferedSame, PrefixKept DEF IInv
<1>5. ServiceTypeOK'
  BY ServiceStep DEF IInv, TypeOK
<1>6. IInv'
  BY <1>1, <1>2, <1>4, <1>5, OfferedSame, HandlerStep DEF IInv, Functions
<1>7. Created' = Created
  BY <1>2, <1>3 DEF Created
<1>8. QED
  BY <1>1, <1>6, <1>7 DEF Mapped

LEMMA RouteSimulates ==
    ASSUME IInv, NEW r \in Request, NEW t \in Task, Route(r, t)
    PROVE  IInv' /\ UNCHANGED Mapped
<1>1. /\ answer[r] = "none" /\ handling[r] = Idle
      /\ handling' = [handling EXCEPT ![r] = [task |-> t, next |-> 1]]
      /\ UNCHANGED <<answer, health, sidecars, service>>
  BY DEF Route
<1>2. Accepted' = Accepted /\ refused' = refused /\ kpl' = kpl
  BY <1>1 DEF sidecars, Accepted, Rejected
<1>3. handling'[r] = [task |-> t, next |-> 1] /\ handling'[r] # Idle
  BY <1>1 DEF IInv, Functions, Idle
<1>4. Len(Body[r]) \in Nat
  BY Bodies
<1>5. Prefix(r)'
  <2>1. /\ Offered(r) = 1..0 /\ 0 \in 0..Len(Body[r])
    BY <1>1, <1>4 DEF IInv, Prefix
  <2>2. Offered(r)' = 1..0
    BY <1>2, <2>1, OfferedSame
  <2>3. handling'[r].next = 0 + 1 /\ answer'[r] = "none"
    BY <1>1, <1>3
  <2>4. QED
    BY <1>3, <2>1, <2>2, <2>3 DEF Prefix, Idle
<1>6. ServiceTypeOK'
  BY <1>1, ServiceStep DEF IInv, TypeOK
<1>7. IInv'
  <2>1. handling'[r] \in [task : Task, next : Nat] /\ handling'[r].next \in 1..(Len(Body[r]) + 1)
    BY <1>3, <1>4
  <2>2. answer' = [answer EXCEPT ![r] = answer'[r]]
    BY <1>1 DEF IInv, Functions
  <2>3. handling' = [handling EXCEPT ![r] = handling'[r]]
    BY <1>1, <1>3
  <2>4. QED
    BY <1>1, <1>2, <1>5, <1>6, <2>1, <2>2, <2>3, OfferedSame, HandlerStep DEF IInv, Functions
<1>8. QED
  BY <1>1, <1>2, <1>7 DEF Mapped, Created

\* Where the loop is: at an event all before which were offered.
LEMMA LoopFacts ==
    ASSUME IInv, NEW r \in Request, InLoop(r)
    PROVE  /\ handling[r] # Idle /\ answer[r] = "none"
           /\ handling[r].task \in Task /\ handling[r].next \in DOMAIN Body[r]
           /\ handling[r].next \in Nat
           /\ Event(r) \in EventType
           /\ Offered(r) = 1..(handling[r].next - 1)
           /\ \A i \in 1..(handling[r].next - 1) : Good(Body[r][i])
<1>1. handling[r] # Idle /\ handling[r].next \in DOMAIN Body[r]
  BY DEF InLoop
<1>2. handling[r].task \in Task /\ handling[r].next \in Nat
  BY <1>1, Bodies DEF IInv, TypeOK
<1>3. PICK n \in 0..Len(Body[r]) :
        /\ Offered(r) = 1..n
        /\ \A i \in 1..n : Good(Body[r][i])
        /\ answer[r] = "none" /\ handling[r].next = n + 1
  BY <1>1 DEF IInv, Prefix
<1>4. n = handling[r].next - 1
  BY <1>3, Bodies
<1>5. QED
  BY <1>1, <1>2, <1>3, <1>4, Bodies DEF Event

\* The event the loop is at is offered, to be accepted or refused, and the loop
\* goes on.
LEMMA OfferStep ==
    ASSUME IInv, NEW r \in Request, Puttable(r), NextEvent(r), answer' = answer,
           UNCHANGED health, ServiceTypeOK',
           kpl' = [t \in Task |-> kpl'[t]],
           Accepted' \cup refused' = Accepted \cup refused \cup {UnitAt(r)}
    PROVE  IInv'
<1> DEFINE k == handling[r].next
<1>1. /\ handling[r] # Idle /\ answer[r] = "none"
      /\ handling[r].task \in Task /\ k \in DOMAIN Body[r] /\ k \in Nat
      /\ Event(r) \in EventType
      /\ Offered(r) = 1..(k - 1)
      /\ \A i \in 1..(k - 1) : Good(Body[r][i])
  BY LoopFacts DEF Puttable
<1>2. Good(Body[r][k])
  BY <1>1, ValidIsGood DEF Puttable, Panics, Event
<1>3. \A s \in Request : \A i \in DOMAIN Body[s] :
          <<s, i>> \in Accepted' \cup refused' <=>
              <<s, i>> \in Accepted \cup refused \/ (s = r /\ i = k)
  BY DEF UnitAt
<1>4. \A s \in Request \ {r} : Offered(s)' = Offered(s)
  BY <1>3 DEF Offered
<1>5. Offered(r)' = Offered(r) \cup {k}
  BY <1>1, <1>3 DEF Offered
<1>6. k >= 1 /\ k <= Len(Body[r]) /\ Len(Body[r]) \in Nat
  BY <1>1, Bodies
<1>7. Offered(r)' = 1..k
  BY <1>1, <1>5, <1>6
<1>8. /\ handling' = [handling EXCEPT ![r] = handling'[r]]
      /\ handling'[r] = [task |-> handling[r].task, next |-> k + 1]
      /\ handling'[r] # Idle
  <2>1. handling' = [handling EXCEPT ![r] = [handling[r] EXCEPT !.next = k + 1]]
    BY DEF NextEvent
  <2>2. handling[r] = [task |-> handling[r].task, next |-> k]
    BY <1>1 DEF IInv, HandlerRecords
  <2> HIDE DEF k
  <2>3. handling'[r] = [task |-> handling[r].task, next |-> k + 1]
    BY <2>1, <2>2 DEF IInv, Functions
  <2>4. QED
    BY <2>1, <2>3 DEF Idle, IInv, Functions
<1>9. Prefix(r)'
  <2>1. k \in 0..Len(Body[r]) /\ \A i \in 1..k : Good(Body[r][i])
    BY <1>1, <1>2, <1>6
  <2>2. answer'[r] = "none"
    BY <1>1
  <2>3. QED
    BY <1>7, <1>8, <2>1, <2>2 DEF Prefix, Idle
<1>10. handling'[r] \in [task : Task, next : Nat] /\ handling'[r].next \in 1..(Len(Body[r]) + 1)
  BY <1>1, <1>6, <1>8
<1>11. answer' = [answer EXCEPT ![r] = answer'[r]] /\ answer'[r] = "none"
  BY <1>1 DEF IInv, Functions
<1>12. QED
  BY <1>4, <1>8, <1>9, <1>10, <1>11, HandlerStep

\* PutRecord hands the unit on.
LEMMA PutRecordSimulates ==
    ASSUME IInv, NEW r \in Request, PutRecord(r)
    PROVE  IInv' /\ F!Next
<1>1. /\ Puttable(r) /\ NextEvent(r) /\ answer' = answer /\ Accept(handling[r].task, UnitAt(r))
      /\ UNCHANGED <<health, service>> /\ refused' = refused
  BY DEF PutRecord, Accept
<1>2. handling[r].task \in Task /\ handling[r].next \in DOMAIN Body[r]
  BY <1>1, LoopFacts DEF Puttable
<1>3. kpl' = [v \in Task |-> kpl'[v]] /\ Accepted' = Accepted \cup {UnitAt(r)}
  BY <1>1, <1>2, AcceptAdds DEF IInv
<1>4. ServiceTypeOK'
  BY <1>1, ServiceStep DEF IInv, TypeOK
<1>5. IInv'
  BY <1>1, <1>3, <1>4, OfferStep
<1>6. UnitAt(r) \in UNION {{s} \X (DOMAIN Body[s]) : s \in Request}
  BY <1>2 DEF UnitAt
<1>7. F!Hand(UnitAt(r))
  BY <1>1, <1>3 DEF F!Hand
<1>8. QED
  BY <1>5, <1>6, <1>7 DEF F!Next

\* A put that fails refuses it.
LEMMA PutRecordFailsSimulates ==
    ASSUME IInv, NEW r \in Request, PutRecordFails(r)
    PROVE  IInv' /\ F!Next
<1>1. /\ Puttable(r) /\ NextEvent(r) /\ answer' = answer /\ UNCHANGED health
      /\ refused' = refused \cup {UnitAt(r)} /\ UNCHANGED <<kpl, stream, dlq, lost>> /\ Fault
  BY DEF PutRecordFails, Refuse
<1>2. handling[r].task \in Task /\ handling[r].next \in DOMAIN Body[r]
  BY <1>1, LoopFacts DEF Puttable
<1>3. kpl' = [v \in Task |-> kpl'[v]] /\ Accepted' = Accepted
  BY <1>1 DEF IInv, Functions, Accepted, Rejected
<1>4. ServiceTypeOK'
  BY <1>1, ServiceStep DEF IInv, TypeOK
<1>5. IInv'
  BY <1>1, <1>3, <1>4, OfferStep
<1>6. {UnitAt(r)} \in SUBSET (UNION {{s} \X (DOMAIN Body[s]) : s \in Request})
  BY <1>2 DEF UnitAt
<1>7. F!Refuse({UnitAt(r)})
  BY <1>1, <1>3 DEF F!Refuse
<1>8. QED
  BY <1>5, <1>6, <1>7 DEF F!Next

\* Past the last event the request is done: all of them are good and offered.
LEMMA FinishSimulates ==
    ASSUME IInv, NEW r \in Request, Finish(r)
    PROVE  IInv' /\ F!Next
<1>1. /\ handling[r] # Idle /\ handling[r].next \notin DOMAIN Body[r]
      /\ handling' = [handling EXCEPT ![r] = Idle]
      /\ answer' = [answer EXCEPT ![r] = "created"]
      /\ UNCHANGED <<health, sidecars, service>>
  BY DEF Finish, Respond
<1>2. PICK n \in 0..Len(Body[r]) :
        /\ Offered(r) = 1..n
        /\ \A i \in 1..n : Good(Body[r][i])
        /\ handling[r].next = n + 1
  BY <1>1 DEF IInv, Prefix
<1>3. n = Len(Body[r]) /\ DOMAIN Body[r] = 1..n
  BY <1>1, <1>2, Bodies
<1>4. Accepted' = Accepted /\ refused' = refused /\ kpl' = kpl
  BY <1>1 DEF sidecars, Accepted, Rejected
<1>5. /\ handling'[r] = Idle /\ answer'[r] = "created"
      /\ \A s \in Request \ {r} : answer'[s] = answer[s]
  BY <1>1 DEF IInv, Functions
<1>6. Prefix(r)'
  BY <1>2, <1>3, <1>4, <1>5, OfferedSame DEF Prefix, Idle
<1>7. IInv'
  <2>1. ServiceTypeOK'
    BY <1>1, ServiceStep DEF IInv, TypeOK
  <2>2. kpl' = [v \in Task |-> kpl'[v]]
    BY <1>4 DEF IInv, Functions
  <2>3. QED
    BY <1>1, <1>4, <1>5, <1>6, <2>1, <2>2, OfferedSame, HandlerStep
<1>8. F!Remove(r)
  <2>1. \A i \in DOMAIN Body[r] : Good(Body[r][i])
    BY <1>2, <1>3
  <2>2. {r} \X (DOMAIN Body[r]) \subseteq Accepted \cup refused
    BY <1>2, <1>3 DEF Offered
  <2>3. Created' = Created \cup {r}
    BY <1>5 DEF Created
  <2>4. QED
    BY <1>4, <2>1, <2>2, <2>3 DEF F!Remove, Created
<1>9. QED
  BY <1>7, <1>8 DEF F!Next

LEMMA HandlersSimulate ==
    ASSUME IInv, NEW r \in Request,
           \/ \E t \in Task : Route(r, t)
           \/ ProcessData(r)
           \/ BodyUnreadable(r) \/ SecretFails(r) \/ SecretNoKey(r) \/ PutRecordFails(r)
    PROVE  IInv' /\ (F!Next \/ UNCHANGED Mapped)
<1>1. CASE \/ Screen(r) \/ BodyUnreadable(r) \/ EventInvalid(r) \/ EventPanics(r)
           \/ SecretFails(r) \/ SecretNoKey(r)
  <2>1. /\ handling[r] # Idle /\ UNCHANGED <<health, sidecars>>
        /\ Fault \/ UNCHANGED service
        /\ Respond(r, "bad_request") \/ Respond(r, "aborted")
    BY <1>1 DEF Screen, BodyUnreadable, EventInvalid, EventPanics, SecretFails, SecretNoKey,
                BeforeLoop, InLoop, AtSecret
  <2>2. QED
    BY <2>1, TurnedDown
<1>2. QED
  BY <1>1, RouteSimulates, PutRecordSimulates, PutRecordFailsSimulates, FinishSimulates
     DEF ProcessData

-----------------------------------------------------------------------------
(* Health.                                                                 *)

\* A step that leaves the handlers alone, and what the sidecars have had.
LEMMA HealthStep ==
    ASSUME IInv, UNCHANGED http, Accepted' = Accepted, refused' = refused,
           kpl' = [t \in Task |-> kpl'[t]], ServiceTypeOK',
           down' \in [Task -> 0..LongAgo], inService' \subseteq Task,
           streak' \in [Task -> 0..(Threshold - 1)], Streaks'
    PROVE  IInv' /\ UNCHANGED Mapped
<1>1. \A r \in Request : Prefix(r)'
  BY OfferedSame, PrefixKept DEF IInv, http
<1>2. TypeOK' /\ HandlerRecords' /\ Functions'
  BY DEF IInv, TypeOK, HandlerRecords, Functions, http, Idle, LongAgo
<1>3. Created' = Created
  BY DEF Created, http
<1>4. QED
  BY <1>1, <1>2, <1>3 DEF IInv, Mapped

LEMMA Bounds ==
    /\ Quiet \in Nat /\ Quiet >= 1 /\ Threshold \in Nat /\ Threshold >= 1
    /\ LongAgo = Quiet + Threshold
BY HttpAssumption DEF LongAgo

LEMMA KinesisErrorSimulates ==
    ASSUME IInv, NEW t \in Task, NEW u \in kpl[t], KinesisError(t, u)
    PROVE  IInv' /\ UNCHANGED Mapped
<1>1. /\ ErrHandler(t, u) /\ down' = [down EXCEPT ![t] = 0]
      /\ UNCHANGED <<http, inService, streak>>
  BY DEF KinesisError
<1>2. /\ Accepted' = Accepted /\ refused' = refused
      /\ kpl' = [v \in Task |-> kpl'[v]] /\ ServiceTypeOK'
  BY <1>1, ErrHandlerKeepsAccepted DEF IInv, TypeOK
<1>4. /\ down \in [Task -> 0..LongAgo] /\ streak \in [Task -> 0..(Threshold - 1)]
      /\ inService \subseteq Task
  BY DEF IInv, TypeOK
<1>5. down' \in [Task -> 0..LongAgo] /\ Streaks'
  BY <1>1, <1>4, Bounds DEF IInv, Streaks
<1>6. QED
  BY <1>1, <1>2, <1>4, <1>5, HealthStep

\* An interval: every task answers, and its answer is counted or believed.
LEMMA IntervalSimulates ==
    ASSUME IInv, Interval
    PROVE  IInv' /\ UNCHANGED Mapped
<1> DEFINE age      == [t \in Task |-> IF down[t] < LongAgo THEN down[t] + 1 ELSE LongAgo]
           contrary == {t \in Task : Healthcheck(age[t]) # (t \in inService)}
           changing == {t \in contrary : streak[t] + 1 = Threshold}
<1>1. /\ down' = age
      /\ inService' = (inService \ changing) \cup (changing \ inService)
      /\ streak' = [t \in Task |-> IF t \in contrary \ changing THEN streak[t] + 1 ELSE 0]
      /\ UNCHANGED <<http, sidecars, service>>
  BY DEF Interval
<1>2. /\ down \in [Task -> 0..LongAgo] /\ streak \in [Task -> 0..(Threshold - 1)]
      /\ inService \subseteq Task
  BY DEF IInv, TypeOK
<1>3. ASSUME NEW t \in Task
      PROVE  /\ age[t] \in 0..LongAgo /\ streak'[t] \in 0..(Threshold - 1)
             /\ age[t] < Quiet /\ t \in inService' => streak'[t] >= age[t]
             /\ age[t] >= Quiet /\ t \notin inService' => streak'[t] >= age[t] - Quiet
  <2>1. /\ down[t] \in 0..LongAgo /\ streak[t] \in 0..(Threshold - 1)
        /\ down[t] < Quiet /\ t \in inService => streak[t] >= down[t]
        /\ down[t] >= Quiet /\ t \notin inService => streak[t] >= down[t] - Quiet
    BY <1>2 DEF IInv, Streaks
  <2>2. /\ age[t] = IF down[t] < LongAgo THEN down[t] + 1 ELSE LongAgo
        /\ t \in contrary <=> (age[t] >= Quiet /\ t \notin inService)
                              \/ (~(age[t] >= Quiet) /\ t \in inService)
        /\ t \in changing <=> t \in contrary /\ streak[t] + 1 = Threshold
        /\ t \in inService' <=> (t \in inService /\ t \notin changing)
                                \/ (t \in changing /\ t \notin inService)
        /\ streak'[t] = IF t \in contrary /\ t \notin changing THEN streak[t] + 1 ELSE 0
    BY <1>1 DEF Healthcheck
  <2> HIDE DEF age, contrary, changing
  <2>3. QED
    BY <2>1, <2>2, Bounds
<1>4. /\ down' \in [Task -> 0..LongAgo] /\ streak' \in [Task -> 0..(Threshold - 1)]
      /\ inService' \subseteq Task /\ Streaks'
  <2>1. inService' \subseteq Task
    BY <1>1, <1>2
  <2>2. down' = [t \in Task |-> age[t]] /\ streak' = [t \in Task |-> streak'[t]]
    BY <1>1
  <2> HIDE DEF age, contrary, changing
  <2>3. QED
    BY <1>1, <1>3, <2>1, <2>2 DEF Streaks
<1>5. ServiceTypeOK' /\ Accepted' = Accepted /\ refused' = refused
      /\ kpl' = [v \in Task |-> kpl'[v]]
  BY <1>1, ServiceStep DEF IInv, TypeOK, Functions, sidecars, Accepted, Rejected
<1>6. QED
  BY <1>1, <1>4, <1>5, HealthStep

\* A task that stops aborts what it handles; its successor is new to the load
\* balancer.
LEMMA StopSimulates ==
    ASSUME IInv, NEW t \in Task, Stop(t), Death \/ UNCHANGED service
    PROVE  IInv' /\ UNCHANGED Mapped
<1> DEFINE dropped == {r \in Request : handling[r] # Idle /\ handling[r].task = t}
<1>1. /\ handling' = [r \in Request |-> IF r \in dropped THEN Idle ELSE handling[r]]
      /\ answer' = [r \in Request |-> IF r \in dropped THEN "aborted" ELSE answer[r]]
      /\ SidecarsDie(t) /\ down' = [down EXCEPT ![t] = Quiet]
      /\ inService' = inService \ {t} /\ streak' = [streak EXCEPT ![t] = 0]
      /\ refused' = refused
  BY DEF Stop, Restart, SidecarsDie
<1>2. Accepted' = Accepted /\ kpl' = [v \in Task |-> kpl'[v]]
  BY <1>1, SidecarsDieKeepsAccepted DEF IInv
<1>3. \A r \in Request :
         \/ handling'[r] = handling[r] /\ answer'[r] = answer[r]
         \/ handling[r] # Idle /\ handling'[r] = Idle /\ answer'[r] = "aborted"
  BY <1>1
<1>4. \A r \in Request : Prefix(r)'
  BY <1>1, <1>2, <1>3, OfferedSame, PrefixKept DEF IInv
<1>5. /\ down \in [Task -> 0..LongAgo] /\ streak \in [Task -> 0..(Threshold - 1)]
      /\ inService \subseteq Task
  BY DEF IInv, TypeOK
<1>6. /\ down' \in [Task -> 0..LongAgo] /\ streak' \in [Task -> 0..(Threshold - 1)]
      /\ inService' \subseteq Task
  BY <1>1, <1>5, Bounds
<1>7. Streaks'
  <2> SUFFICES ASSUME NEW v \in Task
               PROVE  /\ down'[v] < Quiet /\ v \in inService' => streak'[v] >= down'[v]
                      /\ down'[v] >= Quiet /\ v \notin inService' =>
                             streak'[v] >= down'[v] - Quiet
    BY DEF Streaks
  <2>1. CASE v = t
    BY <1>1, <1>5, <2>1, Bounds
  <2>2. CASE v # t
    BY <1>1, <1>5, <2>2 DEF IInv, Streaks
  <2>3. QED
    BY <2>1, <2>2
<1>8. Functions' /\ HandlerRecords'
  <2>1. /\ handling' = [r \in Request |-> handling'[r]]
        /\ answer' = [r \in Request |-> answer'[r]]
    BY <1>1
  <2>2. QED
    BY <1>2, <1>3, <2>1 DEF IInv, Functions, HandlerRecords, Idle
<1>9. TypeOK'
  <2>1. ServiceTypeOK'
    BY ServiceStep DEF IInv, TypeOK
  <2>2. \A r \in Request :
          /\ handling'[r] = Idle \/ /\ handling'[r].task \in Task
                                    /\ handling'[r].next \in 1..(Len(Body[r]) + 1)
          /\ answer'[r] \in {"none", "created", "bad_request", "aborted"}
    BY <1>3 DEF IInv, TypeOK
  <2>3. QED
    BY <1>6, <2>1, <2>2 DEF TypeOK, Idle, LongAgo
<1>10. Created' = Created
  <2>1. \A r \in Request : handling[r] # Idle => answer[r] = "none"
    BY DEF IInv, Prefix
  <2>2. QED
    BY <1>3, <2>1 DEF Created
<1>11. QED
  BY <1>1, <1>2, <1>4, <1>7, <1>8, <1>9, <1>10 DEF IInv, Mapped

-----------------------------------------------------------------------------
(* The theorems.                                                           *)

LEMMA InitImplies == Init => IInv /\ F!Init
<1> SUFFICES ASSUME Init PROVE IInv /\ F!Init
  OBVIOUS
<1>1. Accepted = {} /\ refused = {} /\ kpl = [t \in Task |-> kpl[t]]
  BY DEF Init, InitSidecars, Accepted, Rejected
<1>2. /\ handling = [r \in Request |-> Idle]
      /\ answer = [r \in Request |-> "none"]
      /\ down = [t \in Task |-> LongAgo] /\ inService = Task
      /\ streak = [t \in Task |-> 0]
  BY DEF Init
<1>3. TypeOK /\ HandlerRecords /\ Functions
  <2>1. ServiceTypeOK
    BY ServiceAssumption DEF Init, InitService, ServiceTypeOK
  <2>2. down \in [Task -> 0..LongAgo] /\ streak \in [Task -> 0..(Threshold - 1)]
    BY <1>2, Bounds
  <2>3. QED
    BY <1>1, <1>2, <2>1, <2>2 DEF TypeOK, HandlerRecords, Functions
<1>4. ASSUME NEW r \in Request PROVE Prefix(r)
  <2>1. 0 \in 0..Len(Body[r]) /\ Offered(r) = 1..0
    BY <1>1, Bodies DEF Offered
  <2>2. QED
    BY <1>2, <2>1 DEF Prefix
<1>5. Streaks
  BY <1>2, Bounds DEF Streaks
<1>6. Created = {}
  BY <1>2 DEF Created
<1>7. QED
  BY <1>1, <1>3, <1>4, <1>5, <1>6 DEF IInv, F!Init, Created

LEMMA StepImplies == IInv /\ [Next]_vars => IInv' /\ [F!Next]_Mapped
<1> SUFFICES ASSUME IInv, [Next]_vars PROVE IInv' /\ [F!Next]_Mapped
  OBVIOUS
<1>1. CASE \E t \in Task : Replace(t) \/ Crash(t)
  BY <1>1, StopSimulates DEF Replace, Crash
<1>2. CASE UNCHANGED vars
  <2>1. /\ UNCHANGED <<http, down, inService, streak>> /\ ServiceTypeOK'
        /\ kpl' = kpl /\ Accepted' = Accepted /\ refused' = refused
    BY <1>2, ServiceStep DEF vars, health, sidecars, IInv, TypeOK, Accepted, Rejected
  <2>2. Streaks'
    BY <2>1 DEF IInv, Streaks
  <2>3. QED
    BY <2>1, <2>2, HealthStep DEF IInv, TypeOK, Functions
<1>3. QED
  BY <1>1, <1>2, HandlersSimulate, KinesisErrorSimulates, IntervalSimulates DEF Next

LEMMA Invariance == Spec => []IInv
<1>1. Init => IInv
  BY InitImplies
<1>2. IInv /\ [Next]_vars => IInv'
  BY StepImplies
<1>3. QED
  BY <1>1, <1>2, PTL DEF Spec

\* The type invariant, whatever batches the requests carry: no handler is ever
\* more than one past its last event, and no streak reaches the threshold.
THEOREM TypeCorrect == Spec => []TypeOK
<1>1. IInv => TypeOK
  BY DEF IInv
<1>2. QED
  BY <1>1, Invariance, PTL

\* processData offers a prefix of a batch to the sidecar, of good events, and all of
\* it once it has answered 201: for any number of requests, and tasks that stop
\* under them.
THEOREM PrefixCorrect == Spec => []OfferedPrefix
<1>1. IInv => OfferedPrefix
  BY DEF IInv, Prefix, OfferedPrefix
<1>2. QED
  BY <1>1, Invariance, PTL

\* healthcheck and the load balancer together: for any number of tasks, any quiet
\* time and any threshold, a task is out of service from Threshold intervals after
\* an error to the end of its quiet time, and in service again Threshold later.
THEOREM HealthCorrect == Spec => []HealthFollowsErrors
<1>1. IInv => HealthFollowsErrors
  <2> SUFFICES ASSUME IInv, NEW t \in Task
               PROVE  /\ down[t] \in Threshold..(Quiet - 1) => t \notin inService
                      /\ down[t] = LongAgo => t \in inService
    BY DEF HealthFollowsErrors
  <2>1. down[t] \in 0..LongAgo /\ streak[t] \in 0..(Threshold - 1)
    BY DEF IInv, TypeOK
  <2>2. QED
    BY <2>1, Bounds DEF IInv, Streaks
<1>2. QED
  BY <1>1, Invariance, PTL

\* startServer and processData implement the forwarder.
THEOREM Refinement == Spec => IsForwarder
<1>1. Init => F!Init
  BY InitImplies
<1>2. IInv /\ [Next]_vars => [F!Next]_Mapped
  BY StepImplies
<1>3. QED
  BY <1>1, <1>2, Invariance, PTL DEF Spec, IsForwarder, F!Spec, Mapped, Created
=============================================================================
