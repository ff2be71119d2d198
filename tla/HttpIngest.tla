----------------------------- MODULE HttpIngest -----------------------------
(***************************************************************************)
(* http_handler: the tasks behind the load balancer.  A request carries a  *)
(* batch of events; its handler validates and puts them one by one into    *)
(* the task's KPL sidecar, while the sidecar's error handler makes the     *)
(* task's health check fail for ten minutes.  Handlers of all requests run *)
(* concurrently.  A unit is <<request, index of the event>>.               *)
(*                                                                         *)
(* Time passes in intervals of the load balancer's health check.           *)
(***************************************************************************)
EXTENDS KplSidecar, EventPayload, Sequences

CONSTANTS
    Request,
    Body,        (* the events of each request                                 *)
    Encrypts,    (* devus with ENABLE_ENCRYPTION                               *)
    Quiet,       (* intervals in the ten minutes a task is unhealthy           *)
    Threshold    (* answers in a row that change the load balancer's mind      *)

ASSUME HttpAssumption ==
    /\ Body \in [Request -> Seq(EventType)]
    /\ Encrypts \in BOOLEAN
    /\ Quiet \in Nat \ {0} /\ Threshold \in Nat \ {0}

VARIABLES
    handling,    (* the task that handles a request and the event it is at     *)
    answer,      (* what the handler decided                                   *)
    down,        (* intervals since kinesisDownTS, for each task, up to a cap  *)
    inService,   (* tasks the load balancer takes for healthy                  *)
    streak       (* answers in a row that say otherwise                        *)

http == <<handling, answer>>
health == <<down, inService, streak>>
vars == <<http, health, sidecars, service>>

Idle == [task |-> "none"]
LongAgo == Quiet + Threshold

\* The zero time of kinesisDownTS is long ago.
Init ==
    /\ handling = [r \in Request |-> Idle]
    /\ answer = [r \in Request |-> "none"]
    /\ down = [t \in Task |-> LongAgo]
    /\ inService = Task
    /\ streak = [t \in Task |-> 0]
    /\ InitSidecars /\ InitService

-----------------------------------------------------------------------------
(* processData.                                                            *)

\* With no task in service the load balancer tries them all.
Route(r, t) ==
    /\ answer[r] = "none" /\ handling[r] = Idle
    /\ t \in (IF inService = {} THEN Task ELSE inService)
    /\ handling' = [handling EXCEPT ![r] = [task |-> t, next |-> 1]]
    /\ UNCHANGED <<answer, health, sidecars, service>>

Respond(r, a) ==
    /\ handling' = [handling EXCEPT ![r] = Idle]
    /\ answer' = [answer EXCEPT ![r] = a]

BeforeLoop(r) == handling[r] # Idle /\ handling[r].next = 1

\* Any request may be one ValidateRequest or the JSON parser turns down.
Screen(r) ==
    /\ BeforeLoop(r)
    /\ Respond(r, "bad_request")
    /\ UNCHANGED <<health, sidecars, service>>

BodyUnreadable(r) ==
    /\ BeforeLoop(r)
    /\ Fault
    /\ Respond(r, "bad_request")
    /\ UNCHANGED <<health, sidecars>>

InLoop(r) ==
    handling[r] # Idle /\ handling[r].next \in DOMAIN Body[r]
Event(r)  == Body[r][handling[r].next]
UnitAt(r) == <<r, handling[r].next>>

NeverPastLast(r) ==                                            \* faulty variant
    handling' = [handling EXCEPT ![r].next = IF @ = Len(Body[r]) THEN @ ELSE @ + 1]
SkipTwo(r) == handling' = [handling EXCEPT ![r].next = @ + 2]  \* faulty variant
NextEvent(r) == handling' = [handling EXCEPT ![r].next = @ + 1]

EventInvalid(r) ==
    /\ InLoop(r) /\ ~IsValid(Event(r))
    /\ Respond(r, "bad_request")
    /\ UNCHANGED <<health, sidecars, service>>

\* net/http recovers the panic and drops the connection.
Panics(e) == IdPanics(e) \/ (Encrypts /\ EncryptPanics(e))

EventPanics(r) ==
    /\ InLoop(r) /\ IsValid(Event(r)) /\ Panics(Event(r))
    /\ Respond(r, "aborted")
    /\ UNCHANGED <<health, sidecars, service>>

AtSecret(r) == InLoop(r) /\ IsValid(Event(r)) /\ ~IdPanics(Event(r)) /\ Encrypts

SecretFails(r) ==
    /\ AtSecret(r)
    /\ Fault
    /\ Respond(r, "bad_request")
    /\ UNCHANGED <<health, sidecars>>

\* NewCipher refuses the secret, its error is dropped, and NewGCM panics on nil.
SecretNoKey(r) ==
    /\ AtSecret(r)
    /\ Fault
    /\ Respond(r, "aborted")
    /\ UNCHANGED <<health, sidecars>>

Puttable(r) == InLoop(r) /\ IsValid(Event(r)) /\ ~Panics(Event(r))

PutRecord(r) ==
    /\ Puttable(r)
    /\ Accept(handling[r].task, UnitAt(r))
    /\ NextEvent(r)
    /\ UNCHANGED <<answer, health, service>>

\* The error is logged; the request goes on.
PutRecordFails(r) ==
    /\ Puttable(r)
    /\ Fault
    /\ Refuse({UnitAt(r)})
    /\ NextEvent(r)
    /\ UNCHANGED <<answer, health>>

Finish(r) ==
    /\ handling[r] # Idle /\ handling[r].next \notin DOMAIN Body[r]
    /\ Respond(r, "created")
    /\ UNCHANGED <<health, sidecars, service>>

-----------------------------------------------------------------------------
(* The health check, the error handler, and tasks that stop.               *)

\* The error handler runs beside the requests and the health check.
KinesisError(t, u) ==
    /\ ErrHandler(t, u)
    /\ down' = [down EXCEPT ![t] = 0]
    /\ UNCHANGED <<http, inService, streak>>

Swapped(d) == d <= Quiet                                       \* faulty variant
Healthcheck(d) == d >= Quiet

\* Every task is probed; one whose last Threshold answers all contradict what
\* the load balancer takes it for changes sides.
Interval ==
    LET age      == [t \in Task |-> IF down[t] < LongAgo THEN down[t] + 1 ELSE LongAgo]
        contrary == {t \in Task : Healthcheck(age[t]) # (t \in inService)}
        changing == {t \in contrary : streak[t] + 1 = Threshold}
    IN  /\ down' = age
        /\ inService' = (inService \ changing) \cup (changing \ inService)
        /\ streak' = [t \in Task |->
                         IF t \in contrary \ changing THEN streak[t] + 1 ELSE 0]
        /\ UNCHANGED <<http, sidecars, service>>

\* SIGTERM, or any other end of the task: os.Exit drops what is being handled,
\* the sidecars stop, and a new task takes the place of the old one.
Restart(t) == down' = [down EXCEPT ![t] = Quiet]

Stop(t) ==
    /\ LET dropped == {r \in Request : handling[r] # Idle /\ handling[r].task = t}
       IN  /\ handling' = [r \in Request |-> IF r \in dropped THEN Idle ELSE handling[r]]
           /\ answer' = [r \in Request |-> IF r \in dropped THEN "aborted" ELSE answer[r]]
    /\ SidecarsDie(t)
    /\ Restart(t)
    /\ inService' = inService \ {t}
    /\ streak' = [streak EXCEPT ![t] = 0]

\* ECS replaces a task the load balancer finds unhealthy.
Replace(t) == t \notin inService /\ ~Healthcheck(down[t]) /\ Stop(t) /\ UNCHANGED service
Crash(t)   == Death /\ Stop(t)

-----------------------------------------------------------------------------
ProcessData(r) ==
    \/ Screen(r)
    \/ EventInvalid(r)
    \/ EventPanics(r)
    \/ PutRecord(r)
    \/ Finish(r)

Next ==
    \/ \E r \in Request :
          \/ \E t \in Task : Route(r, t)
          \/ ProcessData(r)
          \/ BodyUnreadable(r) \/ SecretFails(r) \/ SecretNoKey(r) \/ PutRecordFails(r)
    \/ \E t \in Task :
          \/ \E u \in kpl[t] : KinesisError(t, u)
          \/ Replace(t)
          \/ Crash(t)
    \/ Interval

Spec == Init /\ [][Next]_vars

\* A handler that can go on does; requests are routed and intervals pass.
Fairness ==
    /\ \A r \in Request :
          /\ WF_vars(ProcessData(r))
          /\ WF_vars(\E t \in Task : Route(r, t))
    /\ WF_vars(Interval)
FairSpec == Spec /\ Fairness

-----------------------------------------------------------------------------
(* Properties.                                                             *)

\* A handler is at an event of its batch or past the last one, and the load
\* balancer's streak of deviating checks stays below the threshold that ends it.
TypeOK ==
    /\ \A r \in Request :
          /\ handling[r] = Idle \/ /\ handling[r].task \in Task
                                   /\ handling[r].next \in 1..(Len(Body[r]) + 1)
          /\ answer[r] \in {"none", "created", "bad_request", "aborted"}
    /\ down \in [Task -> 0..LongAgo]
    /\ inService \subseteq Task
    /\ streak \in [Task -> 0..(Threshold - 1)]
    /\ ServiceTypeOK

\* What a handler has handed to the sidecar, which took it or refused it.
Offered(r) == {i \in DOMAIN Body[r] : <<r, i>> \in Accepted \cup refused}

\* What validateFields lets through and no handler panics at, said of the event: a
\* name and a type, and if there is a session id a string of 28 characters or more.
\* The check asks for 30 of its JSON text, which has two quotes.
Good(e) ==
    /\ \A v \in {e.eventName, e.eventType} : v.kind \notin {"absent", "nullword"} /\ v # Text(0)
    /\ e.session = Absent \/ \E n \in 28..e.session.len : e.session = Text(n)

\* What a handler has offered of a batch is a prefix of it, with nothing at or past
\* an event that fails, and all of it if the answer is a 201: the handler validates
\* and puts event by event, so a 400 is no rollback.  The stream may have gaps: an
\* event the sidecar refuses, rejects or loses does not stop the handler.
OfferedPrefix ==
    \A r \in Request :
        \E n \in 0..Len(Body[r]) :
            /\ Offered(r) = 1..n
            /\ \A i \in 1..n : Good(Body[r][i])
            /\ answer[r] = "created" => n = Len(Body[r])

\* A task whose sidecar reported an error is out of service from Threshold
\* intervals later until the ten minutes are over, however errors, probes and
\* restarts interleave; one without an error for longer is in service.
HealthFollowsErrors ==
    \A t \in Task :
        /\ down[t] \in Threshold..(Quiet - 1) => t \notin inService
        /\ down[t] = LongAgo => t \in inService

\* A request is answered with 201 only if all its events passed and each was put
\* or refused by the sidecar with an error.
F == INSTANCE Forwarder WITH
        Message    <- Request,
        Unit       <- UNION {{r} \X (DOMAIN Body[r]) : r \in Request},
        UnitsOf    <- [r \in Request |-> {r} \X (DOMAIN Body[r])],
        Unreadable <- {r \in Request : \E i \in DOMAIN Body[r] : ~Good(Body[r][i])},
        removed    <- {r \in Request : answer[r] = "created"},
        handed     <- Accepted
\* In the terms above, startServer and processData implement the forwarder.
IsForwarder == F!Spec

\* Every request comes to an end: processData answers it, or its task goes away
\* or panics and the connection with it.
AllAnswered == \A r \in Request : <>(answer[r] # "none")

\* Every task is in service for good some time after the sidecar last reported an
\* error: healthcheck does not keep it out for longer than its ten minutes.
AllReturn == \A t \in Task : <>[](t \in inService)
=============================================================================
