# TLA+ models of prism-video

This directory holds a verification development of the video metrics pipeline:
TLA+ modules translated from its source, TLC runs on small instances, and proofs
checked by TLAPS. Paths below are relative to the repository.

## 1. The system

    players --> http_handler --> raw stream --> Flink job --> session stream --> session buffer --> Timestream
                (KPL sidecar,      |    |       (kda/agg)          |             lambda              --> Grafana
                 dead letter       |    |           \--> late stream
                 queue)            |    |                  |
                                   |   archive (S3)     late bucket --> late_s3_metrics --> CloudWatch
                                   |    |
                                   |    +--> SQS --> loader --> data mart and slow production streams
                                   |    +--> s3-reader-ltpd --> SQS --> s3-loader-ltpd --> load test stream
                                   dead letter queue --> sqs-kpl-loader --> stream

| Component | Source | State it keeps | Operations | What is hard | What makes it correct |
|---|---|---|---|---|---|
| HTTP ingest | `code/fargate/http_handler`, `code/internal` | time of the last sidecar error; requests being handled | handle a batch of events (validate, encrypt, put), health check, sidecar error handler, SIGTERM | concurrent handlers and error handler, a batch that fails half way, panics, tasks that go in and out of service | what is offered of a batch is a prefix of it; a 201 means every event was offered; health follows errors and recovers |
| Flink job | `code/kda/agg` | shard positions, watermarks, windows, keyed session state, sink buffers | read, filter, stamp, window, emit, expire; checkpoint, restore | several subtasks, event time against arrival, late events, failed puts, restarts with and without a checkpoint | no video event lost but by a failed put, none used twice in one run of the job, the minutes of a session worked on in order, late only if overdue, sessions say what their events say |
| Session buffer | `code/lambda/kds_timestream_buf_sess` and its event source mapping | the batch of a call; what the mapping still has to process | de-aggregate, parse, buffer, write; retry, bisect, give up | partial writes, poison records, retries of what is done | nothing lost, first writes in order, a poison record isolated, the lane drains, every session has its row |
| Loader | `code/fargate/loader` | batch, channel, message in hand; two sidecars | receive, read object, put each row twice, delete | poller and main loop, visibility timeouts, deliveries that come again, partial failure, crashes | deleted means done; every readable message is deleted |
| S3 reader | `code/fargate/s3-reader-ltpd` | job in hand, hour, listing | receive a job, read its dates, list an hour, send names, delete the job | slow jobs, failing calls, sends whose reply is lost, jobs whose range is wrong | every name listed is sent, and sent again only for a reason; every job ends |
| S3 loader | `code/fargate/s3-loader-ltpd` | as the loader, one sidecar | as the loader | messages and objects that make it panic | deleted means done |
| Replay | `code/utilities/sqs-kpl-loader` | as the loader, one record a message | receive, put, delete | refused records, dead letters sent more than once, crashes | deleted means put; every record is deleted |
| SQS client | `code/pkg/sqs` | none | receive, delete, send with backoff | receipts that are no longer valid, a send that arrived and is repeated | part of the above |
| Late event counter | `code/lambda/late_s3_metrics` | the record of the S3 event it is at | count the rows of each object | retries of an asynchronous call, skipped objects, bodies that break off | recounts are explained by retries; only what could not be read whole is missed |
| Object counter | `code/utilities/s3-reader-counter` | none | print a count | nothing | not modelled |
| Logging, configuration, user agent patterns, Terraform | several | none | | | not modelled |

Components interact by streams (append only, ordered in a shard, read again after
a failure; which shard a record of the job goes to is random), by SQS queues (unordered, at least once, hidden while in flight), by
S3 notifications, and by TCP to KPL sidecar containers that call an error handler
back. No component calls another one directly.

## 2. Modules

| Module | Models | Kind |
|---|---|---|
| `VideoSession` | what one window of events does to a session (`VideoSession.java`, `Play.java`, `EventMapping.java`, the sort of `PrismVideoSessionHandler.java`), and the same said without the loop | operators |
| `VideoSessionAgg` | the Flink job around it: source subtasks, filter, watermarks, windows, state and its TTL, late output, sinks, checkpoints, restarts | state machine, extends `VideoSession` |
| `TimestreamBuffer` | `handler.go` of the session buffer and the event source mapping that calls it | state machine |
| `SessionTable` | the row the session buffer builds of a payload, and which rows Timestream keeps | state machine |
| `Forwarder` | what every loader promises, without queues, workers and sidecars | abstract specification |
| `Service`, `SqsQueue`, `SqsPolling`, `KplSidecar` | tasks and the budget of faults; SQS through `pkg/sqs`; the poller, channel and main loop the loaders share; the sidecars and the dead letter queue | parts, composed below |
| `KplLoader` | what the three loaders share: `SqsPolling` with `KplSidecar`, how a message is begun and ends, what runs beside the main loop | part |
| `Loader`, `LtpdLoader`, `SqsKplLoader` | what each loader's main loop does with the message in hand | state machines, extend `KplLoader` |
| `JobDates` | the date parts of a job and the hour `time.Date` makes of them | operators |
| `S3Reader` | the reader, from `Service`, `SqsQueue` and `JobDates` | state machine |
| `LoadTest` | load test production: `S3Reader` sends into the queue `LtpdLoader` reads | composition |
| `EventPayload` | the fields of an event, what `validateFields` lets pass, where the handler panics | operators |
| `HttpIngest` | the ingest tasks behind the load balancer, from `KplSidecar` and `EventPayload` | state machine |
| `DeadLetters` | `HttpIngest`, the dead letter queue of its sidecars, and `SqsKplLoader`, which replays it | composition |
| `LateMetrics` | the late event counter and the retries of its calls | state machine |
| `MC*` | constants for TLC | instances |
| `VideoSessionAggProofs`, `TimestreamBufferProofs`, `S3ReaderProofs`, `HttpIngestProofs` | theorems of the module in the name | proofs |
| `KplLoaderProofs` | lemmas about the queue, the poller, the sidecars and who holds a receive, for all loaders | proofs |
| `LoaderProofs`, `LoadTestProofs`, `DeadLettersProofs` | theorems of the loader, of the load test loader alone and behind the reader, and of the replay with the ingest before it, from these lemmas | proofs |

How state and actions correspond to the code is in `PROJECT.json` under `map`,
definition by definition; the choices a reader should know are these.

**Flink job.** A record is its place `<<subtask, index>>` in the raw stream. Flink
carries records and watermarks of a subtask in FIFO order to the window operator,
so taking a record and processing it is one step: any delay in the channel is an
interleaving with the other subtasks. Windows and the watermark of the operator
follow from what `ProcessVideoStream.java` and `ProcessVideoMetrics.java` build
(bounded out-of-orderness, tumbling event time windows, no allowed lateness, no
idleness); a timer that is due runs before the next element (`NoTimerDue`). Sinks
hold outputs until a checkpoint flushes them; a failure may have delivered any of
them. The producers are built without `setFailOnError`, so a put that fails is only
logged: its output is dropped (`PutFails`) and the checkpoint completes without it.
The session sink partitions at random, so the models say nothing of the order in
which outputs are read; `MinutesInOrder` is about the handler, whose state goes from
one minute of a session to the next. Without a checkpoint the source starts at LATEST. A record whose event type
is null has no `Read` action: the filter throws, and only a restart is left. The
attributes of a session that are filled alike are one attribute, `asset`; device
attributes, which depend on the platform, are another.

**Session buffer.** A lane is the records of a shard that one of the parallel
batches of the mapping processes in order. A record holds the payloads of an
aggregate, possibly none. A failed call may be bisected without using up a retry,
retried, or given up, as the mapping is configured in
`iac/modules/lambda-kds-notifier`. Timestream stores what it does not reject of a
batch; a write that fails otherwise stored nothing or all.

**Session table.** A payload is a record of JSON fields. Timestream keeps the first
record of a key; the same again is accepted, something else is rejected.

**Loaders.** A task is a poller, a bounded channel and a main loop with one message
in hand (`cur`), which also says where in the nested loops it is. Every call of
S3, SQS or a sidecar may fail, once for each of `MaxFaults`, with what the code
does then: skip, go on, or panic. `ErrHandler` runs beside the loop and sends to
the dead letter queue or, after four minutes of backoff, drops the data. A
`SendMessage` is tried again until it gets a reply: an attempt that arrived and whose
reply was lost is a fault, and its message is in the queue besides the next one's, so
one call may send several (also one that ends in an error: that the error is only
logged makes it the same as a success). A task
may die at any point, its sidecars with it. Visibility timeouts of messages
nobody holds end at some time. Up to `MaxEarly` times a message comes back too early:
while a task is busy with it (its timeout was too short, or the queue delivers it
again within it, as a standard queue may), or although it was deleted
(`ReceiveAgain`). There is no redrive policy in the infrastructure, so a message
that is not deleted comes back without end.

**S3 reader.** A job message has eight parts; one that is missing or is no number is
-1, and a message that is no JSON has none of them. `Date` is the instant `time.Date`
makes of any four integers: months and days out of range carry over, so the 30th of
February is a day in March and a missing year is the year -1. Hours are counted from
`Epoch`, the first hour of the archive; hours after it are one hour, `Horizon`.

**HTTP ingest.** Time is counted in intervals of the load balancer's health check;
ten minutes are `Quiet` intervals. An event is the fields the handler asks for, each with what JSON
has at its path and the length of its text: whether it passes `validateFields`,
panics, or can be encrypted follows from them (`EventPayload`). Any request may be turned down before its events are looked at.
The time stamp `kinesisDownTS` is read and written without synchronisation; a read
that mixes both is healthy or not, which the order of `KinesisError` and
`Interval` gives as well. With no healthy task the load balancer uses all.

**Compositions.** `LoadTest` and `DeadLetters` take both their parts whole: every
action of either side is a step, and the link is one conjunct, `Forwarded` or
`Sent`, by which what one side hands to a queue becomes a visible message of the
other. In `LoadTest` both sides share one budget of faults, deaths and early
deliveries, and a name sent twice is two messages; `MaxCopies` is how often it can be
sent within that budget. In `DeadLetters` each side has its own budget; a message
`<<event, n>>` is the n-th dead letter of an event, and `puts` is history: how often
the replay put a message.

**Late event counter.** Lambda repeats a failed asynchronous call up to twice, and
S3 may deliver an event more than once. A body that breaks off is counted up to there
(the error of `ReadFrom` is dropped); `PutMetricData` may have taken the data when it
fails, and the client may repeat a put whose reply was lost.

## 3. Runs

Each run's cfg gives its bounds. `MaxX` constants bound the environment (records,
faults, crashes, restarts, failed puts, early deliveries); nothing in the code is bounded by them.
`CHECK_DEADLOCK FALSE` everywhere: when the bounded input is used up there is
nothing left to do.

| Run | Asks | Bounds and why they are enough |
|---|---|---|
| `agg_streams` | Is what is late overdue, are the minutes of a session worked on in order, do sessions and play counts agree with the events? | two subtasks (one may be behind the other), five records of four events: a late one, two windows of a key, a player clock that reorders, a repeated play, a blank id. 998 000 states |
| `agg_restart` | Is a video event lost but by a failed put, or used twice, across checkpoints, restarts and restarts without a checkpoint; does a window that was left behind fire? | three records, such as two of one window and one that moves a watermark, or one of a window and one on each subtask that is just late enough to close it; one restart and one failed put, between any two steps. Records that kill the job or are no video events are among them |
| `agg_blank_ids` | *violated:* events without a video session id are kept apart by their session | three records |
| `buffer_lane` | Is anything lost, out of order, or blocked by a bad record? | records of two, no and three payloads and a buffer of two: full, partial and empty flushes; one bad record and payload of each kind, one retry, two faults |
| `loader` | Does the loader implement the forwarder, and is each readable message deleted in the end? | two tasks, a message of two objects and one nobody can read, a channel of one, one fault, one death and one early delivery, of a message in hand or a deleted one |
| `reader_jobs` | Does the reader implement the forwarder, are repeated sends explained, does every job end? | a job over three hours around a leap day, its end written as the 30th of February, one hour without objects and one with more than a page, and a message that is no JSON, whose range is empty; two tasks, one fault (a lost reply among them), one death, one early delivery |
| `reader_endless` | *violated:* every job ends | a job whose end lacks its year, beside a good one |
| `load_test` | Reader, queue and loader together: is what a deleted job has sent loaded, unless a fault took it? | one reader, one loader, an hour of one object with a bad row before a good one, a stray message that names no object and kills loaders; one fault, one death, one early delivery, anywhere. A lost reply makes two messages of one call |
| `dead_letters` | Ingest, dead letter queue and replay together: is every event accounted for, is each dead letter put back, and twice only for a reason? | one ingest task with two faults, so two rejections, or one whose dead letter is sent twice; a batch of two good events and one that makes the handler panic; one replay task with one fault, one death, one early delivery; a channel of one, so that the poller waits |
| `ingest` | Is what is offered of a batch a prefix, do requests end, does health follow errors, do tasks return? | two tasks, three requests: a good batch, one whose second event has a session id one character too short, and one that panics where encryption is on; two checks to change the load balancer's mind, ten minutes of three intervals; encryption on, which adds panics and unreadable secrets to what happens without it |
| `late_metrics` | Are recounts explained by failed calls, repeated puts and repeated events, and is nothing missed but what could not be read whole? | two events that share objects, three faults |
| `table_job` | *violated:* every session has its row | two sessions of a region, two windows |

`GoneJobsAreDone` and `EventsAccounted` are about two queues and the tasks on both
sides of them; neither follows from what its parts promise alone, since it also
needs that what one side sends is what the other receives.

Each property of a passing run has a faulty variant of one definition (marked so
in the modules and listed under `mutants`) for which TLC finds it violated.

### Fairness

Weak fairness of a component's own steps: goroutines are scheduled, the Flink
runtime processes and emits, the mapping polls and calls. Weak fairness of the
end of a visibility timeout of a message nobody holds: it is a timer. Strong
fairness of receiving a message: while other messages come and go a message may
be visible only now and then, and SQS returns each visible message in the end to
consumers that keep asking; with a poison message coming back again and again,
weak fairness would let it be the only one received. Nothing is assumed of
producers, faults, crashes, checkpoints, expiry of state, or the end of a timeout
of a message in hand. In `HttpIngest`, load balancer intervals pass and requests
are routed. In `dead_letters` only the replay is fair: whenever the ingest sends a
dead letter, it is replayed. `load_test` asks for safety only, since a malformed
message can be received together with a good one each time and kill the task
before the good one is read.

## 4. Disagreements between the code and what is said of it

Shown by runs:
- `agg_blank_ids`: `VideoEventKeySelector.java` says that events without a video
  session id are kept apart by session id or time; they all get one constant key.
- `reader_endless`: a job whose end is before its start is logged as an error and
  then worked on hour by hour without end.
- `table_job`: the session buffer reads `sessionId`, `attemptCount` and flags from
  payloads that have none of them: the job writes `videoSessionId`. All rows have
  the `sessionId` `psm.unk`, and sessions of one region and window with the same
  flags share one row.

Met while reading, without a run: `s3-reader-ltpd` lists one page of an hour (the
models list one page as well, and promise the names listed); `s3-loader-ltpd`
deletes a message although the sidecar refused a row, where
`code/utilities/README.md` says that all records have completed; the fixture of
`kds_timestream_buf_sess/handler_test.go` is no JSON (`wmukid` has no value), so
`createTimestreamWritableBatches` returns 0 for it and not the number of records
the tests expect. `validateFields` is said, by a comment and by the error it returns
(`handlers.go:156` and 158), to refuse session ids of 30 characters and less, or of
less than 30; it takes the length of the JSON text, quotes included, and lets 28
pass. `Good`, by which the properties of the ingest judge an event, has the 28 of the
code, so that they cannot tell which of these was meant. `encryptSensitiveFields` asks for `sessionid` at the top level, where
the events the tests send have `sessionId`, and `getSecret` asks for a secret without
a name, so encryption as it stands panics or fails on every such event. Whether
Timestream takes the text `null` for a number, as the session buffer writes it for
`attemptCount`, the repository does not say; `SessionTable` lets it.

## 5. Proofs

TLAPS checks every theorem below for all values of the constants: any number of
tasks, messages, events and records, and any budget of faults, deaths, failed puts
and early deliveries. The assumptions are those the modules name (`AggAssumption`,
`BufferAssumption`, `ServiceAssumption`, `QueueAssumption`, `PollingAssumption`,
`LoaderAssumption`, `LtpdAssumption`, `ReaderAssumption`, `LoadTestAssumption`,
`HttpAssumption`, `DeadLetterAssumption`): types of the constants, finiteness of the
sets of tasks and messages where something is counted, that the names of the archive
are different (a key starts with its hour), that the dead letters of
the ingest are messages of the replay and the names the reader sends messages of the loader, each
naming its object, and that an event was received after the epoch and its player's
clock is a number (`PrepareKinesisRecord` overwrites the time of receipt with
`time.Now()`). TLC evaluates each of them on a run.

| Module | Theorem | Says |
|---|---|---|
| `VideoSessionAggProofs` | `TypeCorrect`, `LostOnlyByPutCorrect`, `UsedOnceCorrect`, `OrderCorrect`, `LateCorrect`, `ContentsCorrect`, `PlaysCorrect` | `TypeOK`, `LostOnlyByPut`, `UsedOnce`, `MinutesInOrder`, `LateMeansOverdue`, `SessionContents` and `OnePlayPerWindow` always hold |
| `TimestreamBufferProofs` | `TypeCorrect`, `BufferCorrect`, `NothingLostCorrect`, `PoisonCorrect`, `OrderCorrect` | `TypeOK`, `BufferIsTail`, `NothingLost`, `PoisonIsolated`; and the action property `FirstWritesInOrder` |
| `LoaderProofs` | `TypeCorrect`, `Refinement` | `TypeOK`; the loader implements `Forwarder` |
| `LoadTestProofs` | `TypeCorrect`, `Refinement` | of the load test loader: `TypeOK`; it implements `Forwarder`, its panics included |
| | `TypeCorrectBehindReader`, `RefinementBehindReader`, `JobsCorrect` | the same of the loader while the reader fills its queue; `GoneJobsAreDone` over both |
| `S3ReaderProofs` | `TypeCorrect`, `Refinement`, `SendsCorrect` | `TypeOK`, `SendsExplained`; it implements `Forwarder` |
| `HttpIngestProofs` | `TypeCorrect`, `PrefixCorrect`, `HealthCorrect`, `Refinement` | `TypeOK`, `OfferedPrefix`, `HealthFollowsErrors`; it implements `Forwarder` |
| `DeadLettersProofs` | `Refinement`, `AccountedCorrect`, `ReplayRefinement`, `PutsCorrect` | the replay implements `Forwarder`, alone and behind the ingest; `EventsAccounted` and `PutsExplained` |

Each module proves `Init => IInv`, `IInv /\ [Next]_vars => IInv'` with one lemma for
an action or a group of actions alike, and what follows from `IInv`; a refinement
adds to each step that it is a step of `Forwarder` or changes nothing of what it
sees. Hardly any property is inductive alone. What the invariants add, and why:

**Flink job.** `LostOnlyByPut` of a run that was restored is a fact about the
checkpoint: `CkptSound` says of its positions and windows, together with the
outputs that were flushed or dropped by then (`Settled`), what `LiveSound` says of
the job itself. Flushing the sinks with the checkpoint is what makes the first
follow from the second, and that no output that is settled is ever forgotten, nor
anything taken out of the log, keeps it. `UsedOnce`
needs that a record in a window has been read (so the next one is nowhere yet)
and is in the window of its own key and time only (`Located`). `MinutesInOrder`
needs that the clock of the operator has reached the end of every window emitted in
this run (`Emitted`): what comes later for it is late, and what was due goes in
order. `LateMeansOverdue` needs where a watermark came from (`Clocks`). None of
these expands `ProcessWindow`.

**Sessions.** `SessionContents` says of a loop, through any number of windows, what
comes out of it. `ProcessWindow` is written so that this can be reasoned about: the
sort takes for the n-th event the one with n - 1 before it (`TimeOrder`), and the loop
is a function from the number of turns (`Updated`). `TimeOrderSorts` counts: an event
before another has fewer before it, so ranks are different and, as many as there are
places, all taken; the order is a permutation, and each event is before the next.
`UpdatedTurns` shows that the function exists, and `WindowFits` what it is after the
last turn; both take the least number of turns for which it fails (`Least`) and show
that one turn less fails already. One turn (`FirstEventFits`, `NextEventFits`) is about
the earliest value that is not blank of a sequence with one value more
(`EarliestAppended`), the earliest time, and, for the device attributes, that the
platform does not change once it is known. Of the job, `Contents` says the same of
the checkpoint as of the running state, that the records a session was built from are
in the log, and that an output counts one play if one of its records is a play: all
events of a window have the key of the window (`WindowEvents`), so the ids of its
plays are one or none.

**Session buffer.** When a call returns, its range is dropped, and only `LoopInv`
knows that everything before the buffer is written, that the buffer is the rest up
to `next`, and that past the end it is empty. `PoisonIsolated` needs that only the
first range that waits has used up tries, that it is a single record by then, and
that a healthy record's tries were faults. `FirstWritesInOrder` needs that the
ranges that wait are consecutive up to the cursor and that all before the first of
them is written or given up. Failures are one lemma, `FailedCall`: bisecting,
retrying and discarding keep every record in a range or among the discarded.

**Loaders.** What they share is `Shared` (queue, batches, channels and sidecars are
well formed, and of each message there are finitely many copies, so that a
receipt that was never given out exists). That the loader implements the forwarder needs `Progress`: at each
place of the nested loops, what of the message in hand is done already, the rows cut
off by a truncated read included. `Holders`, which the replay's counting needs, says
that the places a copy can be in (batch, channel, hand, of any task) hold different
receives.

**Load test.** To the loader a step of the reader is one by which unsent messages
become visible, which none of `IInv` minds (`ReaderKeepsLoader`); to the reader a step
of the loader only uses up faults, deaths and early deliveries, and what it proved with
the budget it had it has with less (`LoaderKeepsReader`). The reader's own steps are
cited from `S3ReaderProofs`, instantiated with the variables of `LoadTest`. The link is
`Arrived`: a name is a message of the loader from the step on that sends it. Then a job
that is gone has sent each listed name (the reader's `DeletedIsDone`), each sending is a
message that is visible, in flight or deleted, and a deleted one is done (the loader's).

**Reader.** A job that is gone is done because the hours behind a reader are done,
and of its own hour what is not in its hand any more (`Settled`).

**How often.** `SendsExplained` and `PutsExplained` bound how often something is done
again by the faults, deaths and early deliveries so far, and are not inductive: a
message that came back will be worked on again, and the reason for that is spent
already. Their invariants count the receives that still have the unit ahead of
them and that the message does not hide behind any more (`Due`) beside what was
done; one step adds at most one to either, and has a reason for it. That an event is
no more dead letters than there were faults needs no counting of steps: the ingest
numbers them up to the faults so far (`IngestInv`), and those of one event have
different numbers (`FewMessages`).

**Ingest.** `OfferedPrefix` needs how long the prefix is at each event the handler
stands at; `HealthFollowsErrors` needs that the load balancer's streak is as long as
the time since the answers changed (`Streaks`). `EventsAccounted` is the two
sidecar sides and the link between them: what the ingest sends to the dead letter
queue is a message of the replay from that step on (`Arrived`).

TLC finds no violation of these inductive invariants on the runs' instances either
(`Contents` and `LoadTestIInv` among them; with the receipts of `Unsent` and `Unput` and
the indices of `Kept` and `Overdue` taken up to 9 instead of from `Nat`, which TLC
cannot enumerate).

Model-checked only:
- all liveness properties: fairness and `ENABLED` are out of the prover's reach;
- `RecountsExplained` and `IsForwarder` of `LateMetrics`: no proof is written. The
  events share nothing, so two of them, with an object in common and every fault at
  every place, are what there is to see; the bound is `SendsExplained` in small;
- what a Timestream table keeps of the rows (`EverySessionHasItsRow` does not hold);
- what the data is: `Instant` of `JobDates` and the fields of `EventPayload` are taken by
  the proofs as they are, for whatever values they have.

## 6. Not modelled

The object counter (it lists fixed hours and prints how many objects they have, and
changes no state), logging, metrics and configuration, user
agent parsing, lowercasing and wording of answers, Terraform except the values the
models take as constants, the switch of the loader that turns its sidecars off,
helpers of `s3-loader-ltpd` nothing calls. Message retention (a message that is received
and not deleted for a day disappears), the retry of clients, and Flink's restart
strategy, which the repository does not set, are left out.

## 7. Plan

Done: the modules above, in the order session buffer, Flink job, forwarder and
loaders, reader, ingest, late counter, session table; then the fields of events and
the dates of jobs in place of kinds and numbers, and the two compositions
`LoadTest` and `DeadLetters`; the theorems of section 5.

Next, in this order:
1. Prove `RecountsExplained` and `IsForwarder` of `LateMetrics`.
2. The job and the table in one model, for the windows a restart emits again with
   other contents.
