-------------------------- MODULE VideoSessionAgg --------------------------
(***************************************************************************)
(* The Flink job that turns the raw event stream into one video session    *)
(* record per session and minute: source subtasks reading shards, their    *)
(* bounded-out-of-orderness watermarks, the keyed tumbling-window operator *)
(* with its late side output and its keyed session state, the two Kinesis  *)
(* sinks, and the checkpoints and restarts of the runtime around them.     *)
(*                                                                         *)
(* A record is named by its place <<subtask, index>> in the log, so two    *)
(* copies of an event the producers retried are two records.  The network  *)
(* between a source subtask and the window operator is FIFO and carries    *)
(* records and watermarks alike; every interleaving the operator can see   *)
(* is an interleaving of the Read and EmitWatermark actions below.         *)
(***************************************************************************)
EXTENDS VideoSession, Functions

CONSTANTS
    Subtask,          (* source subtasks, each with its own shards             *)
    Event,            (* the events the players may send                       *)
    WindowSize,       (* length of a tumbling window (60 s)                    *)
    OutOfOrderness,   (* KDA_LATE_ARRIVING_SECS (30 s)                         *)
    MaxRecords,       (* bound: records the stream ever holds                  *)
    MaxRestarts,      (* bound: times the job is restarted                     *)
    MaxDropped        (* bound: outputs whose put fails                        *)

ASSUME AggAssumption ==
    /\ Subtask # {} /\ IsFiniteSet(Subtask)
    /\ WindowSize \in Nat \ {0}
    /\ OutOfOrderness \in Nat
    /\ MaxRecords \in Nat
    /\ MaxRestarts \in Nat
    /\ MaxDropped \in Nat
    \* The ingest stamps an event with the time, the players with any number.
    /\ \A e \in Event : e.recvAt \in Nat \ {0} /\ e.clientTs \in Int

VARIABLES
    log,       (* the raw stream: what each subtask's shards hold              *)
    pos,       (* records each subtask has read                                *)
    maxTs,     (* largest receivedAt a subtask has assigned as timestamp       *)
    wmOut,     (* last watermark a subtask has emitted                         *)
    windows,   (* contents of every window, records in order of arrival        *)
    state,     (* keyed ValueState of the session handler                      *)
    seen,      (* history: records the live state was built from, in use order *)
    sinkBuf,   (* outputs the sinks hold that no checkpoint has flushed        *)
    delivered, (* outputs known to be in the output streams                    *)
    dropped,   (* history: outputs whose put failed                            *)
    ckpt,      (* the last completed checkpoint, or NoCheckpoint               *)
    base,      (* history: where each subtask last started from LATEST         *)
    epoch      (* how often the job was restarted                              *)

source  == <<pos, maxTs, wmOut>>
handler == <<windows, state, seen>>
sinks   == <<sinkBuf, delivered, dropped>>
vars    == <<log, source, handler, sinks, ckpt, base, epoch>>

\* Before its first record a subtask has seen no timestamp: lower than any.
NoTs == -1

NoCheckpoint == [none |-> TRUE]
Snapshot == [pos |-> pos, windows |-> windows, state |-> state, seen |-> seen]

WindowStart(ts) == ts - (ts % WindowSize)
WindowMaxTs(w)  == w + WindowSize - 1

Key    == {VideoSessionId(e) : e \in Event}
Window == {WindowStart(e.recvAt) : e \in Event}

EventAt(r) == log[r[1]][r[2]]

WatermarkTwiceAsLate(s) == maxTs[s] - 2 * OutOfOrderness - 1   \* faulty variant
Watermark(s)            == maxTs[s] - OutOfOrderness - 1

\* The operator's clock: the least of the watermarks of its inputs.
ReachedByOne(ts) == \E s \in Subtask : wmOut[s] >= ts       \* faulty variant
Reached(ts)      == \A s \in Subtask : wmOut[s] >= ts

Open(k, w) == windows[k][w] # <<>>
Due(k, w)  == Open(k, w) /\ Reached(WindowMaxTs(w))
NoTimerDue == \A k \in Key, w \in Window : ~Due(k, w)

Init ==
    /\ log   = [s \in Subtask |-> <<>>]
    /\ pos   = [s \in Subtask |-> 0]
    /\ maxTs = [s \in Subtask |-> NoTs]
    /\ wmOut = [s \in Subtask |-> NoTs - OutOfOrderness - 1]
    /\ windows = [k \in Key |-> [w \in Window |-> <<>>]]
    /\ state = [k \in Key |-> NoSession]
    /\ seen  = [k \in Key |-> <<>>]
    /\ sinkBuf = {} /\ delivered = {} /\ dropped = {}
    /\ ckpt  = NoCheckpoint
    /\ base  = [s \in Subtask |-> 0]
    /\ epoch = 0

-----------------------------------------------------------------------------
(* The environment.                                                        *)

\* A producer appends a record.  A record that waits unread changes nothing,
\* so one per subtask is enough.
RecordsSoFar == Cardinality(UNION {{<<s, i>> : i \in DOMAIN log[s]} : s \in Subtask})
Arrive(s, e) ==
    /\ pos[s] = Len(log[s])
    /\ RecordsSoFar < MaxRecords
    /\ log' = [log EXCEPT ![s] = Append(@, e)]
    /\ UNCHANGED <<source, handler, sinks, ckpt, base, epoch>>

-----------------------------------------------------------------------------
(* The source: deserialise, filter, assign timestamps.  The operator runs  *)
(* the timers a watermark made due before it takes the next record.  No    *)
(* action reads a record whose event type is null: the filter dereferences *)
(* it, the exception fails the job, and a restart is all that is left.     *)

CanRead(s)    == NoTimerDue /\ pos[s] < Len(log[s])
NextRecord(s) == <<s, pos[s] + 1>>
NextEvent(s)  == log[s][pos[s] + 1]

\* All the windows of the record (it has one) are past: allowed lateness is 0.
IsLateAfterGrace(e) ==                                        \* faulty variant
    Reached(WindowMaxTs(WindowStart(e.recvAt)) + WindowSize)
IsLate(e) == Reached(WindowMaxTs(WindowStart(e.recvAt)))

AdvanceByTwo(s) == pos' = [pos EXCEPT ![s] = @ + 2]           \* faulty variant
Advance(s) == pos' = [pos EXCEPT ![s] = @ + 1]
AssignTimestamp(s, e) ==
    maxTs' = [maxTs EXCEPT ![s] = IF e.recvAt > @ THEN e.recvAt ELSE @]

ReadOther(s) ==
    /\ CanRead(s)
    /\ NextEvent(s).eventType # NullType
    /\ ~IsVideoQos(NextEvent(s))
    /\ Advance(s)
    /\ UNCHANGED <<log, maxTs, wmOut, handler, sinks, ckpt, base, epoch>>

LateOutput(r) ==
    [kind |-> "late", key |-> VideoSessionId(EventAt(r)),
     win |-> WindowStart(EventAt(r).recvAt), recs |-> <<r>>,
     session |-> NoSession, epoch |-> epoch]

ReadLate(s) ==
    /\ CanRead(s)
    /\ IsVideoQos(NextEvent(s))
    /\ IsLate(NextEvent(s))
    /\ Advance(s)
    /\ AssignTimestamp(s, NextEvent(s))
    /\ sinkBuf' = sinkBuf \cup {LateOutput(NextRecord(s))}
    /\ UNCHANGED <<log, wmOut, handler, delivered, dropped, ckpt, base, epoch>>

ReadOnTime(s) ==
    LET e == NextEvent(s)
    IN  /\ CanRead(s)
        /\ IsVideoQos(e)
        /\ ~IsLate(e)
        /\ Advance(s)
        /\ AssignTimestamp(s, e)
        /\ windows' = [windows EXCEPT ![VideoSessionId(e)][WindowStart(e.recvAt)] =
                                        Append(@, NextRecord(s))]
        /\ UNCHANGED <<log, wmOut, state, seen, sinks, ckpt, base, epoch>>

\* Periodic emission of a subtask's watermark.
EmitWatermark(s) ==
    /\ NoTimerDue
    /\ Watermark(s) > wmOut[s]
    /\ wmOut' = [wmOut EXCEPT ![s] = Watermark(s)]
    /\ UNCHANGED <<log, pos, maxTs, handler, sinks, ckpt, base, epoch>>

-----------------------------------------------------------------------------
(* The window operator and its session handler.                            *)

\* The timers of a key run in the order of their time.
FirstDue(k, w) == Due(k, w) /\ \A v \in Window : Due(k, v) => w <= v

EventsOf(recs) == [i \in DOMAIN recs |-> EventAt(recs[i])]
UseOrder(recs) == Reordered(recs, TimeOrder(EventsOf(recs)))

SessionOutput(k, w, session) ==
    [kind |-> "session", key |-> k, win |-> w, recs |-> windows[k][w],
     session |-> session, epoch |-> epoch]

PurgeNothing(k, w) == UNCHANGED windows                       \* faulty variant
Purge(k, w) == windows' = [windows EXCEPT ![k][w] = <<>>]

Fire(k, w) ==
    LET session == ProcessWindow(state[k], EventsOf(windows[k][w]), w)
    IN  /\ FirstDue(k, w)
        /\ state'   = [state EXCEPT ![k] = session]
        /\ seen'    = [seen EXCEPT ![k] = @ \o UseOrder(windows[k][w])]
        /\ sinkBuf' = sinkBuf \cup {SessionOutput(k, w, session)}
        /\ Purge(k, w)
        /\ UNCHANGED <<log, source, delivered, dropped, ckpt, base, epoch>>

\* The state of a key no window updated for KDA_STATE_TTL_SECS is never
\* returned again.  The clock is the machine's, so it may be any key's turn.
ExpireState(k) ==
    /\ state[k] # NoSession
    /\ state' = [state EXCEPT ![k] = NoSession]
    /\ seen'  = [seen EXCEPT ![k] = <<>>]
    /\ UNCHANGED <<log, source, windows, sinks, ckpt, base, epoch>>

-----------------------------------------------------------------------------
(* The sinks, and the runtime: consistent checkpoints, for which the sinks *)
(* flush what they hold, and restarts from the last one.                   *)

\* The producers are not told to fail on an error: a put that fails is logged,
\* its output is gone, and the next checkpoint completes without it.
PutFails(o) ==
    /\ o \in sinkBuf
    /\ Cardinality(dropped) < MaxDropped
    /\ sinkBuf' = sinkBuf \ {o}
    /\ dropped' = dropped \cup {o}
    /\ UNCHANGED <<log, source, handler, delivered, ckpt, base, epoch>>

CheckpointWithoutFlush ==                                     \* faulty variant
    /\ NoTimerDue
    /\ ckpt' = Snapshot
    /\ UNCHANGED <<log, source, handler, sinks, base, epoch>>

Checkpoint ==
    /\ NoTimerDue
    /\ ckpt' = Snapshot
    /\ delivered' = delivered \cup sinkBuf
    /\ sinkBuf' = {}
    /\ UNCHANGED <<log, source, handler, dropped, base, epoch>>

\* Of the outputs the sinks hold, any may have reached the stream already.
\* Watermarks are no part of a checkpoint: every subtask starts over.
Fail ==
    /\ epoch < MaxRestarts
    /\ epoch' = epoch + 1
    /\ \E sent \in SUBSET sinkBuf : delivered' = delivered \cup sent
    /\ sinkBuf' = {}
    /\ maxTs' = [s \in Subtask |-> NoTs]
    /\ wmOut' = [s \in Subtask |-> NoTs - OutOfOrderness - 1]
    /\ UNCHANGED <<log, dropped, ckpt>>

Restore ==
    /\ ckpt # NoCheckpoint
    /\ Fail
    /\ pos' = ckpt.pos
    /\ windows' = ckpt.windows /\ state' = ckpt.state /\ seen' = ckpt.seen
    /\ UNCHANGED base

\* Without a checkpoint the job starts as it did first: at the end of the
\* stream (STREAM_INITIAL_POSITION is LATEST) and with nothing.
StartFromLatest ==
    /\ ckpt = NoCheckpoint
    /\ Fail
    /\ pos'  = [s \in Subtask |-> Len(log[s])]
    /\ base' = pos'
    /\ windows' = [k \in Key |-> [w \in Window |-> <<>>]]
    /\ state'   = [k \in Key |-> NoSession]
    /\ seen'    = [k \in Key |-> <<>>]

Next ==
    \/ \E s \in Subtask, e \in Event : Arrive(s, e)
    \/ \E s \in Subtask :
          \/ ReadOther(s) \/ ReadLate(s) \/ ReadOnTime(s) \/ EmitWatermark(s)
    \/ \E k \in Key, w \in Window : Fire(k, w)
    \/ \E k \in Key : ExpireState(k)
    \/ \E o \in sinkBuf : PutFails(o)
    \/ Checkpoint
    \/ Restore
    \/ StartFromLatest

\* The job's own steps are taken as long as they can be; nothing obliges the
\* players to send, the runtime to checkpoint, or a state to expire.
Fairness ==
    /\ \A s \in Subtask :
          /\ WF_vars(ReadOther(s) \/ ReadLate(s) \/ ReadOnTime(s))
          /\ WF_vars(EmitWatermark(s))
    /\ \A k \in Key, w \in Window : WF_vars(Fire(k, w))

Spec     == Init /\ [][Next]_vars
FairSpec == Spec /\ Fairness

-----------------------------------------------------------------------------
(* Properties.                                                             *)

Record == Subtask \X (Nat \ {0})
Outputs      == sinkBuf \cup delivered \cup dropped
InWindow(r)  == \E k \in Key, w \in Window : r \in Range(windows[k][w])
IsOutput(r)  == \E o \in Outputs : r \in Range(o.recs)
Consumed     == UNION {{<<s, i>> : i \in 1..pos[s]} : s \in Subtask}

\* Every variable has its type, and no subtask is past the end of its log.
TypeOK ==
    /\ log \in [Subtask -> Seq(Event)]
    /\ pos \in [Subtask -> Nat]
    /\ base \in [Subtask -> Nat]
    /\ \A s \in Subtask : base[s] <= pos[s] /\ pos[s] <= Len(log[s])
    /\ maxTs \in [Subtask -> Int]
    /\ wmOut \in [Subtask -> Int]
    /\ windows \in [Key -> [Window -> Seq(Record)]]
    /\ DOMAIN state = Key
    /\ DOMAIN seen = Key
    /\ epoch \in 0..MaxRestarts
    /\ \A o \in Outputs :
          /\ o.kind \in {"session", "late"}
          /\ o.key \in Key /\ o.win \in Window
          /\ o.recs \in Seq(Record)
          /\ o.epoch \in 0..epoch

\* Nothing but a failed put loses a video event: each one read since the job
\* last started from LATEST is in an open window, or in a session or a late
\* event that a sink holds, that is in its stream or whose put failed, however
\* often the job was restored (what ProcessVideoMetrics.load wires: windows,
\* side output and both sinks under one checkpoint).
LostOnlyByPut ==
    \A r \in Consumed :
        r[2] > base[r[1]] /\ IsVideoQos(EventAt(r)) => InWindow(r) \/ IsOutput(r)

\* In one run of the job no event is used twice: two outputs have no record in
\* common, and no record of an output is still in a window.
UsedOnce ==
    LET now == {o \in Outputs : o.epoch = epoch}
    IN  /\ \A o, p \in now : o # p => Range(o.recs) \cap Range(p.recs) = {}
        /\ \A o \in now : \A r \in Range(o.recs) : ~InWindow(r)

\* In one run of the job a window that was emitted is never opened again, and
\* what is still open of a key is later than all that was emitted of it: the
\* session handler works on the minutes of a session in order, so the state it
\* carries from one to the next is that of all the minutes before.  This says
\* nothing of the output stream, whose records are partitioned at random.
MinutesInOrder ==
    \A o \in Outputs : o.kind = "session" /\ o.epoch = epoch =>
        \A w \in Window : Open(o.key, w) => o.win < w

\* The lateness KDA_LATE_ARRIVING_SECS grants is granted by every subtask: an
\* event goes to the late stream only behind one of its own subtask that was
\* received so much later than the end of the event's window.
LateMeansOverdue ==
    \A o \in Outputs : o.kind = "late" =>
        LET s == o.recs[1][1]
            i == o.recs[1][2]
        IN  \E j \in 1..(i - 1) :
                log[s][j].recvAt >= WindowMaxTs(o.win) + 1 + OutOfOrderness

\* The state of a session is what its events say: earliest start, every
\* attribute from the first event (by the player's clock inside a window) that
\* has it, whatever the grouping of events into windows was.
SessionContents ==
    \A k \in Key : state[k] # NoSession => MatchesEvents(state[k], EventsOf(seen[k]))

\* Play.java counts a session once per window: the count emitted is 1 if the
\* window holds a play event and 0 if not, however often the player sent it.
OnePlayPerWindow ==
    \A o \in Outputs : o.kind = "session" =>
        o.session.playCount =
            IF \E i \in DOMAIN o.recs : IsPlay(EventAt(o.recs[i])) THEN 1 ELSE 0

\* A window every subtask's events have left behind is emitted, unless the job
\* is restarted first.
PassedWindowsFire ==
    \A k \in Key, w \in Window, n \in 0..MaxRestarts :
        (/\ Open(k, w) /\ epoch = n
         /\ \A s \in Subtask : maxTs[s] >= w + WindowSize + OutOfOrderness)
            ~> (~Open(k, w) \/ epoch # n)

\* What the comment of VideoEventKeySelector.java says of events without a
\* video session id: they are kept apart by their session id.
SessionsKeptApart ==
    \A o \in Outputs : o.kind = "session" =>
        \A i, j \in DOMAIN o.recs :
            EventAt(o.recs[i]).session = EventAt(o.recs[j]).session
=============================================================================
