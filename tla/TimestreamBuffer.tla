-------------------------- MODULE TimestreamBuffer --------------------------
(***************************************************************************)
(* The kds_timestream_buf_sess lambda together with the event source       *)
(* mapping that calls it: session records are read from one lane of the    *)
(* session stream, de-aggregated, buffered and written to Timestream in    *)
(* batches; a call that fails is repeated, bisected and finally given up   *)
(* to the failed-records queue.                                            *)
(*                                                                         *)
(* A lane is what the mapping processes in order: the records of one shard *)
(* whose partition key falls to one of its parallel batches.  Its records  *)
(* are 1..NumRecords.  Flink's sink packs several session payloads into    *)
(* one record; payloads are numbered through the lane, and record r holds  *)
(* the payloads Last[r - 1] + 1 .. Last[r], possibly none.                 *)
(***************************************************************************)
EXTENDS Integers, Sequences, FiniteSets

CONSTANTS
    NumRecords,   (* records in the lane                                       *)
    Last,         (* number of the last payload of a record                    *)
    FlushSize,    (* payloads written to Timestream in one call (100)          *)
    BatchSize,    (* batch_size of the mapping                                 *)
    MaxRetries,   (* maximum_retry_attempts of the mapping                     *)
    MaxBad,       (* bound: bad records and payloads of each kind              *)
    MaxFaults     (* bound: calls that time out, or whose write fails          *)

ASSUME BufferAssumption ==
    /\ NumRecords \in Nat
    /\ Last \in [0..NumRecords -> Nat]
    /\ Last[0] = 0
    /\ \A q, r \in 0..NumRecords : q <= r => Last[q] <= Last[r]
    /\ FlushSize \in Nat \ {0}
    /\ BatchSize \in Nat \ {0}
    /\ MaxRetries \in Nat
    /\ MaxBad \in Nat
    /\ MaxFaults \in Nat

Record  == 1..NumRecords
Payload == 1..Last[NumRecords]
Chunk   == [lo : Record, hi : Record, tries : 0..MaxRetries]

PayloadsOf(r) == (Last[r - 1] + 1)..Last[r]

VARIABLES
    corrupt,     (* records DeaggregateRecords refuses                         *)
    unparsable,  (* payloads that are no JSON                                  *)
    unwritable,  (* payloads Timestream rejects                                *)
    cursor,      (* records the mapping has taken from the lane                *)
    pending,     (* ranges of records to process, the next one first           *)
    pc,          (* "idle", or where the call for Head(pending) is             *)
    next,        (* the payload the loop is at                                 *)
    ctrBatch,    (* payloads counted since the last write                      *)
    tsRecs,      (* payloads buffered since the last write                     *)
    written,     (* payloads in Timestream                                     *)
    discarded,   (* records given up to the failed-records queue               *)
    faults       (* faults so far                                              *)

content == <<corrupt, unparsable, unwritable>>
mapping == <<cursor, pending, discarded>>
local   == <<next, ctrBatch, tsRecs>>
vars    == <<content, mapping, pc, local, written, faults>>

Init ==
    /\ corrupt \in {S \in SUBSET Record : Cardinality(S) <= MaxBad}
    /\ unparsable \in {S \in SUBSET Payload : Cardinality(S) <= MaxBad}
    /\ unwritable \in {S \in SUBSET Payload : Cardinality(S) <= MaxBad}
    /\ cursor = 0 /\ pending = <<>> /\ discarded = {}
    /\ pc = "idle"
    /\ next = 1 /\ ctrBatch = 0 /\ tsRecs = {}
    /\ written = {} /\ faults = 0

-----------------------------------------------------------------------------
(* The mapping.                                                            *)

lo  == Head(pending).lo
hi  == Head(pending).hi
end == Last[hi]

\* Take what the lane has, at most a batch of it.
Poll ==
    /\ pending = <<>>
    /\ \E n \in 1..BatchSize :
          /\ cursor + n <= NumRecords
          /\ cursor'  = cursor + n
          /\ pending' = <<[lo |-> cursor + 1, hi |-> cursor + n, tries |-> 0]>>
    /\ UNCHANGED <<content, discarded, pc, local, written, faults>>

SecondHalfFirst(r, mid) ==                                     \* faulty variant
    <<[lo |-> mid + 1, hi |-> r.hi, tries |-> 0],
      [lo |-> r.lo, hi |-> mid, tries |-> 0]>>
Halves(r, mid) ==
    <<[lo |-> r.lo, hi |-> mid, tries |-> 0],
      [lo |-> mid + 1, hi |-> r.hi, tries |-> 0]>>

RetryUncounted(r)    == [r EXCEPT !.tries = 0]                 \* faulty variant
RetryCountedTwice(r) == [r EXCEPT !.tries = @ + 2]             \* faulty variant
Retry(r) == [r EXCEPT !.tries = @ + 1]

NeverSplit(r) == FALSE                                         \* faulty variant
CanSplit(r)   == r.lo < r.hi

\* The call for Head(pending) failed.  A range of several records is split in
\* two (bisect_batch_on_function_error, which uses up no retry); one record is
\* tried again; after the last retry it is discarded.
CallFails ==
    LET r == Head(pending)
    IN  /\ pc' = "idle"
        /\ \/ /\ CanSplit(r)
              /\ pending' = Halves(r, (r.lo + r.hi) \div 2) \o Tail(pending)
              /\ UNCHANGED discarded
           \/ /\ ~CanSplit(r) /\ r.tries < MaxRetries
              /\ pending' = <<Retry(r)>> \o Tail(pending)
              /\ UNCHANGED discarded
           \/ /\ ~CanSplit(r) /\ r.tries = MaxRetries
              /\ pending' = Tail(pending)
              /\ discarded' = discarded \cup r.lo..r.hi

-----------------------------------------------------------------------------
(* lambdaHandler.                                                          *)

Invoke ==
    /\ pc = "idle"
    /\ pending # <<>>
    /\ pc' = "deaggregate"
    /\ UNCHANGED <<content, mapping, local, written, faults>>

DeaggregateFails ==
    /\ pc = "deaggregate"
    /\ lo..hi \cap corrupt # {}
    /\ CallFails
    /\ UNCHANGED <<content, cursor, local, written, faults>>

Deaggregate ==
    /\ pc = "deaggregate"
    /\ lo..hi \cap corrupt = {}
    /\ pc' = "loop"
    /\ next' = Last[lo - 1] + 1 /\ ctrBatch' = 0 /\ tsRecs' = {}
    /\ UNCHANGED <<content, mapping, written, faults>>

-----------------------------------------------------------------------------
(* createTimestreamWritableBatches: one turn of the loop per action.       *)

InLoop    == pc = "loop" /\ next <= end
AfterLoop == pc = "loop" /\ next > end

\* Is the buffer to be written once the payload at next is in it?
FlushDueFull(count, p) == count = FlushSize                    \* faulty variant
FlushDueLate(count, p) == count > FlushSize \/ p = end         \* faulty variant
FlushDue(count, p)     == count = FlushSize \/ p = end

\* What has been buffered is lost with the call.
ParseFails ==
    /\ InLoop
    /\ next \in unparsable
    /\ CallFails
    /\ UNCHANGED <<content, cursor, local, written, faults>>

Collect ==
    /\ InLoop
    /\ next \notin unparsable
    /\ ~FlushDue(ctrBatch + 1, next)
    /\ ctrBatch' = ctrBatch + 1
    /\ tsRecs' = tsRecs \cup {next}
    /\ next' = next + 1
    /\ UNCHANGED <<content, mapping, pc, written, faults>>

Batch    == tsRecs \cup {next}
WriteDue == InLoop /\ next \notin unparsable /\ FlushDue(ctrBatch + 1, next)

Write ==
    /\ WriteDue
    /\ Batch \cap unwritable = {}
    /\ written' = written \cup Batch
    /\ ctrBatch' = 0 /\ tsRecs' = {}
    /\ next' = next + 1
    /\ UNCHANGED <<content, mapping, pc, faults>>

\* Timestream stores the payloads it does not reject, and reports the others.
WriteRejected ==
    /\ WriteDue
    /\ Batch \cap unwritable # {}
    /\ written' = written \cup (Batch \ unwritable)
    /\ CallFails
    /\ UNCHANGED <<content, cursor, local, faults>>

\* Throttled, or the answer is lost: nothing was stored, or all that can be.
WriteFails ==
    /\ WriteDue
    /\ faults < MaxFaults
    /\ faults' = faults + 1
    /\ \E stored \in {{}, Batch \ unwritable} : written' = written \cup stored
    /\ CallFails
    /\ UNCHANGED <<content, cursor, local>>

\* Errors of the metrics written here are logged and change nothing.
Return ==
    /\ AfterLoop
    /\ pc' = "idle"
    /\ pending' = Tail(pending)
    /\ UNCHANGED <<content, cursor, discarded, local, written, faults>>

\* The function's time limit, or a crash of its host.
Timeout ==
    /\ pc # "idle"
    /\ faults < MaxFaults
    /\ faults' = faults + 1
    /\ CallFails
    /\ UNCHANGED <<content, cursor, local, written>>

Handler ==
    \/ Invoke \/ DeaggregateFails \/ Deaggregate
    \/ ParseFails \/ Collect \/ Write \/ WriteRejected \/ Return

Next == Poll \/ Handler \/ WriteFails \/ Timeout

\* The mapping polls and calls as long as there is something to do, and a call
\* that nothing disturbs proceeds.
Spec     == Init /\ [][Next]_vars
FairSpec == Spec /\ WF_vars(Poll) /\ WF_vars(Handler)

-----------------------------------------------------------------------------
(* Properties.                                                             *)

\* The mapping holds ranges of the lane's records, a call is made only while it
\* holds one, and what the handler has collected and written are payloads of it.
TypeOK ==
    /\ corrupt \subseteq Record
    /\ unparsable \subseteq Payload
    /\ unwritable \subseteq Payload
    /\ cursor \in 0..NumRecords
    /\ pending \in Seq(Chunk)
    /\ pc \in {"idle", "deaggregate", "loop"}
    /\ pc # "idle" => pending # <<>>
    /\ next \in Nat \ {0}
    /\ ctrBatch \in Nat
    /\ tsRecs \subseteq Payload
    /\ written \subseteq Payload
    /\ discarded \subseteq Record
    /\ faults \in 0..MaxFaults

\* What is buffered is exactly the last ctrBatch payloads the loop has passed,
\* always fewer than a full batch between two turns: no call of WriteRecords
\* carries more than the 100 records Timestream accepts, and the count the
\* loop keeps beside the buffer never disagrees with it.
BufferIsTail ==
    pc = "loop" =>
        /\ ctrBatch < FlushSize
        /\ tsRecs = (next - ctrBatch)..(next - 1)

InPending(r) == \E i \in DOMAIN pending : r \in pending[i].lo..pending[i].hi

\* No session record disappears: what the mapping has taken is still to be
\* processed, was discarded to the failed-records queue, or is written in full,
\* whichever call failed wherever.
NothingLost ==
    \A r \in 1..cursor :
        InPending(r) \/ r \in discarded \/ PayloadsOf(r) \subseteq written

RecordOf(p) == CHOOSE r \in Record : p \in PayloadsOf(r)

\* Timestream sees the lane in order: when a payload is written for the first
\* time, every earlier one is written, rejected or discarded, also after a
\* range was split and its first half tried again.
FirstWritesInOrder ==
    [][\A p \in written' \ written : \A q \in 1..(p - 1) :
          q \in written' \/ q \in unwritable \/ RecordOf(q) \in discarded]_vars

Healthy(r) ==
    r \notin corrupt /\ PayloadsOf(r) \cap (unparsable \cup unwritable) = {}

\* A bad record is isolated: a healthy one is discarded only when it exhausted
\* its retries on faults of its own, never because of its neighbours.
PoisonIsolated ==
    \A r \in discarded : Healthy(r) => faults > MaxRetries

\* The lane is never stuck: whatever is bad in it, it is processed to its end.
LaneDrains == <>(cursor = NumRecords /\ pending = <<>>)
=============================================================================
