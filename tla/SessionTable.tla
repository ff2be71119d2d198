---------------------------- MODULE SessionTable ----------------------------
(***************************************************************************)
(* From a session to a row of the sessions table: what the Flink sink      *)
(* serialises, the Timestream record the lambda builds of it, and the rule *)
(* by which Timestream stores records.  The lambda writes a payload again  *)
(* when a call is repeated, and payloads of different lanes in any order.  *)
(*                                                                         *)
(* A payload is a record whose domain is the names of its JSON fields.     *)
(***************************************************************************)
EXTENDS Integers, FiniteSets

CONSTANTS
    Payload,     (* what the session stream carries                            *)
    Session,     (* the session a payload is of                                *)
    MaxDone      (* bound: different payloads written                          *)

\* What VideoSessionSerializationSchema writes for a session that has an id and
\* a region (Gson leaves out what is null, and the other fields are not read).
Serialised(id, region, window, plays) ==
    [videoSessionId |-> id, awsregion |-> region, latestWindow |-> window,
     playCount |-> plays, timeUnit |-> "MILLISECONDS"]

VARIABLES
    done,      (* payloads written at least once                               *)
    table,     (* rows; "of" is history: the session and window of the payload *)
    rejected   (* payloads Timestream has rejected                             *)

vars == <<done, table, rejected>>

Init == done = {} /\ table = {} /\ rejected = {}

-----------------------------------------------------------------------------
(* buildTimestreamRecord.                                                  *)

Blank == ""

\* A text field that is missing, blank or one of two words for it is psm.unk; a
\* missing number or flag prints as null.
Dimension(p, field) ==
    IF field \notin DOMAIN p \/ p[field] \in {Blank, "null", "nil"} THEN "psm.unk"
    ELSE p[field]
DimensionNumber(p, field) == IF field \in DOMAIN p THEN p[field] ELSE "null"
MeasureValue(p, field)    == IF field \in DOMAIN p THEN p[field] ELSE "null"

Dimensions(p) ==
    [sessionId       |-> Dimension(p, "sessionId"),
     awsregion       |-> Dimension(p, "awsregion"),
     attemptOccurred |-> DimensionNumber(p, "attemptOccurred"),
     playOccurred    |-> DimensionNumber(p, "playOccurred"),
     sessionEnded    |-> DimensionNumber(p, "sessionEnded"),
     errorSeverity   |-> Dimension(p, "errorSeverity"),
     errorCode       |-> Dimension(p, "errorCode"),
     errorMessage    |-> Dimension(p, "errorMessage")]
MeasureValues(p) ==
    [attemptCount |-> MeasureValue(p, "attemptCount"),
     playCount    |-> MeasureValue(p, "playCount")]

Key(p) == [dims |-> Dimensions(p), time |-> p.latestWindow]
Row(p) == [key |-> Key(p), measures |-> MeasureValues(p),
           of |-> <<Session[p], p.latestWindow>>]

\* Timestream keeps the first record of a key: one more that says the same is
\* taken and changes nothing, one that says otherwise is rejected.
WriteRecord(p) ==
    LET same == {row \in table : row.key = Key(p)}
    IN  /\ p \in done \/ Cardinality(done) < MaxDone
        /\ done' = done \cup {p}
        /\ table' = IF same = {} THEN table \cup {Row(p)} ELSE table
        /\ rejected' = IF \E row \in same : row.measures # MeasureValues(p)
                       THEN rejected \cup {p} ELSE rejected

Next == \E p \in Payload : WriteRecord(p)

Spec == Init /\ [][Next]_vars

-----------------------------------------------------------------------------
(* Properties.                                                             *)

\* The table has a row of its own for every session and window that was written,
\* and a payload is only rejected for another one of its own session and window.
EverySessionHasItsRow ==
    /\ \A p \in done : \E row \in table : row.of = <<Session[p], p.latestWindow>>
    /\ \A p \in rejected : \E q \in done \ {p} :
          Session[q] = Session[p] /\ q.latestWindow = p.latestWindow
=============================================================================
