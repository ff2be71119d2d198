------------------------- MODULE MCTimestreamBuffer -------------------------
(***************************************************************************)
(* An instance of the Timestream buffer for TLC: three records, of two,    *)
(* no and three payloads, and a flush size two payloads fill.              *)
(***************************************************************************)
EXTENDS TimestreamBuffer

ThreeRecords == [r \in 0..3 |-> CASE r = 0 -> 0 [] r = 1 -> 2 [] r = 2 -> 2 [] r = 3 -> 5]
=============================================================================
