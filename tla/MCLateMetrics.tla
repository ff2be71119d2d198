--------------------------- MODULE MCLateMetrics ---------------------------
(* An event of three objects and one of two, one of which is in both.        *)
EXTENDS LateMetrics, TLC

CONSTANTS e1, e2, o1, o2, o3

TwoEvents == e1 :> <<o1, o2, o3>> @@ e2 :> <<o2, o1>>
=============================================================================
