---------------------------- MODULE MCHttpIngest ----------------------------
(***************************************************************************)
(* Three requests: a good batch, one whose second event has a session id   *)
(* that is one character too short, and one whose handler panics where     *)
(* encryption is on.                                                       *)
(***************************************************************************)
EXTENDS HttpIngest, TLC

CONSTANTS t1, t2, r1, r2, r3

Full ==
    [eventName |-> Text(12), eventType |-> Text(8), session |-> Text(28),
     sessionid |-> Text(28), ipAddress |-> Text(7)]
ShortId == [Full EXCEPT !.session = Text(27)]
Plain   == [Full EXCEPT !.session = Absent, !.sessionid = Absent, !.ipAddress = Absent]

ThreeBatches ==
    r1 :> <<Full, Full, Full>> @@ r2 :> <<Full, ShortId>> @@ r3 :> <<Plain>>
=============================================================================
