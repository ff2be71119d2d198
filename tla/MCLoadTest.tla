----------------------------- MODULE MCLoadTest -----------------------------
(***************************************************************************)
(* One job over an hour of one object, and a stray message that names no   *)
(* object.                                                                 *)
(***************************************************************************)
EXTENDS LoadTest, JobDates, TLC

OneHour   == 0 :> <<"b">>
At(h)     == [year |-> <<2021>>, month |-> <<1>>, day |-> <<1>>, hour |-> <<h>>]
FirstHour == Date(2021, 1, 1, 0)
OneJob    == "job" :> [start |-> At(0), end |-> At(1)]

NoObject == <<<<"job", "none">>, 0>>
MCMessage == Names \cup {NoObject}

\* A bad row before a good one.
RowsOf    == [b |-> <<"bad", "ok">>, none |-> <<>>]
MCContent == [m \in MCMessage |-> RowsOf[m[1][2]]]
MCMalformed == {NoObject}
=============================================================================
