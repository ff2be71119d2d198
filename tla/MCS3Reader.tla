----------------------------- MODULE MCS3Reader -----------------------------
(***************************************************************************)
(* Instances of the reader for TLC: an archive of three hours around the   *)
(* end of a February with 29 days, the middle one without objects.         *)
(***************************************************************************)
EXTENDS S3Reader, TLC

\* The first hour has one object more than a page.
ThreeHours == (0 :> <<"a", "b", "d">>) @@ (1 :> <<>>) @@ (2 :> <<"c">>)

At(y, mon, d, h) == [year |-> <<y>>, month |-> <<mon>>, day |-> <<d>>, hour |-> <<h>>]
NoDate           == [year |-> <<>>, month |-> <<>>, day |-> <<>>, hour |-> <<>>]

FirstHour == Date(2020, 2, 29, 23)

\* A job over the archive, whose end is the 30th of February, a job that is no
\* JSON, a job of the last hour, and one whose end has no year.
AllJobs ==
    [whole |-> [start |-> At(2020, 2, 29, 23), end |-> At(2020, 2, 30, 2)],
     empty |-> [start |-> NoDate, end |-> NoDate],
     last  |-> [start |-> At(2020, 3, 1, 1), end |-> At(2020, 3, 1, 2)],
     back  |-> [start |-> At(2020, 3, 1, 1), end |-> [At(2020, 3, 1, 2) EXCEPT !.year = <<>>]]]

WholeAndEmpty == {"whole", "empty"}
LastAndBack   == {"last", "back"}
WholeAndEmptyJobs == [m \in WholeAndEmpty |-> AllJobs[m]]
LastAndBackJobs   == [m \in LastAndBack |-> AllJobs[m]]
=============================================================================
