------------------------- MODULE MCVideoSessionAgg -------------------------
(***************************************************************************)
(* Instances of the Flink job for TLC: the constants of the application    *)
(* (windows of 60 s, 30 s of out-of-orderness) and a few events chosen so  *)
(* that windows, late events, ties, unset clocks and blank ids all occur.  *)
(***************************************************************************)
EXTENDS VideoSessionAgg, TLC

Ev(recv, client, id, ses, nm, as, pl, ua, dv) ==
    [eventType |-> "VideoQos", name |-> nm, vsid |-> id, session |-> ses,
     recvAt |-> recv, clientTs |-> client, asset |-> as, platform |-> pl,
     uaOs |-> ua, devOs |-> dv]

\* A play of v1 in the first minute, stamped late by the player ...
PlayV1    == Ev(65, 80, "v1", "s1", "mediaStarted", "", "web", "", "mac")
\* ... an earlier event of v1 by the player's clock ...
EarlierV1 == Ev(100, 62, "v1", "s1", "heartbeat", "film", "", "win", "")
\* ... and a repeated play two minutes later, from a clock that was never set.
RepeatV1  == Ev(190, 0, "v1", "s1", "mediaStarted", "clip", "ios", "lin", "tv")
\* ... or as early as it can be for the first minute to be over.
JustPast  == [RepeatV1 EXCEPT !.recvAt = 150]
\* The first video event of another minute, without a video session id.
NoIdA     == Ev(215, NoClientTs, "", "sA", "mediaStarted", "", "", "", "")
NoIdB     == Ev(220, 150, "", "sB", "heartbeat", "", "", "", "")
\* What moves every watermark past the minutes above.
NextV1    == Ev(320, 320, "v1", "s1", "heartbeat", "", "", "", "")
\* Records of the raw stream that are no video events, or that have no type.
OtherType == [PlayV1 EXCEPT !.eventType = "telemetry"]
NoType    == [PlayV1 EXCEPT !.eventType = NullType]

StreamEvents  == {PlayV1, EarlierV1, RepeatV1, NoIdA}
RestartEvents == {PlayV1, JustPast, NoType, OtherType}
BlankIdEvents == {PlayV1, NoIdA, NoIdB, NextV1}

Symmetry == Permutations(Subtask)
=============================================================================
