---------------------------- MODULE VideoSession ----------------------------
(***************************************************************************)
(* The pure part of the Flink application: what one video event            *)
(* contributes to the video session that is emitted for its window.        *)
(*                                                                         *)
(* An event keeps the fields the aggregation tells apart:                  *)
(*   eventType  the client's event type, or NullType (JSON null);          *)
(*   name       the event name;                                            *)
(*   vsid       videoSession.videoSessionId, Blank when not sent;          *)
(*   session    session.sessionId, the id of the player session;           *)
(*   recvAt     receivedAtTimestamp, stamped by the ingest service;        *)
(*   clientTs   eventTimestamp, stamped by the player, NoClientTs when it  *)
(*              is absent or does not parse;                               *)
(*   asset      stands for the fifteen attributes that are filled the same *)
(*              way (asset name and type, region, brand, cdn, city, ...);  *)
(*   platform   decides where the device attributes come from;             *)
(*   uaOs       device attribute read from the parsed user agent;          *)
(*   devOs      the same attribute as sent by the player.                  *)
(* Blank is every null, empty or white-space value, and two values that    *)
(* differ only in the white space around them are one value.               *)
(***************************************************************************)
EXTENDS Integers, Sequences, FiniteSets

Blank      == ""
NullType   == "null"
NoClientTs == -1
NoSession  == [none |-> TRUE]

DefaultVideoSessionId == "default-video-session-id"
VideoQosTypes         == {"VideoQos", "video-qos"}

\* The filter of the source: only video events reach the aggregation.
IsVideoQos(e) == e.eventType \in VideoQosTypes

\* The id an event is partitioned and counted by.
VideoSessionId(e) == IF e.vsid = Blank THEN DefaultVideoSessionId ELSE e.vsid

\* The player's clock when it is usable, the server's otherwise.
ClientTs(e) == IF e.clientTs = NoClientTs THEN e.recvAt ELSE e.clientTs

\* Stable sort of a window by the player's clock: events the player stamped
\* alike stay in their order of arrival.  The n-th of the sorted events is the
\* one with n - 1 events before it.
Before(evs, i, j) ==
    \/ ClientTs(evs[i]) < ClientTs(evs[j])
    \/ ClientTs(evs[i]) = ClientTs(evs[j]) /\ i < j
EventsBefore(evs, i) == {j \in DOMAIN evs : Before(evs, j, i)}
TimeOrder(evs) ==
    [n \in DOMAIN evs |->
        CHOOSE i \in DOMAIN evs : Cardinality(EventsBefore(evs, i)) = n - 1]

Reordered(seq, order) == [n \in DOMAIN seq |-> seq[order[n]]]
SortByClientTs(evs)   == Reordered(evs, TimeOrder(evs))

\* A session as the first event of its first window creates it.
NewSession(e) ==
    [vsid |-> e.vsid, start |-> ClientTs(e), asset |-> e.asset,
     platform |-> e.platform, deviceOs |-> e.uaOs,
     latestWindow |-> 0, playCount |-> 0]

\* An attribute is filled once, from the first event that has it.
LastNonBlank(old, new)  == IF new = Blank THEN old ELSE new   \* faulty variant
FirstNonBlank(old, new) == IF old = Blank THEN new ELSE old

\* The device attribute: nothing while the platform is unknown; the user agent
\* comes before the player's own value on the web, where the switch falls
\* through to the default case.
FillDevice(os, platform, e) ==
    IF platform = Blank THEN os
    ELSE FirstNonBlank(IF platform = "web" THEN FirstNonBlank(os, e.uaOs) ELSE os,
                       e.devOs)

\* The session starts at the earliest time any of its events was received; a
\* start of 0 is a clock that was never set.
EarlierStart(start, e) == IF start = 0 \/ start > e.recvAt THEN e.recvAt ELSE start

\* One turn of the loop over the sorted events of a window.
UpdateMetadata(s, e) ==
    LET platform == FirstNonBlank(s.platform, e.platform)
    IN  [s EXCEPT !.start    = EarlierStart(@, e),
                  !.asset    = FirstNonBlank(@, e.asset),
                  !.platform = platform,
                  !.deviceOs = FillDevice(@, platform, e)]

\* Distinct video session ids among the play events of a window.
IsPlay(e) == e.name = "mediaStarted"
PlayEvents(evs) ==                                            \* faulty variant
    Cardinality({i \in DOMAIN evs : IsPlay(evs[i])})
PlayCount(evs) ==
    Cardinality({VideoSessionId(evs[i]) : i \in {j \in DOMAIN evs : IsPlay(evs[j])}})

\* The session after the first n turns of the loop over the events.
Updated(session, evs) ==
    LET after[n \in 0..Len(evs)] ==
            IF n = 0 THEN session ELSE UpdateMetadata(after[n - 1], evs[n])
    IN  after

\* The window function: old is the keyed state (NoSession when there is none),
\* evs the events of the window in order of arrival, w the window's start.
ProcessWindow(old, evs, w) ==
    LET sorted == SortByClientTs(evs)
        first  == IF old = NoSession THEN NewSession(sorted[1]) ELSE old
        filled == Updated([first EXCEPT !.latestWindow = w], sorted)[Len(sorted)]
    IN  [filled EXCEPT !.playCount = PlayCount(sorted)]

-----------------------------------------------------------------------------
(***************************************************************************)
(* What a session must hold, said without the loop: seen is the sequence   *)
(* of all events the session was built from, in the order they were used.  *)
(***************************************************************************)

\* The value of the earliest element of a sequence of values that is not Blank.
EarliestNonBlank(values) ==
    LET filled == {i \in DOMAIN values : values[i] # Blank}
    IN  IF filled = {} THEN Blank
        ELSE values[CHOOSE i \in filled : \A j \in filled : i <= j]

ExpectedStart(seen) ==
    LET times == {seen[i].recvAt : i \in DOMAIN seen}
                   \cup ({ClientTs(seen[1])} \ {0})
    IN  CHOOSE t \in times : \A u \in times : t <= u

\* Sources of the device attribute in order: the user agent of the event that
\* created the session, then every event from the first that names a platform on,
\* with its user agent (web only) or else its own value.
DeviceOsOf(e, platform) ==
    IF platform = "web" /\ e.uaOs # Blank THEN e.uaOs ELSE e.devOs
ExpectedDeviceOs(seen) ==
    LET platform == EarliestNonBlank([i \in DOMAIN seen |-> seen[i].platform])
        known(i) == \E j \in 1..i : seen[j].platform # Blank
    IN  EarliestNonBlank(
            [i \in 0..Len(seen) |->
                IF i = 0 THEN seen[1].uaOs
                ELSE IF known(i) THEN DeviceOsOf(seen[i], platform) ELSE Blank])

MatchesEvents(s, seen) ==
    /\ s.start    = ExpectedStart(seen)
    /\ s.asset    = EarliestNonBlank([i \in DOMAIN seen |-> seen[i].asset])
    /\ s.platform = EarliestNonBlank([i \in DOMAIN seen |-> seen[i].platform])
    /\ s.deviceOs = ExpectedDeviceOs(seen)
=============================================================================
