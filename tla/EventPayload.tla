---------------------------- MODULE EventPayload ----------------------------
(***************************************************************************)
(* What processData asks of an event of a batch.  A field is what JSON has *)
(* at its path: the kind of value and the length of its JSON text, quotes  *)
(* included.  "nullword" is the string "null" or "nil".                    *)
(***************************************************************************)
EXTENDS Naturals

Value ==
    {v \in [kind : {"absent", "null", "nullword", "string", "other"}, len : Nat] :
        v.kind = "absent" => v.len = 0}

\* session is session.sessionId; sessionid and ipAddress are at the top level.
EventType ==
    [eventName : Value, eventType : Value, session : Value,
     sessionid : Value, ipAddress : Value]

Absent   == [kind |-> "absent", len |-> 0]
Text(n)  == [kind |-> "string", len |-> n + 2]     \* a string of n characters
Other(n) == [kind |-> "other", len |-> n]          \* a number, object or array

-----------------------------------------------------------------------------
\* validateFields.  Two characters are an empty string, and any other value
\* whose text is as short.
Missing(v)  == v.kind \in {"absent", "nullword"} \/ v.len = 2

AnyValid(e) == TRUE                                            \* faulty variant
IsValid(e) ==
    /\ ~Missing(e.eventName) /\ ~Missing(e.eventType)
    /\ e.session.kind # "absent" => e.session.len >= 30

\* The type assertion on the session id, which is not there or long here.
IdPanics(e) == e.session.kind \notin {"absent", "string"}

\* encryptSensitiveFields asserts that both fields are there and strings.
IsText(v)        == v.kind \in {"string", "nullword"}
EncryptPanics(e) == ~IsText(e.sessionid) \/ ~IsText(e.ipAddress)
=============================================================================
