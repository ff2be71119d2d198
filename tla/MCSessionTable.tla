--------------------------- MODULE MCSessionTable ---------------------------
(* Two sessions of one region in two windows, with 0 or 1 plays, as the job  *)
(* emits them.                                                               *)
EXTENDS SessionTable

JobPayloads ==
    {Serialised(id, "us-east-1", w, n) : id \in {"a", "b"}, w \in {0, 60}, n \in {0, 1}}
JobSession  == [p \in JobPayloads |-> p.videoSessionId]
=============================================================================
