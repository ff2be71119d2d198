----------------------------- MODULE KplSidecar -----------------------------
(***************************************************************************)
(* The KPL sidecars of the tasks of a service, and the queue their error   *)
(* handlers send to.  A sidecar delivers what it accepted, unless it calls *)
(* the error handler with it or dies first; which of it has arrived is     *)
(* only decided when a task dies.  What a sidecar handles are units: the   *)
(* records of the program, one for each destination stream.                *)
(***************************************************************************)
EXTENDS Service

VARIABLES
    kpl,      (* units a task's sidecars accepted and have not rejected        *)
    stream,   (* units known to be in the destination streams                  *)
    dlq,      (* what the error handlers sent to the queue: <<u, n>> is the    *)
              (* n-th message with the data of a rejected unit u               *)
    lost,     (* history: units accepted and then lost by a sidecar            *)
    refused   (* history: units a fault kept from any sidecar                  *)

sidecars == <<kpl, stream, dlq, lost, refused>>

InitSidecars ==
    /\ kpl = [t \in Task |-> {}]
    /\ stream = {} /\ dlq = {} /\ lost = {} /\ refused = {}

Accept(t, u) ==
    /\ kpl' = [kpl EXCEPT ![t] = @ \cup {u}]
    /\ UNCHANGED <<stream, dlq, lost, refused>>

Refuse(units) ==
    /\ refused' = refused \cup units
    /\ UNCHANGED <<kpl, stream, dlq, lost>>

\* ErrHandler sends the data to the queue, retrying with backoff: n attempts
\* arrive, all but the last of which lost their reply and so were failed calls
\* too.  With none after four minutes the error is logged and the data is gone.
ErrHandler(t, u) ==
    /\ u \in kpl[t]
    /\ \E n \in 0..(MaxFaults - faults) :
          /\ faults' = faults + (IF n = 0 THEN 1 ELSE n)
          /\ dlq'    = dlq \cup {<<u, k>> : k \in 1..n}
          /\ lost'   = IF n = 0 THEN lost \cup {u} ELSE lost
    /\ faults < MaxFaults
    /\ kpl' = [kpl EXCEPT ![t] = @ \ {u}]
    /\ UNCHANGED <<stream, refused, crashes>>

SidecarsDie(t) ==
    /\ \E sent \in SUBSET kpl[t] :
          /\ stream' = stream \cup sent
          /\ lost'   = lost \cup (kpl[t] \ sent)
    /\ kpl' = [kpl EXCEPT ![t] = {}]
    /\ UNCHANGED <<dlq, refused>>

Rejected == {x[1] : x \in dlq}
Accepted == stream \cup Rejected \cup lost \cup UNION {kpl[t] : t \in Task}
=============================================================================
