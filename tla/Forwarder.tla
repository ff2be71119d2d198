----------------------------- MODULE Forwarder -----------------------------
(***************************************************************************)
(* What every loader of the system promises, with no word about queues,    *)
(* workers or sidecars: a message stands for a set of units of work (one   *)
(* row for one destination); units are handed on, possibly again and       *)
(* again, or refused because of a fault; and a message is removed only     *)
(* when nothing of it is left to do.  A message nobody can read stays.     *)
(***************************************************************************)
CONSTANTS
    Message,
    Unit,
    UnitsOf,     (* the units of each message                                  *)
    Unreadable   (* the messages no loader can read                            *)

VARIABLES
    removed,   (* messages taken off the queue for good                        *)
    handed,    (* units a destination's sidecar has accepted                   *)
    refused    (* units a fault has hit                                        *)

Init == removed = {} /\ handed = {} /\ refused = {}

Hand(u) ==
    /\ handed' = handed \cup {u}
    /\ UNCHANGED <<removed, refused>>

Refuse(units) ==
    /\ refused' = refused \cup units
    /\ UNCHANGED <<removed, handed>>

Remove(m) ==
    /\ m \notin Unreadable
    /\ UnitsOf[m] \subseteq handed \cup refused
    /\ removed' = removed \cup {m}
    /\ UNCHANGED <<handed, refused>>

Next ==
    \/ \E u \in Unit : Hand(u)
    \/ \E units \in SUBSET Unit : Refuse(units)
    \/ \E m \in Message : Remove(m)

Spec == Init /\ [][Next]_<<removed, handed, refused>>

\* A removed message could be read, and each of its units was handed on or hit
\* by a fault: the promise of the loaders in one invariant.
RemovedIsDone ==
    \A m \in removed :
        m \notin Unreadable /\ UnitsOf[m] \subseteq handed \cup refused
=============================================================================
