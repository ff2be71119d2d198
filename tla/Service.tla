------------------------------ MODULE Service ------------------------------
(***************************************************************************)
(* A service of identical tasks, and the budget of what may go wrong.      *)
(***************************************************************************)
EXTENDS Integers, FiniteSets

CONSTANTS
    Task,         (* the tasks of the service                                  *)
    MaxFaults,    (* bound: calls of S3, SQS or a sidecar that fail            *)
    MaxCrashes    (* bound: tasks that die                                     *)

ASSUME ServiceAssumption == MaxFaults \in Nat /\ MaxCrashes \in Nat

VARIABLES
    faults,   (* failed calls so far                                           *)
    crashes   (* deaths so far                                                 *)

service == <<faults, crashes>>

InitService == faults = 0 /\ crashes = 0

Fault == faults < MaxFaults /\ faults' = faults + 1 /\ UNCHANGED crashes
Death == crashes < MaxCrashes /\ crashes' = crashes + 1 /\ UNCHANGED faults

ServiceTypeOK == faults \in 0..MaxFaults /\ crashes \in 0..MaxCrashes
=============================================================================
