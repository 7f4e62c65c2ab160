-------------------------- MODULE MCSchedulerLock --------------------------
(* Instances of SchedulerLock for TLC. *)
EXTENDS SchedulerLock, TLC

CONSTANTS r1, r2, r3

ThreeReplicas == {r1, r2, r3}
=============================================================================
