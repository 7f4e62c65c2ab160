-------------------------- MODULE MCIngestionQueue --------------------------
(* Instances of IngestionQueue for TLC. *)
EXTENDS IngestionQueue

CONSTANTS j1, j2, j3, j4

FourJobs == {j1, j2, j3, j4}
=============================================================================
