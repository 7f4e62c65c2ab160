-------------------------- MODULE MCReconciliation --------------------------
(* An instance of Reconciliation for TLC: three namesakes, each in a       *)
(* knowledge base of its own, one entity with a similar name, two syncs.   *)
EXTENDS Reconciliation, TLC

CONSTANTS crm, mail, web, acme, acne, r1, r2

FourUuids == 1..4
Groups == [u \in FourUuids |-> CASE u \in {1, 4} -> crm [] u = 2 -> mail [] u = 3 -> web]
Names  == [u \in FourUuids |-> IF u = 4 THEN acne ELSE acme]
TwoRuns    == {r1, r2}
AlikeNames == {{acme, acne}}
NoNames    == {}
RunsAreAlike == Permutations(TwoRuns)
=============================================================================
