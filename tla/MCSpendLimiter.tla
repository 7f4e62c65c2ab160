--------------------------- MODULE MCSpendLimiter ---------------------------
(* An instance of SpendLimiter for TLC: the server with two queries, one   *)
(* of which makes two calls at once, and the ingestion script next to it.  *)
EXTENDS SpendLimiter

CONSTANTS server, script, q1, q2, i1, c1, c2, c3, c4

TwoProcesses == {server, script}
TwoBuckets   == {"query", "ingestion"}
ThreeTasks   == {q1, q2, i1}
FourCalls    == {c1, c2, c3, c4}

TaskProcs   == [t \in ThreeTasks |-> IF t = i1 THEN script ELSE server]
TaskBuckets == [t \in ThreeTasks |-> IF t = i1 THEN "ingestion" ELSE "query"]
CallTasks   == [c \in FourCalls |-> CASE c \in {c1, c2} -> q1 [] c = c3 -> q2 [] c = c4 -> i1]
Budgets     == [b \in TwoBuckets |-> IF b = "query" THEN 2 ELSE 1]
=============================================================================
