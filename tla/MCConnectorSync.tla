-------------------------- MODULE MCConnectorSync --------------------------
(* Instances of ConnectorSync for TLC. *)
EXTENDS ConnectorSync

CONSTANTS t1, t2, q1, q2, s1, s2

OneTenant  == {t1}
TwoTenants == {t1, t2}
OneJob     == {q1}
TwoJobs    == {q1, q2}
NoJob      == {}
OnePass    == {s1}
TwoPasses  == {s1, s2}
OneRecord  == {1}
TwoRecords == {1, 2}
AllKinds   == {"source", "oauth", "live"}
SourceKind == {"source"}
OauthKind  == {"oauth"}
Everything == {"source", "fetch", "partial", "ingest", "tag", "abandon",
               "purge", "reassign", "delete"}
NoneOfThem == {}
OnlyPurge  == {"purge"}

(* The connector is created for t1: no action tells the tenants apart, so  *)
(* a behaviour that begins with t2 is one of these with the names swapped. *)
InitForT1    == Init /\ owner = t1
CreatedForT1 == InitForT1 /\ [][Next]_vars /\ Fairness
=============================================================================
