--------------------------- MODULE MCResponseCache ---------------------------
(* An instance of ResponseCache for TLC: a query on one knowledge base, a  *)
(* query on a document set that spans two, and another tenant's query on   *)
(* a knowledge base both tenants have.                                     *)
EXTENDS ResponseCache

CONSTANTS t1, t2, g1, g2, k1, k2, k3, a1, a2

TwoTenants == {t1, t2}
TwoGroups  == {g1, g2}
ThreeKeys  == {k1, k2, k3}
TwoAskers  == {a1, a2}
OneWriter  == {1}

BothGroups == [t \in TwoTenants |-> IF t = t1 THEN {g1, g2} ELSE {g1}]
KeyTenants == [k \in ThreeKeys |-> IF k = k3 THEN t2 ELSE t1]
KeyScopes  == [k \in ThreeKeys |-> IF k = k2 THEN {g1, g2} ELSE {g1}]
=============================================================================
