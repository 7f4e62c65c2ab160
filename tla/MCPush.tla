------------------------------- MODULE MCPush -------------------------------
(* One tenant with one mailbox and its subscription, and the scheduler's *)
(* ticks: what becomes of a subscription that is due for renewal while   *)
(* nobody deletes or moves anything and the process never restarts.      *)
EXTENDS Lifecycle

CONSTANTS acme, key, base, mail

Bases     == [f \in Config |-> Base]
InFile    == [t \in Tenant |-> key]
KindsHere == [c \in Conn |-> "mail"]

QuietNext ==
    \/ \E q \in Call : CreateConnector(q, acme, key, base, mail) \/ CallNext(q)
    \/ BackgroundNext

Spec == LifeInit /\ [][QuietNext]_lifeVars /\ LifeFairness
=============================================================================
