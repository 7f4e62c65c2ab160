------------------------------- MODULE Mutex -------------------------------
(***************************************************************************)
(* What a lock promises: at any moment it is free or owned by one, it is   *)
(* taken only when free, and ownership only ends by becoming free again.   *)
(***************************************************************************)
CONSTANTS Owners, Free   \* Free is no owner

VARIABLE owner

Init == owner = Free

Take(o)  == owner = Free /\ owner' = o
GiveUp   == owner # Free /\ owner' = Free

Next == GiveUp \/ \E o \in Owners : Take(o)

Spec == Init /\ [][Next]_owner
=============================================================================
