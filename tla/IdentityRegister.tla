-------------------------- MODULE IdentityRegister --------------------------
(***************************************************************************)
(* What reconciliation promises about which entities are one and the same: *)
(* only entities of different knowledge bases are joined, namesakes at any *)
(* time, others by a verdict, which is asked for once, given once and      *)
(* takes effect at once; and a pair stays joined while both are there.     *)
(***************************************************************************)
CONSTANTS
    Entities,
    Pairs,    \* any two different entities
    NameOf,   \* the normalised name of an entity
    HomeOf    \* the knowledge base it belongs to

VARIABLES
    present,  \* the entities there are
    joined,   \* the pairs that count as one
    verdict   \* what has been asked and decided about a pair

register == <<present, joined, verdict>>

Init ==
    /\ present = {}
    /\ joined = {}
    /\ verdict = [p \in Pairs |-> "none"]

Namesakes(p)    == \A a, b \in p : NameOf[a] = NameOf[b]
FromTwoHomes(p) == \A a, b \in p : a # b => HomeOf[a] # HomeOf[b]

Arrive(u) ==
    /\ u \notin present
    /\ present' = present \cup {u}
    /\ UNCHANGED <<joined, verdict>>

Leave(u) ==
    /\ u \in present
    /\ present' = present \ {u}
    /\ joined' = {p \in joined : u \notin p}
    /\ UNCHANGED verdict

Join(p) ==
    /\ Namesakes(p) /\ FromTwoHomes(p)
    /\ p \subseteq present
    /\ joined' = joined \cup {p}
    /\ UNCHANGED <<present, verdict>>

Ask(p) ==
    /\ verdict[p] = "none"
    /\ FromTwoHomes(p) /\ ~Namesakes(p)
    /\ verdict' = [verdict EXCEPT ![p] = "pending"]
    /\ UNCHANGED <<present, joined>>

Approve(p) ==
    /\ verdict[p] = "pending"
    /\ p \subseteq present
    /\ verdict' = [verdict EXCEPT ![p] = "approved"]
    /\ joined' = joined \cup {p}
    /\ UNCHANGED present

Reject(p) ==
    /\ verdict[p] = "pending"
    /\ verdict' = [verdict EXCEPT ![p] = "rejected"]
    /\ UNCHANGED <<present, joined>>

Change ==
    \/ \E u \in Entities : Arrive(u) \/ Leave(u)
    \/ \E p \in Pairs : Join(p) \/ Ask(p) \/ Approve(p) \/ Reject(p)

(* What changes nothing, as joining a pair again, is no step of it. *)
Next == register' # register /\ Change

Spec == Init /\ [][Next]_register
=============================================================================
