------------------------------ MODULE Custody ------------------------------
(***************************************************************************)
(* What the service promises about the things it has others set up for it: *)
(* each is in somebody's custody from the moment it is there.  Whoever     *)
(* asked for it entrusts it to one keeper, once, or loses it; a keeper has *)
(* it until it closes; what is lost is never somebody's again.  Nothing    *)
(* but a closing keeper ends what does not end by itself.                  *)
(***************************************************************************)
CONSTANTS
    Thing,
    Perishable,   \* the things that may end by themselves
    Keeper

VARIABLES
    live,      \* the things there are
    over,      \* those there were
    carried,   \* in the hands of whoever asked for them
    kept,      \* what each keeper has
    lost,      \* live, and in nobody's custody
    stage      \* of each keeper: "unborn", "open", "closing", "gone"

custody == <<live, over, carried, kept, lost, stage>>

Init ==
    /\ live = {} /\ over = {} /\ carried = {} /\ lost = {}
    /\ kept = [k \in Keeper |-> {}]
    /\ stage = [k \in Keeper |-> "unborn"]

-----------------------------------------------------------------------------
(* Things come. *)

Obtain(x) ==
    /\ x \notin live \cup over
    /\ live' = live \cup {x} /\ carried' = carried \cup {x}
    /\ UNCHANGED <<over, kept, lost, stage>>

Miss(x) ==
    /\ x \notin live \cup over
    /\ live' = live \cup {x} /\ lost' = lost \cup {x}
    /\ UNCHANGED <<over, carried, kept, stage>>

Drop(X) ==
    /\ X \subseteq carried
    /\ carried' = carried \ X /\ lost' = lost \cup X
    /\ UNCHANGED <<live, over, kept, stage>>

-----------------------------------------------------------------------------
(* Keepers. *)

Open(k) ==
    /\ stage[k] = "unborn"
    /\ stage' = [stage EXCEPT ![k] = "open"]
    /\ UNCHANGED <<live, over, carried, kept, lost>>

Entrusted(x, k) ==
    /\ x \in carried /\ kept[k] = {}
    /\ carried' = carried \ {x}
    /\ kept' = [kept EXCEPT ![k] = {x}]
    /\ UNCHANGED <<live, over, lost>>

Entrust(x, k) == stage[k] \in {"open", "closing"} /\ Entrusted(x, k) /\ UNCHANGED stage

(* A keeper that is made of what it is entrusted with. *)
Found(x, k) ==
    /\ stage[k] = "unborn" /\ Entrusted(x, k)
    /\ stage' = [stage EXCEPT ![k] = "open"]

Close(k) ==
    /\ stage[k] = "open"
    /\ stage' = [stage EXCEPT ![k] = "closing"]
    /\ UNCHANGED <<live, over, carried, kept, lost>>

Forfeit(x, k) ==
    /\ stage[k] = "closing" /\ x \in kept[k]
    /\ kept' = [kept EXCEPT ![k] = @ \ {x}]
    /\ lost' = lost \cup {x}
    /\ UNCHANGED <<live, over, carried, stage>>

Delete(k) ==
    /\ stage[k] = "closing"
    /\ stage' = [stage EXCEPT ![k] = "gone"]
    /\ kept' = [kept EXCEPT ![k] = {}]
    /\ lost' = lost \cup kept[k]
    /\ UNCHANGED <<live, over, carried>>

-----------------------------------------------------------------------------
(* Things end. *)

Ends(x) == live' = live \ {x} /\ over' = over \cup {x}

Release(x, k) ==
    /\ stage[k] = "closing" /\ x \in kept[k]
    /\ Ends(x)
    /\ kept' = [kept EXCEPT ![k] = @ \ {x}]
    /\ UNCHANGED <<carried, lost, stage>>

(* A deletion tried again may reach what an earlier one did not. *)
Reclaim(x) ==
    /\ x \in lost
    /\ Ends(x)
    /\ lost' = lost \ {x}
    /\ UNCHANGED <<carried, kept, stage>>

Lapse(x) ==
    /\ x \in Perishable \cap live
    /\ Ends(x)
    /\ carried' = carried \ {x} /\ lost' = lost \ {x}
    /\ kept' = [k \in Keeper |-> kept[k] \ {x}]
    /\ UNCHANGED stage

-----------------------------------------------------------------------------
ThingStep(x) ==
    \/ Obtain(x) \/ Miss(x) \/ Reclaim(x) \/ Lapse(x)
    \/ \E k \in Keeper : Entrust(x, k) \/ Found(x, k) \/ Forfeit(x, k) \/ Release(x, k)

Change ==
    \/ \E x \in Thing : ThingStep(x)
    \/ \E X \in SUBSET carried : Drop(X)
    \/ \E k \in Keeper : Open(k) \/ Close(k) \/ Delete(k)

(* A request that carries nothing changes nothing by being dropped. *)
Next == custody' # custody /\ Change

Spec == Init /\ [][Next]_custody
=============================================================================
