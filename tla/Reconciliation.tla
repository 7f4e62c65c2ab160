--------------------------- MODULE Reconciliation ---------------------------
(***************************************************************************)
(* Reconciliation of one tenant's entities (app/graph/reconciliation.py,   *)
(* called at the end of app/ingestion/connector_sync.py, decided upon      *)
(* through app/api/reconciliation.py).                                     *)
(*                                                                         *)
(* A run is a sync: it brings entities into the graph and then reconciles  *)
(* the whole tenant from three snapshots, the entities, the SAME_AS links  *)
(* and the proposals, followed by one statement per link or proposal it    *)
(* found missing.  Runs of several connectors and replicas interleave      *)
(* statement by statement with each other, with people who decide on       *)
(* proposals and with purges that delete entities.                         *)
(***************************************************************************)
EXTENDS Naturals

CONSTANTS
    Uuids,        \* of entities, numbered in the order of their text
    GroupOf,      \* the knowledge base an entity belongs to
    NormOf,       \* _normalize_entity_name of its name
    Alike,        \* pairs of long enough names whose ratio reaches 0.84
    AlikeOneWay,  \* pairs whose ratio does so in one order of its arguments
    Runs          \* syncs that can be under way at once

ASSUME ReconcileAssumption ==
    /\ Uuids \subseteq Nat
    /\ \A u \in Uuids : {NormOf[u]} \notin Alike \cup AlikeOneWay

VARIABLES
    node,      \* "unborn", "live" or "gone"; a uuid is never used twice
    links,     \* how many SAME_AS edges lead from one entity to another
    proposal,  \* status of the ProposedMerge with this pair_key, or "none"
    run,       \* where each run is, and its snapshots
    amiss      \* history: an entity or a run was lost, and no later run made up for it

graphVars == <<node, links, proposal>>
vars      == <<node, links, proposal, run, amiss>>

Pairs    == {p \in SUBSET Uuids : \E a, b \in p : a # b /\ p = {a, b}}
Statuses == {"none", "pending", "approved", "rejected"}
Decided  == {"approved", "rejected"}
Live     == {u \in Uuids : node[u] = "live"}

Linked(a, b) == links[<<a, b>>] + links[<<b, a>>] > 0

NoRun == [at |-> "idle", rows |-> {}, paired |-> {}, exact |-> {}, similar |-> {},
          repairs |-> FALSE]

Init ==
    /\ node = [u \in Uuids |-> "unborn"]
    /\ links = [e \in Uuids \X Uuids |-> 0]
    /\ proposal = [p \in Pairs |-> "none"]
    /\ run = [r \in Runs |-> NoRun]
    /\ amiss = FALSE

-----------------------------------------------------------------------------
(* Statements. *)

CreateSameAs(a, b) ==   \* slip: CREATE instead of MERGE
    links' = IF {a, b} \subseteq Live THEN [links EXCEPT ![<<a, b>>] = @ + 1] ELSE links

MergeUnmatched(a, b) ==   \* slip: the entities are merged too, not matched
    links' = [links EXCEPT ![<<a, b>>] = IF @ = 0 THEN 1 ELSE @]

(* _create_same_as: matches both entities, merges the edge in its direction. *)
MergeSameAs(a, b) ==
    links' = IF {a, b} \subseteq Live /\ links[<<a, b>>] = 0
             THEN [links EXCEPT ![<<a, b>>] = 1] ELSE links

MergeReopening(p) ==   \* slip: a rejected proposal is set to pending on a match
    proposal' = [proposal EXCEPT ![p] = IF @ \in {"none", "rejected"} THEN "pending" ELSE @]

(* _create_proposal: nothing is set on a match. *)
MergeProposal(p) ==
    proposal' = [proposal EXCEPT ![p] = IF @ = "none" THEN "pending" ELSE @]

-----------------------------------------------------------------------------
(* A run. *)

At(r, place) == run[r].at = place

(* add_episode extracts an entity that was not in the graph. *)
Extract(r) ==
    /\ run[r].at \in {"idle", "ingesting"}
    /\ \E u \in Uuids :
         /\ node[u] = "unborn"
         /\ node' = [node EXCEPT ![u] = "live"]
    /\ run' = [run EXCEPT ![r].at = "ingesting"]
    /\ UNCHANGED <<links, proposal, amiss>>

(* The sync is recorded; reconcile_tenant begins with the entities. *)
ReadRows(r) ==
    /\ run[r].at \in {"idle", "ingesting"}
    /\ run' = [run EXCEPT ![r] = [NoRun EXCEPT !.at = "rows", !.rows = Live,
                                              !.repairs = TRUE]]
    /\ UNCHANGED <<graphVars, amiss>>

LinkedNodes(p) == p \subseteq UNION {q \in Pairs : \E a, b \in q : Linked(a, b)}   \* slip

(* What the first query of _existing_pairs returns, as far as it concerns  *)
(* the entities read: no other pair is looked up in it.                    *)
LinkedPair(p) == \E a, b \in p : a # b /\ Linked(a, b)

ReadLinks(r) ==
    /\ At(r, "rows")
    /\ run' = [run EXCEPT ![r].at = "links",
                          ![r].paired = {p \in Pairs : p \subseteq run[r].rows /\ LinkedPair(p)}]
    /\ UNCHANGED <<graphVars, amiss>>

Namesakes(u, rows) == {v \in rows : NormOf[v] = NormOf[u]}
Canonical(u, rows) == \A v \in Namesakes(u, rows) : u <= v

(* The links the exact tier will write: from the canonical entity of a     *)
(* name to each namesake in another knowledge base.                        *)
MissingLinks(rows, paired) ==
    {e \in rows \X rows :
        /\ NormOf[e[1]] = NormOf[e[2]]
        /\ Canonical(e[1], rows)
        /\ GroupOf[e[1]] # GroupOf[e[2]]
        /\ {e[1], e[2]} \notin paired}

(* The proposals the fuzzy tier will write, alike being what this run's    *)
(* order of names makes of AlikeOneWay.                                    *)
MissingProposals(rows, paired, alike) ==
    {p \in Pairs :
        /\ p \subseteq rows /\ p \notin paired
        /\ {NormOf[u] : u \in p} \in alike
        /\ \A u, v \in p : u # v => GroupOf[u] # GroupOf[v]}

(* The second query of _existing_pairs, and what follows from all three.   *)
ReadProposals(r) ==
    /\ At(r, "links")
    /\ \E alike \in {Alike \cup some : some \in SUBSET AlikeOneWay} :
         LET rows   == run[r].rows
             paired == run[r].paired \cup {p \in Pairs : proposal[p] # "none"}
         IN  run' = [run EXCEPT ![r] =
               [NoRun EXCEPT !.at = "writing", !.repairs = run[r].repairs,
                             !.exact = MissingLinks(rows, paired),
                             !.similar = MissingProposals(rows, paired, alike)]]
    /\ UNCHANGED <<graphVars, amiss>>

WriteLink(r) ==
    /\ At(r, "writing")
    /\ \E e \in run[r].exact :
         /\ MergeSameAs(e[1], e[2])
         /\ run' = [run EXCEPT ![r].exact = @ \ {e}]
    /\ UNCHANGED <<node, proposal, amiss>>

(* The fuzzy tier follows the exact one. *)
WriteProposal(r) ==
    /\ At(r, "writing") /\ run[r].exact = {}
    /\ \E p \in run[r].similar :
         /\ MergeProposal(p)
         /\ run' = [run EXCEPT ![r].similar = @ \ {p}]
    /\ UNCHANGED <<node, links, amiss>>

Finish(r) ==
    /\ At(r, "writing") /\ run[r].exact = {} /\ run[r].similar = {}
    /\ run' = [run EXCEPT ![r] = NoRun]
    /\ amiss' = (amiss /\ ~run[r].repairs)
    /\ UNCHANGED graphVars

(* No run under way makes up for what is lost now. *)
Lost(rs) == [r \in Runs |-> [rs[r] EXCEPT !.repairs = FALSE]]

(* The sync fails, or reconcile_tenant raises: the rest is left to later   *)
(* runs.                                                                   *)
Fail(r) ==
    /\ ~At(r, "idle")
    /\ run' = Lost([run EXCEPT ![r] = NoRun])
    /\ amiss' = TRUE
    /\ UNCHANGED graphVars

-----------------------------------------------------------------------------
(* People and purges. *)

(* approve_proposal, one statement.  Which entity was called a is          *)
(* whatever the proposing run made it.                                     *)
Approve(p) ==
    /\ proposal[p] = "pending"
    /\ p \subseteq Live
    /\ proposal' = [proposal EXCEPT ![p] = "approved"]
    /\ \E a, b \in p : a # b /\ links' = [links EXCEPT ![<<a, b>>] = @ + 1]
    /\ UNCHANGED <<node, run, amiss>>

RejectDecided(p) ==   \* slip: the status is not asked for
    /\ proposal[p] # "none"
    /\ proposal' = [proposal EXCEPT ![p] = "rejected"]
    /\ UNCHANGED <<node, links, run, amiss>>

Reject(p) ==
    /\ proposal[p] = "pending"
    /\ proposal' = [proposal EXCEPT ![p] = "rejected"]
    /\ UNCHANGED <<node, links, run, amiss>>

(* purge_connector_data deletes an entity with its relationships; the      *)
(* proposals that name it stay.                                            *)
Purge(u) ==
    /\ node[u] = "live"
    /\ node' = [node EXCEPT ![u] = "gone"]
    /\ links' = [e \in Uuids \X Uuids |-> IF u \in {e[1], e[2]} THEN 0 ELSE links[e]]
    /\ run' = Lost(run)
    /\ amiss' = TRUE
    /\ UNCHANGED proposal

RunStep(r) ==
    \/ Extract(r) \/ ReadRows(r) \/ ReadLinks(r) \/ ReadProposals(r)
    \/ WriteLink(r) \/ WriteProposal(r) \/ Finish(r) \/ Fail(r)

Next ==
    \/ \E r \in Runs : RunStep(r)
    \/ \E p \in Pairs : Approve(p) \/ Reject(p)
    \/ \E u \in Uuids : Purge(u)

Spec == Init /\ [][Next]_vars

-----------------------------------------------------------------------------
(* Properties. *)

RunRecords ==
    [at : {"idle", "ingesting", "rows", "links", "writing"}, rows : SUBSET Uuids,
     paired : SUBSET Pairs, exact : SUBSET (Uuids \X Uuids), similar : SUBSET Pairs,
     repairs : BOOLEAN]

(* Every variable has its type, and an edge has two entities at its ends.  *)
TypeOK ==
    /\ node \in [Uuids -> {"unborn", "live", "gone"}]
    /\ links \in [Uuids \X Uuids -> Nat]
    /\ proposal \in [Pairs -> Statuses]
    /\ run \in [Runs -> RunRecords]
    /\ amiss \in BOOLEAN
    /\ \A a, b \in Uuids : links[<<a, b>>] > 0 => {a, b} \subseteq Live

(* Two entities are joined by one edge at most, in one direction, however  *)
(* many runs and approvals decide on them from old snapshots.  MERGE       *)
(* looks at one direction only, so this also says that runs with           *)
(* different snapshots never link a pair in opposite directions.           *)
OneLinkPerPair ==
    \A a, b \in Uuids : links[<<a, b>>] + (IF a = b THEN 0 ELSE links[<<b, a>>]) <= 1

(* Entities whose names merely resemble each other are linked exactly      *)
(* where a person approved it; rejecting or not deciding keeps them apart, *)
(* whatever runs believed when they began.                                 *)
OnlyPeopleLinkSimilarNames ==
    \A a, b \in Live :
        NormOf[a] # NormOf[b] => (Linked(a, b) <=> proposal[{a, b}] = "approved")

(* A decision is final: no run proposes the pair again, no later decision  *)
(* replaces it.                                                            *)
DecisionsStand ==
    [][\A p \in Pairs : proposal[p] \in Decided => proposal'[p] = proposal[p]]_vars

(* An approval takes effect: a proposal is marked approved only in a step  *)
(* after which both its entities exist and are linked.                     *)
ApprovalLinks ==
    [][\A p \in Pairs : proposal[p] # "approved" /\ proposal'[p] = "approved" =>
          p \subseteq Live' /\ \A a, b \in p : a # b => Linked(a, b)']_vars

(* Reconciliation implements IdentityRegister: whatever snapshots runs     *)
(* work on, they link and propose entities of different knowledge bases    *)
(* only, namesakes without asking and others never; a proposal is made     *)
(* once, decided once, and an approval joins the pair in the same step;    *)
(* and nothing but the purge of an entity ends its links.                  *)
Joined == {{e[1], e[2]} : e \in {e \in Uuids \X Uuids : links[e] > 0}}

Register == INSTANCE IdentityRegister WITH
    Entities <- Uuids, NameOf <- NormOf, HomeOf <- GroupOf,
    present <- Live, joined <- Joined, verdict <- proposal

ImplementsRegister == Register!Spec

(* What a complete reconciliation of the graph comes to: every entity is   *)
(* linked to the canonical one of its name unless they share a knowledge   *)
(* base, and any two whose names are alike in either order have a proposal.*)
MustLink(a, b) ==
    GroupOf[a] # GroupOf[b] /\ NormOf[a] = NormOf[b] /\ Canonical(a, Live)

MustPropose(a, b) ==
    GroupOf[a] # GroupOf[b] /\ {NormOf[a], NormOf[b]} \in Alike

Reconciled ==
    \A a, b \in Live :
        /\ MustLink(a, b) => Linked(a, b)
        /\ MustPropose(a, b) => proposal[{a, b}] # "none"

(* Overlapping syncs miss nothing between them: when none is under way,    *)
(* and a complete run began after the last loss of a run or an entity, the *)
(* graph is reconciled, although each of them read its snapshots before    *)
(* the others had written.                                                 *)
NothingMissed ==
    (\A r \in Runs : At(r, "idle")) /\ ~amiss => Reconciled
=============================================================================
