------------------------ MODULE Reconciliation_proofs ------------------------
(***************************************************************************)
(* Proofs about Reconciliation: its types, that a pair is linked once,     *)
(* that similar names are linked by people only, that decisions are final, *)
(* that nothing is missed, and that it implements IdentityRegister, for    *)
(* any entities, names, knowledge bases and number of runs.                *)
(***************************************************************************)
EXTENDS Reconciliation, TLAPS

Born == {u \in Uuids : node[u] # "unborn"}

NamesDiffer(p) == \A u, v \in p : u # v => NormOf[u] # NormOf[v]

(* What a run has still to write suits the tier that wrote it down, and    *)
(* names entities that were there.                                         *)
RunsOnCourse ==
    \A r \in Runs :
        /\ run[r].rows \subseteq Born
        /\ \A e \in run[r].exact : NormOf[e[1]] = NormOf[e[2]] /\ e[1] < e[2]
        /\ \A p \in run[r].similar : p \subseteq Born /\ NamesDiffer(p)

(* The exact tier links upwards. *)
LinksGoUp ==
    \A a, b \in Uuids : NormOf[a] = NormOf[b] /\ links[<<a, b>>] > 0 => a < b

(* Only entities with different names were ever proposed. *)
ProposalsAreSimilar ==
    \A p \in Pairs : proposal[p] # "none" => p \subseteq Born /\ NamesDiffer(p)

RecInv ==
    /\ TypeOK
    /\ OneLinkPerPair
    /\ OnlyPeopleLinkSimilarNames
    /\ LinksGoUp
    /\ RunsOnCourse
    /\ ProposalsAreSimilar

-----------------------------------------------------------------------------
(* Two different entities make a pair_key. *)
LEMMA PairOfTwo ==
    ASSUME NEW a \in Uuids, NEW b \in Uuids, a # b
    PROVE  {a, b} \in Pairs
BY DEF Pairs

(* A pair_key names two entities, and any two that are in it are these. *)
LEMMA TwoOfPair ==
    ASSUME NEW p \in Pairs
    PROVE  /\ p \subseteq Uuids
           /\ \A a, b \in p : a # b => p = {a, b}
BY DEF Pairs

(* What the exact tier writes down goes from a smaller to a larger uuid. *)
LEMMA MissingLinksGoUp ==
    ASSUME NEW rows \in SUBSET Uuids, NEW paired,
           NEW e \in MissingLinks(rows, paired)
    PROVE  /\ e \in Uuids \X Uuids
           /\ NormOf[e[1]] = NormOf[e[2]] /\ e[1] < e[2]
<1>1. e \in rows \X rows /\ NormOf[e[1]] = NormOf[e[2]] /\ GroupOf[e[1]] # GroupOf[e[2]]
         /\ Canonical(e[1], rows)
  BY DEF MissingLinks
<1>2. e[1] <= e[2] /\ e[1] # e[2]
  BY <1>1 DEF Canonical, Namesakes
<1>3. e[1] \in Nat /\ e[2] \in Nat
  BY <1>1, ReconcileAssumption
<1>4. QED
  BY <1>1, <1>2, <1>3

(* What the fuzzy tier writes down names two entities of different names. *)
LEMMA MissingProposalsDiffer ==
    ASSUME NEW rows \in SUBSET Uuids, NEW paired,
           NEW alike \in SUBSET (Alike \cup AlikeOneWay),
           NEW p \in MissingProposals(rows, paired, alike)
    PROVE  p \in Pairs /\ p \subseteq rows /\ NamesDiffer(p)
<1>1. p \in Pairs /\ p \subseteq rows /\ {NormOf[u] : u \in p} \in alike
  BY DEF MissingProposals
<1>2. ASSUME NEW u \in p, NEW v \in p, u # v, NormOf[u] = NormOf[v]
      PROVE  FALSE
  <2>1. p = {u, v} /\ u \in Uuids
    BY <1>1, <1>2, TwoOfPair
  <2>2. {NormOf[w] : w \in p} = {NormOf[u]}
    BY <2>1, <1>2
  <2>3. QED
    BY <1>1, <2>1, <2>2, ReconcileAssumption
<1>3. QED
  BY <1>1, <1>2 DEF NamesDiffer

-----------------------------------------------------------------------------
(* A run that is not under way has a record like the others. *)
LEMMA NoRunIsARun == NoRun \in RunRecords
BY DEF NoRun, RunRecords

(* The invariant holds at first. *)
LEMMA InitInv == Init => RecInv
<1> SUFFICES ASSUME Init PROVE RecInv
  OBVIOUS
<1> USE DEF Init
<1>1. TypeOK
  <2>1. links \in [Uuids \X Uuids -> Nat] /\ \A a, b \in Uuids : ~(links[<<a, b>>] > 0)
    OBVIOUS
  <2>2. run \in [Runs -> RunRecords]
    BY NoRunIsARun
  <2>3. QED
    BY <2>1, <2>2 DEF TypeOK, Statuses
<1>2. OneLinkPerPair /\ LinksGoUp
  BY DEF OneLinkPerPair, LinksGoUp
<1>3. OnlyPeopleLinkSimilarNames
  BY DEF OnlyPeopleLinkSimilarNames, Live, Linked
<1>4. RunsOnCourse
  BY DEF RunsOnCourse, NoRun
<1>5. ProposalsAreSimilar
  BY DEF ProposalsAreSimilar
<1>6. QED
  BY <1>1, <1>2, <1>3, <1>4, <1>5 DEF RecInv

-----------------------------------------------------------------------------
(* A step that leaves the graph alone keeps what is said of it; it remains *)
(* to look at the runs.                                                    *)
LEMMA GraphStands ==
    ASSUME RecInv, UNCHANGED graphVars,
           run' \in [Runs -> RunRecords], amiss' \in BOOLEAN, RunsOnCourse'
    PROVE  RecInv'
<1> USE DEF RecInv, graphVars
<1>1. TypeOK'
  BY DEF TypeOK, Live
<1>2. OneLinkPerPair' /\ LinksGoUp'
  BY DEF OneLinkPerPair, LinksGoUp
<1>3. OnlyPeopleLinkSimilarNames'
  BY DEF OnlyPeopleLinkSimilarNames, Live, Linked
<1>4. ProposalsAreSimilar'
  BY DEF ProposalsAreSimilar, Born
<1>5. QED
  BY <1>1, <1>2, <1>3, <1>4

(* A step of one run that only takes something off its record, or leaves   *)
(* it as it is, keeps the runs on course while no entity is unborn again.  *)
LEMMA CourseKept ==
    ASSUME RunsOnCourse, Born \subseteq Born',
           \A r \in Runs : /\ run'[r].rows \subseteq run[r].rows
                          /\ run'[r].exact \subseteq run[r].exact
                          /\ run'[r].similar \subseteq run[r].similar
    PROVE  RunsOnCourse'
BY DEF RunsOnCourse, NamesDiffer

-----------------------------------------------------------------------------
(* The steps of a run that read, and its ends, keep the invariant. *)
LEMMA ReadsKeepInv ==
    ASSUME RecInv, NEW r \in Runs,
           ReadRows(r) \/ ReadLinks(r) \/ ReadProposals(r) \/ Finish(r) \/ Fail(r)
    PROVE  RecInv'
<1> USE DEF RecInv
<1>r. run \in [Runs -> RunRecords] /\ run[r] \in RunRecords /\ amiss \in BOOLEAN
  BY DEF TypeOK
<1>1. CASE ReadRows(r)
  <2> DEFINE new == [NoRun EXCEPT !.at = "rows", !.rows = Live, !.repairs = TRUE]
  <2>1. run' = [run EXCEPT ![r] = new] /\ UNCHANGED <<graphVars, amiss>>
    BY <1>1 DEF ReadRows
  <2>2. new \in RunRecords /\ new.rows = Live /\ new.exact = {} /\ new.similar = {}
    BY DEF NoRun, RunRecords, Live
  <2>3. Live \subseteq Born /\ Born' = Born
    BY <2>1 DEF Live, Born, graphVars
  <2>4. RunsOnCourse'
    BY <1>r, <2>1, <2>2, <2>3 DEF RunsOnCourse, NamesDiffer
  <2>5. run' \in [Runs -> RunRecords]
    BY <1>r, <2>1, <2>2
  <2>6. QED
    BY <1>r, <2>1, <2>4, <2>5, GraphStands
<1>2. CASE ReadLinks(r)
  <2> DEFINE seen == {p \in Pairs : p \subseteq run[r].rows /\ LinkedPair(p)}
  <2>1. /\ run' = [run EXCEPT ![r].at = "links", ![r].paired = seen]
        /\ UNCHANGED <<graphVars, amiss>>
    BY <1>2 DEF ReadLinks
  <2>2. run' \in [Runs -> RunRecords]
    BY <1>r, <2>1 DEF RunRecords
  <2>3. \A q \in Runs : /\ run'[q].rows = run[q].rows /\ run'[q].exact = run[q].exact
                        /\ run'[q].similar = run[q].similar
    BY <1>r, <2>1 DEF RunRecords
  <2>4. RunsOnCourse'
    BY <2>1, <2>3, CourseKept DEF Born, graphVars
  <2>5. QED
    BY <1>r, <2>1, <2>2, <2>4, GraphStands
<1>3. CASE ReadProposals(r)
  <2> DEFINE rows   == run[r].rows
             paired == run[r].paired \cup {p \in Pairs : proposal[p] # "none"}
             new(alike) == [NoRun EXCEPT !.at = "writing", !.repairs = run[r].repairs,
                                         !.exact = MissingLinks(rows, paired),
                                         !.similar = MissingProposals(rows, paired, alike)]
  <2>1. PICK alike \in {Alike \cup some : some \in SUBSET AlikeOneWay} :
          run' = [run EXCEPT ![r] = new(alike)]
    BY <1>3 DEF ReadProposals
  <2>2. UNCHANGED <<graphVars, amiss>> /\ alike \in SUBSET (Alike \cup AlikeOneWay)
    BY <1>3, <2>1 DEF ReadProposals
  <2>3. rows \in SUBSET Uuids /\ run[r].repairs \in BOOLEAN
    BY <1>r DEF RunRecords
  <2>4. /\ \A e \in MissingLinks(rows, paired) :
             e \in Uuids \X Uuids /\ NormOf[e[1]] = NormOf[e[2]] /\ e[1] < e[2]
        /\ \A p \in MissingProposals(rows, paired, alike) :
             p \in Pairs /\ p \subseteq rows /\ NamesDiffer(p)
    BY <2>2, <2>3, MissingLinksGoUp, MissingProposalsDiffer
  <2> HIDE DEF paired
  <2>5. new(alike) \in RunRecords
    BY <2>3, <2>4 DEF NoRun, RunRecords
  <2>6. /\ new(alike).rows = {} /\ new(alike).exact = MissingLinks(rows, paired)
        /\ new(alike).similar = MissingProposals(rows, paired, alike)
    BY DEF NoRun
  <2> HIDE DEF new
  <2>7. rows \subseteq Born /\ Born' = Born
    BY <2>2 DEF RunsOnCourse, Born, graphVars
  <2>8. RunsOnCourse'
    <3> SUFFICES ASSUME NEW q \in Runs
                 PROVE  /\ run'[q].rows \subseteq Born'
                        /\ \A e \in run'[q].exact : NormOf[e[1]] = NormOf[e[2]] /\ e[1] < e[2]
                        /\ \A p \in run'[q].similar : p \subseteq Born' /\ NamesDiffer(p)
      BY DEF RunsOnCourse, NamesDiffer
    <3>1. CASE q = r
      BY <1>r, <2>1, <2>4, <2>6, <2>7, <3>1
    <3>2. CASE q # r
      <4>1. run'[q] = run[q]
        BY <1>r, <2>1, <3>2
      <4>2. QED
        BY <4>1, <2>7 DEF RunsOnCourse
    <3>3. QED
      BY <3>1, <3>2
  <2>9. run' \in [Runs -> RunRecords]
    BY <1>r, <2>1, <2>5
  <2>10. QED
    BY <1>r, <2>2, <2>8, <2>9, GraphStands
<1>4. CASE Finish(r) \/ Fail(r)
  <2>1. \A q \in Runs : /\ run'[q] \in RunRecords
                        /\ run'[q].rows \subseteq run[q].rows
                        /\ run'[q].exact \subseteq run[q].exact
                        /\ run'[q].similar \subseteq run[q].similar
    <3>1. CASE Finish(r)
      BY <1>r, <3>1, NoRunIsARun DEF Finish, NoRun
    <3>2. CASE Fail(r)
      BY <1>r, <3>2, NoRunIsARun DEF Fail, Lost, NoRun, RunRecords
    <3>3. QED
      BY <1>4, <3>1, <3>2
  <2>2. run' \in [Runs -> RunRecords] /\ UNCHANGED graphVars /\ amiss' \in BOOLEAN
    BY <1>r, <1>4, <2>1 DEF Finish, Fail, Lost
  <2>3. RunsOnCourse'
    BY <2>1, <2>2, CourseKept DEF Born, graphVars
  <2>4. QED
    BY <2>2, <2>3, GraphStands
<1>5. QED
  BY <1>1, <1>2, <1>3, <1>4

(* An entity that is extracted has no links and no decisions on it yet. *)
LEMMA ExtractKeepsInv ==
    ASSUME RecInv, NEW r \in Runs, Extract(r)
    PROVE  RecInv'
<1> USE DEF RecInv
<1>1. PICK u \in Uuids : node[u] = "unborn" /\ node' = [node EXCEPT ![u] = "live"]
  BY DEF Extract
<1>2. run' = [run EXCEPT ![r].at = "ingesting"] /\ UNCHANGED <<links, proposal, amiss>>
  BY DEF Extract
<1>3. Live' = Live \cup {u} /\ Born \subseteq Born' /\ u \notin Born
  BY <1>1 DEF Live, Born, TypeOK
<1>4. TypeOK'
  <2>1. run' \in [Runs -> RunRecords]
    <3>1. run \in [Runs -> RunRecords] /\ run[r] \in RunRecords
      BY DEF TypeOK
    <3>2. [run[r] EXCEPT !.at = "ingesting"] \in RunRecords
      BY ONLY <3>1 DEF RunRecords
    <3>3. run' = [run EXCEPT ![r] = [run[r] EXCEPT !.at = "ingesting"]]
      BY ONLY <1>2
    <3> QED
      BY ONLY <3>1, <3>2, <3>3
  <2>2. node' \in [Uuids -> {"unborn", "live", "gone"}]
    BY <1>1 DEF TypeOK
  <2>3. QED
    BY <1>2, <1>3, <2>1, <2>2 DEF TypeOK
<1>5. OneLinkPerPair' /\ LinksGoUp'
  BY <1>2 DEF OneLinkPerPair, LinksGoUp
<1>6. OnlyPeopleLinkSimilarNames'
  <2> SUFFICES ASSUME NEW a \in Live', NEW b \in Live', NormOf[a] # NormOf[b]
               PROVE  Linked(a, b)' <=> proposal'[{a, b}] = "approved"
    BY DEF OnlyPeopleLinkSimilarNames
  <2>1. CASE a \in Live /\ b \in Live
    BY <1>2, <2>1 DEF OnlyPeopleLinkSimilarNames, Linked
  <2>2. CASE u \in {a, b}
    <3>1. a \in Uuids /\ b \in Uuids /\ {a, b} \in Pairs
      BY PairOfTwo DEF Live
    <3>2. proposal[{a, b}] = "none"
      BY <1>3, <2>2, <3>1 DEF ProposalsAreSimilar
    <3>3. links[<<a, b>>] = 0 /\ links[<<b, a>>] = 0
      BY <1>1, <2>2, <3>1 DEF TypeOK, Live
    <3>4. QED
      BY <1>2, <3>2, <3>3 DEF Linked
  <2>3. QED
    BY <1>3, <2>1, <2>2
<1>7. RunsOnCourse'
  <2>1. \A q \in Runs : /\ run'[q].rows = run[q].rows /\ run'[q].exact = run[q].exact
                        /\ run'[q].similar = run[q].similar
    BY <1>2 DEF TypeOK, RunRecords
  <2>2. QED
    BY <1>3, <2>1, CourseKept
<1>8. ProposalsAreSimilar'
  BY <1>2, <1>3 DEF ProposalsAreSimilar, NamesDiffer
<1>9. QED
  BY <1>4, <1>5, <1>6, <1>7, <1>8

(* A link the exact tier writes is the only one of its pair: whatever      *)
(* other runs wrote led the same way.                                      *)
LEMMA WriteLinkKeepsInv ==
    ASSUME RecInv, NEW r \in Runs, WriteLink(r)
    PROVE  RecInv'
<1> USE DEF RecInv
<1>1. PICK e \in run[r].exact :
        MergeSameAs(e[1], e[2]) /\ run' = [run EXCEPT ![r].exact = @ \ {e}]
  BY DEF WriteLink
<1>2. UNCHANGED <<node, proposal, amiss>> /\ Live' = Live /\ Born' = Born
  BY DEF WriteLink, Live, Born
<1>3. e \in Uuids \X Uuids /\ NormOf[e[1]] = NormOf[e[2]] /\ e[1] < e[2]
  BY <1>1 DEF TypeOK, RunRecords, RunsOnCourse
<1>x. PICK x \in Uuids, y \in Uuids : e = <<x, y>>
  BY <1>3
<1>4. x \in Nat /\ y \in Nat /\ <<x, y>> \in Uuids \X Uuids
  BY ReconcileAssumption
<1>5. /\ NormOf[x] = NormOf[y] /\ x < y
      /\ links' = IF {x, y} \subseteq Live /\ links[<<x, y>>] = 0
                  THEN [links EXCEPT ![<<x, y>>] = 1] ELSE links
  BY <1>1, <1>3, <1>x DEF MergeSameAs
<1>6. links' = links \/ (links' = [links EXCEPT ![<<x, y>>] = 1] /\ {x, y} \subseteq Live)
  BY <1>5
<1>7. /\ links' \in [Uuids \X Uuids -> Nat]
      /\ \A a, b \in Uuids : <<a, b>> # <<x, y>> => links'[<<a, b>>] = links[<<a, b>>]
  BY <1>4, <1>6 DEF TypeOK
<1>8. TypeOK'
  <2>1. run' \in [Runs -> RunRecords]
    BY <1>1 DEF TypeOK, RunRecords
  <2>2. \A a, b \in Uuids : links'[<<a, b>>] > 0 => {a, b} \subseteq Live'
    BY <1>2, <1>6, <1>7 DEF TypeOK
  <2>3. QED
    BY <1>2, <1>7, <2>1, <2>2 DEF TypeOK
<1>9. links[<<y, x>>] = 0
  <2>1. links[<<y, x>>] \in Nat /\ ~(links[<<y, x>>] > 0)
    BY <1>4, <1>5 DEF TypeOK, LinksGoUp
  <2>2. QED
    BY <2>1
<1>10. OneLinkPerPair'
  <2> SUFFICES ASSUME NEW a \in Uuids, NEW b \in Uuids
               PROVE  links'[<<a, b>>] + (IF a = b THEN 0 ELSE links'[<<b, a>>]) <= 1
    BY DEF OneLinkPerPair
  <2>1. links[<<a, b>>] + (IF a = b THEN 0 ELSE links[<<b, a>>]) <= 1
    BY DEF OneLinkPerPair
  <2>2. x # y
    BY <1>4, <1>5
  <2>3. CASE a = x /\ b = y
    BY <1>4, <1>6, <1>7, <1>9, <2>1, <2>2, <2>3 DEF TypeOK
  <2>4. CASE a = y /\ b = x
    BY <1>4, <1>6, <1>7, <1>9, <2>1, <2>2, <2>4 DEF TypeOK
  <2>5. CASE <<a, b>> # <<x, y>> /\ <<b, a>> # <<x, y>>
    BY <1>7, <2>1, <2>5
  <2>6. QED
    BY <2>3, <2>4, <2>5
<1>11. LinksGoUp'
  BY <1>4, <1>5, <1>7 DEF LinksGoUp
<1>12. OnlyPeopleLinkSimilarNames'
  <2> SUFFICES ASSUME NEW a \in Live, NEW b \in Live, NormOf[a] # NormOf[b]
               PROVE  Linked(a, b)' <=> proposal[{a, b}] = "approved"
    BY <1>2 DEF OnlyPeopleLinkSimilarNames
  <2>1. <<a, b>> # <<x, y>> /\ <<b, a>> # <<x, y>> /\ a \in Uuids /\ b \in Uuids
    BY <1>5 DEF Live
  <2>2. links'[<<a, b>>] = links[<<a, b>>] /\ links'[<<b, a>>] = links[<<b, a>>]
    BY <1>7, <2>1
  <2>3. QED
    BY <2>2 DEF OnlyPeopleLinkSimilarNames, Linked
<1>13. RunsOnCourse'
  <2>1. \A q \in Runs : /\ run'[q].rows = run[q].rows /\ run'[q].exact \subseteq run[q].exact
                        /\ run'[q].similar = run[q].similar
    BY <1>1 DEF TypeOK, RunRecords
  <2>2. QED
    BY <1>2, <2>1, CourseKept
<1>14. ProposalsAreSimilar'
  BY <1>2 DEF ProposalsAreSimilar
<1>15. QED
  BY <1>8, <1>10, <1>11, <1>12, <1>13, <1>14

(* A proposal is written once: of a pair that has one nothing changes. *)
LEMMA WriteProposalKeepsInv ==
    ASSUME RecInv, NEW r \in Runs, WriteProposal(r)
    PROVE  RecInv'
<1> USE DEF RecInv
<1>1. PICK p \in run[r].similar :
        MergeProposal(p) /\ run' = [run EXCEPT ![r].similar = @ \ {p}]
  BY DEF WriteProposal
<1>2. UNCHANGED <<node, links, amiss>> /\ Live' = Live /\ Born' = Born
  BY DEF WriteProposal, Live, Born
<1>3. p \in Pairs /\ p \subseteq Born /\ NamesDiffer(p)
  BY <1>1 DEF TypeOK, RunRecords, RunsOnCourse
<1>4. proposal' = [proposal EXCEPT ![p] = IF @ = "none" THEN "pending" ELSE @]
  BY <1>1 DEF MergeProposal
<1>5. \A q \in Pairs : proposal'[q] = "approved" <=> proposal[q] = "approved"
  BY <1>3, <1>4 DEF TypeOK
<1>6. TypeOK'
  <2>1. run' \in [Runs -> RunRecords]
    <3>1. run \in [Runs -> RunRecords] /\ run[r] \in RunRecords
      BY DEF TypeOK
    <3>2. [run[r] EXCEPT !.similar = @ \ {p}] \in RunRecords
      BY <3>1 DEF RunRecords
    <3>3. QED
      BY <1>1, <3>1, <3>2
  <2>2. proposal' \in [Pairs -> Statuses]
    BY <1>3, <1>4 DEF TypeOK, Statuses
  <2>3. QED
    BY <1>2, <2>1, <2>2 DEF TypeOK
<1>7. OneLinkPerPair' /\ LinksGoUp'
  BY <1>2 DEF OneLinkPerPair, LinksGoUp
<1>8. OnlyPeopleLinkSimilarNames'
  <2> SUFFICES ASSUME NEW a \in Live, NEW b \in Live, NormOf[a] # NormOf[b]
               PROVE  Linked(a, b)' <=> proposal'[{a, b}] = "approved"
    BY <1>2 DEF OnlyPeopleLinkSimilarNames
  <2>1. {a, b} \in Pairs
    BY PairOfTwo DEF Live
  <2>2. QED
    BY <1>2, <1>5, <2>1 DEF OnlyPeopleLinkSimilarNames, Linked
<1>9. RunsOnCourse'
  <2>1. \A q \in Runs : /\ run'[q].rows = run[q].rows /\ run'[q].exact = run[q].exact
                        /\ run'[q].similar \subseteq run[q].similar
    BY <1>1 DEF TypeOK, RunRecords
  <2>2. QED
    BY <1>2, <2>1, CourseKept
<1>10. ProposalsAreSimilar'
  <2> SUFFICES ASSUME NEW q \in Pairs, proposal'[q] # "none"
               PROVE  q \subseteq Born /\ NamesDiffer(q)
    BY <1>2 DEF ProposalsAreSimilar, NamesDiffer
  <2>1. q = p \/ proposal'[q] = proposal[q]
    BY <1>3, <1>4 DEF TypeOK
  <2>2. QED
    BY <1>3, <2>1 DEF ProposalsAreSimilar
<1>11. QED
  BY <1>6, <1>7, <1>8, <1>9, <1>10

(* An approval links two entities that were not linked: had they been, by  *)
(* OnlyPeopleLinkSimilarNames, the proposal would not be pending.          *)
LEMMA ApproveKeepsInv ==
    ASSUME RecInv, NEW p \in Pairs, Approve(p)
    PROVE  RecInv'
<1> USE DEF RecInv
<1>1. PICK x \in p, y \in p : x # y /\ links' = [links EXCEPT ![<<x, y>>] = @ + 1]
  BY DEF Approve
<1>2. /\ proposal[p] = "pending" /\ proposal' = [proposal EXCEPT ![p] = "approved"]
      /\ UNCHANGED <<node, run, amiss>> /\ Live' = Live /\ Born' = Born
  BY DEF Approve, Live, Born
<1>3. p = {x, y} /\ x \in Uuids /\ y \in Uuids /\ <<x, y>> \in Uuids \X Uuids
  BY <1>1, TwoOfPair
<1>4. x \in Live /\ y \in Live
  BY DEF Approve
<1>5. NormOf[x] # NormOf[y]
  BY <1>1, <1>2 DEF ProposalsAreSimilar, NamesDiffer
<1>6. links[<<x, y>>] = 0 /\ links[<<y, x>>] = 0
  <2>1. ~Linked(x, y)
    BY <1>2, <1>3, <1>4, <1>5 DEF OnlyPeopleLinkSimilarNames
  <2>2. links[<<x, y>>] \in Nat /\ links[<<y, x>>] \in Nat
    BY <1>3 DEF TypeOK
  <2>3. QED
    BY <2>1, <2>2 DEF Linked
<1>7. /\ links' \in [Uuids \X Uuids -> Nat] /\ links'[<<x, y>>] = 1
      /\ \A a, b \in Uuids : <<a, b>> # <<x, y>> => links'[<<a, b>>] = links[<<a, b>>]
  BY <1>1, <1>3, <1>6 DEF TypeOK
<1>8. TypeOK'
  <2>1. proposal' \in [Pairs -> Statuses]
    BY <1>2 DEF TypeOK, Statuses
  <2>2. \A a, b \in Uuids : links'[<<a, b>>] > 0 => {a, b} \subseteq Live'
    BY <1>2, <1>4, <1>7 DEF TypeOK
  <2>3. QED
    BY <1>2, <1>7, <2>1, <2>2 DEF TypeOK
<1>9. OneLinkPerPair'
  <2> SUFFICES ASSUME NEW a \in Uuids, NEW b \in Uuids
               PROVE  links'[<<a, b>>] + (IF a = b THEN 0 ELSE links'[<<b, a>>]) <= 1
    BY DEF OneLinkPerPair
  <2>1. links[<<a, b>>] + (IF a = b THEN 0 ELSE links[<<b, a>>]) <= 1
    BY DEF OneLinkPerPair
  <2>2. CASE {a, b} = {x, y}
    <3>1. (a = x /\ b = y) \/ (a = y /\ b = x)
      BY <1>1, <2>2
    <3>2. links'[<<y, x>>] = 0
      BY <1>1, <1>3, <1>6, <1>7
    <3>3. QED
      BY <1>1, <1>7, <3>1, <3>2
  <2>3. CASE {a, b} # {x, y}
    <3>1. <<a, b>> # <<x, y>> /\ <<b, a>> # <<x, y>>
      BY <2>3
    <3>2. QED
      BY <1>7, <2>1, <3>1
  <2>4. QED
    BY <2>2, <2>3
<1>10. LinksGoUp'
  BY <1>5, <1>7 DEF LinksGoUp
<1>11. OnlyPeopleLinkSimilarNames'
  <2> SUFFICES ASSUME NEW a \in Live, NEW b \in Live, NormOf[a] # NormOf[b]
               PROVE  Linked(a, b)' <=> proposal'[{a, b}] = "approved"
    BY <1>2 DEF OnlyPeopleLinkSimilarNames
  <2>1. {a, b} \in Pairs /\ a \in Uuids /\ b \in Uuids
    BY PairOfTwo DEF Live
  <2>2. CASE {a, b} = p
    <3>1. proposal'[{a, b}] = "approved"
      BY <1>2, <2>2 DEF TypeOK
    <3>2. links'[<<x, y>>] + links'[<<y, x>>] > 0
      BY <1>1, <1>3, <1>6, <1>7
    <3>3. (a = x /\ b = y) \/ (a = y /\ b = x)
      BY <1>1, <1>3, <1>5, <2>2
    <3>4. links'[<<a, b>>] + links'[<<b, a>>] > 0
      BY <1>1, <1>3, <1>6, <1>7, <3>3
    <3>5. QED
      BY <3>1, <3>4 DEF Linked
  <2>3. CASE {a, b} # p
    <3>1. links'[<<a, b>>] = links[<<a, b>>] /\ links'[<<b, a>>] = links[<<b, a>>]
      BY <1>3, <1>7, <2>1, <2>3
    <3>2. proposal'[{a, b}] = proposal[{a, b}]
      BY <1>2, <2>1, <2>3 DEF TypeOK
    <3>3. QED
      BY <3>1, <3>2 DEF OnlyPeopleLinkSimilarNames, Linked
  <2>4. QED
    BY <2>2, <2>3
<1>12. RunsOnCourse'
  BY <1>2 DEF RunsOnCourse
<1>13. ProposalsAreSimilar'
  <2> SUFFICES ASSUME NEW q \in Pairs, proposal'[q] # "none"
               PROVE  q \subseteq Born /\ NamesDiffer(q)
    BY <1>2 DEF ProposalsAreSimilar, NamesDiffer
  <2>1. proposal[q] # "none"
    BY <1>2 DEF TypeOK
  <2>2. QED
    BY <2>1 DEF ProposalsAreSimilar
<1>14. QED
  BY <1>8, <1>9, <1>10, <1>11, <1>12, <1>13

(* A rejection concerns a pair that is not linked. *)
LEMMA RejectKeepsInv ==
    ASSUME RecInv, NEW p \in Pairs, Reject(p)
    PROVE  RecInv'
<1> USE DEF RecInv
<1>1. /\ proposal[p] = "pending" /\ proposal' = [proposal EXCEPT ![p] = "rejected"]
      /\ UNCHANGED <<node, links, run, amiss>> /\ Live' = Live /\ Born' = Born
  BY DEF Reject, Live, Born
<1>2. \A q \in Pairs : /\ proposal'[q] = "approved" <=> proposal[q] = "approved"
                       /\ proposal'[q] # "none" => proposal[q] # "none"
  BY <1>1 DEF TypeOK
<1>3. TypeOK'
  BY <1>1 DEF TypeOK, Statuses
<1>4. OneLinkPerPair' /\ LinksGoUp'
  BY <1>1 DEF OneLinkPerPair, LinksGoUp
<1>5. OnlyPeopleLinkSimilarNames'
  <2> SUFFICES ASSUME NEW a \in Live, NEW b \in Live, NormOf[a] # NormOf[b]
               PROVE  Linked(a, b)' <=> proposal'[{a, b}] = "approved"
    BY <1>1 DEF OnlyPeopleLinkSimilarNames
  <2>1. {a, b} \in Pairs
    BY PairOfTwo DEF Live
  <2>2. QED
    BY <1>1, <1>2, <2>1 DEF OnlyPeopleLinkSimilarNames, Linked
<1>6. RunsOnCourse' /\ ProposalsAreSimilar'
  BY <1>1, <1>2 DEF RunsOnCourse, ProposalsAreSimilar, NamesDiffer
<1>7. QED
  BY <1>3, <1>4, <1>5, <1>6

(* A purge takes links away with the entity and leaves the others alone. *)
LEMMA PurgeKeepsInv ==
    ASSUME RecInv, NEW u \in Uuids, Purge(u)
    PROVE  RecInv'
<1> USE DEF RecInv
<1>1. /\ node[u] = "live" /\ node' = [node EXCEPT ![u] = "gone"]
      /\ links' = [e \in Uuids \X Uuids |-> IF u \in {e[1], e[2]} THEN 0 ELSE links[e]]
      /\ run' = Lost(run) /\ amiss' = TRUE /\ UNCHANGED proposal
  BY DEF Purge
<1>2. Live' = Live \ {u} /\ Born' = Born
  BY <1>1 DEF Live, Born, TypeOK
<1>3. /\ links' \in [Uuids \X Uuids -> Nat]
      /\ \A a, b \in Uuids : links'[<<a, b>>] = IF u \in {a, b} THEN 0 ELSE links[<<a, b>>]
  BY <1>1 DEF TypeOK
<1>4. \A q \in Runs : /\ run'[q] \in RunRecords /\ run'[q].rows = run[q].rows
                      /\ run'[q].exact = run[q].exact /\ run'[q].similar = run[q].similar
  BY <1>1 DEF Lost, TypeOK, RunRecords
<1>5. TypeOK'
  <2>1. run' \in [Runs -> RunRecords]
    BY <1>1, <1>4 DEF Lost
  <2>2. node' \in [Uuids -> {"unborn", "live", "gone"}]
    BY <1>1 DEF TypeOK
  <2>3. \A a, b \in Uuids : links'[<<a, b>>] > 0 => {a, b} \subseteq Live'
    BY <1>2, <1>3 DEF TypeOK
  <2>4. QED
    BY <1>1, <1>3, <2>1, <2>2, <2>3 DEF TypeOK
<1>6. OneLinkPerPair' /\ LinksGoUp'
  <2>1. OneLinkPerPair'
    <3> SUFFICES ASSUME NEW a \in Uuids, NEW b \in Uuids
                 PROVE  links'[<<a, b>>] + (IF a = b THEN 0 ELSE links'[<<b, a>>]) <= 1
      BY DEF OneLinkPerPair
    <3>1. links[<<a, b>>] + (IF a = b THEN 0 ELSE links[<<b, a>>]) <= 1
      BY DEF OneLinkPerPair
    <3>2. QED
      BY <1>3, <3>1
  <2>2. LinksGoUp'
    BY <1>3 DEF LinksGoUp
  <2>3. QED
    BY <2>1, <2>2
<1>7. OnlyPeopleLinkSimilarNames'
  <2> SUFFICES ASSUME NEW a \in Live', NEW b \in Live', NormOf[a] # NormOf[b]
               PROVE  Linked(a, b)' <=> proposal[{a, b}] = "approved"
    BY <1>1 DEF OnlyPeopleLinkSimilarNames
  <2>1. a \in Live /\ b \in Live /\ u \notin {a, b} /\ a \in Uuids /\ b \in Uuids
    BY <1>2 DEF Live
  <2>2. QED
    BY <1>3, <2>1 DEF OnlyPeopleLinkSimilarNames, Linked
<1>8. RunsOnCourse'
  BY <1>2, <1>4, CourseKept
<1>9. ProposalsAreSimilar'
  BY <1>1, <1>2 DEF ProposalsAreSimilar, NamesDiffer
<1>10. QED
  BY <1>5, <1>6, <1>7, <1>8, <1>9

(* No step breaks the invariant. *)
LEMMA StepKeepsInv == RecInv /\ [Next]_vars => RecInv'
<1> SUFFICES ASSUME RecInv, [Next]_vars PROVE RecInv'
  OBVIOUS
<1>1. CASE UNCHANGED vars
  BY <1>1, GraphStands DEF vars, graphVars, RecInv, TypeOK, RunsOnCourse, Born, NamesDiffer
<1>2. ASSUME NEW r \in Runs, RunStep(r) PROVE RecInv'
  BY <1>2, ReadsKeepInv, ExtractKeepsInv, WriteLinkKeepsInv, WriteProposalKeepsInv
     DEF RunStep
<1>3. ASSUME NEW p \in Pairs, Approve(p) \/ Reject(p) PROVE RecInv'
  BY <1>3, ApproveKeepsInv, RejectKeepsInv
<1>4. ASSUME NEW u \in Uuids, Purge(u) PROVE RecInv'
  BY <1>4, PurgeKeepsInv
<1>5. QED
  BY <1>1, <1>2, <1>3, <1>4 DEF Next

(* The inductive invariant of links, proposals and runs holds in every     *)
(* reachable state.                                                        *)
THEOREM InvariantHolds == Spec => []RecInv
BY InitInv, StepKeepsInv, PTL DEF Spec

(* Entities, links, proposals and runs keep their types. *)
THEOREM TypeCorrect == Spec => []TypeOK
<1>1. RecInv => TypeOK
  BY DEF RecInv
<1>2. QED
  BY <1>1, InvariantHolds, PTL

(* However many runs and approvals overlap, a pair has one link at most.   *)
THEOREM LinkedOnce == Spec => []OneLinkPerPair
<1>1. RecInv => OneLinkPerPair
  BY DEF RecInv
<1>2. QED
  BY <1>1, InvariantHolds, PTL

(* Similar names are linked exactly where a person approved it. *)
THEOREM PeopleDecide == Spec => []OnlyPeopleLinkSimilarNames
<1>1. RecInv => OnlyPeopleLinkSimilarNames
  BY DEF RecInv
<1>2. QED
  BY <1>1, InvariantHolds, PTL

-----------------------------------------------------------------------------
(* A decided proposal is in no step's reach. *)
LEMMA StepKeepsDecisions ==
    ASSUME TypeOK, [Next]_vars, NEW p \in Pairs, proposal[p] \in Decided
    PROVE  proposal'[p] = proposal[p]
<1>1. CASE UNCHANGED proposal
  BY <1>1
<1>2. ASSUME NEW r \in Runs, WriteProposal(r) PROVE proposal'[p] = proposal[p]
  <2>1. PICK q \in Pairs : MergeProposal(q)
    BY <1>2 DEF WriteProposal, TypeOK, RunRecords
  <2>2. QED
    BY <2>1 DEF MergeProposal, TypeOK, Decided
<1>3. ASSUME NEW q \in Pairs, Approve(q) \/ Reject(q) PROVE proposal'[p] = proposal[p]
  BY <1>3 DEF Approve, Reject, TypeOK, Decided
<1>4. QED
  BY <1>1, <1>2, <1>3
     DEF Next, RunStep, vars, graphVars, Extract, ReadRows, ReadLinks, ReadProposals,
         WriteLink, Finish, Fail, Purge

(* What a person decided is never proposed or decided again. *)
THEOREM DecisionsAreFinal == Spec => DecisionsStand
<1>1. RecInv /\ [Next]_vars =>
        [\A p \in Pairs : proposal[p] \in Decided => proposal'[p] = proposal[p]]_vars
  BY StepKeepsDecisions DEF RecInv
<1>2. QED
  BY <1>1, InvariantHolds, PTL DEF Spec, DecisionsStand

(* Only approve_proposal approves, and it matches and links both entities. *)
LEMMA StepLinksWhatItApproves ==
    ASSUME TypeOK, [Next]_vars, NEW p \in Pairs,
           proposal[p] # "approved", proposal'[p] = "approved"
    PROVE  p \subseteq Live' /\ \A a, b \in p : a # b => Linked(a, b)'
<1>1. ASSUME NEW r \in Runs, WriteProposal(r) PROVE FALSE
  <2>1. PICK q \in Pairs : MergeProposal(q)
    BY <1>1 DEF WriteProposal, TypeOK, RunRecords
  <2>2. QED
    BY <2>1 DEF MergeProposal, TypeOK
<1>2. PICK q \in Pairs : Approve(q) \/ Reject(q)
  BY <1>1 DEF Next, RunStep, vars, graphVars, Extract, ReadRows, ReadLinks,
              ReadProposals, WriteLink, Finish, Fail, Purge
<1>3. q = p /\ Approve(p)
  BY <1>2 DEF Approve, Reject, TypeOK
<1>4. p \subseteq Live' /\ p \subseteq Uuids
  BY <1>3 DEF Approve, Live
<1>5. PICK x \in p, y \in p : x # y /\ links' = [links EXCEPT ![<<x, y>>] = @ + 1]
  BY <1>3 DEF Approve
<1>6. links'[<<x, y>>] + links'[<<y, x>>] > 0
  <2>1. <<x, y>> \in Uuids \X Uuids /\ <<y, x>> \in Uuids \X Uuids /\ <<x, y>> # <<y, x>>
    BY <1>4, <1>5
  <2>2. links[<<x, y>>] \in Nat /\ links[<<y, x>>] \in Nat
    BY <2>1 DEF TypeOK
  <2>3. links'[<<x, y>>] = links[<<x, y>>] + 1 /\ links'[<<y, x>>] = links[<<y, x>>]
    BY <1>5, <2>1 DEF TypeOK
  <2>4. QED
    BY <2>2, <2>3
<1>7. links'[<<y, x>>] + links'[<<x, y>>] > 0
  <2>1. links'[<<x, y>>] \in Nat /\ links'[<<y, x>>] \in Nat
    BY <1>4, <1>5 DEF TypeOK
  <2>2. QED
    BY <1>6, <2>1
<1>8. \A a, b \in p : a # b => (a = x /\ b = y) \/ (a = y /\ b = x)
  BY <1>5, TwoOfPair
<1>9. QED
  BY <1>4, <1>6, <1>7, <1>8 DEF Linked

(* A proposal is marked approved only together with its link. *)
THEOREM ApprovalsTakeEffect == Spec => ApprovalLinks
<1> DEFINE Step == \A p \in Pairs : proposal[p] # "approved" /\ proposal'[p] = "approved" =>
                     p \subseteq Live' /\ \A a, b \in p : a # b => Linked(a, b)'
<1>1. RecInv /\ [Next]_vars => [Step]_vars
  BY StepLinksWhatItApproves DEF RecInv
<1>2. Spec => [][Step]_vars
  BY <1>1, InvariantHolds, PTL DEF Spec
<1>3. QED
  BY <1>2 DEF ApprovalLinks

-----------------------------------------------------------------------------
(* Why nothing is missed.  The last run that read the entities read all of *)
(* them unless another one is still bringing some in; from then on each    *)
(* pair is in the graph, or among what that run has still to write.        *)
SomeIngesting == \E r \in Runs : At(r, "ingesting")

Covers(r) ==
    /\ run[r].repairs
    /\ \/ At(r, "rows") /\ run[r].rows = Live
       \/ /\ At(r, "links") /\ run[r].rows = Live
          /\ \A a, b \in Live : {a, b} \in run[r].paired => Linked(a, b)
       \/ /\ At(r, "writing")
          /\ \A a, b \in Live :
               /\ MustLink(a, b) => Linked(a, b) \/ <<a, b>> \in run[r].exact
               /\ MustPropose(a, b) =>
                    proposal[{a, b}] # "none" \/ {a, b} \in run[r].similar

Handled  == SomeIngesting \/ Reconciled \/ \E r \in Runs : Covers(r)
Owed     == ~amiss \/ \E r \in Runs : run[r].repairs
Coverage == Owed => Handled

(* The links and proposals between entities that stay grow. *)
GraphGrows ==
    /\ node' = node
    /\ \A a, b \in Live : Linked(a, b) => Linked(a, b)'
    /\ \A p \in Pairs : proposal[p] # "none" => proposal'[p] # "none"

(* Growth keeps a reconciled graph reconciled and a run covering that did  *)
(* not move.                                                               *)
LEMMA GrowthKeeps ==
    ASSUME GraphGrows, \A a, b \in Live : MustPropose(a, b) => {a, b} \in Pairs
    PROVE  /\ Live' = Live
           /\ \A a, b : /\ MustLink(a, b)' <=> MustLink(a, b)
                        /\ MustPropose(a, b)' <=> MustPropose(a, b)
           /\ Reconciled => Reconciled'
           /\ \A r \in Runs : run'[r] = run[r] /\ Covers(r) => Covers(r)'
<1>1. Live' = Live
  BY DEF GraphGrows, Live
<1>2. \A a, b : /\ MustLink(a, b)' <=> MustLink(a, b)
                /\ MustPropose(a, b)' <=> MustPropose(a, b)
  BY <1>1 DEF MustLink, MustPropose, Canonical, Namesakes
<1>3. Reconciled => Reconciled'
  BY <1>1, <1>2 DEF Reconciled, GraphGrows
<1>4. ASSUME NEW r \in Runs, run'[r] = run[r], Covers(r)
      PROVE  Covers(r)'
  BY <1>1, <1>2, <1>4 DEF Covers, At, GraphGrows
<1>5. QED
  BY <1>1, <1>2, <1>3, <1>4

(* Two entities to be proposed have different names, and make a pair_key.  *)
LEMMA ProposedPairs ==
    ASSUME NEW a \in Live, NEW b \in Live, MustPropose(a, b)
    PROVE  {a, b} \in Pairs /\ NormOf[a] # NormOf[b] /\ a # b
<1>1. a \in Uuids /\ b \in Uuids /\ a # b
  BY DEF Live, MustPropose
<1>2. NormOf[a] # NormOf[b]
  <2> SUFFICES ASSUME NormOf[a] = NormOf[b] PROVE FALSE
    OBVIOUS
  <2>1. {NormOf[a], NormOf[b]} = {NormOf[a]}
    OBVIOUS
  <2>2. QED
    BY <1>1, <2>1, ReconcileAssumption DEF MustPropose
<1>3. QED
  BY <1>1, <1>2, PairOfTwo

(* A run's step that only lets the graph grow keeps Coverage if the run    *)
(* itself still covers what it covered, or leaves nothing to be done.      *)
LEMMA OthersKeepCovering ==
    ASSUME Coverage, GraphGrows, NEW r \in Runs, ~At(r, "ingesting"),
           \A q \in Runs : q # r => run'[q] = run[q],
           Owed' => Owed,
           Covers(r) => Covers(r)' \/ Reconciled'
    PROVE  Coverage'
<1> SUFFICES ASSUME Owed PROVE Handled'
  BY DEF Coverage
<1>1. Reconciled => Reconciled'
  BY GrowthKeeps, ProposedPairs
<1>2. \A q \in Runs : q # r /\ Covers(q) => Covers(q)'
  BY GrowthKeeps, ProposedPairs
<1>3. SomeIngesting => SomeIngesting'
  <2> SUFFICES ASSUME NEW q \in Runs, At(q, "ingesting") PROVE At(q, "ingesting")'
    BY DEF SomeIngesting
  <2>1. q # r /\ run'[q] = run[q]
    OBVIOUS
  <2>2. QED
    BY <2>1 DEF At
<1>4. SomeIngesting \/ Reconciled \/ \E q \in Runs : Covers(q)
  BY DEF Coverage, Handled
<1>5. QED
  BY <1>1, <1>2, <1>3, <1>4 DEF Handled

(* The steps of a run keep Coverage. *)
LEMMA RunStepKeepsCoverage ==
    ASSUME RecInv, Coverage, NEW r \in Runs, RunStep(r)
    PROVE  Coverage'
<1>r. run \in [Runs -> RunRecords] /\ run[r] \in RunRecords
  BY DEF RecInv, TypeOK
<1>1. CASE Extract(r)
  <2>1. run'[r].at = "ingesting"
    BY <1>r, <1>1 DEF Extract, RunRecords
  <2>2. QED
    BY <2>1 DEF Coverage, Handled, SomeIngesting, At
<1>2. CASE ReadRows(r)
  <2>1. run'[r] = [NoRun EXCEPT !.at = "rows", !.rows = Live, !.repairs = TRUE]
    BY <1>r, <1>2 DEF ReadRows
  <2>2. run'[r].at = "rows" /\ run'[r].rows = Live /\ run'[r].repairs = TRUE /\ Live' = Live
    <3>1. run'[r].at = "rows" /\ run'[r].rows = Live /\ run'[r].repairs = TRUE
      BY <2>1 DEF NoRun
    <3>2. Live' = Live
      BY <1>2 DEF ReadRows, graphVars, Live
    <3>3. QED
      BY <3>1, <3>2
  <2>3. Covers(r)'
    BY <2>2 DEF Covers, At
  <2>4. QED
    BY <2>3 DEF Coverage, Handled
<1>3. CASE ReadLinks(r)
  <2> DEFINE seen == {p \in Pairs : p \subseteq run[r].rows /\ LinkedPair(p)}
  <2>1. /\ run' = [run EXCEPT ![r].at = "links", ![r].paired = seen]
        /\ UNCHANGED <<graphVars, amiss>> /\ At(r, "rows")
    BY <1>3 DEF ReadLinks
  <2>2. GraphGrows /\ Live' = Live
    BY <2>1 DEF GraphGrows, graphVars, Linked, Live
  <2>3. /\ run'[r].at = "links" /\ run'[r].paired = seen
        /\ run'[r].rows = run[r].rows /\ run'[r].repairs = run[r].repairs
        /\ \A q \in Runs : q # r => run'[q] = run[q]
    BY <1>r, <2>1 DEF RunRecords
  <2>4. Owed' => Owed
    BY <2>1, <2>3 DEF Owed
  <2>5. \A a, b \in Live : {a, b} \in seen => Linked(a, b)
    <3> SUFFICES ASSUME NEW a \in Live, NEW b \in Live, {a, b} \in Pairs, LinkedPair({a, b})
                 PROVE  Linked(a, b)
      OBVIOUS
    <3>1. PICK x \in {a, b}, y \in {a, b} : x # y /\ Linked(x, y)
      BY DEF LinkedPair
    <3>2. links[<<a, b>>] \in Nat /\ links[<<b, a>>] \in Nat
      BY DEF RecInv, TypeOK, Live
    <3>3. QED
      BY <3>1, <3>2 DEF Linked
  <2>6. Covers(r) => Covers(r)'
    <3> SUFFICES ASSUME Covers(r) PROVE Covers(r)'
      OBVIOUS
    <3>1. run[r].repairs /\ run[r].rows = Live
      BY <2>1 DEF Covers, At
    <3>2. \A a, b \in Live' : {a, b} \in run'[r].paired => Linked(a, b)'
      BY <2>2, <2>3, <2>5 DEF GraphGrows
    <3>3. QED
      BY <2>2, <2>3, <3>1, <3>2 DEF Covers, At
  <2>7. ~At(r, "ingesting")
    BY <2>1 DEF At
  <2>8. QED
    BY <2>2, <2>3, <2>4, <2>6, <2>7, OthersKeepCovering
<1>4. CASE ReadProposals(r)
  <2> DEFINE rows   == run[r].rows
             paired == run[r].paired \cup {p \in Pairs : proposal[p] # "none"}
             new(alike) == [NoRun EXCEPT !.at = "writing", !.repairs = run[r].repairs,
                                         !.exact = MissingLinks(rows, paired),
                                         !.similar = MissingProposals(rows, paired, alike)]
  <2>1. PICK alike \in {Alike \cup some : some \in SUBSET AlikeOneWay} :
          run' = [run EXCEPT ![r] = new(alike)]
    BY <1>4 DEF ReadProposals
  <2>2. UNCHANGED <<graphVars, amiss>> /\ At(r, "links") /\ Alike \subseteq alike
    BY <1>4, <2>1 DEF ReadProposals
  <2>3. GraphGrows /\ Live' = Live
    BY <2>2 DEF GraphGrows, graphVars, Linked, Live
  <2>4. /\ run'[r].at = "writing" /\ run'[r].repairs = run[r].repairs
        /\ run'[r].exact = MissingLinks(rows, paired)
        /\ run'[r].similar = MissingProposals(rows, paired, alike)
        /\ \A q \in Runs : q # r => run'[q] = run[q]
    <3>1. run'[r] = new(alike) /\ \A q \in Runs : q # r => run'[q] = run[q]
      BY <1>r, <2>1
    <3> HIDE DEF rows, paired
    <3>2. QED
      BY <3>1 DEF NoRun
  <2>5. Owed' => Owed
    BY <2>2, <2>4 DEF Owed
  <2>6. Covers(r) => Covers(r)'
    <3> SUFFICES ASSUME Covers(r) PROVE Covers(r)'
      OBVIOUS
    <3>1. /\ run[r].repairs /\ rows = Live
          /\ \A a, b \in Live : {a, b} \in run[r].paired => Linked(a, b)
      BY <2>2 DEF Covers, At
    <3>2. ASSUME NEW a \in Live, NEW b \in Live, MustLink(a, b)
          PROVE  Linked(a, b) \/ <<a, b>> \in MissingLinks(rows, paired)
      <4>1. a # b /\ a \in Uuids /\ b \in Uuids /\ {a, b} \in Pairs
        BY <3>2, PairOfTwo DEF MustLink, Live
      <4>2. proposal[{a, b}] = "none"
        BY <3>2, <4>1 DEF RecInv, ProposalsAreSimilar, NamesDiffer, MustLink
      <4>3. CASE {a, b} \in paired
        BY <3>1, <4>2, <4>3
      <4>4. CASE {a, b} \notin paired
        <5> HIDE DEF paired
        <5>1. <<a, b>> \in rows \X rows /\ <<a, b>>[1] = a /\ <<a, b>>[2] = b
          BY <3>1
        <5>2. QED
          BY <3>1, <3>2, <4>4, <5>1 DEF MissingLinks, MustLink
      <4>5. QED
        BY <4>3, <4>4
    <3>3. ASSUME NEW a \in Live, NEW b \in Live, MustPropose(a, b)
          PROVE  proposal[{a, b}] # "none" \/ {a, b} \in MissingProposals(rows, paired, alike)
      <4>1. {a, b} \in Pairs /\ NormOf[a] # NormOf[b] /\ a # b
        BY <3>3, ProposedPairs
      <4>2. CASE {a, b} \in run[r].paired
        <5>1. proposal[{a, b}] = "approved"
          BY <3>1, <4>1, <4>2 DEF RecInv, OnlyPeopleLinkSimilarNames
        <5>2. QED
          BY <5>1
      <4>3. CASE {a, b} \notin run[r].paired /\ proposal[{a, b}] = "none"
        <5>1. {a, b} \notin paired /\ {a, b} \subseteq rows
          BY <3>1, <4>3
        <5>2. {NormOf[u] : u \in {a, b}} = {NormOf[a], NormOf[b]}
          OBVIOUS
        <5>3. \A u, v \in {a, b} : u # v => GroupOf[u] # GroupOf[v]
          BY <3>3 DEF MustPropose
        <5> HIDE DEF rows, paired
        <5>4. QED
          BY <2>2, <3>3, <4>1, <5>1, <5>2, <5>3 DEF MissingProposals, MustPropose
      <4>4. QED
        BY <4>2, <4>3
    <3>4. /\ \A a, b : /\ MustLink(a, b)' <=> MustLink(a, b)
                       /\ MustPropose(a, b)' <=> MustPropose(a, b)
          /\ \A a, b \in Live : Linked(a, b) => Linked(a, b)'
          /\ proposal' = proposal
      BY <2>2, <2>3, GrowthKeeps, ProposedPairs DEF GraphGrows, graphVars
    <3> HIDE DEF rows, paired
    <3>5. QED
      BY <2>3, <2>4, <3>1, <3>2, <3>3, <3>4 DEF Covers, At
  <2>7. ~At(r, "ingesting")
    BY <2>2 DEF At
  <2>8. QED
    BY <2>3, <2>4, <2>5, <2>6, <2>7, OthersKeepCovering
<1>5. CASE WriteLink(r)
  <2>1. PICK e \in run[r].exact :
          MergeSameAs(e[1], e[2]) /\ run' = [run EXCEPT ![r].exact = @ \ {e}]
    BY <1>5 DEF WriteLink
  <2>2. At(r, "writing") /\ UNCHANGED <<node, proposal, amiss>> /\ Live' = Live
    BY <1>5 DEF WriteLink, Live
  <2>3. e \in Uuids \X Uuids
    BY <1>r, <2>1 DEF RunRecords
  <2>4. PICK x \in Uuids, y \in Uuids : e = <<x, y>>
    BY <2>3
  <2>5. links' = IF {x, y} \subseteq Live /\ links[<<x, y>>] = 0
                 THEN [links EXCEPT ![<<x, y>>] = 1] ELSE links
    BY <2>1, <2>4 DEF MergeSameAs
  <2>6. \A a, b \in Uuids : links[<<a, b>>] \in Nat /\ links'[<<a, b>>] \in Nat
                            /\ links[<<a, b>>] <= links'[<<a, b>>]
    <3> SUFFICES ASSUME NEW a \in Uuids, NEW b \in Uuids
                 PROVE  /\ links[<<a, b>>] \in Nat /\ links'[<<a, b>>] \in Nat
                        /\ links[<<a, b>>] <= links'[<<a, b>>]
      OBVIOUS
    <3>1. links \in [Uuids \X Uuids -> Nat] /\ <<a, b>> \in Uuids \X Uuids
      BY DEF RecInv, TypeOK
    <3>2. links[<<a, b>>] \in Nat
      BY <3>1
    <3>3. links'[<<a, b>>] = links[<<a, b>>] \/ (links[<<a, b>>] = 0 /\ links'[<<a, b>>] = 1)
      BY <2>5, <3>1
    <3>4. QED
      BY <3>2, <3>3
  <2>7. {x, y} \subseteq Live => links'[<<x, y>>] > 0
    BY <2>4, <2>5, <2>6 DEF RecInv, TypeOK
  <2>8. GraphGrows
    BY <2>2, <2>6 DEF GraphGrows, Linked, Live
  <2>9. /\ run'[r].at = run[r].at /\ run'[r].repairs = run[r].repairs
        /\ run'[r].exact = run[r].exact \ {e} /\ run'[r].similar = run[r].similar
        /\ \A q \in Runs : q # r => run'[q] = run[q]
    BY <1>r, <2>1 DEF RunRecords
  <2>10. Owed' => Owed
    BY <2>2, <2>9 DEF Owed
  <2>11. Covers(r) => Covers(r)'
    <3> SUFFICES ASSUME Covers(r) PROVE Covers(r)'
      OBVIOUS
    <3>1. /\ run[r].repairs
          /\ \A a, b \in Live :
               /\ MustLink(a, b) => Linked(a, b) \/ <<a, b>> \in run[r].exact
               /\ MustPropose(a, b) =>
                    proposal[{a, b}] # "none" \/ {a, b} \in run[r].similar
      BY <2>2 DEF Covers, At
    <3>2. \A a, b \in Live :
            MustLink(a, b) => Linked(a, b)' \/ <<a, b>> \in run'[r].exact
      <4> SUFFICES ASSUME NEW a \in Live, NEW b \in Live, MustLink(a, b)
                   PROVE  Linked(a, b)' \/ <<a, b>> \in run'[r].exact
        OBVIOUS
      <4>1. CASE <<a, b>> = e
        <5>1. a = x /\ b = y
          BY <2>4, <4>1
        <5>2. QED
          BY <2>4, <2>6, <2>7, <5>1 DEF Linked
      <4>2. CASE <<a, b>> # e
        BY <2>8, <2>9, <3>1, <4>2 DEF GraphGrows
      <4>3. QED
        BY <4>1, <4>2
    <3>3. \A a, b : /\ MustLink(a, b)' <=> MustLink(a, b)
                    /\ MustPropose(a, b)' <=> MustPropose(a, b)
      BY <2>8, GrowthKeeps, ProposedPairs
    <3>4. QED
      BY <2>2, <2>9, <3>1, <3>2, <3>3 DEF Covers, At
  <2>12. ~At(r, "ingesting")
    BY <2>2 DEF At
  <2>13. QED
    BY <2>8, <2>9, <2>10, <2>11, <2>12, OthersKeepCovering
<1>6. CASE WriteProposal(r)
  <2>1. PICK p \in run[r].similar :
          MergeProposal(p) /\ run' = [run EXCEPT ![r].similar = @ \ {p}]
    BY <1>6 DEF WriteProposal
  <2>2. At(r, "writing") /\ UNCHANGED <<node, links, amiss>> /\ Live' = Live
    BY <1>6 DEF WriteProposal, Live
  <2>3. p \in Pairs
    BY <1>r, <2>1 DEF RunRecords
  <2>4. proposal'[p] # "none" /\ \A q \in Pairs : proposal[q] # "none" => proposal'[q] # "none"
    BY <2>1, <2>3 DEF MergeProposal, RecInv, TypeOK
  <2>5. GraphGrows
    BY <2>2, <2>4 DEF GraphGrows, Linked
  <2>6. /\ run'[r].at = run[r].at /\ run'[r].repairs = run[r].repairs
        /\ run'[r].exact = run[r].exact /\ run'[r].similar = run[r].similar \ {p}
        /\ \A q \in Runs : q # r => run'[q] = run[q]
    BY <1>r, <2>1 DEF RunRecords
  <2>7. Owed' => Owed
    BY <2>2, <2>6 DEF Owed
  <2>8. Covers(r) => Covers(r)'
    <3> SUFFICES ASSUME Covers(r) PROVE Covers(r)'
      OBVIOUS
    <3>1. /\ run[r].repairs
          /\ \A a, b \in Live :
               /\ MustLink(a, b) => Linked(a, b) \/ <<a, b>> \in run[r].exact
               /\ MustPropose(a, b) =>
                    proposal[{a, b}] # "none" \/ {a, b} \in run[r].similar
      BY <2>2 DEF Covers, At
    <3>2. \A a, b \in Live : MustPropose(a, b) =>
            proposal'[{a, b}] # "none" \/ {a, b} \in run'[r].similar
      BY <2>4, <2>6, <3>1, ProposedPairs
    <3>3. \A a, b : /\ MustLink(a, b)' <=> MustLink(a, b)
                    /\ MustPropose(a, b)' <=> MustPropose(a, b)
      BY <2>5, GrowthKeeps, ProposedPairs
    <3>4. \A a, b \in Live : Linked(a, b) => Linked(a, b)'
      BY <2>5 DEF GraphGrows
    <3>5. QED
      BY <2>2, <2>6, <3>1, <3>2, <3>3, <3>4 DEF Covers, At
  <2>9. ~At(r, "ingesting")
    BY <2>2 DEF At
  <2>10. QED
    BY <2>5, <2>6, <2>7, <2>8, <2>9, OthersKeepCovering
<1>7. CASE Finish(r)
  <2>1. /\ At(r, "writing") /\ run[r].exact = {} /\ run[r].similar = {}
        /\ run' = [run EXCEPT ![r] = NoRun] /\ amiss' = (amiss /\ ~run[r].repairs)
        /\ UNCHANGED graphVars
    BY <1>7 DEF Finish
  <2>2. GraphGrows
    BY <2>1 DEF GraphGrows, graphVars, Linked
  <2>3. run'[r].repairs = FALSE /\ \A q \in Runs : q # r => run'[q] = run[q]
    BY <1>r, <2>1 DEF NoRun
  <2>4. Owed' => Owed
    BY <2>1, <2>3 DEF Owed
  <2>5. Covers(r) => Reconciled'
    <3>1. Covers(r) => Reconciled
      BY <2>1 DEF Covers, At, Reconciled
    <3>2. QED
      BY <2>2, <3>1, GrowthKeeps, ProposedPairs
  <2>6. ~At(r, "ingesting")
    BY <2>1 DEF At
  <2>7. QED
    BY <2>2, <2>3, <2>4, <2>5, <2>6, OthersKeepCovering
<1>8. CASE Fail(r)
  <2>1. amiss' = TRUE /\ \A q \in Runs : run'[q].repairs = FALSE
    BY <1>r, <1>8, NoRunIsARun DEF Fail, Lost, RunRecords
  <2>2. QED
    BY <2>1 DEF Coverage, Owed
<1>9. QED
  BY <1>1, <1>2, <1>3, <1>4, <1>5, <1>6, <1>7, <1>8 DEF RunStep

(* No step breaks Coverage. *)
LEMMA StepKeepsCoverage == RecInv /\ Coverage /\ [Next]_vars => Coverage'
<1> SUFFICES ASSUME RecInv, Coverage, [Next]_vars PROVE Coverage'
  OBVIOUS
<1> DEFINE Still == run' = run /\ amiss' = amiss
<1>s. ASSUME GraphGrows, Still PROVE Coverage'
  <2>1. (Owed' <=> Owed) /\ (SomeIngesting' <=> SomeIngesting)
    BY <1>s DEF Owed, SomeIngesting, At
  <2>2. (Reconciled => Reconciled') /\ \A r \in Runs : Covers(r) => Covers(r)'
    BY <1>s, GrowthKeeps, ProposedPairs
  <2>3. QED
    BY <2>1, <2>2 DEF Coverage, Handled
<1>1. CASE UNCHANGED vars
  <2>1. GraphGrows
    BY <1>1 DEF GraphGrows, vars, Linked
  <2>2. QED
    BY <1>1, <1>s, <2>1 DEF vars
<1>2. ASSUME NEW r \in Runs, RunStep(r) PROVE Coverage'
  BY <1>2, RunStepKeepsCoverage
<1>3. ASSUME NEW p \in Pairs, Approve(p) PROVE Coverage'
  <2>1. PICK x \in p, y \in p : x # y /\ links' = [links EXCEPT ![<<x, y>>] = @ + 1]
    BY <1>3 DEF Approve
  <2>2. /\ proposal' = [proposal EXCEPT ![p] = "approved"]
        /\ UNCHANGED <<node, run, amiss>> /\ x \in Uuids /\ y \in Uuids
    BY <1>3, TwoOfPair DEF Approve
  <2>3. \A a, b \in Live : Linked(a, b) => Linked(a, b)'
    <3> SUFFICES ASSUME NEW a \in Live, NEW b \in Live, Linked(a, b) PROVE Linked(a, b)'
      OBVIOUS
    <3>1. /\ links \in [Uuids \X Uuids -> Nat]
          /\ <<a, b>> \in Uuids \X Uuids /\ <<b, a>> \in Uuids \X Uuids
      BY DEF RecInv, TypeOK, Live
    <3>2. links[<<a, b>>] \in Nat /\ links[<<b, a>>] \in Nat
      BY <3>1
    <3>3. /\ links'[<<a, b>>] \in {links[<<a, b>>], links[<<a, b>>] + 1}
          /\ links'[<<b, a>>] \in {links[<<b, a>>], links[<<b, a>>] + 1}
      BY <2>1, <2>2, <3>1
    <3>4. QED
      BY <3>2, <3>3 DEF Linked
  <2>4. \A q \in Pairs : proposal[q] # "none" => proposal'[q] # "none"
    BY <2>2 DEF RecInv, TypeOK
  <2>5. QED
    BY <1>s, <2>2, <2>3, <2>4 DEF GraphGrows
<1>4. ASSUME NEW p \in Pairs, Reject(p) PROVE Coverage'
  <2>1. GraphGrows
    BY <1>4 DEF Reject, GraphGrows, Linked, RecInv, TypeOK
  <2>2. QED
    BY <1>4, <1>s, <2>1 DEF Reject
<1>5. ASSUME NEW u \in Uuids, Purge(u) PROVE Coverage'
  <2>1. amiss' = TRUE /\ \A q \in Runs : run'[q].repairs = FALSE
    BY <1>5 DEF Purge, Lost, RecInv, TypeOK, RunRecords
  <2>2. QED
    BY <2>1 DEF Coverage, Owed
<1>6. QED
  BY <1>1, <1>2, <1>3, <1>4, <1>5 DEF Next

(* Overlapping syncs miss no pair between them, in any number: at rest     *)
(* after a complete run, the graph is reconciled.                          *)
THEOREM NothingIsMissed == Spec => []NothingMissed
<1>1. Init => Coverage
  BY DEF Init, Coverage, Handled, Reconciled, Live
<1>2. Spec => []Coverage
  BY <1>1, InvariantHolds, StepKeepsCoverage, PTL DEF Spec
<1>3. Coverage => NothingMissed
  BY DEF Coverage, Owed, Handled, SomeIngesting, Covers, NothingMissed, At
<1>4. QED
  BY <1>2, <1>3, PTL

-----------------------------------------------------------------------------
(* Refinement of IdentityRegister. *)

Across(p) == \A u, v \in p : u # v => GroupOf[u] # GroupOf[v]

(* What a run has still to write joins knowledge bases, never entities of  *)
(* one.                                                                    *)
RunsReachAcross ==
    \A r \in Runs :
        /\ \A e \in run[r].exact : GroupOf[e[1]] # GroupOf[e[2]]
        /\ \A p \in run[r].similar : Across(p)

(* Only ReadProposals gives a run something to write, and both tiers       *)
(* compare knowledge bases.                                                *)
LEMMA StepKeepsReach ==
    ASSUME TypeOK, RunsReachAcross, [Next]_vars
    PROVE  RunsReachAcross'
<1>1. ASSUME \A r \in Runs : /\ run'[r].exact \subseteq run[r].exact
                             /\ run'[r].similar \subseteq run[r].similar
      PROVE  RunsReachAcross'
  BY <1>1 DEF RunsReachAcross, Across
<1>2. ASSUME NEW r \in Runs,
             \/ Extract(r) \/ ReadRows(r) \/ ReadLinks(r) \/ WriteLink(r) \/ WriteProposal(r)
             \/ Finish(r)
      PROVE  RunsReachAcross'
  <2> run \in [Runs -> RunRecords]
    BY DEF TypeOK
  <2>1. CASE Extract(r) \/ ReadLinks(r)
    <3>1. \A q \in Runs : run'[q].exact = run[q].exact /\ run'[q].similar = run[q].similar
      BY <2>1 DEF Extract, ReadLinks, RunRecords
    <3>2. QED
      BY <1>1, <3>1
  <2>2. CASE ReadRows(r) \/ Finish(r)
    <3>1. run'[r].exact = {} /\ run'[r].similar = {}
      <4>1. CASE ReadRows(r)
        BY <4>1 DEF ReadRows, NoRun
      <4>2. CASE Finish(r)
        BY <4>2 DEF Finish, NoRun
      <4>3. QED
        BY <2>2, <4>1, <4>2
    <3>2. \A q \in Runs : q # r => run'[q] = run[q]
      BY <2>2 DEF ReadRows, Finish
    <3>3. QED
      BY <1>1, <3>1, <3>2
  <2>3. CASE WriteLink(r)
    BY <1>1, <2>3 DEF WriteLink, TypeOK, RunRecords
  <2>4. CASE WriteProposal(r)
    BY <1>1, <2>4 DEF WriteProposal, TypeOK, RunRecords
  <2>5. QED
    BY <1>2, <2>1, <2>2, <2>3, <2>4
<1>3. ASSUME NEW r \in Runs, Fail(r) PROVE RunsReachAcross'
  BY <1>1, <1>3 DEF Fail, Lost, NoRun, TypeOK, RunRecords
<1>4. ASSUME NEW u \in Uuids, Purge(u) PROVE RunsReachAcross'
  BY <1>1, <1>4 DEF Purge, Lost, TypeOK, RunRecords
<1>5. ASSUME NEW p \in Pairs, Approve(p) \/ Reject(p) PROVE RunsReachAcross'
  BY <1>1, <1>5 DEF Approve, Reject
<1>6. ASSUME NEW r \in Runs, ReadProposals(r) PROVE RunsReachAcross'
  <2>1. PICK rows, paired, alike :
          run' = [run EXCEPT ![r] =
               [NoRun EXCEPT !.at = "writing", !.repairs = run[r].repairs,
                             !.exact = MissingLinks(rows, paired),
                             !.similar = MissingProposals(rows, paired, alike)]]
    BY <1>6 DEF ReadProposals
  <2>2. /\ run'[r].exact = MissingLinks(rows, paired)
        /\ run'[r].similar = MissingProposals(rows, paired, alike)
        /\ \A q \in Runs : q # r => run'[q] = run[q]
    BY <2>1 DEF TypeOK, NoRun
  <2>3. \A e \in MissingLinks(rows, paired) : GroupOf[e[1]] # GroupOf[e[2]]
    BY DEF MissingLinks
  <2>4. \A p \in MissingProposals(rows, paired, alike) : Across(p)
    BY DEF MissingProposals, Across
  <2>5. QED
    BY <2>2, <2>3, <2>4 DEF RunsReachAcross
<1>7. CASE UNCHANGED vars
  BY <1>1, <1>7 DEF vars
<1>8. QED
  BY <1>2, <1>3, <1>4, <1>5, <1>6, <1>7 DEF Next, RunStep

(* One more link between two entities joins them and nothing else. *)
LEMMA LinkJoins ==
    ASSUME TypeOK, NEW x \in Uuids, NEW y \in Uuids, NEW n \in Nat, n > 0,
           links' = [links EXCEPT ![<<x, y>>] = n]
    PROVE  Joined' = Joined \cup {{x, y}}
<1>1. <<x, y>> \in Uuids \X Uuids /\ links'[<<x, y>>] = n
      /\ \A e \in Uuids \X Uuids : e # <<x, y>> => links'[e] = links[e]
  BY DEF TypeOK
<1>2. ASSUME NEW p \in Joined' PROVE p \in Joined \cup {{x, y}}
  <2>1. PICK e \in Uuids \X Uuids : links'[e] > 0 /\ p = {e[1], e[2]}
    BY <1>2 DEF Joined
  <2>2. CASE e = <<x, y>>
    BY <2>1, <2>2
  <2>3. CASE e # <<x, y>>
    BY <1>1, <2>1, <2>3 DEF Joined
  <2>4. QED
    BY <2>2, <2>3
<1>3. ASSUME NEW p \in Joined PROVE p \in Joined'
  <2>1. PICK e \in Uuids \X Uuids : links[e] > 0 /\ p = {e[1], e[2]}
    BY <1>3 DEF Joined
  <2>2. links'[e] > 0
    BY <1>1, <2>1
  <2>3. QED
    BY <2>1, <2>2 DEF Joined
<1>4. {x, y} \in Joined'
  BY <1>1 DEF Joined
<1>5. QED
  BY <1>2, <1>3, <1>4

(* With an entity go its links, and no others. *)
LEMMA PurgeParts ==
    ASSUME TypeOK, NEW u \in Uuids, Purge(u)
    PROVE  Joined' = {p \in Joined : u \notin p}
<1>1. \A e \in Uuids \X Uuids : links'[e] = IF u \in {e[1], e[2]} THEN 0 ELSE links[e]
  BY DEF Purge
<1>2. QED
  BY <1>1 DEF Joined

(* reconcile_tenant, approve_proposal, reject_proposal and                 *)
(* purge_connector_data together keep a register of identities: joined     *)
(* once, asked once, decided once, across knowledge bases only, whatever   *)
(* overlaps.                                                               *)
THEOREM RegisterIsKept == Spec => ImplementsRegister
<1>1. Init => Register!Init /\ RunsReachAcross
  BY DEF Init, Register!Init, Live, Joined, RunsReachAcross, NoRun
<1>2. RecInv /\ RunsReachAcross /\ [Next]_vars => [Register!Next]_(Register!register)
  <2> SUFFICES ASSUME RecInv, RunsReachAcross, [Next]_vars
               PROVE  [Register!Change]_(Register!register)
    BY DEF Register!Next
  <2> USE DEF RecInv
  <2>1. ASSUME UNCHANGED graphVars PROVE UNCHANGED Register!register
    BY <2>1 DEF graphVars, Register!register, Live, Joined
  <2>2. ASSUME NEW r \in Runs, Extract(r) PROVE Register!Change
    <3>1. PICK u \in Uuids : node[u] = "unborn" /\ node' = [node EXCEPT ![u] = "live"]
      BY <2>2 DEF Extract
    <3>2. u \notin Live /\ Live' = Live \cup {u}
      BY <3>1 DEF Live, TypeOK
    <3>3. Joined' = Joined /\ proposal' = proposal
      BY <2>2 DEF Extract, Joined
    <3>4. QED
      BY <3>2, <3>3 DEF Register!Change, Register!Arrive
  <2>3. ASSUME NEW r \in Runs, WriteLink(r) PROVE [Register!Change]_(Register!register)
    <3>1. PICK e \in run[r].exact : MergeSameAs(e[1], e[2])
      BY <2>3 DEF WriteLink
    <3>2. /\ e \in Uuids \X Uuids /\ NormOf[e[1]] = NormOf[e[2]] /\ e[1] < e[2]
          /\ GroupOf[e[1]] # GroupOf[e[2]]
      BY <3>1 DEF TypeOK, RunRecords, RunsOnCourse, RunsReachAcross
    <3>3. PICK x \in Uuids, y \in Uuids : e = <<x, y>>
      BY <3>2
    <3>4. x # y /\ NormOf[x] = NormOf[y] /\ GroupOf[x] # GroupOf[y] /\ {x, y} \in Pairs
      BY <3>2, <3>3, PairOfTwo
    <3>5. UNCHANGED <<node, proposal>> /\ Live' = Live
      BY <2>3 DEF WriteLink, Live
    <3>6. CASE links' = links
      BY <2>1, <3>5, <3>6 DEF graphVars
    <3>7. CASE links' # links
      <4>1. links' = [links EXCEPT ![<<x, y>>] = 1] /\ {x, y} \subseteq Live
        BY <3>1, <3>3, <3>7 DEF MergeSameAs
      <4>2. Joined' = Joined \cup {{x, y}}
        <5>1. 1 \in Nat /\ 1 > 0
          OBVIOUS
        <5>2. QED
          BY <4>1, <5>1, LinkJoins
      <4>3. Register!Join({x, y})
        BY <3>4, <3>5, <4>1, <4>2 DEF Register!Join, Register!Namesakes, Register!FromTwoHomes
      <4>4. QED
        BY <3>4, <4>3 DEF Register!Change
    <3>8. QED
      BY <3>6, <3>7
  <2>4. ASSUME NEW r \in Runs, WriteProposal(r) PROVE [Register!Change]_(Register!register)
    <3>1. PICK p \in run[r].similar : MergeProposal(p)
      BY <2>4 DEF WriteProposal
    <3>2. p \in Pairs /\ NamesDiffer(p) /\ Across(p)
      BY <3>1 DEF TypeOK, RunRecords, RunsOnCourse, RunsReachAcross
    <3>3. UNCHANGED <<node, links>> /\ Live' = Live /\ Joined' = Joined
      BY <2>4 DEF WriteProposal, Live, Joined
    <3>4. CASE proposal[p] = "none"
      <4>1. proposal' = [proposal EXCEPT ![p] = "pending"]
        BY <3>1, <3>4 DEF MergeProposal
      <4>2. ~Register!Namesakes(p) /\ Register!FromTwoHomes(p)
        <5>1. PICK a \in p, b \in p : a # b
          BY <3>2 DEF Pairs
        <5>2. QED
          BY <3>2, <5>1 DEF NamesDiffer, Across, Register!Namesakes, Register!FromTwoHomes
      <4>3. QED
        BY <3>2, <3>3, <3>4, <4>1, <4>2 DEF Register!Change, Register!Ask
    <3>5. CASE proposal[p] # "none"
      <4>1. proposal' = proposal
        BY <3>1, <3>2, <3>5 DEF MergeProposal, TypeOK
      <4>2. QED
        BY <2>1, <3>3, <4>1 DEF graphVars
    <3>6. QED
      BY <3>4, <3>5
  <2>5. ASSUME NEW p \in Pairs, Approve(p) PROVE Register!Change
    <3>1. PICK x \in p, y \in p : x # y /\ links' = [links EXCEPT ![<<x, y>>] = @ + 1]
      BY <2>5 DEF Approve
    <3>2. p = {x, y} /\ x \in Uuids /\ y \in Uuids
      BY <3>1, TwoOfPair
    <3>3. links[<<x, y>>] + 1 \in Nat /\ links[<<x, y>>] + 1 > 0
          /\ links' = [links EXCEPT ![<<x, y>>] = links[<<x, y>>] + 1]
      BY <3>1, <3>2 DEF TypeOK
    <3>4. Joined' = Joined \cup {p}
      BY <3>2, <3>3, LinkJoins
    <3>5. /\ proposal[p] = "pending" /\ p \subseteq Live /\ Live' = Live
          /\ proposal' = [proposal EXCEPT ![p] = "approved"]
      BY <2>5 DEF Approve, Live
    <3>6. QED
      BY <3>4, <3>5 DEF Register!Change, Register!Approve
  <2>6. ASSUME NEW p \in Pairs, Reject(p) PROVE Register!Change
    BY <2>6 DEF Reject, Register!Change, Register!Reject, Live, Joined
  <2>7. ASSUME NEW u \in Uuids, Purge(u) PROVE Register!Change
    <3>1. u \in Live /\ Live' = Live \ {u} /\ proposal' = proposal
      BY <2>7 DEF Purge, Live, TypeOK
    <3>2. Joined' = {p \in Joined : u \notin p}
      BY <2>7, PurgeParts
    <3>3. QED
      BY <3>1, <3>2 DEF Register!Change, Register!Leave
  <2>8. ASSUME NEW r \in Runs,
               ReadRows(r) \/ ReadLinks(r) \/ ReadProposals(r) \/ Finish(r) \/ Fail(r)
        PROVE  UNCHANGED graphVars
    BY <2>8 DEF ReadRows, ReadLinks, ReadProposals, Finish, Fail
  <2>9. CASE UNCHANGED vars
    BY <2>1, <2>9 DEF vars, graphVars
  <2>10. QED
    BY <2>1, <2>2, <2>3, <2>4, <2>5, <2>6, <2>7, <2>8, <2>9 DEF Next, RunStep
<1>3. RecInv /\ RunsReachAcross /\ [Next]_vars => RunsReachAcross'
  BY StepKeepsReach DEF RecInv
<1>4. QED
  BY <1>1, <1>2, <1>3, InvariantHolds, PTL DEF Spec, ImplementsRegister, Register!Spec
=============================================================================
