---------------------------- MODULE ContextQuery ----------------------------
(***************************************************************************)
(* A question on its way through the service                               *)
(* (app/context/query_service.py, app/context/orchestrator.py), while      *)
(* syncs and purges change the graph it reads: scope and visibility, the   *)
(* resolution of names, retrieval, the answer and, in causal mode, the     *)
(* recommendation that is recorded as a decision                           *)
(* (app/graph/decisions.py).                                               *)
(*                                                                         *)
(* What a stage reads with several statements it reads in one step; graph  *)
(* and question interleave between the stages, where the code awaits.  The *)
(* response cache in front of it is ResponseCache.                         *)
(***************************************************************************)
EXTENDS Answering

CONSTANTS
    Question,
    Candidates,    \* the names in a question, in the order they are tried
    DocumentSet,
    BasesOf,       \* the knowledge bases a document set names
    NumResults,    \* the cap on search results
    PageSize,      \* the cap on what the graph routes list
    MaxDecisions   \* decisions are counted up to here

(* The lines that say that nothing was found. *)
NoEntity     == "No entity matching that name was found"
NoConnection == "No connection found"

ASSUME QueryAssumption ==
    /\ OrgOf \in [User -> KnowledgeBase]
    /\ BasesOf \in [DocumentSet -> SUBSET KnowledgeBase]
    /\ Fact \cap (Live \cup {NoEntity, NoConnection}) = {}
    /\ MaxDecisions \in Nat

VARIABLES
    ask,       \* the question under way
    decisions  \* the recorded recommendations

queryVars == <<graphVars, ask, decisions>>

(* A question as it begins, or a list as a route returns it. *)
Fresh(stage, mode, question, scope, seen, items, summaries) ==
    [at |-> stage, mode |-> mode, question |-> question, scope |-> scope, seen |-> seen,
     first |-> {}, anchor |-> None, other |-> None, lost |-> FALSE, walked |-> FALSE,
     items |-> items, summaries |-> summaries, lines |-> {}]

Idle == Fresh("idle", "ask", None, {}, {}, {}, {})

QueryInit == GraphInit /\ ask = Idle /\ decisions = {}

At(stage) == ask.at = stage

-----------------------------------------------------------------------------
(* Scope: a knowledge base, as a user or as nobody in particular, or a      *)
(* document set as nobody.  A request for anything else is refused and      *)
(* changes nothing.                                                         *)

Begin(mode, question, scope, seen) ==
    /\ At("idle")
    /\ ask' = Fresh("resolve", mode, question, scope, seen, {}, {})
    /\ UNCHANGED <<graphVars, decisions>>

AskAsUser(mode, question, u) == Begin(mode, question, {OrgOf[u]}, Visible(u))
AskBase(mode, question, kb)  == Begin(mode, question, {kb}, Entity)
AskSet(question, set)        == Begin("ask", question, BasesOf[set], Entity)

-----------------------------------------------------------------------------
(* The graph routes list entities, with their summaries, or facts. *)

WithEnds(fs) == {Item(f, TRUE) : f \in fs}

Show(scope, seen, entities, facts) ==
    /\ At("idle")
    /\ \/ \E page \in Pages(entities, PageSize) :
            ask' = Fresh("shown", "browse", None, scope, seen, {}, page)
       \/ \E page \in Pages(facts, PageSize) :
            ask' = Fresh("shown", "browse", None, scope, seen, WithEnds(page), {})
    /\ UNCHANGED <<graphVars, decisions>>

BrowseAsUser(u)    == Show({OrgOf[u]}, Visible(u), Visible(u), VisibleRelationships(u))
BrowseBase(kb)     == Show({kb}, Entity, NodesOf(kb), FactsOf(kb))
BrowseConnector(c) == Show({FedTo[c]}, Entity, NodesFrom(c), FactsFrom(c))

-----------------------------------------------------------------------------
(* resolve_named_entities, expand_same_as: any row may come first. *)
Resolve ==
    /\ At("resolve")
    /\ \E rows \in Rows(Candidates[ask.question], ask.scope, ask.seen) :
         LET kept == Kept(rows)
             one  == Leading(rows, kept)
             two  == Leading(rows, kept \ Least(kept))
         IN  \E x \in IF one = {} THEN {None} ELSE one, y \in IF two = {} THEN {None} ELSE two :
               ask' = [ask EXCEPT !.at = "retrieve", !.anchor = x, !.other = y,
                         !.first = Expanded(one, ask.scope, ask.seen),
                         !.lost = Unresolved(Candidates[ask.question], rows)]
    /\ UNCHANGED <<graphVars, decisions>>

Unnamed  == ask.anchor = None
Connects == ~Unnamed /\ ask.other # None

-----------------------------------------------------------------------------
(* Ask: search_graphiti_facts and the live sources. *)

Answering(stage, items, summaries, walked) ==
    /\ ask' = [ask EXCEPT !.at = stage, !.items = items, !.summaries = summaries,
                          !.walked = walked]
    /\ UNCHANGED <<graphVars, decisions>>

OwnOf(rows)  == UNION {OwnFacts(e, ask.seen) : e \in rows}
Bare(rows)   == {e \in rows : OwnFacts(e, ask.seen) = {} /\ e \in HasSummary}

RetrieveNotFound ==
    /\ At("retrieve") /\ ask.mode = "ask" /\ Unnamed /\ ask.lost
    /\ \E said \in SUBSET Live :
         Answering("compose", {Remark(t) : t \in said \cup {NoEntity}}, {}, FALSE)

RetrieveConnection ==
    /\ At("retrieve") /\ ask.mode = "ask" /\ Connects /\ ask.anchor # ask.other
    /\ \E fs \in PathFacts(ask.anchor, ask.other, Facts, ask.seen), said \in SUBSET Live :
         Answering("compose",
                   {Item(f, FALSE) : f \in fs} \cup
                   {Remark(t) : t \in said \cup IF fs = {} THEN {NoConnection} ELSE {}},
                   {}, TRUE)

RetrieveOwn ==
    /\ At("retrieve") /\ ask.mode = "ask" /\ ~Unnamed /\ ~Connects
    /\ \E said \in SUBSET Live :
         Answering("compose", WithEnds(OwnOf(ask.first)) \cup {Remark(t) : t \in said},
                   Bare(ask.first), FALSE)

RetrieveBySearch ==
    /\ At("retrieve") /\ Unnamed /\ ~ask.lost
    /\ \E fs \in Found(ask.scope, ask.seen, NumResults),
          said \in SUBSET (IF ask.mode = "ask" THEN Live ELSE {}) :
         Answering("compose", WithEnds(fs) \cup {Remark(t) : t \in said}, {}, FALSE)

-----------------------------------------------------------------------------
(* Causal mode: causal_chain_for_query, get_causal_context_packet. *)

IsCausalIfAny(items) == \E x \in items : Edge[x.says].type \in CausalType   \* slip

IsEntirelyCausal(items) ==
    items # {} /\ \A x \in items : Edge[x.says].type \in CausalType

(* A chain that is not entirely causal is reported, not reasoned from. *)
StageFor(items) == IF IsEntirelyCausal(items) THEN "recommend" ELSE "compose"

CausalConnection ==
    /\ At("retrieve") /\ ask.mode = "causal" /\ Connects /\ ask.anchor # ask.other
    /\ \E fs \in PathFacts(ask.anchor, ask.other, FactsIn(ask.scope), ask.seen) :
         Answering(StageFor(WithEnds(fs)), WithEnds(fs), {}, TRUE)

(* With at most one fact in the chain the anchor's other facts come too,   *)
(* and then nothing is inferred.                                           *)
CausalWalk ==
    /\ At("retrieve") /\ ask.mode = "causal" /\ ~Unnamed /\ ~Connects
    /\ \E chain \in CausalChains(ask.anchor, ask.scope, ask.seen) :
         LET texts == {Edge[f].text : f \in chain}
             extra == {f \in OwnFacts(ask.anchor, ask.seen) : Edge[f].text \notin texts}
         IN  IF Cardinality(chain) <= 1 /\ extra # {}
             THEN Answering("compose", WithEnds(chain \cup extra), {}, FALSE)
             ELSE Answering(StageFor(WithEnds(chain)), WithEnds(chain), {}, TRUE)

CausalNotFound ==
    /\ At("retrieve") /\ ask.mode = "causal" /\ Unnamed /\ ask.lost
    /\ Answering("compose", {}, {}, FALSE)

(* A provider call fails, a budget is spent (402), or a path is asked for  *)
(* from an entity to itself, which Neo4j refuses.                          *)
RequestFails ==
    /\ ask.at \in {"resolve", "retrieve"}
    /\ ask' = Idle
    /\ UNCHANGED <<graphVars, decisions>>

-----------------------------------------------------------------------------
(* The answer. *)

TiesOf(items) == IF ask.mode = "ask" THEN TieBreaks(items) ELSE {{}}

(* One line is the answer; several go through a model call that falls back *)
(* on the lines; the packet carries every item either way.                 *)
Compose ==
    /\ At("compose")
    /\ \E lines \in Answers(ask.items, TiesOf(ask.items)) :
         ask' = [ask EXCEPT !.at = "answered",
                            !.lines = lines \cup {SummaryLine(e) : e \in ask.summaries}]
    /\ UNCHANGED <<graphVars, decisions>>

(* The model recommends from the lines, or fails and the chain is the answer. *)
Recommend ==
    /\ At("recommend")
    /\ \E lines \in Answers(ask.items, {{}}), stage \in {"record", "answered"} :
         ask' = [ask EXCEPT !.at = stage, !.lines = lines]
    /\ UNCHANGED <<graphVars, decisions>>

(* record_decision: the node is created; its INVOLVES edge needs the anchor. *)
RecordDecision ==
    /\ At("record") /\ Cardinality(decisions) < MaxDecisions
    /\ decisions' = decisions \cup
         {[anchor |-> ask.anchor, scope |-> ask.scope, seen |-> ask.seen,
           chain |-> {x.says : x \in ask.items}, linked |-> ask.anchor \in nodes]}
    /\ audited' = audited \cup ({ask.anchor} \cap nodes)
    /\ ask' = [ask EXCEPT !.at = "answered"]
    /\ UNCHANGED <<storeVars, draft, purge, crossed>>

(* Recording is best effort. *)
RecordFails ==
    /\ At("record")
    /\ ask' = [ask EXCEPT !.at = "answered"]
    /\ UNCHANGED <<graphVars, decisions>>

Deliver ==
    /\ ask.at \in {"answered", "shown"}
    /\ ask' = Idle
    /\ UNCHANGED <<graphVars, decisions>>

GraphStep == GraphNext /\ UNCHANGED <<ask, decisions>>

AskNext ==
    \/ \E mode \in {"ask", "causal"}, q \in Question :
         \/ \E u \in User : AskAsUser(mode, q, u)
         \/ \E kb \in KnowledgeBase : AskBase(mode, q, kb)
    \/ \E q \in Question, set \in DocumentSet : AskSet(q, set)
    \/ \E u \in User : BrowseAsUser(u)
    \/ \E kb \in KnowledgeBase : BrowseBase(kb)
    \/ \E c \in Connector : BrowseConnector(c)
    \/ Resolve
    \/ RetrieveNotFound \/ RetrieveConnection \/ RetrieveOwn \/ RetrieveBySearch
    \/ CausalConnection \/ CausalWalk \/ CausalNotFound
    \/ RequestFails
    \/ Compose \/ Recommend \/ RecordDecision \/ RecordFails \/ Deliver

QueryNext == GraphStep \/ AskNext

QuerySpec == QueryInit /\ [][QueryNext]_queryVars

-----------------------------------------------------------------------------
(* Properties. *)

Stages == {"idle", "resolve", "retrieve", "compose", "recommend", "record", "answered", "shown"}

Message  == Live \cup {NoEntity, NoConnection}
Text     == Message \cup {Edge[f].text : f \in Fact}
ItemSet  == [says : Fact \cup Message, valid : BOOLEAN, until : Nat, ends : BOOLEAN]
Line     == [kind : {"is", "was", "changed", "summary"}, old : Text \cup {None},
             text : Text \cup Entity]
Decision == [anchor : Entity, scope : SUBSET KnowledgeBase, seen : SUBSET Entity,
             chain : SUBSET Fact, linked : BOOLEAN]
Request  == [at : Stages, mode : {"ask", "causal", "browse"}, question : Question \cup {None},
             scope : SUBSET KnowledgeBase, seen : SUBSET Entity, first : SUBSET Entity,
             anchor : Entity \cup {None}, other : Entity \cup {None}, lost : BOOLEAN,
             walked : BOOLEAN, items : SUBSET ItemSet, summaries : SUBSET Entity,
             lines : SUBSET Line]

QueryTypeOK ==
    /\ GraphTypeOK
    /\ ask \in Request
    /\ \A x \in ask.items : x.ends => x.says \in Fact
    /\ decisions \subseteq Decision

Cited == {x \in ask.items : x.says \in Fact}

(* What comes back to an asker is within the scope of the question and      *)
(* within what the asker may see: an entity's summary is of a visible       *)
(* entity, a fact touches one, and of a path or a chain no node in between  *)
(* is hidden (get_visible_entity_uuids, "a fact between two entities        *)
(* neither of which the caller owns").                                      *)
AnswersStayVisible ==
    /\ \A e \in ask.summaries : e \in ask.seen /\ HomeOf[e] \in ask.scope
    /\ \A x \in Cited :
         /\ Home(x.says) \in ask.scope
         /\ Ends(x.says) \cap ask.seen # {}
         /\ ask.walked => Ends(x.says) \subseteq ask.seen

(* No retrieved fact and no summary is missing from the lines the answer is *)
(* made of, superseded facts included ("shouldn't vanish just because       *)
(* nothing superseded it in this retrieval", _build_answer_lines; "several  *)
(* true, complementary facts", _apply_authority_tie_break): since a         *)
(* knowledge base's facts never meet another's between the same two nodes,  *)
(* the tie-break has nothing to decide and takes no line away.              *)
NothingVanishes ==
    At("answered") =>
        /\ \A x \in ask.items : \E l \in ask.lines : TextOf(x) \in {l.text, l.old}
        /\ \A e \in ask.summaries : SummaryLine(e) \in ask.lines

(* A recorded decision rests on a non-empty chain of causal facts, all      *)
(* within its knowledge base and visible to who asked; and it is linked to  *)
(* its anchor, which no purge then removes, unless the anchor was gone      *)
(* before it was recorded.                                                  *)
DecisionsAreGrounded ==
    \A d \in decisions :
        /\ d.chain # {}
        /\ \A f \in d.chain : /\ Edge[f].type \in CausalType
                              /\ Home(f) \in d.scope
                              /\ Ends(f) \subseteq d.seen
        /\ d.linked => d.anchor \in nodes \cap audited
=============================================================================
