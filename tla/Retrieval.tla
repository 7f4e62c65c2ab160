----------------------------- MODULE Retrieval -----------------------------
(***************************************************************************)
(* What a question finds in the graph: who may see what                    *)
(* (app/graph/authorization.py), which entities the question names         *)
(* (app/graph/entity_resolution.py), and the facts that are retrieved for  *)
(* them (app/graph/graph_repository.py).                                   *)
(*                                                                         *)
(* Where Cypher leaves the choice (LIMIT 1, shortestPath, the first of a   *)
(* collect) and where Graphiti's search ranks, an operator gives the set   *)
(* of all results there can be.  Names are model values; what the text     *)
(* functions say of two names is a constant.                               *)
(***************************************************************************)
EXTENDS KnowledgeGraph

CONSTANTS
    User,
    OrgOf,           \* the knowledge base whose org chart has the user
    ReportsTo,       \* the user's manager, or None
    AssignedTo,      \* the users an entity is assigned to
    MaxDepth,        \* MAX_HIERARCHY_DEPTH
    Name,
    NameOf,          \* an entity's name, in lower case
    NormOf,          \* _normalize_entity_name
    CoreHits,        \* names that contain the core token; none if it is short
    Holding,         \* names that contain this one
    Deeds,           \* entities of the action types: Task, Event, Activity ...
    HasSummary,      \* entities with a summary
    SameAs,          \* pairs of entities Reconcile has linked
    CausalType,      \* the ontology's causal relationship types
    CausalLimit      \* _CAUSAL_FACT_LIMIT

-----------------------------------------------------------------------------
(* Authorization. *)

(* The users at each distance below u; the walk ends at MaxDepth. *)
Below(u) ==
    LET level[n \in 0..MaxDepth] ==
          IF n = 0 THEN {u} ELSE {s \in User : ReportsTo[s] \in level[n - 1]}
    IN  UNION {level[n] : n \in 0..MaxDepth} \cap {s \in User : OrgOf[s] = OrgOf[u]}

(* The entities assigned to the user or to somebody below. *)
Visible(u) ==
    {e \in nodes : HomeOf[e] = OrgOf[u] /\ AssignedTo[e] \cap Below(u) # {}}

(* The nodes and relationships routes show these: of a knowledge base, to a *)
(* user, or what a connector's episodes mention and touch.                  *)
NodesOf(kb)  == {e \in nodes : HomeOf[e] = kb}
FactsOf(kb)  == {f \in Facts : Home(f) = kb}

VisibleRelationships(u) == {f \in FactsOf(OrgOf[u]) : Ends(f) \cap Visible(u) # {}}

NodesFrom(c) == UNION {Names(episodes[i]) : i \in TaggedBy(c)} \cap nodes
FactsFrom(c) == {f \in FactsOf(FedTo[c]) : backing[f] \cap TaggedBy(c) # {}}

(* The most recent, up to a limit. *)
Pages(rows, limit) ==
    IF Cardinality(rows) <= limit THEN {rows}
    ELSE {page \in SUBSET rows : Cardinality(page) = limit}

-----------------------------------------------------------------------------
(* Resolution: a candidate is a name a question contains, as a proper noun, *)
(* an id or, where there is no proper noun, a single word.                  *)

(* Exact and normalized matches together, or any one name that contains it; *)
(* a word is not looked for inside the names of actions.                    *)
Matches(candidate, scope) ==
    LET here   == {e \in nodes : HomeOf[e] \in scope}
        apt    == IF candidate.kind = "word" THEN here \ Deeds ELSE here
        exact  == {e \in here : NameOf[e] = candidate.name}
        normal == {e \in apt : /\ NameOf[e] \in CoreHits[candidate.name]
                               /\ NormOf[NameOf[e]] = NormOf[candidate.name]}
        loose  == {e \in apt : NameOf[e] \in Holding[candidate.name]}
    IN  IF exact \cup normal # {} THEN {exact \cup normal}
        ELSE IF loose = {} THEN {{}} ELSE {{e} : e \in loose}

(* _extract_*_candidates: words only count without a proper noun. *)
Tried(candidates) ==
    {i \in DOMAIN candidates :
        candidates[i].kind = "word" =>
            \A j \in DOMAIN candidates : candidates[j].kind # "proper"}

(* What each candidate resolves to, as far as the asker may see it. *)
Rows(candidates, scope, seen) ==
    LET tried == Tried(candidates)
        found == UNION {Matches(candidates[i], scope) : i \in tried}
    IN  {[i \in tried |-> g[i] \cap seen] :
            g \in {h \in [tried -> found] : \A i \in tried : h[i] \in Matches(candidates[i], scope)}}

(* Groups are told apart by their uuid sets; the first two count. *)
Kept(rows) == {i \in DOMAIN rows : rows[i] # {} /\ \A j \in DOMAIN rows : j < i => rows[j] # rows[i]}
Unresolved(candidates, rows) ==
    \E i \in DOMAIN rows : candidates[i].kind = "proper" /\ rows[i] = {}

Least(places) == {i \in places : \A j \in places : i <= j}

(* The group of the first of these places; none when there is no place. *)
Leading(rows, places) == UNION {rows[i] : i \in Least(places)}

(* One SAME_AS hop, within the scope and within what the asker may see. *)
Linked(e, x) == {<<e, x>>, <<x, e>>} \cap SameAs # {}
Expanded(rows, scope, seen) ==
    rows \cup {e \in nodes \cap seen : HomeOf[e] \in scope /\ \E x \in rows : Linked(e, x)}

-----------------------------------------------------------------------------
(* Facts. *)

(* _entity_own_facts: one end must be visible.  The INVOLVES edges of       *)
(* recorded decisions are not facts.                                        *)
OwnFacts(e, seen) == {f \in Facts : e \in Ends(f) /\ Ends(f) \cap seen # {}}

Other(f, e) == IF Edge[f].source = e THEN Edge[f].target ELSE Edge[f].source

(* Walks of one to four hops (1..4, _CAUSAL_MAX_HOPS), no edge twice. *)
Standing(x) == [at |-> x, nodes |-> {x}, facts |-> {}, last |-> None]

Step(walks, over) ==
    UNION {{[at |-> Other(f, w.at), nodes |-> w.nodes \cup Ends(f),
             facts |-> w.facts \cup {f}, last |-> f] :
               f \in {g \in over \ w.facts : w.at \in Ends(g)}} : w \in walks}

Walks(x, over) ==
    LET one == Step({Standing(x)}, over)
        two == Step(one, over)
        three == Step(two, over)
    IN  <<one, two, three, Step(three, over)>>

(* shortestPath; the caller looks at its nodes afterwards. *)
ShortestPaths(x, y, over) ==
    LET walks   == Walks(x, over)
        lengths == {n \in 1..4 : \E w \in walks[n] : w.at = y}
    IN  {w \in UNION {walks[n] : n \in Least(lengths)} : w.at = y}

FactsIn(scope) == {f \in Facts : Home(f) \in scope}

SeenEnds(w, x, seen) == {x, w.at} \subseteq seen   \* slip: not what lies between

(* Every node of a path must be visible. *)
Seen(w, x, seen) == w.nodes \subseteq seen

(* _relationship_path_facts and, within the scope, _..._full_facts. *)
PathFacts(x, y, over, seen) ==
    LET paths == ShortestPaths(x, y, over)
    IN  IF paths = {} THEN {{}}
        ELSE {IF Seen(w, x, seen) THEN w.facts ELSE {} : w \in paths}

(* _causal_chain_facts_from: of the walks over causal facts, the first that *)
(* ends in an edge of its source, type and target; the nearest CausalLimit  *)
(* of those; and of them the ones whose nodes are all visible.              *)
Key(f) == <<Edge[f].source, Edge[f].type, Edge[f].target>>

CausalIn(scope) == {f \in FactsIn(scope) : Edge[f].type \in CausalType}

CausalChains(x, scope, seen) ==
    LET walks    == Walks(x, CausalIn(scope))
        all      == UNION {walks[n] : n \in 1..4}
        keys     == {Key(w.last) : w \in all}
        ended(k) == {n \in 1..4 : \E w \in walks[n] : Key(w.last) = k}
        first(k) == {w \in UNION {walks[n] : n \in Least(ended(k))} : Key(w.last) = k}
        nearer(k, l) == \E n \in ended(k) : \A m \in ended(l) : n <= m
        near     == {ks \in SUBSET keys :
                        /\ Cardinality(ks) <= CausalLimit
                        /\ ks # keys => Cardinality(ks) = CausalLimit
                        /\ \A k \in ks, l \in keys \ ks : nearer(k, l)}
        picks(ks) == {g \in [ks -> all] : \A k \in ks : g[k] \in first(k)}
    IN  UNION {{{g[k].last : k \in {l \in ks : Seen(g[l], x, seen)}} : g \in picks(ks)} : ks \in near}

(* Graphiti's hybrid search may return any facts of the scope; one end must *)
(* be visible.                                                              *)
Found(scope, seen, results) ==
    {fs \in SUBSET {f \in FactsIn(scope) : Ends(f) \cap seen # {}} : Cardinality(fs) <= results}
=============================================================================
