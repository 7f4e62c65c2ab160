--------------------------- MODULE KnowledgeGraph ---------------------------
(***************************************************************************)
(* The facts and entities of the graph under ingestion                     *)
(* (app/ingestion/connector_sync.py, through Graphiti's add_episode) and   *)
(* under a purge (app/graph/connectors.py, purge_connector_data).          *)
(*                                                                         *)
(* A fact is a RELATES_TO edge.  Its episodes property names the episodes  *)
(* that produced or last touched it, and a purge deletes it only when      *)
(* every one of them is its connector's.  add_episode reads the edges it   *)
(* resolves against and writes them back whole after its calls to the      *)
(* model, so another save or a purge may come in between; a purge is three *)
(* statements, and the tag it goes by is written after the episode.        *)
(*                                                                         *)
(* An entity stands for its uuid: one that was deleted does not come back  *)
(* (what names it is not ingested again), which bounds the instance.       *)
(***************************************************************************)
EXTENDS Naturals, FiniteSets

CONSTANTS
    KnowledgeBase,  \* group_ids
    Connector,
    Record,         \* what a connector has to ingest, one episode each
    Entity,
    Fact,
    FedTo,          \* the knowledge base of a connector
    FeederOf,       \* the connector of a record
    Yields,         \* the facts extraction finds in a record
    Mentions,       \* the entities it finds besides the ends of those facts
    Edge,           \* source, target, type and text of a fact, and its
                    \* valid_at and invalid_at; 0 stands for none
    HomeOf,         \* group_id of an entity
    Successor,      \* the fact that contradicts this one, or None
    MaxEpisodes,    \* ingestions are counted up to here
    Now,
    None

Ends(f)  == {Edge[f].source, Edge[f].target}
Home(f)  == HomeOf[Edge[f].source]
Names(r) == Mentions[r] \cup UNION {Ends(f) : f \in Yields[r]}
GroupOf(r) == FedTo[FeederOf[r]]

(* Graphiti keeps everything an episode brings in the group of the episode. *)
ASSUME PartitionAssumption ==
    /\ FedTo \in [Connector -> KnowledgeBase]
    /\ FeederOf \in [Record -> Connector]
    /\ Yields \in [Record -> SUBSET Fact] /\ Mentions \in [Record -> SUBSET Entity]
    /\ HomeOf \in [Entity -> KnowledgeBase]
    /\ \A f \in Fact : /\ Ends(f) \subseteq Entity /\ \A e \in Ends(f) : HomeOf[e] = Home(f)
                       /\ Edge[f].from \in Nat /\ Edge[f].to \in Nat
    /\ \A r \in Record : \A e \in Names(r) : HomeOf[e] = GroupOf(r)
    /\ Successor \in [Fact -> Fact \cup {None}]
    /\ None \notin Fact \cup Record \cup Entity
    /\ MaxEpisodes \in Nat /\ Now \in Nat \ {0}

VARIABLES
    nodes,     \* entities in the graph
    gone,      \* entities that were deleted
    audited,   \* entities an INVOLVES edge leads to, from a recorded decision
    backing,   \* RELATES_TO.episodes; a fact with none is not in the graph
    replaced,  \* facts a later one contradicted (expired_at is set)
    made,      \* how many episodes there have been
    episodes,  \* the record of each Episodic node; None before and after
    tagged,    \* episodes that carry their connector's id
    draft,     \* where each connector's sync is with its next episode
    purge,     \* how far each connector's purge is, the episodes it began with
    crossed    \* history: episodes whose bookkeeping another actor undid

storeVars == <<nodes, gone, backing, replaced, made, episodes, tagged>>
graphVars == <<storeVars, audited, draft, purge, crossed>>

Id      == 1..MaxEpisodes
Unread  == [f \in Fact |-> {}]
NoDraft == [at |-> "idle", record |-> None, seen |-> Unread, id |-> 0]
NoPurge == [at |-> "idle", ids |-> {}]

GraphInit ==
    /\ nodes = {} /\ gone = {} /\ audited = {} /\ replaced = {} /\ tagged = {}
    /\ crossed = {}
    /\ backing = Unread
    /\ made = 0
    /\ episodes = [i \in Id |-> None]
    /\ draft = [c \in Connector |-> NoDraft]
    /\ purge = [c \in Connector |-> NoPurge]

Facts == {f \in Fact : backing[f] # {}}
Alive == {i \in Id : episodes[i] # None}
TaggedBy(c) == {i \in Alive \cap tagged : FeederOf[episodes[i]] = c}

(* A contradicted fact's invalid_at is the valid_at of what contradicted    *)
(* it; extraction may also set it, to a date that is still to come.         *)
UntilOf(f) == IF f \in replaced THEN Edge[Successor[f]].from ELSE Edge[f].to
Valid(f)   == f \notin replaced /\ (Edge[f].to = 0 \/ Edge[f].to > Now)

-----------------------------------------------------------------------------
(* Ingestion of one record: add_episode, then the tag. *)

(* add_episode reads the edges it resolves the record's facts against. *)
ReadEdges(r) ==
    /\ draft[FeederOf[r]].at = "idle"
    /\ Names(r) \cap gone = {}
    /\ draft' = [draft EXCEPT ![FeederOf[r]] =
          [at |-> "read", record |-> r, id |-> 0,
           seen |-> [f \in Fact |-> IF f \in Yields[r] THEN backing[f] ELSE {}]]]
    /\ UNCHANGED <<storeVars, audited, purge, crossed>>

(* An edge that was found is written back as it was read, one that was not *)
(* found is an edge of its own: nothing that came in between is lost.      *)
Merged(f, seen, i) == (IF seen = {} THEN backing[f] ELSE seen) \cup {i}
Undone(f, seen)    == IF seen = {} THEN {} ELSE (backing[f] \ seen) \cup (seen \ backing[f])

(* Between a fact that is new and one that is there, the later one stands. *)
Contradicted(present, new) ==
    {f \in present : Successor[f] \in present /\ {f, Successor[f]} \cap new # {}}

SaveEpisode(c) ==
    LET r == draft[c].record
        seen == draft[c].seen
        i == made + 1
    IN
    /\ draft[c].at = "read" /\ made < MaxEpisodes
    /\ made' = i
    /\ episodes' = [episodes EXCEPT ![i] = r]
    /\ nodes' = nodes \cup Names(r)
    /\ gone' = gone \ Names(r)
    /\ backing' = [f \in Fact |-> IF f \in Yields[r] THEN Merged(f, seen[f], i) ELSE backing[f]]
    /\ replaced' = replaced \cup Contradicted(Facts \cup Yields[r], Yields[r] \ Facts)
    /\ crossed' = crossed \cup UNION {Undone(f, seen[f]) : f \in Yields[r]}
    /\ draft' = [draft EXCEPT ![c] = [NoDraft EXCEPT !.at = "saved", !.id = i]]
    /\ UNCHANGED <<audited, tagged, purge>>

SaveFails(c) ==
    /\ draft[c].at = "read"
    /\ draft' = [draft EXCEPT ![c] = NoDraft]
    /\ UNCHANGED <<storeVars, audited, purge, crossed>>

(* The connector_id goes onto the episode, or is given up after three tries. *)
TagEpisode(c) ==
    /\ draft[c].at = "saved"
    /\ tagged' \in {tagged, tagged \cup {draft[c].id}}
    /\ draft' = [draft EXCEPT ![c] = NoDraft]
    /\ UNCHANGED <<nodes, gone, backing, replaced, made, episodes, audited, purge, crossed>>

-----------------------------------------------------------------------------
(* A purge, statement by statement. *)

StrippedIfTouched(f, ids) ==   \* slip: any episode of the connector deletes the fact
    IF backing[f] \cap ids # {} THEN {} ELSE backing[f]

(* A fact loses the connector's episodes, and goes when none is left. *)
Stripped(f, ids) == backing[f] \ ids

PurgeFacts(c) ==
    /\ purge[c].at = "idle"
    /\ purge' = [purge EXCEPT ![c] = [at |-> "facts", ids |-> TaggedBy(c)]]
    /\ backing' = [f \in Fact |-> Stripped(f, TaggedBy(c))]
    /\ replaced' = {f \in replaced : Stripped(f, TaggedBy(c)) # {}}
    /\ UNCHANGED <<nodes, gone, made, episodes, tagged, audited, draft, crossed>>

(* NOT (n)-[:RELATES_TO]-(): a recorded decision's INVOLVES edge keeps its   *)
(* anchor as well.                                                          *)
HasFacts(e) == \E f \in Facts : e \in Ends(f)

Orphans(c) ==
    {e \in nodes \ audited : ~HasFacts(e) /\ \E i \in TaggedBy(c) : e \in Names(episodes[i])}

PurgeEntities(c) ==
    /\ purge[c].at = "facts"
    /\ purge' = [purge EXCEPT ![c].at = "entities"]
    /\ nodes' = nodes \ Orphans(c)
    /\ gone' = gone \cup Orphans(c)
    /\ UNCHANGED <<backing, replaced, made, episodes, tagged, audited, draft, crossed>>

(* An episode that was tagged since the first statement goes too, and stays *)
(* named by its facts.                                                      *)
PurgeEpisodes(c) ==
    /\ purge[c].at = "entities"
    /\ episodes' = [i \in Id |-> IF i \in TaggedBy(c) THEN None ELSE episodes[i]]
    /\ crossed' = crossed \cup (TaggedBy(c) \ purge[c].ids)
    /\ purge' = [purge EXCEPT ![c] = NoPurge]
    /\ UNCHANGED <<nodes, gone, backing, replaced, made, tagged, audited, draft>>

(* A statement fails or the process dies: the rest is not done. *)
PurgeFails(c) ==
    /\ purge[c].at # "idle"
    /\ crossed' = crossed \cup purge[c].ids
    /\ purge' = [purge EXCEPT ![c] = NoPurge]
    /\ UNCHANGED <<storeVars, audited, draft>>

GraphNext ==
    \/ \E r \in Record : ReadEdges(r)
    \/ \E c \in Connector :
         \/ SaveEpisode(c) \/ SaveFails(c) \/ TagEpisode(c)
         \/ PurgeFacts(c) \/ PurgeEntities(c) \/ PurgeEpisodes(c) \/ PurgeFails(c)

-----------------------------------------------------------------------------
(* Properties. *)

Draft == [at : {"idle", "read", "saved"}, record : Record \cup {None},
          seen : [Fact -> SUBSET Id], id : {0} \cup Id]
Purge == [at : {"idle", "facts", "entities"}, ids : SUBSET Id]

GraphTypeOK ==
    /\ nodes \subseteq Entity /\ gone \subseteq Entity /\ audited \subseteq Entity
    /\ backing \in [Fact -> SUBSET Id]
    /\ replaced \subseteq {f \in Fact : Successor[f] \in Fact}
    /\ made \in 0..MaxEpisodes
    /\ episodes \in [Id -> Record \cup {None}]
    /\ tagged \subseteq Id /\ crossed \subseteq Id
    /\ draft \in [Connector -> Draft]
    /\ purge \in [Connector -> Purge]

(* Every fact an episode brought is in the graph and names the episode, a  *)
(* fact names only episodes there are, and its two ends are there:         *)
(* whatever syncs and purges overlap, a purge takes exactly what its own   *)
(* connector's episodes alone stand for ("a fact another sync also         *)
(* contributed to keeps existing").  Excepted are the episodes of a purge  *)
(* that is under way, and those whose bookkeeping another actor crossed.   *)
GraphMatchesEpisodes ==
    /\ \A i \in Alive \ crossed :
         i \notin purge[FeederOf[episodes[i]]].ids =>
            \A f \in Yields[episodes[i]] : i \in backing[f]
    /\ \A f \in Fact : backing[f] \subseteq Alive \cup crossed
    /\ \A f \in Facts : Ends(f) \subseteq nodes
=============================================================================
