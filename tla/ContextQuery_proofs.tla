------------------------ MODULE ContextQuery_proofs ------------------------
(***************************************************************************)
(* Proofs about ContextQuery: its types, that the graph matches the        *)
(* episodes under any overlap of syncs and purges, that answers stay       *)
(* within what the asker may see, that no fact vanishes from one, and that *)
(* recorded decisions are grounded; for any graph, corpus and org chart.   *)
(***************************************************************************)
EXTENDS ContextQuery, TLAPS

(* A sync that has read has a record, one that has saved an episode, and   *)
(* there are no episodes but those that were made.                         *)
DraftsAreReal ==
    /\ \A c \in Connector : /\ draft[c].at = "read" => draft[c].record \in Record
                            /\ draft[c].at = "saved" => draft[c].id \in Id
    /\ \A i \in Id : i > made => episodes[i] = None

(* A purge under way has episodes of its own connector, which name a fact  *)
(* again only where a save has crossed it.                                 *)
PurgesAreOwn ==
    \A c \in Connector :
        /\ purge[c].ids \subseteq TaggedBy(c)
        /\ purge[c].at = "idle" => purge[c].ids = {}
        /\ \A i \in purge[c].ids, f \in Fact : i \in backing[f] => i \in crossed

GraphInv == GraphTypeOK /\ DraftsAreReal /\ PurgesAreOwn /\ GraphMatchesEpisodes

-----------------------------------------------------------------------------
LEMMA FieldsOfDraft ==
    ASSUME NEW x \in Draft
    PROVE  x.at \in {"idle", "read", "saved"} /\ x.record \in Record \cup {None}
           /\ x.seen \in [Fact -> SUBSET Id] /\ x.id \in {0} \cup Id
BY DEF Draft

(* What a record's episode names lies in the group of its connector. *)
LEMMA RecordNames ==
    ASSUME NEW r \in Record
    PROVE  /\ Names(r) \subseteq Entity
           /\ Yields[r] \subseteq Fact
           /\ \A f \in Yields[r] : Ends(f) \subseteq Names(r)
           /\ \A e \in Names(r) : HomeOf[e] = FedTo[FeederOf[r]]
           /\ FeederOf[r] \in Connector
BY PartitionAssumption DEF Names, GroupOf

LEMMA GraphInitInv == GraphInit => GraphInv
<1> SUFFICES ASSUME GraphInit PROVE GraphInv
  OBVIOUS
<1> USE DEF GraphInit, Unread
<1>1. GraphTypeOK
  <2>1. NoDraft \in Draft /\ NoPurge \in Purge
    BY DEF NoDraft, NoPurge, Draft, Purge, Unread
  <2>2. made \in 0..MaxEpisodes
    BY PartitionAssumption
  <2>3. QED
    BY <2>1, <2>2 DEF GraphTypeOK
<1>2. DraftsAreReal
  BY DEF DraftsAreReal, NoDraft
<1>3. PurgesAreOwn
  BY DEF PurgesAreOwn, NoPurge
<1>4. GraphMatchesEpisodes
  BY DEF GraphMatchesEpisodes, Alive, Facts
<1>5. QED
  BY <1>1, <1>2, <1>3, <1>4 DEF GraphInv

(* Reading changes only the draft, and gives it a record of its own. *)
LEMMA ReadEdgesInv ==
    ASSUME GraphInv, NEW r \in Record, ReadEdges(r)
    PROVE  GraphInv'
<1> DEFINE c == FeederOf[r]
           seen == [f \in Fact |-> IF f \in Yields[r] THEN backing[f] ELSE {}]
           new == [at |-> "read", record |-> r, id |-> 0, seen |-> seen]
<1>1. c \in Connector /\ GraphTypeOK /\ DraftsAreReal
  BY RecordNames DEF GraphInv
<1>2. draft' = [draft EXCEPT ![c] = new]
  BY DEF ReadEdges
<1>3. new \in Draft
  BY <1>1 DEF GraphTypeOK, Draft
<1>4. /\ draft' \in [Connector -> Draft]
      /\ \A d \in Connector : d # c => draft'[d] = draft[d]
      /\ draft'[c] = new
  BY <1>1, <1>2, <1>3 DEF GraphTypeOK
<1>5. UNCHANGED <<nodes, gone, backing, replaced, made, episodes, tagged, audited, purge, crossed>>
  BY DEF ReadEdges, storeVars
<1>6. GraphTypeOK'
  BY <1>1, <1>4, <1>5 DEF GraphTypeOK
<1>7. DraftsAreReal'
  BY <1>1, <1>4, <1>5 DEF DraftsAreReal
<1>8. PurgesAreOwn' /\ GraphMatchesEpisodes'
  BY <1>5 DEF GraphInv, PurgesAreOwn, GraphMatchesEpisodes, TaggedBy, Alive, Facts, Ends
<1>9. QED
  BY <1>6, <1>7, <1>8 DEF GraphInv

(* The new episode is one more; the facts of its record name it, and what  *)
(* they lose or regain by being written back is crossed.                   *)
LEMMA SaveEpisodeInv ==
    ASSUME GraphInv, NEW c \in Connector, SaveEpisode(c)
    PROVE  GraphInv'
<1> DEFINE r == draft[c].record
           seen == draft[c].seen
           i == made + 1
           idle == [NoDraft EXCEPT !.at = "saved", !.id = i]
<1>1. GraphTypeOK /\ DraftsAreReal /\ PurgesAreOwn /\ GraphMatchesEpisodes
  BY DEF GraphInv
<1>2. r \in Record /\ seen \in [Fact -> SUBSET Id] /\ draft[c].at = "read"
  BY <1>1, FieldsOfDraft DEF DraftsAreReal, GraphTypeOK, SaveEpisode
<1>3. i \in Id /\ i # 0 /\ i \in 0..MaxEpisodes
  BY <1>1, PartitionAssumption DEF GraphTypeOK, SaveEpisode, Id
<1>4. i \notin Alive /\ episodes[i] = None
  BY <1>1, <1>3 DEF DraftsAreReal, Alive, GraphTypeOK, Id
<1>5. idle \in Draft
  BY <1>3 DEF NoDraft, Draft, Unread
<1>6. /\ made' = i
      /\ episodes' = [episodes EXCEPT ![i] = r]
      /\ nodes' = nodes \cup Names(r)
      /\ gone' = gone \ Names(r)
      /\ backing' = [f \in Fact |-> IF f \in Yields[r] THEN Merged(f, seen[f], i) ELSE backing[f]]
      /\ replaced' = replaced \cup Contradicted(Facts \cup Yields[r], Yields[r] \ Facts)
      /\ crossed' = crossed \cup UNION {Undone(f, seen[f]) : f \in Yields[r]}
      /\ draft' = [draft EXCEPT ![c] = idle]
      /\ UNCHANGED <<audited, tagged, purge>>
  BY DEF SaveEpisode
<1> HIDE DEF r, seen, i, idle
<1>7. r # None /\ Names(r) \subseteq Entity /\ Yields[r] \subseteq Fact
      /\ (\A f \in Yields[r] : Ends(f) \subseteq Names(r))
  BY <1>2, RecordNames, PartitionAssumption
<1>8. Alive' = Alive \cup {i}
  BY <1>1, <1>2, <1>3, <1>4, <1>6, <1>7 DEF Alive, GraphTypeOK
<1>9. \A j \in Alive : episodes'[j] = episodes[j] /\ j # i /\ j \in Id
  BY <1>1, <1>4, <1>6 DEF Alive, GraphTypeOK
<1>10. \A f \in Fact : seen[f] \subseteq Id /\ backing[f] \subseteq Id
  BY <1>1, <1>2 DEF GraphTypeOK
<1>11. \A f \in Fact : backing'[f] \subseteq Id
  BY <1>3, <1>6, <1>10 DEF Merged
<1>12. \A f \in Yields[r] : Undone(f, seen[f]) \subseteq crossed'
  BY <1>6
<1>13. \A f \in Fact : \A j \in backing[f] : j \in backing'[f] \/ j \in crossed'
  BY <1>6, <1>12 DEF Merged, Undone
<1>14. \A f \in Fact : \A j \in backing'[f] : j \in backing[f] \/ j \in crossed' \/ j = i
  BY <1>6, <1>12 DEF Merged, Undone
<1>15. GraphTypeOK'
  <2>1. draft' \in [Connector -> Draft]
    BY <1>1, <1>5, <1>6 DEF GraphTypeOK
  <2>2. episodes' \in [Id -> Record \cup {None}]
    BY <1>1, <1>2, <1>6 DEF GraphTypeOK
  <2>3. backing' \in [Fact -> SUBSET Id]
    BY <1>6, <1>11
  <2>4. replaced' \subseteq {f \in Fact : Successor[f] \in Fact}
    BY <1>1, <1>6, <1>7 DEF GraphTypeOK, Contradicted, Facts
  <2>5. crossed' \subseteq Id
    BY <1>1, <1>6, <1>7, <1>10 DEF GraphTypeOK, Undone
  <2>6. nodes' \subseteq Entity /\ gone' \subseteq Entity /\ audited' \subseteq Entity
    BY <1>1, <1>6, <1>7 DEF GraphTypeOK
  <2>7. made' \in 0..MaxEpisodes /\ tagged' \subseteq Id /\ purge' \in [Connector -> Purge]
    BY <1>1, <1>3, <1>6 DEF GraphTypeOK
  <2>8. QED
    BY <2>1, <2>2, <2>3, <2>4, <2>5, <2>6, <2>7 DEF GraphTypeOK
<1>16. DraftsAreReal'
  <2>1. \A d \in Connector : draft'[d].at = "read" => draft'[d].record \in Record
    BY <1>1, <1>6 DEF DraftsAreReal, GraphTypeOK, idle, NoDraft
  <2>2. \A d \in Connector : draft'[d].at = "saved" => draft'[d].id \in Id
    BY <1>1, <1>3, <1>6 DEF DraftsAreReal, GraphTypeOK, idle, NoDraft
  <2>3. \A j \in Id : j > made' => j # i /\ j > made
    BY <1>1, <1>6 DEF GraphTypeOK, i, Id
  <2>4. \A j \in Id : j > made' => episodes'[j] = None
    BY <1>1, <1>6, <2>3 DEF DraftsAreReal, GraphTypeOK
  <2>5. QED
    BY <2>1, <2>2, <2>4 DEF DraftsAreReal
<1>17. PurgesAreOwn'
  <2> SUFFICES ASSUME NEW d \in Connector
               PROVE  /\ purge'[d].ids \subseteq TaggedBy(d)'
                      /\ purge'[d].at = "idle" => purge'[d].ids = {}
                      /\ \A j \in purge'[d].ids, f \in Fact : j \in backing'[f] => j \in crossed'
    BY DEF PurgesAreOwn
  <2>1. TaggedBy(d) \subseteq Alive
    BY DEF TaggedBy
  <2>2. TaggedBy(d) \subseteq TaggedBy(d)'
    BY <1>6, <1>8, <1>9 DEF TaggedBy
  <2>3. \A j \in purge[d].ids, f \in Fact : j \in backing'[f] => j \in crossed'
    BY <1>1, <1>4, <1>6, <1>14, <2>1 DEF PurgesAreOwn
  <2>4. QED
    BY <1>1, <1>6, <2>2, <2>3 DEF PurgesAreOwn
<1>18. GraphMatchesEpisodes'
  <2>1. ASSUME NEW j \in Alive' \ crossed', j \notin purge'[FeederOf[episodes'[j]]].ids,
               NEW f \in Yields[episodes'[j]]
        PROVE  j \in backing'[f]
    <3>1. CASE j = i
      <4>1. episodes'[i] = r
        BY <1>1, <1>3, <1>6 DEF GraphTypeOK
      <4>2. QED
        BY <1>6, <1>7, <2>1, <3>1, <4>1 DEF Merged
    <3>2. CASE j # i
      <4>1. j \in Alive \ crossed /\ episodes'[j] = episodes[j]
        BY <1>6, <1>8, <1>9, <2>1, <3>2
      <4>2. episodes[j] \in Record
        BY <1>1, <4>1 DEF Alive, GraphTypeOK
      <4>3. f \in Fact
        BY <2>1, <4>1, <4>2, RecordNames
      <4>4. j \in backing[f]
        BY <1>1, <1>6, <2>1, <4>1 DEF GraphMatchesEpisodes
      <4>5. QED
        BY <1>13, <2>1, <4>3, <4>4
    <3>3. QED
      BY <3>1, <3>2
  <2>2. \A f \in Fact : backing'[f] \subseteq Alive' \cup crossed'
    BY <1>1, <1>6, <1>8, <1>14 DEF GraphMatchesEpisodes
  <2>3. ASSUME NEW f \in Facts' PROVE Ends(f) \subseteq nodes'
    <3>1. CASE f \in Yields[r]
      BY <1>6, <1>7, <3>1
    <3>2. CASE f \notin Yields[r]
      BY <1>1, <1>6, <2>3, <3>2 DEF GraphMatchesEpisodes, Facts
    <3>3. QED
      BY <3>1, <3>2
  <2>4. QED
    BY <2>1, <2>2, <2>3 DEF GraphMatchesEpisodes, Ends
<1>19. QED
  BY <1>15, <1>16, <1>17, <1>18 DEF GraphInv

LEMMA SaveFailsInv ==
    ASSUME GraphInv, NEW c \in Connector, SaveFails(c)
    PROVE  GraphInv'
<1>1. NoDraft \in Draft
  BY DEF NoDraft, Draft, Unread
<1>2. draft' = [draft EXCEPT ![c] = NoDraft] /\ UNCHANGED <<storeVars, audited, purge, crossed>>
  BY DEF SaveFails
<1>3. GraphTypeOK'
  BY <1>1, <1>2 DEF GraphInv, GraphTypeOK, storeVars
<1>4. DraftsAreReal'
  BY <1>2 DEF GraphInv, DraftsAreReal, GraphTypeOK, storeVars, NoDraft
<1>5. PurgesAreOwn' /\ GraphMatchesEpisodes'
  BY <1>2 DEF GraphInv, PurgesAreOwn, GraphMatchesEpisodes, TaggedBy, Alive, Facts, Ends, storeVars
<1>6. QED
  BY <1>3, <1>4, <1>5 DEF GraphInv

LEMMA TagEpisodeInv ==
    ASSUME GraphInv, NEW c \in Connector, TagEpisode(c)
    PROVE  GraphInv'
<1>1. NoDraft \in Draft
  BY DEF NoDraft, Draft, Unread
<1>2. /\ draft[c].id \in Id /\ tagged \subseteq tagged'
      /\ tagged' \subseteq tagged \cup {draft[c].id}
      /\ draft' = [draft EXCEPT ![c] = NoDraft]
      /\ UNCHANGED <<nodes, gone, backing, replaced, made, episodes, audited, purge, crossed>>
  BY DEF TagEpisode, GraphInv, DraftsAreReal
<1>3. GraphTypeOK'
  BY <1>1, <1>2 DEF GraphInv, GraphTypeOK
<1>4. DraftsAreReal'
  BY <1>2 DEF GraphInv, DraftsAreReal, GraphTypeOK, NoDraft
<1>5. \A d \in Connector : TaggedBy(d) \subseteq TaggedBy(d)'
  BY <1>2 DEF TaggedBy, Alive
<1>6. PurgesAreOwn'
  BY <1>2, <1>5 DEF GraphInv, PurgesAreOwn
<1>7. GraphMatchesEpisodes'
  BY <1>2 DEF GraphInv, GraphMatchesEpisodes, Alive, Facts, Ends
<1>8. QED
  BY <1>3, <1>4, <1>6, <1>7 DEF GraphInv

-----------------------------------------------------------------------------
(* What a purge has listed is its connector's own. *)
LEMMA TaggedIsOwn ==
    ASSUME GraphTypeOK, NEW c \in Connector, NEW i \in TaggedBy(c)
    PROVE  /\ i \in Id /\ i \in Alive
           /\ episodes[i] \in Record
           /\ FeederOf[episodes[i]] = c
BY DEF TaggedBy, Alive, GraphTypeOK

LEMMA PurgeFactsInv ==
    ASSUME GraphInv, NEW c \in Connector, PurgeFacts(c)
    PROVE  GraphInv'
<1> DEFINE ids == TaggedBy(c)
           new == [at |-> "facts", ids |-> ids]
<1>1. GraphTypeOK /\ DraftsAreReal /\ PurgesAreOwn /\ GraphMatchesEpisodes
  BY DEF GraphInv
<1>2. \A i \in ids : i \in Id /\ i \in Alive /\ FeederOf[episodes[i]] = c
  BY <1>1, TaggedIsOwn
<1>3. /\ purge[c].at = "idle"
      /\ purge' = [purge EXCEPT ![c] = new]
      /\ backing' = [f \in Fact |-> backing[f] \ ids]
      /\ replaced' \subseteq replaced
      /\ UNCHANGED <<nodes, gone, made, episodes, tagged, audited, draft, crossed>>
  BY DEF PurgeFacts, Stripped
<1>4. new \in Purge
  BY <1>2 DEF Purge
<1>5. /\ purge' \in [Connector -> Purge]
      /\ purge'[c] = new
      /\ \A d \in Connector : d # c => purge'[d] = purge[d]
  BY <1>1, <1>3, <1>4 DEF GraphTypeOK
<1>6. \A f \in Fact : backing'[f] = backing[f] \ ids
  BY <1>3
<1>7. Alive' = Alive /\ \A d \in Connector : TaggedBy(d)' = TaggedBy(d)
  BY <1>3 DEF Alive, TaggedBy
<1> HIDE DEF ids
<1>8. GraphTypeOK'
  <2>1. backing' \in [Fact -> SUBSET Id]
    BY <1>1, <1>3 DEF GraphTypeOK
  <2>2. QED
    BY <1>1, <1>3, <1>5, <2>1 DEF GraphTypeOK
<1>9. DraftsAreReal'
  BY <1>1, <1>3 DEF DraftsAreReal
<1>10. PurgesAreOwn'
  <2> SUFFICES ASSUME NEW d \in Connector
               PROVE  /\ purge'[d].ids \subseteq TaggedBy(d)'
                      /\ purge'[d].at = "idle" => purge'[d].ids = {}
                      /\ \A j \in purge'[d].ids, f \in Fact : j \in backing'[f] => j \in crossed'
    BY DEF PurgesAreOwn
  <2>1. CASE d = c
    BY <1>5, <1>6, <1>7, <2>1 DEF ids
  <2>2. CASE d # c
    BY <1>1, <1>3, <1>5, <1>6, <1>7, <2>2 DEF PurgesAreOwn
  <2>3. QED
    BY <2>1, <2>2
<1>11. GraphMatchesEpisodes'
  <2>1. ASSUME NEW j \in Alive' \ crossed', j \notin purge'[FeederOf[episodes'[j]]].ids,
               NEW f \in Yields[episodes'[j]]
        PROVE  j \in backing'[f]
    <3>1. j \in Alive \ crossed /\ episodes'[j] = episodes[j] /\ episodes[j] \in Record
      BY <1>1, <1>3, <1>7 DEF Alive, GraphTypeOK
    <3>2. f \in Fact /\ FeederOf[episodes[j]] \in Connector
      BY <2>1, <3>1, RecordNames
    <3>3. j \notin ids
      <4>1. CASE FeederOf[episodes[j]] = c
        BY <1>5, <2>1, <3>1, <4>1
      <4>2. CASE FeederOf[episodes[j]] # c
        BY <1>2, <4>2
      <4>3. QED
        BY <4>1, <4>2
    <3>4. j \notin purge[FeederOf[episodes[j]]].ids
      <4>1. CASE FeederOf[episodes[j]] = c
        BY <1>1, <1>3, <4>1 DEF PurgesAreOwn
      <4>2. CASE FeederOf[episodes[j]] # c
        BY <1>5, <2>1, <3>1, <3>2, <4>2
      <4>3. QED
        BY <4>1, <4>2
    <3>5. j \in backing[f]
      BY <1>1, <2>1, <3>1, <3>4 DEF GraphMatchesEpisodes
    <3>6. QED
      BY <1>6, <3>2, <3>3, <3>5
  <2>2. \A f \in Fact : backing'[f] \subseteq Alive' \cup crossed'
    BY <1>1, <1>3, <1>6, <1>7 DEF GraphMatchesEpisodes
  <2>3. \A f \in Facts' : f \in Facts /\ Ends(f)' = Ends(f)
    BY <1>6 DEF Facts, Ends
  <2>4. QED
    BY <1>1, <1>3, <2>1, <2>2, <2>3 DEF GraphMatchesEpisodes
<1>12. QED
  BY <1>8, <1>9, <1>10, <1>11 DEF GraphInv

LEMMA PurgeEntitiesInv ==
    ASSUME GraphInv, NEW c \in Connector, PurgeEntities(c)
    PROVE  GraphInv'
<1>1. GraphTypeOK /\ DraftsAreReal /\ PurgesAreOwn /\ GraphMatchesEpisodes
  BY DEF GraphInv
<1>2. /\ purge' = [purge EXCEPT ![c].at = "entities"]
      /\ nodes' = nodes \ Orphans(c)
      /\ gone' = gone \cup Orphans(c)
      /\ Orphans(c) \subseteq nodes
      /\ purge[c].at = "facts"
      /\ UNCHANGED <<backing, replaced, made, episodes, tagged, audited, draft, crossed>>
  BY DEF PurgeEntities, Orphans
<1>3. /\ purge' \in [Connector -> Purge]
      /\ \A d \in Connector : purge'[d].ids = purge[d].ids
      /\ \A d \in Connector : purge'[d].at = "idle" => purge[d].at = "idle"
  BY <1>1, <1>2 DEF GraphTypeOK, Purge
<1>4. GraphTypeOK'
  BY <1>1, <1>2, <1>3 DEF GraphTypeOK
<1>5. DraftsAreReal'
  BY <1>1, <1>2 DEF DraftsAreReal
<1>6. Alive' = Alive /\ Facts' = Facts /\ \A d \in Connector : TaggedBy(d)' = TaggedBy(d)
  BY <1>2 DEF Alive, TaggedBy, Facts
<1>7. PurgesAreOwn'
  BY <1>1, <1>2, <1>3, <1>6 DEF PurgesAreOwn
<1>8. \A f \in Facts : Ends(f) \subseteq nodes'
  BY <1>1, <1>2 DEF GraphMatchesEpisodes, Orphans, HasFacts
<1>9. \A j \in Alive : FeederOf[episodes[j]] \in Connector
  BY <1>1, RecordNames DEF Alive, GraphTypeOK
<1>10. GraphMatchesEpisodes'
  BY <1>1, <1>2, <1>3, <1>6, <1>8, <1>9 DEF GraphMatchesEpisodes, Ends
<1>11. QED
  BY <1>4, <1>5, <1>7, <1>10 DEF GraphInv

(* What goes without having been listed at the start is crossed. *)
LEMMA PurgeEpisodesInv ==
    ASSUME GraphInv, NEW c \in Connector, PurgeEpisodes(c)
    PROVE  GraphInv'
<1> DEFINE ids == TaggedBy(c)
<1>1. GraphTypeOK /\ DraftsAreReal /\ PurgesAreOwn /\ GraphMatchesEpisodes
  BY DEF GraphInv
<1>2. /\ episodes' = [i \in Id |-> IF i \in ids THEN None ELSE episodes[i]]
      /\ crossed' = crossed \cup (ids \ purge[c].ids)
      /\ purge' = [purge EXCEPT ![c] = NoPurge]
      /\ UNCHANGED <<nodes, gone, backing, replaced, made, tagged, audited, draft>>
  BY DEF PurgeEpisodes
<1>3. NoPurge \in Purge /\ NoPurge.ids = {} /\ NoPurge.at = "idle"
  BY DEF NoPurge, Purge
<1>4. /\ purge' \in [Connector -> Purge]
      /\ purge'[c].ids = {} /\ purge'[c].at = "idle"
      /\ \A d \in Connector : d # c => purge'[d] = purge[d]
  BY <1>1, <1>2, <1>3 DEF GraphTypeOK
<1>5. \A i \in ids : i \in Id /\ i \in Alive /\ FeederOf[episodes[i]] = c
  BY <1>1, TaggedIsOwn
<1> HIDE DEF ids
<1>6. Alive' = Alive \ ids
  BY <1>2 DEF Alive
<1>7. \A i \in Alive' : episodes'[i] = episodes[i] /\ i \in Alive /\ i \notin ids /\ episodes[i] \in Record
  BY <1>1, <1>2, <1>6 DEF Alive, GraphTypeOK
<1>8. GraphTypeOK'
  <2>1. episodes' \in [Id -> Record \cup {None}]
    BY <1>1, <1>2 DEF GraphTypeOK
  <2>2. crossed' \subseteq Id
    BY <1>1, <1>2, <1>5 DEF GraphTypeOK
  <2>3. QED
    BY <1>1, <1>2, <1>4, <2>1, <2>2 DEF GraphTypeOK
<1>9. DraftsAreReal'
  BY <1>1, <1>2 DEF DraftsAreReal
<1>10. PurgesAreOwn'
  <2> SUFFICES ASSUME NEW d \in Connector, d # c
               PROVE  purge[d].ids \subseteq TaggedBy(d)'
    BY <1>1, <1>2, <1>4 DEF PurgesAreOwn
  <2>1. purge[d].ids \subseteq TaggedBy(d)
    BY <1>1 DEF PurgesAreOwn
  <2>2. \A i \in TaggedBy(d) : i \in Alive /\ i \notin ids /\ FeederOf[episodes[i]] = d /\ i \in tagged
    BY <1>1, <1>5, TaggedIsOwn DEF TaggedBy
  <2>3. QED
    BY <1>2, <1>6, <1>7, <2>1, <2>2 DEF TaggedBy
<1>11. GraphMatchesEpisodes'
  <2>1. ASSUME NEW j \in Alive' \ crossed', j \notin purge'[FeederOf[episodes'[j]]].ids,
               NEW f \in Yields[episodes'[j]]
        PROVE  j \in backing'[f]
    <3>1. j \in Alive \ crossed /\ episodes'[j] = episodes[j] /\ j \notin ids
          /\ FeederOf[episodes[j]] \in Connector
      BY <1>2, <1>7, RecordNames
    <3>2. j \notin purge[FeederOf[episodes[j]]].ids
      <4>1. CASE FeederOf[episodes[j]] = c
        BY <1>1, <3>1, <4>1 DEF PurgesAreOwn, ids
      <4>2. CASE FeederOf[episodes[j]] # c
        BY <1>4, <2>1, <3>1, <4>2
      <4>3. QED
        BY <4>1, <4>2
    <3>3. QED
      BY <1>1, <1>2, <2>1, <3>1, <3>2 DEF GraphMatchesEpisodes
  <2>2. \A f \in Fact : \A i \in ids : i \in backing[f] => i \in crossed'
    BY <1>1, <1>2 DEF PurgesAreOwn
  <2>3. \A f \in Fact : backing'[f] \subseteq Alive' \cup crossed'
    BY <1>1, <1>2, <1>6, <2>2 DEF GraphMatchesEpisodes
  <2>4. QED
    BY <1>1, <1>2, <2>1, <2>3 DEF GraphMatchesEpisodes, Facts, Ends
<1>12. QED
  BY <1>8, <1>9, <1>10, <1>11 DEF GraphInv

LEMMA PurgeFailsInv ==
    ASSUME GraphInv, NEW c \in Connector, PurgeFails(c)
    PROVE  GraphInv'
<1>1. GraphTypeOK /\ DraftsAreReal /\ PurgesAreOwn /\ GraphMatchesEpisodes
  BY DEF GraphInv
<1>2. /\ crossed' = crossed \cup purge[c].ids
      /\ purge' = [purge EXCEPT ![c] = NoPurge]
      /\ UNCHANGED <<nodes, gone, backing, replaced, made, episodes, tagged, audited, draft>>
  BY DEF PurgeFails, storeVars
<1>3. NoPurge \in Purge /\ NoPurge.ids = {} /\ NoPurge.at = "idle"
  BY DEF NoPurge, Purge
<1>4. /\ purge' \in [Connector -> Purge]
      /\ purge'[c].ids = {} /\ purge'[c].at = "idle"
      /\ \A d \in Connector : d # c => purge'[d] = purge[d]
  BY <1>1, <1>2, <1>3 DEF GraphTypeOK
<1>5. GraphTypeOK'
  BY <1>1, <1>2, <1>4 DEF GraphTypeOK, Purge
<1>6. DraftsAreReal'
  BY <1>1, <1>2 DEF DraftsAreReal
<1>7. Alive' = Alive /\ Facts' = Facts /\ \A d \in Connector : TaggedBy(d)' = TaggedBy(d)
  BY <1>2 DEF Alive, TaggedBy, Facts
<1>8. PurgesAreOwn'
  BY <1>1, <1>2, <1>4, <1>7 DEF PurgesAreOwn
<1>9. \A j \in Alive : FeederOf[episodes[j]] \in Connector
  BY <1>1, RecordNames DEF Alive, GraphTypeOK
<1>10. \A j \in Alive \ crossed' : j \notin purge'[FeederOf[episodes[j]]].ids
          => j \notin purge[FeederOf[episodes[j]]].ids
  BY <1>2, <1>4, <1>9
<1>11. GraphMatchesEpisodes'
  BY <1>1, <1>2, <1>7, <1>10 DEF GraphMatchesEpisodes, Ends
<1>12. QED
  BY <1>5, <1>6, <1>8, <1>11 DEF GraphInv

(* The graph's own steps keep the invariant. *)
LEMMA GraphStepInv == GraphInv /\ GraphNext => GraphInv'
BY ReadEdgesInv, SaveEpisodeInv, SaveFailsInv, TagEpisodeInv, PurgeFactsInv, PurgeEntitiesInv,
   PurgeEpisodesInv, PurgeFailsInv DEF GraphNext

-----------------------------------------------------------------------------
(* Retrieval: where facts and entities lie, and who sees them. *)

LEMMA EndsAreHome ==
    ASSUME NEW f \in Fact
    PROVE  /\ Ends(f) \subseteq Entity /\ Ends(f) # {}
           /\ \A e \in Ends(f) : HomeOf[e] = Home(f) /\ Other(f, e) \in Ends(f)
BY PartitionAssumption DEF Ends, Other

(* What a walk has crossed lies around its nodes, and in one group. *)
WalkOK(w, x, over) ==
    /\ w.at \in Entity /\ HomeOf[w.at] = HomeOf[x]
    /\ \A f \in w.facts : f \in over /\ Ends(f) \subseteq w.nodes /\ Home(f) = HomeOf[x]

LEMMA StepsOK ==
    ASSUME NEW over \in SUBSET Fact, NEW x, NEW walks, \A w \in walks : WalkOK(w, x, over),
           NEW v \in Step(walks, over)
    PROVE  WalkOK(v, x, over) /\ v.last \in v.facts
<1>1. PICK w \in walks, f \in over :
        /\ w.at \in Ends(f)
        /\ v = [at |-> Other(f, w.at), nodes |-> w.nodes \cup Ends(f),
                facts |-> w.facts \cup {f}, last |-> f]
  BY DEF Step
<1>2. WalkOK(w, x, over) /\ f \in Fact
  BY <1>1
<1>3. Home(f) = HomeOf[x] /\ Other(f, w.at) \in Entity /\ HomeOf[Other(f, w.at)] = HomeOf[x]
  BY <1>1, <1>2, EndsAreHome DEF WalkOK
<1>4. /\ v.at = Other(f, w.at) /\ v.nodes = w.nodes \cup Ends(f)
      /\ v.facts = w.facts \cup {f} /\ v.last = f
  BY <1>1
<1>5. \A g \in v.facts : g \in over /\ Ends(g) \subseteq v.nodes /\ Home(g) = HomeOf[x]
  BY <1>1, <1>2, <1>3, <1>4 DEF WalkOK
<1>6. QED
  BY <1>3, <1>4, <1>5 DEF WalkOK

LEMMA WalksOK ==
    ASSUME NEW over \in SUBSET Fact, NEW x \in Entity, NEW n \in 1..4, NEW w \in Walks(x, over)[n]
    PROVE  WalkOK(w, x, over) /\ w.last \in w.facts
<1> DEFINE one == Step({Standing(x)}, over)
           two == Step(one, over)
           three == Step(two, over)
           four == Step(three, over)
<1>1. \A v \in {Standing(x)} : WalkOK(v, x, over)
  BY DEF Standing, WalkOK
<1>2. \A v \in one : WalkOK(v, x, over) /\ v.last \in v.facts
  BY <1>1, StepsOK
<1> HIDE DEF one
<1>3. \A v \in two : WalkOK(v, x, over) /\ v.last \in v.facts
  BY <1>2, StepsOK
<1> HIDE DEF two
<1>4. \A v \in three : WalkOK(v, x, over) /\ v.last \in v.facts
  BY <1>3, StepsOK
<1> HIDE DEF three
<1>5. \A v \in four : WalkOK(v, x, over) /\ v.last \in v.facts
  BY <1>4, StepsOK
<1> HIDE DEF four
<1>6. Walks(x, over) = <<one, two, three, four>>
  BY DEF Walks, one, two, three, four
<1>7. w \in one \/ w \in two \/ w \in three \/ w \in four
  BY <1>6
<1>8. QED
  BY <1>2, <1>3, <1>4, <1>5, <1>7

LEMMA PathFactsOK ==
    ASSUME NEW over \in SUBSET Fact, NEW x \in Entity, NEW y, NEW seen,
           NEW fs \in PathFacts(x, y, over, seen)
    PROVE  \A f \in fs : f \in over /\ Ends(f) \subseteq seen /\ Home(f) = HomeOf[x]
<1> SUFFICES ASSUME fs # {}
             PROVE  \A f \in fs : f \in over /\ Ends(f) \subseteq seen /\ Home(f) = HomeOf[x]
  OBVIOUS
<1>1. PICK w \in ShortestPaths(x, y, over) : w.nodes \subseteq seen /\ fs = w.facts
  BY DEF PathFacts, Seen
<1>2. PICK n \in 1..4 : w \in Walks(x, over)[n]
  BY <1>1 DEF ShortestPaths, Least
<1>3. WalkOK(w, x, over)
  BY <1>2, WalksOK
<1>4. QED
  BY <1>1, <1>3 DEF WalkOK

LEMMA CausalChainsOK ==
    ASSUME NEW x \in Entity, NEW scope, NEW seen, NEW chain \in CausalChains(x, scope, seen)
    PROVE  \A f \in chain : f \in CausalIn(scope) /\ Ends(f) \subseteq seen
<1> DEFINE over == CausalIn(scope)
           all == UNION {Walks(x, over)[n] : n \in 1..4}
<1>1. over \in SUBSET Fact
  BY DEF CausalIn, FactsIn, Facts
<1>2. PICK ks, g : /\ g \in [ks -> all]
                     /\ chain = {g[k].last : k \in {l \in ks : Seen(g[l], x, seen)}}
  BY DEF CausalChains
<1>3. ASSUME NEW k \in ks, Seen(g[k], x, seen)
      PROVE  g[k].last \in over /\ Ends(g[k].last) \subseteq seen
  <2>1. PICK n \in 1..4 : g[k] \in Walks(x, over)[n]
    BY <1>2
  <2>2. WalkOK(g[k], x, over) /\ g[k].last \in g[k].facts
    BY <1>1, <2>1, WalksOK
  <2>3. QED
    BY <1>3, <2>2 DEF WalkOK, Seen
<1>4. QED
  BY <1>2, <1>3

(* A candidate matches entities of the scope. *)
LEMMA MatchesOK ==
    ASSUME NEW candidate, NEW scope, NEW m \in Matches(candidate, scope), NEW e \in m
    PROVE  e \in nodes /\ HomeOf[e] \in scope
BY DEF Matches

LEMMA LeadingOK ==
    ASSUME NEW candidates, NEW scope, NEW seen, NEW rows \in Rows(candidates, scope, seen),
           NEW places \in SUBSET DOMAIN rows, NEW e \in Leading(rows, places)
    PROVE  e \in nodes /\ e \in seen /\ HomeOf[e] \in scope
<1>1. PICK i \in DOMAIN rows : e \in rows[i]
  BY DEF Leading, Least
<1>2. PICK h : /\ \A j \in Tried(candidates) : h[j] \in Matches(candidates[j], scope)
               /\ rows = [j \in Tried(candidates) |-> h[j] \cap seen]
  BY DEF Rows
<1>3. i \in Tried(candidates) /\ rows[i] = h[i] \cap seen
  BY <1>1, <1>2
<1>4. QED
  BY <1>1, <1>2, <1>3, MatchesOK

LEMMA PagesOK ==
    ASSUME NEW rows, NEW limit, NEW page \in Pages(rows, limit)
    PROVE  page \subseteq rows
BY DEF Pages

-----------------------------------------------------------------------------
(* Answers. *)

(* A fact and its rivals run between the same entities, so they lie in one *)
(* knowledge base and nothing is disputed.                                 *)
LEMMA NothingToDecide ==
    ASSUME NEW items, NEW losers \in TieBreaks(items)
    PROVE  losers = {}
<1>1. ASSUME NEW x, NEW y \in Rivals(x, items) PROVE Home(y.says) = Home(x.says)
  BY <1>1 DEF Rivals, Key, Home
<1>2. \A x \in items : ~Disputed(x, items)
  BY <1>1 DEF Disputed
<1>3. QED
  BY <1>2 DEF TieBreaks

LEMMA LinesKeepAll ==
    ASSUME NEW items, NEW lines \in Answers(items, {{}}), NEW x \in items
    PROVE  \E l \in lines : TextOf(x) \in {l.text, l.old}
<1>1. PICK ts \in Transitions(items) : lines = Lines(items, {}, ts)
  BY DEF Answers
<1>2. CASE \E t \in ts : t.new = x \/ t.old = x
  <2>1. PICK t \in ts : t.new = x \/ t.old = x
    BY <1>2
  <2>2. [kind |-> "changed", old |-> TextOf(t.old), text |-> TextOf(t.new)] \in lines
    BY <1>1, <2>1 DEF Lines
  <2>3. QED
    BY <2>1, <2>2
<1>3. CASE x.valid /\ ~\E t \in ts : t.new = x \/ t.old = x
  <2>1. x \in Current(items, {}, ts)
    BY <1>3 DEF Current
  <2>2. [kind |-> "is", old |-> None, text |-> TextOf(x)] \in lines
    BY <1>1, <2>1 DEF Lines
  <2>3. QED
    BY <2>2
<1>4. CASE ~x.valid /\ ~\E t \in ts : t.new = x \/ t.old = x
  <2>1. x \in Former(items, ts)
    BY <1>4 DEF Former
  <2>2. [kind |-> "was", old |-> None, text |-> TextOf(x)] \in lines
    BY <1>1, <2>1 DEF Lines
  <2>3. QED
    BY <2>2
<1>5. QED
  BY <1>2, <1>3, <1>4

LEMMA LinesAreLines ==
    ASSUME NEW items \in SUBSET ItemSet, NEW ties, NEW lines \in Answers(items, ties)
    PROVE  lines \subseteq Line
<1>1. \A x \in items : TextOf(x) \in Text
  BY DEF TextOf, ItemSet, Text
<1>2. PICK losers, ts : ts \in Transitions(items) /\ lines = Lines(items, losers, ts)
  BY DEF Answers
<1>3. \A t \in ts : t.old \in items /\ t.new \in items
  BY <1>2 DEF Transitions
<1>4. ASSUME NEW l \in lines PROVE l \in Line
  <2>1. CASE \E t \in ts : l = [kind |-> "changed", old |-> TextOf(t.old), text |-> TextOf(t.new)]
    BY <1>1, <1>3, <2>1 DEF Line
  <2>2. CASE \E x \in Current(items, losers, ts) : l = [kind |-> "is", old |-> None, text |-> TextOf(x)]
    BY <1>1, <2>2 DEF Line, Current
  <2>3. CASE \E x \in Former(items, ts) : l = [kind |-> "was", old |-> None, text |-> TextOf(x)]
    BY <1>1, <2>3 DEF Line, Former
  <2>4. QED
    BY <1>2, <1>4, <2>1, <2>2, <2>3 DEF Lines
<1>5. QED
  BY <1>4

-----------------------------------------------------------------------------
(* The invariant of a question. *)

(* What the question was resolved to lies in its scope and is seen. *)
Resolved ==
    /\ \A e \in ask.first : e \in ask.seen /\ HomeOf[e] \in ask.scope
    /\ Unnamed \/ (ask.anchor \in ask.seen /\ HomeOf[ask.anchor] \in ask.scope)

(* What a recommendation is made from. *)
Inferring ==
    ask.at \in {"recommend", "record"} =>
        /\ ask.walked /\ ask.anchor \in Entity /\ ask.summaries = {}
        /\ IsEntirelyCausal(ask.items)
        /\ \A x \in ask.items : x.says \in Fact

(* Nothing has vanished from the lines once they are written. *)
AllSaid ==
    ask.at \in {"record", "answered"} =>
        /\ \A x \in ask.items : \E l \in ask.lines : TextOf(x) \in {l.text, l.old}
        /\ \A e \in ask.summaries : SummaryLine(e) \in ask.lines

AskInv ==
    /\ ask \in Request /\ \A x \in ask.items : x.ends => x.says \in Fact
    /\ Resolved /\ AnswersStayVisible /\ Inferring /\ AllSaid

DecisionInv == decisions \subseteq Decision /\ DecisionsAreGrounded

QueryInv == GraphInv /\ AskInv /\ DecisionInv

(* A question that starts, or ends, has found nothing yet; a list is what   *)
(* lies in the scope and is seen.                                          *)
LEMMA FreshAsk ==
    ASSUME NEW stage \in {"idle", "resolve", "shown"}, NEW mode \in {"ask", "causal", "browse"},
           NEW question \in Question \cup {None},
           NEW scope \in SUBSET KnowledgeBase, NEW seen \in SUBSET Entity,
           NEW items \in SUBSET ItemSet, NEW shown \in SUBSET Entity,
           \A e \in shown : e \in seen /\ HomeOf[e] \in scope,
           \A x \in items : x.says \in Fact /\ Home(x.says) \in scope
                            /\ Ends(x.says) \cap seen # {},
           ask' = Fresh(stage, mode, question, scope, seen, items, shown)
    PROVE  AskInv'
<1>1. ask' = [at |-> stage, mode |-> mode, question |-> question, scope |-> scope, seen |-> seen,
              first |-> {}, anchor |-> None, other |-> None, lost |-> FALSE,
              walked |-> FALSE, items |-> items, summaries |-> shown, lines |-> {}]
  BY DEF Fresh
<1>2. ask' \in Request
  BY <1>1 DEF Request, Stages
<1>3. Resolved'
  BY <1>1 DEF Resolved, Unnamed
<1>4. AnswersStayVisible'
  BY <1>1 DEF AnswersStayVisible, Cited, Home, Ends
<1>5. Inferring' /\ AllSaid'
  BY <1>1 DEF Inferring, AllSaid
<1>6. \A x \in ask'.items : x.ends => x.says \in Fact
  BY <1>1
<1>7. QED
  BY <1>2, <1>3, <1>4, <1>5, <1>6 DEF AskInv

LEMMA IdleAsk == ask' = Idle => AskInv'
<1> SUFFICES ASSUME ask' = Fresh("idle", "ask", None, {}, {}, {}, {}) PROVE AskInv'
  BY DEF Idle
<1>1. {} \in SUBSET KnowledgeBase /\ {} \in SUBSET Entity /\ {} \in SUBSET ItemSet
  OBVIOUS
<1>2. \A e \in {} : e \in {} /\ HomeOf[e] \in {}
  OBVIOUS
<1>3. \A x \in {} : x.says \in Fact /\ Home(x.says) \in {} /\ Ends(x.says) \cap {} # {}
  OBVIOUS
<1>4. QED
  BY <1>1, <1>2, <1>3, FreshAsk

LEMMA VisibleIsEntities == GraphTypeOK => \A u \in User : Visible(u) \subseteq Entity
BY DEF GraphTypeOK, Visible

LEMMA BeginInv ==
    ASSUME QueryInv, NEW mode \in {"ask", "causal"}, NEW question \in Question,
           NEW scope \in SUBSET KnowledgeBase, NEW seen \in SUBSET Entity,
           Begin(mode, question, scope, seen)
    PROVE  AskInv'
BY FreshAsk DEF Begin

LEMMA AskInvAtStart ==
    ASSUME QueryInv, NEW mode \in {"ask", "causal"}, NEW q \in Question
    PROVE  /\ \A u \in User : AskAsUser(mode, q, u) => AskInv'
           /\ \A kb \in KnowledgeBase : AskBase(mode, q, kb) => AskInv'
           /\ \A set \in DocumentSet : AskSet(q, set) => AskInv'
<1>1. \A u \in User : {OrgOf[u]} \in SUBSET KnowledgeBase /\ Visible(u) \in SUBSET Entity
  BY QueryAssumption, VisibleIsEntities DEF QueryInv, GraphInv
<1>2. \A kb \in KnowledgeBase : {kb} \in SUBSET KnowledgeBase
  OBVIOUS
<1>3. \A set \in DocumentSet : BasesOf[set] \in SUBSET KnowledgeBase
  BY QueryAssumption
<1>4. \A u \in User : AskAsUser(mode, q, u) => AskInv'
  BY <1>1, BeginInv DEF AskAsUser
<1>5. \A kb \in KnowledgeBase : AskBase(mode, q, kb) => AskInv'
  BY <1>2, BeginInv DEF AskBase
<1>6. \A set \in DocumentSet : AskSet(q, set) => AskInv'
  BY <1>3, BeginInv DEF AskSet
<1>7. QED
  BY <1>4, <1>5, <1>6

(* An item is a fact as it stands. *)
LEMMA ItemsAreItems ==
    ASSUME GraphTypeOK, NEW f \in Fact, NEW ends \in BOOLEAN
    PROVE  /\ Item(f, ends) \in ItemSet
           /\ Item(f, ends).says = f /\ Item(f, ends).ends = ends
<1>1. Edge[f].to \in Nat
  BY PartitionAssumption
<1>2. f \in replaced => Edge[Successor[f]].from \in Nat
  BY PartitionAssumption DEF GraphTypeOK
<1>3. UntilOf(f) \in Nat
  BY <1>1, <1>2 DEF UntilOf
<1>4. Valid(f) \in BOOLEAN
  BY DEF Valid
<1>5. QED
  BY <1>3, <1>4 DEF Item, ItemSet

LEMMA FactItems ==
    ASSUME GraphTypeOK, NEW fs \in SUBSET Fact, NEW x \in WithEnds(fs)
    PROVE  x \in ItemSet /\ x.says \in fs /\ x.ends
<1>1. PICK f \in fs : x = Item(f, TRUE)
  BY DEF WithEnds
<1>2. TRUE \in BOOLEAN /\ f \in Fact
  OBVIOUS
<1>3. Item(f, TRUE) \in ItemSet /\ Item(f, TRUE).says = f /\ Item(f, TRUE).ends = TRUE
  BY <1>2, ItemsAreItems
<1>4. QED
  BY <1>1, <1>3

LEMMA RemarksAreItems ==
    ASSUME NEW text \in Message
    PROVE  /\ Remark(text) \in ItemSet
           /\ Remark(text).says = text /\ Remark(text).ends = FALSE
           /\ text \notin Fact
BY QueryAssumption DEF Remark, ItemSet, Message

(* The graph routes show what lies in the scope and is seen. *)
LEMMA ShowInv ==
    ASSUME QueryInv, NEW scope \in SUBSET KnowledgeBase, NEW seen \in SUBSET Entity,
           NEW entities, NEW facts, Show(scope, seen, entities, facts),
           \A e \in entities : e \in seen /\ HomeOf[e] \in scope,
           \A f \in facts : f \in Fact /\ Home(f) \in scope /\ Ends(f) \cap seen # {}
    PROVE  AskInv'
<1>1. CASE \E page \in Pages(entities, PageSize) :
             ask' = Fresh("shown", "browse", None, scope, seen, {}, page)
  <2>1. PICK page \in Pages(entities, PageSize) :
             ask' = Fresh("shown", "browse", None, scope, seen, {}, page)
    BY <1>1
  <2>2. page \subseteq entities
    BY PagesOK
  <2>3. QED
    BY <2>1, <2>2, FreshAsk
<1>2. CASE \E page \in Pages(facts, PageSize) :
             ask' = Fresh("shown", "browse", None, scope, seen, WithEnds(page), {})
  <2>1. PICK page \in Pages(facts, PageSize) :
             ask' = Fresh("shown", "browse", None, scope, seen, WithEnds(page), {})
    BY <1>2
  <2>2. page \subseteq facts
    BY PagesOK
  <2>3. \A x \in WithEnds(page) : x \in ItemSet /\ x.says \in page /\ x.ends
    BY <2>2, FactItems DEF QueryInv, GraphInv
  <2>4. QED
    BY <2>1, <2>2, <2>3, FreshAsk
<1>3. QED
  BY <1>1, <1>2 DEF Show

LEMMA BrowseInv ==
    ASSUME QueryInv
    PROVE  /\ \A u \in User : BrowseAsUser(u) => AskInv'
           /\ \A kb \in KnowledgeBase : BrowseBase(kb) => AskInv'
           /\ \A c \in Connector : BrowseConnector(c) => AskInv'
<1>1. GraphTypeOK /\ nodes \subseteq Entity
  BY DEF QueryInv, GraphInv, GraphTypeOK
<1>2. ASSUME NEW u \in User, BrowseAsUser(u) PROVE AskInv'
  <2>1. {OrgOf[u]} \in SUBSET KnowledgeBase /\ Visible(u) \in SUBSET Entity
    BY <1>1, QueryAssumption, VisibleIsEntities
  <2>2. \A e \in Visible(u) : e \in Visible(u) /\ HomeOf[e] \in {OrgOf[u]}
    BY DEF Visible
  <2>3. \A f \in VisibleRelationships(u) :
           f \in Fact /\ Home(f) \in {OrgOf[u]} /\ Ends(f) \cap Visible(u) # {}
    BY DEF VisibleRelationships, FactsOf, Facts
  <2>4. QED
    BY <1>2, <2>1, <2>2, <2>3, ShowInv DEF BrowseAsUser
<1>3. ASSUME NEW kb \in KnowledgeBase, BrowseBase(kb) PROVE AskInv'
  <2>1. \A e \in NodesOf(kb) : e \in Entity /\ HomeOf[e] \in {kb}
    BY <1>1 DEF NodesOf
  <2>2. \A f \in FactsOf(kb) : f \in Fact /\ Home(f) \in {kb} /\ Ends(f) \cap Entity # {}
    BY EndsAreHome DEF FactsOf, Facts
  <2>3. QED
    BY <1>3, <2>1, <2>2, ShowInv DEF BrowseBase
<1>4. ASSUME NEW c \in Connector, BrowseConnector(c) PROVE AskInv'
  <2>1. \A e \in NodesFrom(c) : e \in Entity /\ HomeOf[e] \in {FedTo[c]}
    BY <1>1, TaggedIsOwn, RecordNames DEF NodesFrom
  <2>2. \A f \in FactsFrom(c) : f \in Fact /\ Home(f) \in {FedTo[c]} /\ Ends(f) \cap Entity # {}
    BY EndsAreHome DEF FactsFrom, FactsOf, Facts
  <2>3. {FedTo[c]} \in SUBSET KnowledgeBase
    BY PartitionAssumption
  <2>4. QED
    BY <1>4, <2>1, <2>2, <2>3, ShowInv DEF BrowseConnector
<1>5. QED
  BY <1>2, <1>3, <1>4

(* A question is resolved to entities of its scope that are seen. *)
LEMMA ResolveInv ==
    ASSUME QueryInv, Resolve
    PROVE  AskInv'
<1>1. ask \in Request /\ GraphTypeOK
  BY DEF QueryInv, AskInv, GraphInv
<1>2. PICK rows \in Rows(Candidates[ask.question], ask.scope, ask.seen) :
         LET kept == Kept(rows)
             one  == Leading(rows, kept)
             two  == Leading(rows, kept \ Least(kept))
         IN  \E x \in IF one = {} THEN {None} ELSE one, y \in IF two = {} THEN {None} ELSE two :
               ask' = [ask EXCEPT !.at = "retrieve", !.anchor = x, !.other = y,
                         !.first = Expanded(one, ask.scope, ask.seen),
                         !.lost = Unresolved(Candidates[ask.question], rows)]
  BY DEF Resolve
<1> DEFINE kept == Kept(rows)
           one  == Leading(rows, kept)
           two  == Leading(rows, kept \ Least(kept))
           all  == Expanded(one, ask.scope, ask.seen)
           lost == Unresolved(Candidates[ask.question], rows)
<1>3. PICK x \in IF one = {} THEN {None} ELSE one, y \in IF two = {} THEN {None} ELSE two :
         ask' = [ask EXCEPT !.at = "retrieve", !.anchor = x, !.other = y, !.first = all, !.lost = lost]
  BY <1>2
<1>4. kept \in SUBSET DOMAIN rows /\ kept \ Least(kept) \in SUBSET DOMAIN rows
  BY DEF Kept
<1>5. \A e \in one : e \in nodes /\ e \in ask.seen /\ HomeOf[e] \in ask.scope
  BY <1>4, LeadingOK
<1>6. \A e \in two : e \in nodes
  BY <1>4, LeadingOK
<1>7. nodes \subseteq Entity
  BY <1>1 DEF GraphTypeOK
<1>8. \A e \in all : e \in Entity /\ e \in ask.seen /\ HomeOf[e] \in ask.scope
  BY <1>5, <1>7 DEF Expanded
<1>9. lost \in BOOLEAN
  BY DEF Unresolved
<1>10. /\ x \in Entity \cup {None} /\ y \in Entity \cup {None}
       /\ x = None \/ (x \in ask.seen /\ HomeOf[x] \in ask.scope)
  BY <1>5, <1>6, <1>7
<1> HIDE DEF one, two, all, lost, kept
<1>11. /\ ask' \in Request
       /\ ask'.at = "retrieve" /\ ask'.anchor = x /\ ask'.first = all
       /\ ask'.scope = ask.scope /\ ask'.seen = ask.seen /\ ask'.items = ask.items
       /\ ask'.summaries = ask.summaries /\ ask'.walked = ask.walked
  <2>1. all \in SUBSET Entity /\ "retrieve" \in Stages
    BY <1>8 DEF Stages
  <2>2. QED
    BY <1>1, <1>3, <1>9, <1>10, <2>1, Zenon DEF Request
<1>12. Resolved'
  BY <1>8, <1>10, <1>11 DEF Resolved, Unnamed
<1>13. AnswersStayVisible' /\ \A z \in ask'.items : z.ends => z.says \in Fact
  BY <1>11 DEF QueryInv, AskInv, AnswersStayVisible, Cited, Home, Ends
<1>14. Inferring' /\ AllSaid'
  BY <1>11 DEF Inferring, AllSaid
<1>15. QED
  BY <1>11, <1>12, <1>13, <1>14 DEF AskInv

(* What a retrieval must see to. *)
FitFor(items, walked) ==
    \A x \in items : x.says \in Fact =>
        /\ Home(x.says) \in ask.scope
        /\ Ends(x.says) \cap ask.seen # {}
        /\ walked => Ends(x.says) \subseteq ask.seen

LEMMA AnsweringInv ==
    ASSUME QueryInv, NEW stage \in {"compose", "recommend"}, NEW items \in SUBSET ItemSet,
           NEW shown \in SUBSET Entity, NEW walked \in BOOLEAN,
           Answering(stage, items, shown, walked),
           FitFor(items, walked),
           \A x \in items : x.ends => x.says \in Fact,
           \A e \in shown : e \in ask.seen /\ HomeOf[e] \in ask.scope,
           stage = "recommend" =>
               /\ walked /\ ask.anchor \in Entity /\ shown = {}
               /\ IsEntirelyCausal(items) /\ \A x \in items : x.says \in Fact
    PROVE  AskInv'
<1>1. ask \in Request
  BY DEF QueryInv, AskInv
<1>2. ask' = [ask EXCEPT !.at = stage, !.items = items, !.summaries = shown, !.walked = walked]
  BY DEF Answering
<1>3. /\ ask' \in Request
      /\ ask'.at = stage /\ ask'.items = items /\ ask'.summaries = shown /\ ask'.walked = walked
      /\ ask'.scope = ask.scope /\ ask'.seen = ask.seen
      /\ ask'.first = ask.first /\ ask'.anchor = ask.anchor
  <2>1. stage \in Stages
    BY DEF Stages
  <2>2. QED
    BY <1>1, <1>2, <2>1, Zenon DEF Request
<1>4. Resolved'
  BY <1>3 DEF QueryInv, AskInv, Resolved, Unnamed
<1>5. AnswersStayVisible'
  BY <1>3 DEF AnswersStayVisible, Cited, Home, Ends, FitFor
<1>6. Inferring'
  BY <1>3 DEF Inferring, IsEntirelyCausal
<1>7. AllSaid'
  BY <1>3 DEF AllSaid
<1>8. QED
  BY <1>3, <1>4, <1>5, <1>6, <1>7 DEF AskInv

LEMMA RemarksOnly ==
    ASSUME NEW texts \in SUBSET Message, NEW x \in {Remark(t) : t \in texts}
    PROVE  x \in ItemSet /\ x.says \notin Fact /\ x.ends = FALSE
BY RemarksAreItems

LEMMA OwnFactsOK ==
    ASSUME NEW e \in Entity, NEW seen, NEW f \in OwnFacts(e, seen)
    PROVE  f \in Fact /\ Home(f) = HomeOf[e] /\ Ends(f) \cap seen # {}
BY EndsAreHome DEF OwnFacts, Facts

LEMMA RetrieveInv ==
    ASSUME QueryInv,
           RetrieveNotFound \/ RetrieveConnection \/ RetrieveOwn \/ RetrieveBySearch
    PROVE  AskInv'
<1>1. ask \in Request /\ GraphTypeOK /\ Resolved /\ Facts \in SUBSET Fact
  BY DEF QueryInv, AskInv, GraphInv, Facts
<1>2. {} \in SUBSET Entity /\ TRUE \in BOOLEAN /\ FALSE \in BOOLEAN
  OBVIOUS
<1>3. CASE RetrieveNotFound
  <2>1. PICK said \in SUBSET Live :
           Answering("compose", {Remark(t) : t \in said \cup {NoEntity}}, {}, FALSE)
    BY <1>3 DEF RetrieveNotFound
  <2> DEFINE items == {Remark(t) : t \in said \cup {NoEntity}}
  <2>2. said \cup {NoEntity} \in SUBSET Message
    BY DEF Message
  <2>3. \A x \in items : x \in ItemSet /\ x.says \notin Fact /\ x.ends = FALSE
    BY <2>2, RemarksOnly
  <2> HIDE DEF items
  <2>4. FitFor(items, FALSE) /\ items \in SUBSET ItemSet
    BY <2>3 DEF FitFor
  <2>5. QED
    BY <1>2, <2>1, <2>3, <2>4, AnsweringInv DEF items
<1>4. CASE RetrieveConnection
  <2>1. PICK fs \in PathFacts(ask.anchor, ask.other, Facts, ask.seen), said \in SUBSET Live :
           Answering("compose",
                   {Item(f, FALSE) : f \in fs} \cup
                   {Remark(t) : t \in said \cup IF fs = {} THEN {NoConnection} ELSE {}},
                   {}, TRUE)
    BY <1>4 DEF RetrieveConnection
  <2> DEFINE texts == said \cup IF fs = {} THEN {NoConnection} ELSE {}
             remarks == {Remark(t) : t \in texts}
             found == {Item(f, FALSE) : f \in fs}
  <2>2. ask.anchor \in Entity /\ HomeOf[ask.anchor] \in ask.scope
    BY <1>1, <1>4 DEF RetrieveConnection, Connects, Unnamed, Resolved, Request
  <2>3. \A f \in fs : f \in Fact /\ Ends(f) \subseteq ask.seen /\ Home(f) \in ask.scope
    BY <1>1, <2>2, PathFactsOK
  <2>4. texts \in SUBSET Message
    BY DEF Message
  <2>5. \A x \in remarks : x \in ItemSet /\ x.says \notin Fact /\ x.ends = FALSE
    BY <2>4, RemarksOnly
  <2>6. ASSUME NEW x \in found PROVE x \in ItemSet /\ x.says \in fs /\ x.ends = FALSE
    <3>1. PICK f \in fs : x = Item(f, FALSE)
      OBVIOUS
    <3>2. Item(f, FALSE) \in ItemSet /\ Item(f, FALSE).says = f /\ Item(f, FALSE).ends = FALSE
      BY <1>1, <1>2, <2>3, ItemsAreItems
    <3>3. QED
      BY <3>1, <3>2
  <2> HIDE DEF remarks, found
  <2>7. FitFor(found \cup remarks, TRUE)
    <3>1. \A f \in fs : Ends(f) \cap ask.seen # {}
      BY <2>3, EndsAreHome
    <3>2. \A x \in found \cup remarks : x.says \in Fact => x.says \in fs
      BY <2>5, <2>6
    <3>3. QED
      BY <2>3, <3>1, <3>2 DEF FitFor
  <2>8. \A x \in found \cup remarks : x \in ItemSet /\ (x.ends => x.says \in Fact)
    BY <2>5, <2>6
  <2>9. Answering("compose", found \cup remarks, {}, TRUE)
    BY <2>1 DEF found, remarks
  <2>10. QED
    BY <1>2, <2>7, <2>8, <2>9, AnsweringInv
<1>5. CASE RetrieveOwn
  <2>1. PICK said \in SUBSET Live :
           Answering("compose", WithEnds(OwnOf(ask.first)) \cup {Remark(t) : t \in said},
                     Bare(ask.first), FALSE)
    BY <1>5 DEF RetrieveOwn
  <2> DEFINE remarks == {Remark(t) : t \in said}
             found == WithEnds(OwnOf(ask.first))
  <2>2. \A e \in ask.first : e \in Entity /\ e \in ask.seen /\ HomeOf[e] \in ask.scope
    BY <1>1 DEF Request, Resolved
  <2>3. \A f \in OwnOf(ask.first) : f \in Fact /\ Home(f) \in ask.scope /\ Ends(f) \cap ask.seen # {}
    BY <2>2, OwnFactsOK DEF OwnOf
  <2>4. \A x \in remarks : x \in ItemSet /\ x.says \notin Fact /\ x.ends = FALSE
    <3>1. said \in SUBSET Message
      BY DEF Message
    <3>2. QED
      BY <3>1, RemarksOnly
  <2>5. \A x \in found : x \in ItemSet /\ x.says \in OwnOf(ask.first)
    BY <1>1, <2>3, FactItems
  <2>6. Bare(ask.first) \in SUBSET Entity /\ Bare(ask.first) \subseteq ask.first
    BY <2>2 DEF Bare
  <2> HIDE DEF remarks, found
  <2>7. FitFor(found \cup remarks, FALSE)
    BY <2>3, <2>4, <2>5 DEF FitFor
  <2>8. \A x \in found \cup remarks : x \in ItemSet /\ (x.ends => x.says \in Fact)
    BY <2>3, <2>4, <2>5
  <2>9. Answering("compose", found \cup remarks, Bare(ask.first), FALSE)
    BY <2>1 DEF found, remarks
  <2>10. QED
    BY <1>2, <2>2, <2>6, <2>7, <2>8, <2>9, AnsweringInv
<1>6. CASE RetrieveBySearch
  <2>1. PICK fs \in Found(ask.scope, ask.seen, NumResults),
            said \in SUBSET (IF ask.mode = "ask" THEN Live ELSE {}) :
           Answering("compose", WithEnds(fs) \cup {Remark(t) : t \in said}, {}, FALSE)
    BY <1>6 DEF RetrieveBySearch
  <2> DEFINE remarks == {Remark(t) : t \in said}
             found == WithEnds(fs)
  <2>2. \A f \in fs : f \in Fact /\ Home(f) \in ask.scope /\ Ends(f) \cap ask.seen # {}
    BY DEF Found, FactsIn, Facts
  <2>3. \A x \in remarks : x \in ItemSet /\ x.says \notin Fact /\ x.ends = FALSE
    <3>1. said \in SUBSET Message
      BY DEF Message
    <3>2. QED
      BY <3>1, RemarksOnly
  <2>4. \A x \in found : x \in ItemSet /\ x.says \in fs
    BY <1>1, <2>2, FactItems
  <2> HIDE DEF remarks, found
  <2>5. FitFor(found \cup remarks, FALSE)
    BY <2>2, <2>3, <2>4 DEF FitFor
  <2>6. \A x \in found \cup remarks : x \in ItemSet /\ (x.ends => x.says \in Fact)
    BY <2>2, <2>3, <2>4
  <2>7. Answering("compose", found \cup remarks, {}, FALSE)
    BY <2>1 DEF found, remarks
  <2>8. QED
    BY <1>2, <2>5, <2>6, <2>7, AnsweringInv
<1>7. QED
  BY <1>3, <1>4, <1>5, <1>6

(* What follows a chain is reported or, entirely causal, reasoned from. *)
LEMMA ChainInv ==
    ASSUME QueryInv, NEW fs \in SUBSET Fact, ask.anchor \in Entity,
           \A f \in fs : Home(f) \in ask.scope /\ Ends(f) \subseteq ask.seen,
           Answering(StageFor(WithEnds(fs)), WithEnds(fs), {}, TRUE)
    PROVE  AskInv'
<1> DEFINE items == WithEnds(fs)
           stage == StageFor(items)
<1>1. {} \in SUBSET Entity /\ TRUE \in BOOLEAN /\ GraphTypeOK
  BY DEF QueryInv, GraphInv
<1>2. \A x \in items : x \in ItemSet /\ x.says \in fs
  BY <1>1, FactItems
<1>3. stage \in {"compose", "recommend"} /\ (stage = "recommend" => IsEntirelyCausal(items))
  BY DEF StageFor
<1>4. \A f \in fs : Ends(f) \cap ask.seen # {}
  BY EndsAreHome
<1>5. Answering(stage, items, {}, TRUE)
  OBVIOUS
<1> HIDE DEF items, stage
<1>6. FitFor(items, TRUE)
  BY <1>2, <1>4 DEF FitFor
<1>7. items \in SUBSET ItemSet /\ \A x \in items : x.says \in Fact
  BY <1>2
<1>8. QED
  BY <1>1, <1>3, <1>5, <1>6, <1>7, AnsweringInv

LEMMA CausalInv ==
    ASSUME QueryInv, CausalConnection \/ CausalWalk \/ CausalNotFound
    PROVE  AskInv'
<1>1. ask \in Request /\ GraphTypeOK /\ Resolved
  BY DEF QueryInv, AskInv, GraphInv
<1>2. CASE CausalConnection
  <2>1. PICK fs \in PathFacts(ask.anchor, ask.other, FactsIn(ask.scope), ask.seen) :
           Answering(StageFor(WithEnds(fs)), WithEnds(fs), {}, TRUE)
    BY <1>2 DEF CausalConnection
  <2>2. ask.anchor \in Entity
    BY <1>1, <1>2 DEF CausalConnection, Connects, Unnamed, Request
  <2>3. FactsIn(ask.scope) \in SUBSET Fact
    BY DEF FactsIn, Facts
  <2>4. \A f \in fs : f \in FactsIn(ask.scope) /\ Ends(f) \subseteq ask.seen
    BY <2>2, <2>3, PathFactsOK
  <2>5. \A f \in fs : f \in Fact /\ Home(f) \in ask.scope /\ Ends(f) \subseteq ask.seen
    BY <2>4 DEF FactsIn, Facts
  <2>6. QED
    BY <2>1, <2>2, <2>5, ChainInv
<1>3. CASE CausalWalk
  <2>1. PICK chain \in CausalChains(ask.anchor, ask.scope, ask.seen) :
         LET texts == {Edge[f].text : f \in chain}
             extra == {f \in OwnFacts(ask.anchor, ask.seen) : Edge[f].text \notin texts}
         IN  IF Cardinality(chain) <= 1 /\ extra # {}
             THEN Answering("compose", WithEnds(chain \cup extra), {}, FALSE)
             ELSE Answering(StageFor(WithEnds(chain)), WithEnds(chain), {}, TRUE)
    BY <1>3 DEF CausalWalk
  <2>2. ask.anchor \in Entity /\ HomeOf[ask.anchor] \in ask.scope
    BY <1>1, <1>3 DEF CausalWalk, Unnamed, Request, Resolved
  <2>3. \A f \in chain : f \in Fact /\ Home(f) \in ask.scope /\ Ends(f) \subseteq ask.seen
    BY <2>2, CausalChainsOK DEF CausalIn, FactsIn, Facts
  <2>4. CASE Answering(StageFor(WithEnds(chain)), WithEnds(chain), {}, TRUE)
    BY <2>2, <2>3, <2>4, ChainInv
  <2>5. CASE \E extra \in SUBSET OwnFacts(ask.anchor, ask.seen) :
                Answering("compose", WithEnds(chain \cup extra), {}, FALSE)
    <3>1. PICK extra \in SUBSET OwnFacts(ask.anchor, ask.seen) :
             Answering("compose", WithEnds(chain \cup extra), {}, FALSE)
      BY <2>5
    <3> DEFINE items == WithEnds(chain \cup extra)
    <3>2. \A f \in chain : Ends(f) \cap ask.seen # {}
      BY <2>3, EndsAreHome
    <3>3. \A f \in extra : f \in Fact /\ Home(f) \in ask.scope /\ Ends(f) \cap ask.seen # {}
      BY <2>2, OwnFactsOK
    <3>4. \A f \in chain \cup extra : f \in Fact /\ Home(f) \in ask.scope /\ Ends(f) \cap ask.seen # {}
      BY <2>3, <3>2, <3>3
    <3>5. \A x \in items : x \in ItemSet /\ x.says \in chain \cup extra
      BY <1>1, <3>4, FactItems
    <3> HIDE DEF items
    <3>6. FitFor(items, FALSE) /\ items \in SUBSET ItemSet /\ \A x \in items : x.says \in Fact
      BY <3>4, <3>5 DEF FitFor
    <3>7. Answering("compose", items, {}, FALSE)
      BY <3>1 DEF items
    <3>8. {} \in SUBSET Entity /\ FALSE \in BOOLEAN
      OBVIOUS
    <3>9. QED
      BY <3>6, <3>7, <3>8, AnsweringInv
  <2>6. QED
    BY <2>1, <2>4, <2>5
<1>4. CASE CausalNotFound
  <2>1. Answering("compose", {}, {}, FALSE)
    BY <1>4 DEF CausalNotFound
  <2>2. {} \in SUBSET Entity /\ FALSE \in BOOLEAN /\ {} \in SUBSET ItemSet /\ FitFor({}, FALSE)
    BY DEF FitFor
  <2>3. QED
    BY <2>1, <2>2, AnsweringInv
<1>5. QED
  BY <1>2, <1>3, <1>4

-----------------------------------------------------------------------------
(* The answer. *)

(* Lines are added; what was found stays as it was. *)
LEMMA SayingInv ==
    ASSUME QueryInv, NEW stage \in {"record", "answered"}, NEW lines \in SUBSET Line,
           ask' = [ask EXCEPT !.at = stage, !.lines = lines],
           stage = "record" => ask.at = "recommend",
           \A x \in ask.items : \E l \in lines : TextOf(x) \in {l.text, l.old},
           \A e \in ask.summaries : SummaryLine(e) \in lines
    PROVE  AskInv'
<1>1. ask \in Request
  BY DEF QueryInv, AskInv
<1>2. /\ ask' \in Request
      /\ ask'.at = stage /\ ask'.lines = lines
      /\ ask'.items = ask.items /\ ask'.summaries = ask.summaries /\ ask'.walked = ask.walked
      /\ ask'.scope = ask.scope /\ ask'.seen = ask.seen
      /\ ask'.first = ask.first /\ ask'.anchor = ask.anchor
  <2>1. stage \in Stages
    BY DEF Stages
  <2>2. QED
    BY <1>1, <2>1, Zenon DEF Request
<1>3. Resolved'
  BY <1>2 DEF QueryInv, AskInv, Resolved, Unnamed
<1>4. AnswersStayVisible' /\ \A x \in ask'.items : x.ends => x.says \in Fact
  BY <1>2 DEF QueryInv, AskInv, AnswersStayVisible, Cited, Home, Ends
<1>5. Inferring'
  BY <1>2 DEF QueryInv, AskInv, Inferring, IsEntirelyCausal
<1>6. AllSaid'
  BY <1>2 DEF AllSaid, TextOf, SummaryLine
<1>7. QED
  BY <1>2, <1>3, <1>4, <1>5, <1>6 DEF AskInv

LEMMA ComposeInv ==
    ASSUME QueryInv, Compose
    PROVE  AskInv'
<1>1. PICK found \in Answers(ask.items, TiesOf(ask.items)) :
         ask' = [ask EXCEPT !.at = "answered",
                            !.lines = found \cup {SummaryLine(e) : e \in ask.summaries}]
  BY DEF Compose
<1> DEFINE lines == found \cup {SummaryLine(e) : e \in ask.summaries}
<1>2. ask.items \in SUBSET ItemSet /\ ask.summaries \in SUBSET Entity
  BY DEF QueryInv, AskInv, Request
<1>3. \A losers \in TiesOf(ask.items) : losers = {}
  BY NothingToDecide DEF TiesOf
<1>4. found \in Answers(ask.items, {{}})
  BY <1>3 DEF Answers
<1>5. \A x \in ask.items : \E l \in found : TextOf(x) \in {l.text, l.old}
  BY <1>4, LinesKeepAll
<1>6. found \subseteq Line
  BY <1>2, <1>4, LinesAreLines
<1>7. \A e \in ask.summaries : SummaryLine(e) \in Line
  BY <1>2 DEF SummaryLine, Line
<1>8. lines \in SUBSET Line
  BY <1>6, <1>7
<1>9. \A x \in ask.items : \E l \in lines : TextOf(x) \in {l.text, l.old}
  BY <1>5
<1>10. \A e \in ask.summaries : SummaryLine(e) \in lines
  OBVIOUS
<1> HIDE DEF lines
<1>11. ask' = [ask EXCEPT !.at = "answered", !.lines = lines]
  BY <1>1 DEF lines
<1>12. QED
  BY <1>8, <1>9, <1>10, <1>11, SayingInv

LEMMA RecommendInv ==
    ASSUME QueryInv, Recommend
    PROVE  AskInv'
<1>1. PICK lines \in Answers(ask.items, {{}}), stage \in {"record", "answered"} :
         ask' = [ask EXCEPT !.at = stage, !.lines = lines]
  BY DEF Recommend
<1>2. ask.at = "recommend" /\ ask.items \in SUBSET ItemSet /\ ask.summaries = {}
  BY DEF Recommend, At, QueryInv, AskInv, Inferring, Request
<1>3. lines \in SUBSET Line
  BY <1>2, LinesAreLines
<1>4. \A x \in ask.items : \E l \in lines : TextOf(x) \in {l.text, l.old}
  BY LinesKeepAll
<1>5. QED
  BY <1>1, <1>2, <1>3, <1>4, SayingInv

(* A request that is recorded, or not, is answered with the same lines. *)
LEMMA AnsweredInv ==
    ASSUME QueryInv, ask.at = "record", ask' = [ask EXCEPT !.at = "answered"]
    PROVE  AskInv'
<1>1. ask \in Request
  BY DEF QueryInv, AskInv
<1>2. /\ ask' \in Request
      /\ ask'.at = "answered" /\ ask'.lines = ask.lines
      /\ ask'.items = ask.items /\ ask'.summaries = ask.summaries /\ ask'.walked = ask.walked
      /\ ask'.scope = ask.scope /\ ask'.seen = ask.seen
      /\ ask'.first = ask.first /\ ask'.anchor = ask.anchor
  <2>1. "answered" \in Stages
    BY DEF Stages
  <2>2. QED
    BY <1>1, <2>1, Zenon DEF Request
<1>3. Resolved' /\ Inferring'
  BY <1>2 DEF QueryInv, AskInv, Resolved, Unnamed, Inferring
<1>4. AnswersStayVisible' /\ \A x \in ask'.items : x.ends => x.says \in Fact
  BY <1>2 DEF QueryInv, AskInv, AnswersStayVisible, Cited, Home, Ends
<1>5. AllSaid'
  BY <1>2 DEF QueryInv, AskInv, AllSaid, TextOf, SummaryLine
<1>6. QED
  BY <1>2, <1>3, <1>4, <1>5 DEF AskInv

-----------------------------------------------------------------------------
(* Decisions. *)

(* No purge takes an entity a decision leads to. *)
LEMMA AuditedStay ==
    ASSUME GraphNext
    PROVE  nodes \cap audited \subseteq nodes' /\ audited' = audited
<1>1. ASSUME NEW c \in Connector, PurgeEntities(c)
      PROVE  nodes \cap audited \subseteq nodes' /\ audited' = audited
  BY <1>1 DEF PurgeEntities, Orphans
<1>2. ASSUME NEW c \in Connector, SaveEpisode(c)
      PROVE  nodes \cap audited \subseteq nodes' /\ audited' = audited
  BY <1>2 DEF SaveEpisode
<1>3. ASSUME NEW c \in Connector,
             SaveFails(c) \/ TagEpisode(c) \/ PurgeFacts(c) \/ PurgeEpisodes(c) \/ PurgeFails(c)
      PROVE  nodes' = nodes /\ audited' = audited
  BY <1>3 DEF SaveFails, TagEpisode, PurgeFacts, PurgeEpisodes, PurgeFails, storeVars
<1>4. ASSUME NEW r \in Record, ReadEdges(r)
      PROVE  nodes' = nodes /\ audited' = audited
  BY <1>4 DEF ReadEdges, storeVars
<1>5. QED
  BY <1>1, <1>2, <1>3, <1>4 DEF GraphNext

LEMMA DecisionsKept ==
    ASSUME DecisionInv, decisions' = decisions, nodes \cap audited \subseteq nodes',
           audited \subseteq audited'
    PROVE  DecisionInv'
BY DEF DecisionInv, DecisionsAreGrounded, Home, Ends

LEMMA RecordDecisionInv ==
    ASSUME QueryInv, RecordDecision
    PROVE  QueryInv'
<1> DEFINE chain == {x.says : x \in ask.items}
           new == [anchor |-> ask.anchor, scope |-> ask.scope, seen |-> ask.seen,
                   chain |-> chain, linked |-> ask.anchor \in nodes]
<1>1. /\ ask.at = "record"
      /\ decisions' = decisions \cup {new}
      /\ audited' = audited \cup ({ask.anchor} \cap nodes)
      /\ ask' = [ask EXCEPT !.at = "answered"]
      /\ UNCHANGED <<nodes, gone, backing, replaced, made, episodes, tagged, draft, purge, crossed>>
  BY DEF RecordDecision, At, storeVars
<1>2. /\ ask \in Request /\ AnswersStayVisible
      /\ ask.walked /\ ask.anchor \in Entity
      /\ IsEntirelyCausal(ask.items) /\ \A x \in ask.items : x.says \in Fact
  BY <1>1 DEF QueryInv, AskInv, Inferring
<1>3. AskInv'
  BY <1>1, AnsweredInv
<1>4. GraphInv'
  <2>1. GraphTypeOK' /\ DraftsAreReal'
    BY <1>1, <1>2 DEF QueryInv, GraphInv, GraphTypeOK, DraftsAreReal
  <2>2. PurgesAreOwn' /\ GraphMatchesEpisodes'
    BY <1>1 DEF QueryInv, GraphInv, PurgesAreOwn, GraphMatchesEpisodes, TaggedBy, Alive, Facts, Ends
  <2>3. QED
    BY <2>1, <2>2 DEF GraphInv
<1>5. /\ chain # {}
      /\ \A f \in chain : f \in Fact /\ Edge[f].type \in CausalType /\ Home(f) \in ask.scope
                          /\ Ends(f) \subseteq ask.seen
  BY <1>2 DEF IsEntirelyCausal, AnswersStayVisible, Cited
<1>6. chain \in SUBSET Fact
  BY <1>5
<1>7. (ask.anchor \in nodes) \in BOOLEAN /\ ask.scope \in SUBSET KnowledgeBase /\ ask.seen \in SUBSET Entity
  BY <1>2 DEF Request
<1> HIDE DEF chain
<1>8. new \in Decision
  BY <1>2, <1>6, <1>7 DEF Decision
<1>9. /\ new.chain = chain /\ new.scope = ask.scope /\ new.seen = ask.seen
      /\ new.anchor = ask.anchor /\ (new.linked <=> ask.anchor \in nodes)
  OBVIOUS
<1> HIDE DEF new
<1>10. decisions' \subseteq Decision
  BY <1>1, <1>8 DEF QueryInv, DecisionInv
<1>11. ASSUME NEW d \in decisions'
       PROVE  /\ d.chain # {}
              /\ \A f \in d.chain : /\ Edge[f].type \in CausalType
                                    /\ Home(f) \in d.scope
                                    /\ Ends(f) \subseteq d.seen
              /\ d.linked => d.anchor \in nodes' \cap audited'
  <2>1. CASE d = new
    BY <1>1, <1>5, <1>9, <2>1
  <2>2. CASE d \in decisions
    BY <1>1, <2>2 DEF QueryInv, DecisionInv, DecisionsAreGrounded
  <2>3. QED
    BY <1>1, <2>1, <2>2
<1>12. DecisionInv'
  BY <1>10, <1>11 DEF DecisionInv, DecisionsAreGrounded, Home, Ends
<1>13. QED
  BY <1>3, <1>4, <1>12 DEF QueryInv

-----------------------------------------------------------------------------
(* The invariant holds at first and every step keeps it. *)
LEMMA QueryInitInv == QueryInit => QueryInv
<1> SUFFICES ASSUME QueryInit PROVE QueryInv
  OBVIOUS
<1>1. GraphInv
  BY GraphInitInv DEF QueryInit
<1>2. ask = [at |-> "idle", mode |-> "ask", question |-> None, scope |-> {}, seen |-> {},
             first |-> {}, anchor |-> None, other |-> None, lost |-> FALSE, walked |-> FALSE,
             items |-> {}, summaries |-> {}, lines |-> {}]
  BY DEF QueryInit, Idle, Fresh
<1>3. ask \in Request
  <2>1. {} \in SUBSET KnowledgeBase /\ {} \in SUBSET Entity /\ {} \in SUBSET ItemSet
        /\ {} \in SUBSET Line /\ FALSE \in BOOLEAN
    OBVIOUS
  <2>2. QED
    BY <1>2, <2>1 DEF Request, Stages
<1>4. Resolved /\ Inferring /\ AllSaid
  BY <1>2 DEF Resolved, Unnamed, Inferring, AllSaid
<1>5. AnswersStayVisible /\ \A x \in ask.items : x.ends => x.says \in Fact
  BY <1>2 DEF AnswersStayVisible, Cited
<1>6. DecisionInv
  BY DEF QueryInit, DecisionInv, DecisionsAreGrounded
<1>7. QED
  BY <1>1, <1>3, <1>4, <1>5, <1>6 DEF QueryInv, AskInv

LEMMA UnchangedGraph ==
    ASSUME QueryInv, UNCHANGED <<graphVars, decisions>>
    PROVE  GraphInv' /\ DecisionInv'
<1>1. UNCHANGED <<nodes, gone, backing, replaced, made, episodes, tagged, audited, draft, purge, crossed>>
  BY DEF graphVars, storeVars
<1>2. GraphTypeOK' /\ DraftsAreReal'
  BY <1>1 DEF QueryInv, GraphInv, GraphTypeOK, DraftsAreReal
<1>3. PurgesAreOwn' /\ GraphMatchesEpisodes'
  BY <1>1 DEF QueryInv, GraphInv, PurgesAreOwn, GraphMatchesEpisodes, TaggedBy, Alive, Facts, Ends
<1>4. DecisionInv'
  BY <1>1, DecisionsKept DEF QueryInv
<1>5. QED
  BY <1>2, <1>3, <1>4 DEF GraphInv

LEMMA UnchangedAsk ==
    ASSUME QueryInv, UNCHANGED ask
    PROVE  AskInv'
<1>1. ask' \in Request /\ Resolved' /\ Inferring' /\ AllSaid'
  BY DEF QueryInv, AskInv, Resolved, Unnamed, Inferring, AllSaid, TextOf, SummaryLine
<1>2. AnswersStayVisible' /\ \A x \in ask'.items : x.ends => x.says \in Fact
  BY DEF QueryInv, AskInv, AnswersStayVisible, Cited, Home, Ends
<1>3. QED
  BY <1>1, <1>2 DEF AskInv

LEMMA AskNextInv ==
    ASSUME QueryInv, AskNext
    PROVE  QueryInv'
<1>1. ASSUME NEW mode \in {"ask", "causal"}, NEW q \in Question, NEW u \in User, AskAsUser(mode, q, u)
      PROVE  AskInv' /\ UNCHANGED <<graphVars, decisions>>
  BY <1>1, AskInvAtStart DEF AskAsUser, Begin
<1>2. ASSUME NEW mode \in {"ask", "causal"}, NEW q \in Question, NEW kb \in KnowledgeBase,
             AskBase(mode, q, kb)
      PROVE  AskInv' /\ UNCHANGED <<graphVars, decisions>>
  BY <1>2, AskInvAtStart DEF AskBase, Begin
<1>3. ASSUME NEW q \in Question, NEW set \in DocumentSet, AskSet(q, set)
      PROVE  AskInv' /\ UNCHANGED <<graphVars, decisions>>
  BY <1>3, AskInvAtStart DEF AskSet, Begin
<1>4. ASSUME \/ \E u \in User : BrowseAsUser(u)
             \/ \E kb \in KnowledgeBase : BrowseBase(kb)
             \/ \E c \in Connector : BrowseConnector(c)
      PROVE  AskInv' /\ UNCHANGED <<graphVars, decisions>>
  BY <1>4, BrowseInv DEF BrowseAsUser, BrowseBase, BrowseConnector, Show
<1>5. ASSUME Resolve PROVE AskInv' /\ UNCHANGED <<graphVars, decisions>>
  BY <1>5, ResolveInv DEF Resolve
<1>6. ASSUME RetrieveNotFound \/ RetrieveConnection \/ RetrieveOwn \/ RetrieveBySearch
      PROVE  AskInv' /\ UNCHANGED <<graphVars, decisions>>
  BY <1>6, RetrieveInv
     DEF RetrieveNotFound, RetrieveConnection, RetrieveOwn, RetrieveBySearch, Answering
<1>7. ASSUME CausalConnection \/ CausalWalk \/ CausalNotFound
      PROVE  AskInv' /\ UNCHANGED <<graphVars, decisions>>
  BY <1>7, CausalInv DEF CausalConnection, CausalWalk, CausalNotFound, Answering
<1>8. ASSUME RequestFails \/ Deliver PROVE AskInv' /\ UNCHANGED <<graphVars, decisions>>
  BY <1>8, IdleAsk DEF RequestFails, Deliver
<1>9. ASSUME Compose PROVE AskInv' /\ UNCHANGED <<graphVars, decisions>>
  BY <1>9, ComposeInv DEF Compose
<1>10. ASSUME Recommend PROVE AskInv' /\ UNCHANGED <<graphVars, decisions>>
  BY <1>10, RecommendInv DEF Recommend
<1>11. ASSUME RecordFails PROVE AskInv' /\ UNCHANGED <<graphVars, decisions>>
  BY <1>11, AnsweredInv DEF RecordFails, At
<1>12. CASE RecordDecision
  BY <1>12, RecordDecisionInv
<1>13. CASE AskInv' /\ UNCHANGED <<graphVars, decisions>>
  BY <1>13, UnchangedGraph DEF QueryInv
<1>14. QED
  BY <1>1, <1>2, <1>3, <1>4, <1>5, <1>6, <1>7, <1>8, <1>9, <1>10, <1>11, <1>12, <1>13
     DEF AskNext

LEMMA QueryNextInv == QueryInv /\ [QueryNext]_queryVars => QueryInv'
<1> SUFFICES ASSUME QueryInv, [QueryNext]_queryVars PROVE QueryInv'
  OBVIOUS
<1>1. CASE GraphStep
  <2>1. GraphInv'
    BY <1>1, GraphStepInv DEF GraphStep, QueryInv
  <2>2. AskInv'
    BY <1>1, UnchangedAsk DEF GraphStep
  <2>3. DecisionInv'
    BY <1>1, AuditedStay, DecisionsKept DEF GraphStep, QueryInv
  <2>4. QED
    BY <2>1, <2>2, <2>3 DEF QueryInv
<1>2. CASE AskNext
  BY <1>2, AskNextInv
<1>3. CASE UNCHANGED queryVars
  <2>1. UNCHANGED <<graphVars, decisions>> /\ UNCHANGED ask
    BY <1>3 DEF queryVars
  <2>2. QED
    BY <2>1, UnchangedGraph, UnchangedAsk DEF QueryInv
<1>4. QED
  BY <1>1, <1>2, <1>3 DEF QueryNext

(* The invariant is one of every behaviour. *)
LEMMA QueryInvariant == QuerySpec => []QueryInv
<1>1. QueryInit => QueryInv
  BY QueryInitInv
<1>2. QueryInv /\ [QueryNext]_queryVars => QueryInv'
  BY QueryNextInv
<1>3. QED
  BY <1>1, <1>2, PTL DEF QuerySpec

(* The variables keep their types, of any graph, corpus and org chart. *)
THEOREM QueryTypes == QuerySpec => []QueryTypeOK
<1>1. QueryInv => QueryTypeOK
  BY DEF QueryInv, GraphInv, AskInv, DecisionInv, QueryTypeOK
<1>2. QED
  BY <1>1, QueryInvariant, PTL

(* Whatever syncs and purges overlap, a fact is in the graph as long as an  *)
(* episode stands for it and no longer (purge_connector_data).              *)
THEOREM PurgeTakesItsOwn == QuerySpec => []GraphMatchesEpisodes
<1>1. QueryInv => GraphMatchesEpisodes
  BY DEF QueryInv, GraphInv
<1>2. QED
  BY <1>1, QueryInvariant, PTL

(* Answers stay within the question's scope and the asker's sight: paths    *)
(* and chains of up to four hops, searches, own facts, summaries and lists  *)
(* (graph_repository.py, authorization.py).                                 *)
THEOREM VisibleAnswers == QuerySpec => []AnswersStayVisible
<1>1. QueryInv => AnswersStayVisible
  BY DEF QueryInv, AskInv
<1>2. QED
  BY <1>1, QueryInvariant, PTL

(* No retrieved fact is missing from the answer's lines                     *)
(* (_build_answer_lines, _apply_authority_tie_break).                       *)
THEOREM CompleteAnswers == QuerySpec => []NothingVanishes
<1>1. QueryInv => NothingVanishes
  BY DEF QueryInv, AskInv, AllSaid, NothingVanishes, At
<1>2. QED
  BY <1>1, QueryInvariant, PTL

(* Recorded decisions rest on visible causal chains, and their anchors are  *)
(* not purged away (record_decision, get_causal_context_packet).            *)
THEOREM GroundedDecisions == QuerySpec => []DecisionsAreGrounded
<1>1. QueryInv => DecisionsAreGrounded
  BY DEF QueryInv, DecisionInv
<1>2. QED
  BY <1>1, QueryInvariant, PTL
=============================================================================
