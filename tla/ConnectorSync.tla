--------------------------- MODULE ConnectorSync ---------------------------
(***************************************************************************)
(* One connector of the context engine: its row in Neo4j, the episodes its *)
(* syncs wrote, and every activity that reads or writes either of them:    *)
(* manual and webhook syncs on the ingestion queue, the background         *)
(* scheduler, the purge route, the OAuth file picker, an operator moving   *)
(* the connector to another tenant, and deletion.                          *)
(*                                                                         *)
(* Each Cypher statement is one atomic step.  Everything between two       *)
(* statements interleaves: jobs await the network, the purge route is a    *)
(* plain `def` that FastAPI runs on a thread, and replicas share nothing   *)
(* but the database.  A sync works on the row it READ when it was queued   *)
(* or listed, never on the row as it is when the sync runs.                *)
(*                                                                         *)
(* A source's content is the set of its records; the content hash of a     *)
(* fetch is the set itself (sha256 does not collide here).  An episode is  *)
(* counted, not kept: how many copies of a record are in the graph, tagged *)
(* with this connector's id or not.                                        *)
(***************************************************************************)
EXTENDS Naturals, FiniteSets

CONSTANTS
    QueueJobs,        \* sync jobs that can be queued or running at once
    Ticks,            \* scheduler passes that can be running at once (one per replica)
    Tenants,          \* tenants the connector can belong to
    Records,          \* records the source may hold
    Kinds,            \* connector kinds of this instance: "source", "oauth", "live"
    Disturbances,     \* which disturbances of the environment happen
    MaxDisturbances,  \* how many of them happen in a behaviour
    MaxCopies,        \* copies of a record are counted up to here
    None

Jobs == QueueJobs \cup Ticks

ASSUME SyncAssumption ==
    /\ QueueJobs \cap Ticks = {}
    /\ Records # {}
    /\ Kinds \subseteq {"source", "oauth", "live"}
    /\ MaxDisturbances \in Nat
    /\ MaxCopies \in Nat \ {0}
    /\ None \notin Tenants
    /\ \A content \in SUBSET Records : content # None

VARIABLES
    kind,       \* what the connector's type is to the sync path
    owner,      \* c.tenant_id, None once the row is deleted
    status,     \* c.status
    hash,       \* c.content_hash
    files,      \* c.oauth_file_ids is not empty
    source,     \* what the external source holds now
    tagged,     \* copies of a record whose episode carries c.id
    untagged,   \* copies whose episode does not (yet, or ever)
    pc,         \* what each job is about to do
    tenant,     \* the tenant the job runs for
    seenHash,   \* content_hash in the row the job read
    seenFiles,  \* oauth_file_ids of the row the job read, not empty
    fetched,    \* the records fetch() returned
    todo,       \* the ones not ingested and tagged yet
    purge,      \* the purge route: "idle", "episodes" or "reset" is next
    raced,      \* history: a purge overlapped an ingestion, or died half-way
    overlapped, \* history: two jobs were in flight at the same time
    budget      \* disturbances still to come

rowVars   == <<owner, status, hash, files>>
graphVars == <<tagged, untagged>>
seenVars  == <<tenant, seenHash, seenFiles>>
jobVars   == <<pc, seenVars, fetched, todo>>
history   == <<raced, overlapped>>
vars      == <<kind, rowVars, source, graphVars, jobVars, purge, history, budget>>

Contents == (SUBSET Records) \ {{}}
Hashes   == Contents \cup {None}
Statuses == {"authorized_needs_files", "never_synced", "queued",
             "synced", "unchanged", "error"}
Steps    == {"idle", "reread", "mark", "fetch", "unchanged", "ingest", "tag",
             "record", "checked", "error"}
Ingesting == {"ingest", "tag", "record"}

Copies(r) == tagged[r] + untagged[r]
Present   == {r \in Records : Copies(r) > 0}
Busy      == {s \in Jobs : pc[s] # "idle"}

OneMore(n)  == IF n < MaxCopies THEN n + 1 ELSE n
OneLess(n)  == IF n > 0 THEN n - 1 ELSE n
NextOf(S)   == CHOOSE r \in S : TRUE   \* records come in some fixed order

(* A disturbance is something the environment may do only so often. *)
Disturb(what) ==
    /\ what \in Disturbances
    /\ budget > 0
    /\ budget' = budget - 1

-----------------------------------------------------------------------------
(* A connector has just been created: by the form, by the one-click Drive  *)
(* flow before files are picked, or as a live retriever.                   *)
Init ==
    /\ kind \in Kinds
    /\ owner \in Tenants
    /\ status = IF kind = "oauth" THEN "authorized_needs_files" ELSE "never_synced"
    /\ hash = None
    /\ files = FALSE
    /\ source = Records
    /\ tagged = [r \in Records |-> 0]
    /\ untagged = [r \in Records |-> 0]
    /\ pc = [s \in Jobs |-> "idle"]
    /\ tenant = [s \in Jobs |-> None]
    /\ seenHash = [s \in Jobs |-> None]
    /\ seenFiles = [s \in Jobs |-> FALSE]
    /\ fetched = [s \in Jobs |-> {}]
    /\ todo = [s \in Jobs |-> {}]
    /\ purge = "idle"
    /\ raced = FALSE
    /\ overlapped = FALSE
    /\ budget = MaxDisturbances

-----------------------------------------------------------------------------
(* Starting a sync. *)

Goto(s, step) == pc' = [pc EXCEPT ![s] = step]

(* The row, as list_connectors and get_connector return it. *)
ReadRow(s) ==
    /\ owner # None
    /\ tenant' = [tenant EXCEPT ![s] = owner]
    /\ seenHash' = [seenHash EXCEPT ![s] = hash]
    /\ seenFiles' = [seenFiles EXCEPT ![s] = files]

Start(s, step) ==
    /\ pc[s] = "idle"
    /\ Goto(s, step)
    /\ overlapped' = (overlapped \/ Busy # {})

(* POST /connectors/{id}/sync and a webhook notification: whatever the     *)
(* status is, the row is read and the sync will be queued with it.         *)
RequestSync(s) ==
    /\ s \in QueueJobs
    /\ Start(s, "mark")
    /\ ReadRow(s)
    /\ UNCHANGED <<kind, rowVars, source, graphVars, fetched, todo, purge, raced, budget>>

(* POST /connectors/{id}/oauth/files: only a pending Drive connector moves *)
(* on; its first sync is queued right away, from a fresh read of the row.  *)
FinalizeFiles(s) ==
    /\ s \in QueueJobs
    /\ kind = "oauth" /\ owner # None /\ status = "authorized_needs_files"
    /\ files' = TRUE
    /\ status' = "never_synced"
    /\ Start(s, "reread")
    /\ tenant' = [tenant EXCEPT ![s] = owner]
    /\ UNCHANGED <<kind, owner, hash, source, graphVars, seenHash, seenFiles,
                   fetched, todo, purge, raced, budget>>

Finish(s) ==
    /\ pc' = [pc EXCEPT ![s] = "idle"]
    /\ tenant' = [tenant EXCEPT ![s] = None]
    /\ seenHash' = [seenHash EXCEPT ![s] = None]
    /\ seenFiles' = [seenFiles EXCEPT ![s] = FALSE]
    /\ fetched' = [fetched EXCEPT ![s] = {}]
    /\ todo' = [todo EXCEPT ![s] = {}]

RereadRow(s) ==
    /\ pc[s] = "reread"
    /\ \/ /\ owner = tenant[s]
          /\ ReadRow(s)
          /\ Goto(s, "mark")
          /\ UNCHANGED <<fetched, todo>>
       \/ /\ owner # tenant[s]      \* get_connector returned None
          /\ Finish(s)
    /\ UNCHANGED <<kind, rowVars, source, graphVars, purge, history, budget>>

(* mark_sync_queued, then enqueue: the closure keeps the row that was read. *)
MarkQueued(s) ==
    /\ pc[s] = "mark"
    /\ status' = IF owner = tenant[s] THEN "queued" ELSE status
    /\ Goto(s, "fetch")
    /\ UNCHANGED <<kind, owner, hash, files, source, graphVars, seenVars, fetched,
                   todo, purge, history, budget>>

(* Slip: a pass leaves connectors alone that are marked queued. *)
SchedulerSyncSkippingQueued(s) ==
    /\ s \in Ticks
    /\ kind # "live" /\ status # "queued"
    /\ Start(s, "fetch")
    /\ ReadRow(s)
    /\ UNCHANGED <<kind, rowVars, source, graphVars, fetched, todo, purge, raced, budget>>

(* A scheduler pass lists the tenant's connectors and syncs each one that  *)
(* has a factory, whatever its status, without marking it queued.          *)
SchedulerSync(s) ==
    /\ s \in Ticks
    /\ kind # "live"
    /\ Start(s, "fetch")
    /\ ReadRow(s)
    /\ UNCHANGED <<kind, rowVars, source, graphVars, fetched, todo, purge, raced, budget>>

-----------------------------------------------------------------------------
(* run_connector_sync. *)

CanFetchWithoutFiles(s) == kind = "oauth" => owner = tenant[s]   \* slip: [] is a selection

(* The Drive connector built from the snapshot: it needs picked files and  *)
(* the grant stored under the snapshot's tenant.                           *)
CanFetch(s) == kind = "oauth" => seenFiles[s] /\ owner = tenant[s]

FetchFails(s) ==
    /\ pc[s] = "fetch" /\ kind # "live"
    /\ \/ CanFetch(s) /\ Disturb("fetch")
       \/ ~CanFetch(s) /\ UNCHANGED budget
    /\ Goto(s, "error")
    /\ UNCHANGED <<kind, rowVars, source, graphVars, seenVars, fetched, todo, purge, history>>

SyncedBefore(s, content) == seenHash[s] # None   \* slip: any earlier sync counts

SameAsLastSync(s, content) == content = seenHash[s]

Fetched(s, content) ==
    /\ fetched' = [fetched EXCEPT ![s] = content]
    /\ IF SameAsLastSync(s, content)
       THEN Goto(s, "unchanged") /\ UNCHANGED todo
       ELSE Goto(s, "ingest") /\ todo' = [todo EXCEPT ![s] = content]

FetchAll(s) ==
    /\ pc[s] = "fetch" /\ kind # "live" /\ CanFetch(s)
    /\ Fetched(s, source)
    /\ UNCHANGED <<kind, rowVars, source, graphVars, seenVars, purge, history, budget>>

(* A Drive file that cannot be read right now is skipped, not reported.    *)
FetchSome(s) ==
    /\ pc[s] = "fetch" /\ kind = "oauth" /\ CanFetch(s)
    /\ Disturb("partial")
    /\ \E content \in Contents : content \subseteq source /\ Fetched(s, content)
    /\ UNCHANGED <<kind, rowVars, source, graphVars, seenVars, purge, history>>

(* add_episode for the next record; its episode carries no tag yet. *)
IngestRecord(s) ==
    /\ pc[s] = "ingest"
    /\ untagged' = [untagged EXCEPT ![NextOf(todo[s])] = OneMore(@)]
    /\ Goto(s, "tag")
    /\ UNCHANGED <<kind, rowVars, source, tagged, seenVars, fetched, todo, purge, history, budget>>

(* add_episode raises: a spend cap, an extraction error, a lost connection *)
(* (after which the episode may be there or not).                          *)
IngestFails(s) ==
    /\ pc[s] = "ingest"
    /\ Disturb("ingest")
    /\ \/ UNCHANGED untagged
       \/ untagged' = [untagged EXCEPT ![NextOf(todo[s])] = OneMore(@)]
    /\ Goto(s, "error")
    /\ UNCHANGED <<kind, rowVars, source, tagged, seenVars, fetched, todo, purge, history>>

(* Slip: the loop is left after the first record. *)
DoneWithAll(s, r) ==
    /\ todo' = [todo EXCEPT ![s] = @ \ {r}]
    /\ Goto(s, "record")

DoneWith(s, r) ==
    /\ todo' = [todo EXCEPT ![s] = @ \ {r}]
    /\ Goto(s, IF todo[s] = {r} THEN "record" ELSE "ingest")

TagEpisode(s) ==
    /\ pc[s] = "tag"
    /\ LET r == NextOf(todo[s]) IN
       /\ untagged' = [untagged EXCEPT ![r] = OneLess(@)]
       /\ tagged' = [tagged EXCEPT ![r] = OneMore(@)]
       /\ DoneWith(s, r)
    /\ UNCHANGED <<kind, rowVars, source, seenVars, fetched, purge, history, budget>>

(* Three attempts failed: logged, and the sync goes on. *)
TagGivesUp(s) ==
    /\ pc[s] = "tag"
    /\ Disturb("tag")
    /\ DoneWith(s, NextOf(todo[s]))
    /\ UNCHANGED <<kind, rowVars, source, graphVars, seenVars, fetched, purge, history>>

(* record_sync_result matches the row by id and by the job's tenant. *)
RecordResult(s, newStatus, newHash) ==
    /\ status' = IF owner = tenant[s] THEN newStatus ELSE status
    /\ hash' = IF owner = tenant[s] /\ newHash # None THEN newHash ELSE hash
    /\ Finish(s)
    /\ UNCHANGED <<kind, owner, files, source, graphVars, purge, history, budget>>

(* Slips: an error records the hash too, a success does not, and a check *)
(* records the hash of nothing.                                          *)
RecordErrorWithHash(s) ==
    pc[s] = "error" /\ RecordResult(s, "error", IF fetched[s] = {} THEN None ELSE fetched[s])
RecordSyncedNoHash(s)  == pc[s] = "record" /\ RecordResult(s, "synced", None)
RecordCheckedHash(s)   == pc[s] = "checked" /\ RecordResult(s, "synced", fetched[s])

RecordError(s)     == pc[s] = "error"     /\ RecordResult(s, "error", None)
RecordUnchanged(s) == pc[s] = "unchanged" /\ RecordResult(s, "unchanged", None)
RecordSynced(s)    == pc[s] = "record"    /\ RecordResult(s, "synced", fetched[s])

(* "Sync now" of a live retriever: reach it, ingest nothing. *)
CheckConnectivity(s) ==
    /\ pc[s] = "fetch" /\ kind = "live"
    /\ \/ owner = tenant[s] /\ Goto(s, "checked") /\ UNCHANGED budget
       \/ owner = tenant[s] /\ Goto(s, "error") /\ Disturb("fetch")
       \/ owner # tenant[s] /\ Goto(s, "error") /\ UNCHANGED budget
    /\ UNCHANGED <<kind, rowVars, source, graphVars, seenVars, fetched, todo, purge, history>>

RecordChecked(s) == pc[s] = "checked" /\ RecordResult(s, "synced", None)

(* The process dies, the queue is stopped, or an exception other than the  *)
(* ones run_connector_sync catches escapes: nothing is recorded.           *)
Abandon(s) ==
    /\ pc[s] # "idle"
    /\ Disturb("abandon")
    /\ Finish(s)
    /\ UNCHANGED <<kind, rowVars, source, graphVars, purge, history>>

JobStep(s) ==
    \/ RereadRow(s) \/ MarkQueued(s)
    \/ FetchFails(s) \/ FetchAll(s) \/ FetchSome(s)
    \/ IngestRecord(s) \/ IngestFails(s) \/ TagEpisode(s) \/ TagGivesUp(s)
    \/ RecordError(s) \/ RecordUnchanged(s) \/ RecordSynced(s)
    \/ CheckConnectivity(s) \/ RecordChecked(s)

-----------------------------------------------------------------------------
(* Purge: DELETE /connectors/{id}/data, statement by statement. *)

PurgeStart ==
    /\ purge = "idle" /\ owner # None
    /\ Disturb("purge")
    /\ purge' = "episodes"
    /\ UNCHANGED <<kind, rowVars, source, graphVars, jobVars, history>>

PurgeEpisodes ==
    /\ purge = "episodes"
    /\ tagged' = [r \in Records |-> 0]
    /\ raced' = (raced \/ \E s \in Jobs : pc[s] \in Ingesting)
    /\ purge' = "reset"
    /\ UNCHANGED <<kind, rowVars, source, untagged, jobVars, overlapped, budget>>

PurgeReset ==
    /\ purge = "reset"
    /\ purge' = "idle"
    /\ IF owner # None
       THEN status' = "never_synced" /\ hash' = None
       ELSE UNCHANGED <<status, hash>>
    /\ UNCHANGED <<kind, owner, files, source, graphVars, jobVars, history, budget>>

PurgeStep == PurgeEpisodes \/ PurgeReset

PurgeDies ==
    /\ purge # "idle"
    /\ Disturb("abandon")
    /\ purge' = "idle"
    /\ raced' = (raced \/ purge = "reset")
    /\ UNCHANGED <<kind, rowVars, source, graphVars, jobVars, overlapped>>

-----------------------------------------------------------------------------
(* The rest of the world. *)

SourceChanges ==
    /\ Disturb("source")
    /\ \E content \in Contents \ {source} : source' = content
    /\ UNCHANGED <<kind, rowVars, graphVars, jobVars, purge, history>>

ReassignTenant ==
    /\ owner # None
    /\ Disturb("reassign")
    /\ \E t \in Tenants \ {owner} : owner' = t
    /\ UNCHANGED <<kind, status, hash, files, source, graphVars, jobVars, purge, history>>

(* The row goes; the episodes stay, as they do in the code. *)
DeleteConnector ==
    /\ owner # None
    /\ Disturb("delete")
    /\ owner' = None
    /\ status' = "never_synced" /\ hash' = None /\ files' = FALSE
    /\ UNCHANGED <<kind, source, graphVars, jobVars, purge, history>>

Next ==
    \/ \E s \in Jobs :
        \/ RequestSync(s) \/ FinalizeFiles(s) \/ SchedulerSync(s)
        \/ JobStep(s) \/ Abandon(s)
    \/ PurgeStart \/ PurgeStep \/ PurgeDies
    \/ SourceChanges \/ ReassignTenant \/ DeleteConnector

Spec == Init /\ [][Next]_vars

(* Every queued job is run and every await returns; a purge that started   *)
(* goes on; the interval job of the scheduler fires again and again.       *)
Fairness ==
    /\ \A s \in Jobs : WF_vars(JobStep(s))
    /\ \A s \in Ticks : WF_vars(SchedulerSync(s))
    /\ WF_vars(PurgeStep)

FairSpec == Spec /\ Fairness
-----------------------------------------------------------------------------
(* Properties. *)

(* Every variable has its type. *)
TypeOK ==
    /\ kind \in Kinds
    /\ owner \in Tenants \cup {None}
    /\ status \in Statuses
    /\ hash \in Hashes
    /\ files \in BOOLEAN
    /\ source \in Contents
    /\ tagged \in [Records -> 0..MaxCopies]
    /\ untagged \in [Records -> 0..MaxCopies]
    /\ pc \in [Jobs -> Steps]
    /\ tenant \in [Jobs -> Tenants \cup {None}]
    /\ seenHash \in [Jobs -> Hashes]
    /\ seenFiles \in [Jobs -> BOOLEAN]
    /\ fetched \in [Jobs -> SUBSET Records]
    /\ todo \in [Jobs -> SUBSET Records]
    /\ purge \in {"idle", "episodes", "reset"}
    /\ raced \in BOOLEAN
    /\ overlapped \in BOOLEAN
    /\ budget \in 0..MaxDisturbances

(* A recorded content_hash stands for ingested content: every record under *)
(* it has an episode in the graph, however many jobs, failures, tag        *)
(* give-ups, tenant moves and source changes went before.  This is what    *)
(* makes skipping an "unchanged" fetch safe.  A purge suspends it until it *)
(* resets the hash, and breaks it when it overlaps an ingestion (see       *)
(* PurgeHidesNothing).                                                     *)
HashMeansIngested ==
    hash # None /\ ~raced /\ purge # "reset" => hash \subseteq Present

(* An ingesting job is where it should be: it has fetched something, has   *)
(* something left to do exactly until it is about to record, and all it    *)
(* has done so far is in the graph (no purge took it away).  A give-up on  *)
(* tagging counts as done: the content was ingested.                       *)
OnCourse(s) ==
    /\ fetched[s] \in Contents /\ todo[s] \subseteq fetched[s]
    /\ pc[s] = "record" <=> todo[s] = {}
    /\ ~raced => /\ fetched[s] \ todo[s] \subseteq Present
                 /\ pc[s] = "tag" => NextOf(todo[s]) \in Present

IngestionsOnCourse == \A s \in Jobs : pc[s] \in Ingesting => OnCourse(s)

(* The connector implements Corpus: whatever overlaps, it vouches by its   *)
(* recorded hash for what is there, no job overwrites that word with one   *)
(* that does not hold, and only a purge takes episodes away, in a step     *)
(* that ends the word first given.  A purge that overlapped an ingestion   *)
(* voids it (see PurgeHidesNothing).                                       *)
Vouched == IF raced \/ purge = "reset" THEN None ELSE hash

Promise == INSTANCE Corpus WITH present <- Present, vouched <- Vouched

ImplementsCorpus == Promise!Spec

(* A live retriever, and a Drive connector whose files were never picked,  *)
(* never get an episode or a hash, whatever syncs are started on them and  *)
(* however old the row those syncs work on is.                             *)
NothingToIngest ==
    kind = "live" \/ (kind = "oauth" /\ ~files /\ owner # None)
        => hash = None /\ Present = {}

(* The content-hash guard at work: as long as no two syncs are in flight   *)
(* at once, every copy of a record beyond the first is paid for by a       *)
(* disturbance (a failed or abandoned sync, a changed source, a purge, a   *)
(* tenant move); scheduler passes over the same content add none.          *)
CopiesArePaidFor ==
    kind = "source" /\ ~overlapped
        => \A r \in Records : Copies(r) <= 1 + (MaxDisturbances - budget)

(* Once the source, the operators and the failures rest, every connector   *)
(* that can be ingested ends up, for good, with the hash of what the       *)
(* source holds and (unless a purge raced) with all of it in the graph:    *)
(* the scheduler repairs failed, abandoned and out-of-order syncs.         *)
Converges ==
    <>[]( \/ owner = None \/ kind = "live" \/ (kind = "oauth" /\ ~files)
          \/ hash = source /\ (raced \/ source \subseteq Present) )

(* "queued" does not stick: when the job behind it dies, or its result     *)
(* misses the row because the tenant changed, a later scheduler pass still *)
(* replaces the status.  (No pass ever visits a live retriever.)           *)
QueuedIsAnswered ==
    (status = "queued" /\ kind # "live") ~> (status # "queued" \/ owner = None)

(* app/graph/ingestion_queue.py:19, app/graph/connector_scheduler.py:13:   *)
(* "content-hash dedup ... still prevents double-ingestion".               *)
NoDoubleIngestion == \A r \in Records : Copies(r) <= 1

(* app/graph/connectors.py:165: a connector whose files are not picked yet *)
(* stays 'authorized_needs_files', "so the frontend knows to resume the    *)
(* picker"; both resuming and finalizing require that status.              *)
PendingIsResumable ==
    kind = "oauth" /\ ~files /\ owner # None => status = "authorized_needs_files"

(* app/graph/connectors.py:546: a purge must not leave a hash over content *)
(* it removed, "silently leaving the connector empty even after a real     *)
(* Sync now"; it "can be synced again immediately after this, clean".      *)
PurgeHidesNothing ==
    hash # None /\ purge = "idle" /\ Busy = {} => hash \subseteq Present
=============================================================================
