----------------------- MODULE ConnectorSync_proofs -----------------------
(***************************************************************************)
(* For any number of jobs, passes, tenants, records and disturbances: the  *)
(* types of ConnectorSync; that a recorded content hash stands for         *)
(* ingested content, and that the connector so implements Corpus; that     *)
(* nothing comes from where there is nothing to ingest; and what pays for  *)
(* the copies of a record.                                                 *)
(***************************************************************************)
EXTENDS ConnectorSync, Integers, TLAPS

USE DEF Jobs

(* What a job and the row it works on keep between steps: a busy job has a *)
(* tenant, so its result can never match a deleted row, and a deleted row  *)
(* has no hash.                                                            *)
RowsAndJobs ==
    /\ owner = None => hash = None
    /\ \A s \in Jobs : pc[s] # "idle" => tenant[s] \in Tenants

(* The inductive invariant. *)
SyncInv ==
    /\ TypeOK
    /\ RowsAndJobs
    /\ IngestionsOnCourse
    /\ HashMeansIngested

-----------------------------------------------------------------------------
(* A count stays a count, and an added copy is there. *)
LEMMA OneMoreIsACount ==
    ASSUME NEW n \in 0..MaxCopies
    PROVE  OneMore(n) \in 0..MaxCopies /\ OneMore(n) > 0 /\ OneMore(n) >= n
BY SyncAssumption, SMT DEF OneMore

(* A count that loses a copy stays a count. *)
LEMMA OneLessIsACount ==
    ASSUME NEW n \in 0..MaxCopies
    PROVE  OneLess(n) \in 0..MaxCopies
BY SyncAssumption, SMT DEF OneLess

(* The next record of a non-empty content is one of its records. *)
LEMMA NextOfIsAMember ==
    ASSUME NEW S, S # {}
    PROVE  NextOf(S) \in S
BY DEF NextOf

-----------------------------------------------------------------------------
(* A connector that was just created has no hash and no job. *)
LEMMA InitEstablishes == Init => SyncInv
<1> SUFFICES ASSUME Init PROVE SyncInv
  OBVIOUS
<1> USE SyncAssumption
<1>1. TypeOK
  <2>1. 0 \in 0..MaxCopies /\ budget \in 0..MaxDisturbances
    BY DEF Init
  <2>2. source \in Contents
    BY DEF Init, Contents
  <2>3. status \in Statuses
    BY DEF Init, Statuses
  <2> QED
    BY <2>1, <2>2, <2>3 DEF Init, TypeOK, Hashes, Steps
<1>2. RowsAndJobs
  BY DEF Init, RowsAndJobs
<1>3. IngestionsOnCourse
  BY DEF Init, IngestionsOnCourse, Ingesting
<1>4. HashMeansIngested
  BY DEF Init, HashMeansIngested
<1> QED
  BY <1>1, <1>2, <1>3, <1>4 DEF SyncInv

-----------------------------------------------------------------------------
(* Types. *)
LEMMA TypesArePreserved == SyncInv /\ [Next]_vars => TypeOK'
<1> SUFFICES ASSUME SyncInv, [Next]_vars PROVE TypeOK'
  OBVIOUS
<1> USE SyncAssumption DEF SyncInv, TypeOK, rowVars, graphVars, seenVars, jobVars, history,
                           Statuses, Hashes, Steps, Goto
<1>1. ASSUME NEW s \in Jobs, RequestSync(s) PROVE TypeOK'
  BY <1>1 DEF RequestSync, Start, ReadRow
<1>2. ASSUME NEW s \in Jobs, FinalizeFiles(s) PROVE TypeOK'
  BY <1>2 DEF FinalizeFiles, Start
<1>3. ASSUME NEW s \in Jobs, RereadRow(s) PROVE TypeOK'
  <2>1. CASE ReadRow(s) /\ Goto(s, "mark") /\ UNCHANGED <<fetched, todo>>
    BY <1>3, <2>1 DEF RereadRow, ReadRow
  <2>2. CASE Finish(s)
    BY <1>3, <2>2 DEF RereadRow, Finish
  <2> QED
    BY <1>3, <2>1, <2>2 DEF RereadRow
<1>4. ASSUME NEW s \in Jobs, MarkQueued(s) PROVE TypeOK'
  BY <1>4 DEF MarkQueued
<1>5. ASSUME NEW s \in Jobs, SchedulerSync(s) PROVE TypeOK'
  BY <1>5 DEF SchedulerSync, Start, ReadRow
<1>6. ASSUME NEW s \in Jobs, FetchFails(s) PROVE TypeOK'
  BY <1>6 DEF FetchFails, Disturb
<1>7. ASSUME NEW s \in Jobs, FetchAll(s) PROVE TypeOK'
  BY <1>7 DEF FetchAll, Fetched, Contents
<1>8. ASSUME NEW s \in Jobs, FetchSome(s) PROVE TypeOK'
  BY <1>8 DEF FetchSome, Fetched, Disturb, Contents
<1>9. ASSUME NEW s \in Jobs, IngestRecord(s) PROVE TypeOK'
  <2>1. untagged' \in [Records -> 0..MaxCopies]
    BY <1>9, OneMoreIsACount DEF IngestRecord
  <2> QED
    BY <1>9, <2>1 DEF IngestRecord
<1>10. ASSUME NEW s \in Jobs, IngestFails(s) PROVE TypeOK'
  BY <1>10, OneMoreIsACount DEF IngestFails, Disturb
<1>11. ASSUME NEW s \in Jobs, TagEpisode(s) PROVE TypeOK'
  <2>1. untagged' \in [Records -> 0..MaxCopies]
    BY <1>11, OneLessIsACount DEF TagEpisode
  <2>2. tagged' \in [Records -> 0..MaxCopies]
    BY <1>11, OneMoreIsACount DEF TagEpisode
  <2> QED
    BY <1>11, <2>1, <2>2 DEF TagEpisode, DoneWith
<1>12. ASSUME NEW s \in Jobs, TagGivesUp(s) PROVE TypeOK'
  BY <1>12 DEF TagGivesUp, DoneWith, Disturb
<1>13. ASSUME NEW s \in Jobs, RecordError(s) PROVE TypeOK'
  BY <1>13 DEF RecordError, RecordResult, Finish
<1>14. ASSUME NEW s \in Jobs, RecordUnchanged(s) PROVE TypeOK'
  BY <1>14 DEF RecordUnchanged, RecordResult, Finish
<1>15. ASSUME NEW s \in Jobs, RecordSynced(s) PROVE TypeOK'
  BY <1>15 DEF RecordSynced, RecordResult, Finish, IngestionsOnCourse, OnCourse, Ingesting
<1>16. ASSUME NEW s \in Jobs, CheckConnectivity(s) PROVE TypeOK'
  BY <1>16 DEF CheckConnectivity, Disturb
<1>17. ASSUME NEW s \in Jobs, RecordChecked(s) PROVE TypeOK'
  BY <1>17 DEF RecordChecked, RecordResult, Finish
<1>18. ASSUME NEW s \in Jobs, Abandon(s) PROVE TypeOK'
  BY <1>18 DEF Abandon, Finish, Disturb
<1>19. CASE PurgeStart
  BY <1>19 DEF PurgeStart, Disturb
<1>20. CASE PurgeEpisodes
  BY <1>20 DEF PurgeEpisodes
<1>21. CASE PurgeReset
  BY <1>21 DEF PurgeReset
<1>22. CASE PurgeDies
  BY <1>22 DEF PurgeDies, Disturb
<1>23. CASE SourceChanges
  BY <1>23 DEF SourceChanges, Disturb
<1>24. CASE ReassignTenant
  BY <1>24 DEF ReassignTenant, Disturb
<1>25. CASE DeleteConnector
  <2>1. budget' \in 0..MaxDisturbances
    BY <1>25 DEF DeleteConnector, Disturb
  <2> QED
    BY <1>25, <2>1 DEF DeleteConnector
<1>26. CASE UNCHANGED vars
  BY <1>26 DEF vars
<1> QED
  BY <1>1, <1>2, <1>3, <1>4, <1>5, <1>6, <1>7, <1>8, <1>9, <1>10, <1>11, <1>12, <1>13, <1>14, <1>15, <1>16, <1>17, <1>18, <1>19, <1>20, <1>21, <1>22, <1>23, <1>24, <1>25, <1>26
     DEF Next, JobStep, PurgeStep

-----------------------------------------------------------------------------
(* A deleted row keeps no hash, and no busy job is without a tenant. *)
LEMMA RowsAndJobsArePreserved == SyncInv /\ [Next]_vars => RowsAndJobs'
<1> SUFFICES ASSUME SyncInv, [Next]_vars PROVE RowsAndJobs'
  OBVIOUS
<1> USE SyncAssumption DEF SyncInv, RowsAndJobs, TypeOK, Goto
<1>1. ASSUME NEW s \in Jobs, RequestSync(s) \/ SchedulerSync(s) \/ FinalizeFiles(s)
      PROVE  RowsAndJobs'
  BY <1>1 DEF RequestSync, SchedulerSync, FinalizeFiles, Start, ReadRow, rowVars
<1>2. ASSUME NEW s \in Jobs, RereadRow(s) PROVE RowsAndJobs'
  BY <1>2 DEF RereadRow, ReadRow, Finish, rowVars
<1>3. ASSUME NEW s \in Jobs,
             \/ MarkQueued(s) \/ FetchFails(s) \/ FetchAll(s) \/ FetchSome(s)
             \/ CheckConnectivity(s)
      PROVE  RowsAndJobs'
  BY <1>3 DEF MarkQueued, FetchFails, FetchAll, FetchSome, CheckConnectivity, Fetched,
              rowVars, seenVars
<1>4. ASSUME NEW s \in Jobs,
             IngestRecord(s) \/ IngestFails(s) \/ TagEpisode(s) \/ TagGivesUp(s)
      PROVE  RowsAndJobs'
  BY <1>4 DEF IngestRecord, IngestFails, TagEpisode, TagGivesUp, DoneWith, rowVars, seenVars
<1>5. ASSUME NEW s \in Jobs,
             RecordError(s) \/ RecordUnchanged(s) \/ RecordSynced(s) \/ RecordChecked(s)
      PROVE  RowsAndJobs'
  <2>1. tenant[s] # None
    BY <1>5 DEF RecordError, RecordUnchanged, RecordSynced, RecordChecked
  <2>2. PICK newStatus, newHash : RecordResult(s, newStatus, newHash)
    BY <1>5 DEF RecordError, RecordUnchanged, RecordSynced, RecordChecked
  <2> QED
    BY <2>1, <2>2 DEF RecordResult, Finish
<1>6. ASSUME NEW s \in Jobs, Abandon(s) PROVE RowsAndJobs'
  BY <1>6 DEF Abandon, Finish, rowVars
<1>7. CASE PurgeStart \/ PurgeStep \/ PurgeDies
  BY <1>7 DEF PurgeStart, PurgeStep, PurgeEpisodes, PurgeReset, PurgeDies,
              rowVars, jobVars, seenVars
<1>8. CASE SourceChanges \/ ReassignTenant \/ DeleteConnector
  BY <1>8 DEF SourceChanges, ReassignTenant, DeleteConnector, rowVars, jobVars, seenVars
<1>9. CASE UNCHANGED vars
  BY <1>9 DEF vars, rowVars, jobVars, seenVars
<1> QED
  BY <1>1, <1>2, <1>3, <1>4, <1>5, <1>6, <1>7, <1>8, <1>9 DEF Next, JobStep

-----------------------------------------------------------------------------
(* Only a purge takes episodes away. *)
LEMMA EpisodesStay ==
    ASSUME SyncInv, [Next]_vars, ~PurgeEpisodes
    PROVE  Present \subseteq Present'
<1> USE SyncAssumption DEF SyncInv, TypeOK
<1> SUFFICES ASSUME NEW r \in Records, Copies(r) > 0 PROVE Copies(r)' > 0
  BY DEF Present
<1>1. TypeOK'
  BY TypesArePreserved
<1>2. CASE UNCHANGED graphVars
  BY <1>2 DEF Copies, graphVars
<1>3. ASSUME NEW s \in Jobs, IngestRecord(s) \/ IngestFails(s)
      PROVE  Copies(r)' > 0
  <2>1. tagged' = tagged
    BY <1>3 DEF IngestRecord, IngestFails
  <2>2. untagged'[r] >= untagged[r]
    BY <1>3, OneMoreIsACount DEF IngestRecord, IngestFails
  <2> QED
    BY <1>1, <2>1, <2>2 DEF Copies
<1>4. ASSUME NEW s \in Jobs, TagEpisode(s) PROVE Copies(r)' > 0
  <2>1. CASE r = NextOf(todo[s])
    <3>1. tagged'[r] > 0
      BY <1>4, <2>1, OneMoreIsACount DEF TagEpisode
    <3> QED
      BY <1>1, <3>1 DEF Copies
  <2>2. CASE r # NextOf(todo[s])
    <3>1. tagged'[r] = tagged[r] /\ untagged'[r] = untagged[r]
      BY <1>4, <2>2 DEF TagEpisode
    <3> QED
      BY <3>1 DEF Copies
  <2> QED
    BY <2>1, <2>2
<1>5. ASSUME NEW s \in Jobs, JobStep(s),
             ~IngestRecord(s), ~IngestFails(s), ~TagEpisode(s)
      PROVE  UNCHANGED graphVars
  <2>1. CASE \/ RereadRow(s) \/ MarkQueued(s) \/ FetchFails(s) \/ FetchAll(s)
             \/ FetchSome(s) \/ TagGivesUp(s) \/ CheckConnectivity(s)
    BY <2>1 DEF RereadRow, MarkQueued, FetchFails, FetchAll, FetchSome, TagGivesUp,
                CheckConnectivity
  <2>2. CASE RecordError(s) \/ RecordUnchanged(s) \/ RecordSynced(s) \/ RecordChecked(s)
    BY <2>2 DEF RecordError, RecordUnchanged, RecordSynced, RecordChecked, RecordResult
  <2> QED
    BY <1>5, <2>1, <2>2 DEF JobStep
<1>6. ASSUME NEW s \in Jobs,
             RequestSync(s) \/ FinalizeFiles(s) \/ SchedulerSync(s) \/ Abandon(s)
      PROVE  UNCHANGED graphVars
  BY <1>6 DEF RequestSync, FinalizeFiles, SchedulerSync, Abandon
<1>7. CASE \/ PurgeStart \/ PurgeReset \/ PurgeDies
           \/ SourceChanges \/ ReassignTenant \/ DeleteConnector \/ UNCHANGED vars
  <2>1. UNCHANGED graphVars
    BY <1>7 DEF PurgeStart, PurgeReset, PurgeDies, SourceChanges, ReassignTenant,
                DeleteConnector, vars
  <2> QED
    BY <1>2, <2>1
<1> QED
  BY <1>2, <1>3, <1>4, <1>5, <1>6, <1>7 DEF Next, PurgeStep

-----------------------------------------------------------------------------
(* A job that keeps its place stays on course as long as episodes stay. *)
LEMMA KeepsCourse ==
    ASSUME NEW j \in Jobs, SyncInv, Present \subseteq Present', raced => raced',
           pc[j] \in Ingesting, pc'[j] = pc[j], fetched'[j] = fetched[j], todo'[j] = todo[j]
    PROVE  OnCourse(j)'
BY DEF SyncInv, IngestionsOnCourse, OnCourse

(* No step of any actor takes an ingesting job off its course. *)
LEMMA IngestionsStayOnCourse == SyncInv /\ [Next]_vars => IngestionsOnCourse'
<1> SUFFICES ASSUME SyncInv, [Next]_vars, NEW j \in Jobs, pc'[j] \in Ingesting
             PROVE  OnCourse(j)'
  BY DEF IngestionsOnCourse
<1> USE SyncAssumption
<1>1. TypeOK /\ (pc[j] \in Ingesting => OnCourse(j))
  BY DEF SyncInv, IngestionsOnCourse
<1>2. CASE PurgeEpisodes
  <2>1. pc' = pc /\ fetched' = fetched /\ todo' = todo /\ raced'
    BY <1>2 DEF PurgeEpisodes, jobVars, Ingesting
  <2> QED
    BY <1>1, <2>1 DEF OnCourse
<1>3. CASE ~PurgeEpisodes
  <2>1. Present \subseteq Present'
    BY <1>3, EpisodesStay
  <2>2. ASSUME NEW s \in Jobs, FetchAll(s) \/ FetchSome(s) PROVE OnCourse(j)'
    <3>1. raced' = raced
      BY <2>2 DEF FetchAll, FetchSome, history
    <3>2. CASE j # s
      <4>1. pc'[j] = pc[j] /\ fetched'[j] = fetched[j] /\ todo'[j] = todo[j]
        BY <2>2, <3>2, <1>1 DEF FetchAll, FetchSome, Fetched, Goto, TypeOK
      <4> QED
        BY <2>1, <3>1, <4>1, KeepsCourse
    <3>3. CASE j = s
      <4>1. PICK content \in Contents : Fetched(s, content)
        BY <2>2, <1>1 DEF FetchAll, FetchSome, TypeOK
      <4>2. fetched'[j] = content /\ todo'[j] = content /\ pc'[j] = "ingest"
        BY <4>1, <3>3, <1>1 DEF Fetched, Goto, TypeOK, Ingesting
      <4> QED
        BY <4>2 DEF OnCourse, Contents
    <3> QED
      BY <3>2, <3>3
  <2>3. ASSUME NEW s \in Jobs, IngestRecord(s) PROVE OnCourse(j)'
    <3>1. raced' = raced /\ fetched' = fetched /\ todo' = todo
      BY <2>3 DEF IngestRecord, history
    <3>2. CASE j # s
      <4>1. pc'[j] = pc[j]
        BY <2>3, <3>2, <1>1 DEF IngestRecord, Goto, TypeOK
      <4> QED
        BY <2>1, <3>1, <4>1, KeepsCourse
    <3>3. CASE j = s
      <4>1. pc[j] = "ingest" /\ pc'[j] = "tag"
        BY <2>3, <3>3, <1>1 DEF IngestRecord, Goto, TypeOK
      <4>2. OnCourse(j)
        BY <4>1, <1>1 DEF Ingesting
      <4>3. NextOf(todo[j]) \in todo[j] /\ NextOf(todo[j]) \in Records
        BY <4>1, <4>2, NextOfIsAMember DEF OnCourse, Contents
      <4>4. TypeOK'
        BY TypesArePreserved
      <4>5. untagged'[NextOf(todo[j])] > 0
        BY <2>3, <3>3, <4>3, <1>1, OneMoreIsACount DEF IngestRecord, TypeOK
      <4>6. NextOf(todo[j]) \in Present'
        BY <4>3, <4>4, <4>5 DEF Present, Copies, TypeOK
      <4> QED
        BY <2>1, <3>1, <4>1, <4>2, <4>6 DEF OnCourse
    <3> QED
      BY <3>2, <3>3
  <2>4. ASSUME NEW s \in Jobs, TagEpisode(s) \/ TagGivesUp(s) PROVE OnCourse(j)'
    <3>1. raced' = raced /\ fetched' = fetched
      BY <2>4 DEF TagEpisode, TagGivesUp, history
    <3>2. pc[s] = "tag" /\ DoneWith(s, NextOf(todo[s]))
      BY <2>4 DEF TagEpisode, TagGivesUp
    <3>3. CASE j # s
      <4>1. pc'[j] = pc[j] /\ todo'[j] = todo[j]
        BY <3>2, <3>3, <1>1 DEF DoneWith, Goto, TypeOK
      <4> QED
        BY <2>1, <3>1, <4>1, KeepsCourse
    <3>4. CASE j = s
      <4>1. OnCourse(j)
        BY <3>2, <3>4, <1>1 DEF Ingesting
      <4>2. NextOf(todo[j]) \in todo[j]
        BY <3>2, <3>4, <4>1, NextOfIsAMember DEF OnCourse
      <4>3. /\ todo'[j] = todo[j] \ {NextOf(todo[j])}
            /\ pc'[j] = IF todo[j] = {NextOf(todo[j])} THEN "record" ELSE "ingest"
        BY <3>2, <3>4, <1>1 DEF DoneWith, Goto, TypeOK
      <4>4. pc'[j] = "record" <=> todo'[j] = {}
        BY <4>2, <4>3
      <4>5. pc'[j] # "tag"
        BY <4>3
      <4> QED
        BY <2>1, <3>1, <3>2, <3>4, <4>1, <4>3, <4>4, <4>5 DEF OnCourse
    <3> QED
      BY <3>3, <3>4
  <2>5. ASSUME NEW s \in Jobs,
               \/ RereadRow(s) \/ MarkQueued(s) \/ FetchFails(s) \/ IngestFails(s)
               \/ CheckConnectivity(s) \/ RequestSync(s) \/ FinalizeFiles(s)
               \/ SchedulerSync(s) \/ Abandon(s)
               \/ RecordError(s) \/ RecordUnchanged(s) \/ RecordSynced(s) \/ RecordChecked(s)
        PROVE  OnCourse(j)'
    <3>1. raced' = raced
      BY <2>5 DEF RereadRow, MarkQueued, FetchFails, IngestFails, CheckConnectivity,
                  RequestSync, FinalizeFiles, SchedulerSync, Abandon, RecordError,
                  RecordUnchanged, RecordSynced, RecordChecked, RecordResult, history
    <3>2. pc'[s] \notin Ingesting
      BY <2>5, <1>1 DEF RereadRow, MarkQueued, FetchFails, IngestFails, CheckConnectivity,
                  RequestSync, FinalizeFiles, SchedulerSync, Abandon, RecordError,
                  RecordUnchanged, RecordSynced, RecordChecked, RecordResult,
                  Start, Finish, Goto, TypeOK, Ingesting
    <3>3. pc'[j] = pc[j] /\ fetched'[j] = fetched[j] /\ todo'[j] = todo[j]
      BY <2>5, <3>2, <1>1 DEF RereadRow, MarkQueued, FetchFails, IngestFails,
                  CheckConnectivity, RequestSync, FinalizeFiles, SchedulerSync, Abandon,
                  RecordError, RecordUnchanged, RecordSynced, RecordChecked, RecordResult,
                  Start, Finish, Goto, TypeOK
    <3> QED
      BY <2>1, <3>1, <3>3, KeepsCourse
  <2>6. CASE \/ PurgeStart \/ PurgeReset \/ PurgeDies
             \/ SourceChanges \/ ReassignTenant \/ DeleteConnector \/ UNCHANGED vars
    <3>1. pc' = pc /\ fetched' = fetched /\ todo' = todo
      BY <2>6 DEF PurgeStart, PurgeReset, PurgeDies, SourceChanges, ReassignTenant,
                  DeleteConnector, vars, jobVars
    <3>2. raced => raced'
      BY <2>6 DEF PurgeStart, PurgeReset, PurgeDies, SourceChanges, ReassignTenant,
                  DeleteConnector, vars, history
    <3> QED
      BY <2>1, <3>1, <3>2, KeepsCourse
  <2> QED
    BY <1>3, <2>2, <2>3, <2>4, <2>5, <2>6 DEF Next, JobStep, PurgeStep
<1> QED
  BY <1>2, <1>3

-----------------------------------------------------------------------------
(* A hash that stays is covered as long as episodes stay. *)
LEMMA HashStaysCovered ==
    ASSUME SyncInv, Present \subseteq Present', raced => raced', hash' = hash,
           purge = "reset" => purge' = "reset"
    PROVE  HashMeansIngested'
BY DEF SyncInv, HashMeansIngested

(* No step records a hash over content that is not in the graph. *)
LEMMA HashKeepsItsMeaning == SyncInv /\ [Next]_vars => HashMeansIngested'
<1> SUFFICES ASSUME SyncInv, [Next]_vars PROVE HashMeansIngested'
  OBVIOUS
<1>1. CASE PurgeEpisodes
  BY <1>1 DEF PurgeEpisodes, HashMeansIngested
<1>2. CASE ~PurgeEpisodes
  <2>1. Present \subseteq Present'
    BY <1>2, EpisodesStay
  <2>2. ASSUME NEW s \in Jobs, RecordSynced(s) PROVE HashMeansIngested'
    <3>1. raced' = raced /\ purge' = purge
      BY <2>2 DEF RecordSynced, RecordResult, history
    <3>2. CASE hash' = hash
      BY <2>1, <3>1, <3>2, HashStaysCovered
    <3>3. CASE hash' # hash
      <4>1. hash' = fetched[s]
        BY <2>2, <3>3 DEF RecordSynced, RecordResult
      <4>2. OnCourse(s) /\ todo[s] = {}
        BY <2>2 DEF SyncInv, IngestionsOnCourse, OnCourse, Ingesting, RecordSynced
      <4>3. ~raced => fetched[s] \subseteq Present
        BY <4>2 DEF OnCourse
      <4> QED
        BY <2>1, <3>1, <4>1, <4>3 DEF HashMeansIngested
    <3> QED
      BY <3>2, <3>3
  <2>3. ASSUME NEW s \in Jobs, JobStep(s), ~RecordSynced(s) PROVE HashMeansIngested'
    <3>1. CASE \/ RereadRow(s) \/ MarkQueued(s) \/ FetchFails(s) \/ FetchAll(s)
               \/ FetchSome(s) \/ IngestRecord(s) \/ IngestFails(s)
               \/ TagEpisode(s) \/ TagGivesUp(s) \/ CheckConnectivity(s)
      <4>1. raced' = raced /\ purge' = purge /\ hash' = hash
        BY <3>1 DEF RereadRow, MarkQueued, FetchFails, FetchAll, FetchSome, IngestRecord,
                    IngestFails, TagEpisode, TagGivesUp, CheckConnectivity, rowVars, history
      <4> QED
        BY <2>1, <4>1, HashStaysCovered
    <3>2. CASE RecordError(s) \/ RecordUnchanged(s) \/ RecordChecked(s)
      <4>1. raced' = raced /\ purge' = purge /\ hash' = hash
        BY <3>2 DEF RecordError, RecordUnchanged, RecordChecked, RecordResult, history
      <4> QED
        BY <2>1, <4>1, HashStaysCovered
    <3> QED
      BY <2>3, <3>1, <3>2 DEF JobStep
  <2>4. ASSUME NEW s \in Jobs,
               RequestSync(s) \/ FinalizeFiles(s) \/ SchedulerSync(s) \/ Abandon(s)
        PROVE  HashMeansIngested'
    <3>1. raced' = raced /\ purge' = purge /\ hash' = hash
      BY <2>4 DEF RequestSync, FinalizeFiles, SchedulerSync, Abandon, rowVars, history
    <3> QED
      BY <2>1, <3>1, HashStaysCovered
  <2>5. CASE PurgeReset
    <3>1. hash' = None
      BY <2>5 DEF PurgeReset, SyncInv, RowsAndJobs
    <3> QED
      BY <3>1 DEF HashMeansIngested
  <2>6. CASE PurgeDies
    <3>1. CASE purge = "reset"
      BY <2>6, <3>1 DEF PurgeDies, HashMeansIngested
    <3>2. CASE purge # "reset"
      <4>1. hash' = hash /\ (raced => raced')
        BY <2>6 DEF PurgeDies, rowVars
      <4> QED
        BY <2>1, <3>2, <4>1, HashStaysCovered
    <3> QED
      BY <3>1, <3>2
  <2>7. CASE DeleteConnector
    BY <2>7 DEF DeleteConnector, HashMeansIngested
  <2>8. CASE PurgeStart \/ SourceChanges \/ ReassignTenant \/ UNCHANGED vars
    <3>1. raced' = raced /\ hash' = hash /\ (purge = "reset" => purge' = "reset")
      BY <2>8 DEF PurgeStart, SourceChanges, ReassignTenant, vars, rowVars, history
    <3> QED
      BY <2>1, <3>1, HashStaysCovered
  <2> QED
    BY <1>2, <2>2, <2>3, <2>4, <2>5, <2>6, <2>7, <2>8 DEF Next, PurgeStep
<1> QED
  BY <1>1, <1>2

-----------------------------------------------------------------------------
(* What there is nothing to ingest from: a live retriever, a Drive         *)
(* connector without picked files.                                         *)
Barren == kind = "live" \/ (kind = "oauth" /\ ~files /\ owner # None)

(* No job on it has gone further than its fetch, nor will one: the rows    *)
(* that jobs work on have no files either.                                 *)
BarrenInv ==
    Barren => /\ hash = None
              /\ \A r \in Records : tagged[r] = 0 /\ untagged[r] = 0
              /\ \A s \in Jobs : pc[s] \notin Ingesting \cup {"unchanged"}
              /\ kind = "oauth" => \A s \in Jobs : ~seenFiles[s]

(* A connector that was just created has nothing in the graph. *)
LEMMA InitBarren == Init => BarrenInv
BY DEF Init, BarrenInv, Ingesting

(* What has nothing to ingest had nothing before: files are never taken    *)
(* back from a connector that stays.                                       *)
LEMMA BarrenWas == SyncInv /\ [Next]_vars /\ Barren' => Barren /\ kind' = kind
<1> SUFFICES ASSUME SyncInv, [Next]_vars, Barren' PROVE Barren /\ kind' = kind
  OBVIOUS
<1>1. kind' = kind
  BY DEF Next, JobStep, PurgeStep, RequestSync, FinalizeFiles, SchedulerSync, RereadRow,
         MarkQueued, FetchFails, FetchAll, FetchSome, IngestRecord, IngestFails, TagEpisode,
         TagGivesUp, RecordError, RecordUnchanged, RecordSynced, CheckConnectivity,
         RecordChecked, RecordResult, Abandon, PurgeStart, PurgeEpisodes, PurgeReset,
         PurgeDies, SourceChanges, ReassignTenant, DeleteConnector, vars
<1>2. owner' # None => owner # None /\ (files => files')
  BY DEF Next, JobStep, PurgeStep, RequestSync, FinalizeFiles, SchedulerSync, RereadRow,
         MarkQueued, FetchFails, FetchAll, FetchSome, IngestRecord, IngestFails, TagEpisode,
         TagGivesUp, RecordError, RecordUnchanged, RecordSynced, CheckConnectivity,
         RecordChecked, RecordResult, Abandon, PurgeStart, PurgeEpisodes, PurgeReset,
         PurgeDies, SourceChanges, ReassignTenant, DeleteConnector, vars, rowVars
<1> QED
  BY <1>1, <1>2 DEF Barren

(* No step takes a job on it past its fetch. *)
LEMMA BarrenStays == SyncInv /\ BarrenInv /\ [Next]_vars => BarrenInv'
<1> SUFFICES ASSUME SyncInv, BarrenInv, [Next]_vars, Barren' PROVE BarrenInv'
  BY DEF BarrenInv
<1>1. /\ Barren /\ hash = None
      /\ \A r \in Records : tagged[r] = 0 /\ untagged[r] = 0
      /\ \A s \in Jobs : pc[s] \notin Ingesting \cup {"unchanged"}
      /\ kind = "oauth" => \A s \in Jobs : ~seenFiles[s]
      /\ kind' = kind
  BY BarrenWas DEF BarrenInv
<1>2. \A s \in Jobs : kind # "live" => ~CanFetch(s)
  BY <1>1 DEF Barren, CanFetch
<1> USE DEF SyncInv, TypeOK, Goto
<1>3. ASSUME NEW s \in Jobs, RequestSync(s) \/ SchedulerSync(s) PROVE BarrenInv'
  <2>1. kind = "oauth" => ~files
    BY <1>1 DEF Barren
  <2> QED
    BY <1>1, <1>3, <2>1 DEF BarrenInv, RequestSync, SchedulerSync, Start, ReadRow, rowVars,
                            graphVars, Ingesting
<1>4. ASSUME NEW s \in Jobs, FinalizeFiles(s) PROVE FALSE
  BY <1>1, <1>4 DEF FinalizeFiles, Barren
<1>5. ASSUME NEW s \in Jobs, RereadRow(s) \/ Abandon(s) PROVE BarrenInv'
  <2>1. kind = "oauth" => ~files
    BY <1>1 DEF Barren
  <2> QED
    BY <1>1, <1>5, <2>1 DEF BarrenInv, RereadRow, Abandon, ReadRow, Finish, rowVars, graphVars,
                            Ingesting
<1>6. ASSUME NEW s \in Jobs, MarkQueued(s) \/ FetchFails(s) \/ CheckConnectivity(s)
      PROVE  BarrenInv'
  BY <1>1, <1>6 DEF BarrenInv, MarkQueued, FetchFails, CheckConnectivity, rowVars, graphVars,
                    seenVars, Ingesting
<1>7. ASSUME NEW s \in Jobs,
             \/ FetchAll(s) \/ FetchSome(s) \/ IngestRecord(s) \/ IngestFails(s)
             \/ TagEpisode(s) \/ TagGivesUp(s) \/ RecordSynced(s) \/ RecordUnchanged(s)
      PROVE  FALSE
  BY <1>1, <1>2, <1>7 DEF FetchAll, FetchSome, IngestRecord, IngestFails, TagEpisode, TagGivesUp,
                          RecordSynced, RecordUnchanged, Ingesting
<1>8. ASSUME NEW s \in Jobs, RecordError(s) \/ RecordChecked(s) PROVE BarrenInv'
  BY <1>1, <1>8 DEF BarrenInv, RecordError, RecordChecked, RecordResult, Finish, graphVars,
                    Ingesting
<1>9. CASE \/ PurgeStart \/ PurgeStep \/ PurgeDies \/ SourceChanges \/ ReassignTenant
           \/ DeleteConnector \/ UNCHANGED vars
  BY <1>1, <1>9 DEF BarrenInv, PurgeStart, PurgeStep, PurgeEpisodes, PurgeReset, PurgeDies,
                    SourceChanges, ReassignTenant, DeleteConnector, vars, rowVars, graphVars,
                    jobVars, seenVars
<1> QED
  BY <1>3, <1>4, <1>5, <1>6, <1>7, <1>8, <1>9 DEF Next, JobStep

-----------------------------------------------------------------------------
(* Disturbances that nothing has been charged to.  A purge is paid for     *)
(* when it starts and takes effect when it resets the hash: until then     *)
(* its payment is reserved.                                                *)
Free == (MaxDisturbances - budget) - (IF purge = "idle" THEN 0 ELSE 1)

Early(s)   == pc[s] \in {"mark", "fetch"}
Ingests(s) == pc[s] \in Ingesting

(* The job has ingested its copy of r. *)
CountedFor(s, r) ==
    r \in fetched[s] \ todo[s] \/ (pc[s] = "tag" /\ r = NextOf(todo[s]))

(* Syncs one at a time: what is about to be tagged is still untagged. *)
OneByOne ==
    /\ \A s, u \in Jobs : pc[s] # "idle" /\ pc[u] # "idle" => s = u
    /\ \A s \in Jobs : pc[s] # "reread"
    /\ \A s \in Jobs : pc[s] = "tag" => untagged[NextOf(todo[s])] > 0

(* A row whose hash is up to date has one copy for free: the next sync     *)
(* adds none.                                                              *)
RestPaid(r) == Copies(r) <= (IF hash = source THEN 1 ELSE 0) + Free

(* The same of the hash in a job's hands.  A job that has lost its row     *)
(* records nothing, so its copies come on top.                             *)
EarlyPaid(s, r) ==
    Copies(r) <= (IF seenHash[s] = source THEN 1 ELSE 0)
                 - (IF owner = tenant[s] THEN 0 ELSE 1) + Free

(* What a job has ingested is free if its result will be up to date. *)
InHandPaid(s, r) ==
    Copies(r) <= (IF CountedFor(s, r) THEN 1 ELSE 0)
                 - (IF fetched[s] = source /\ owner = tenant[s] THEN 0 ELSE 1) + Free

AllPaid ==
    /\ OneByOne
    /\ (\A s \in Jobs : ~Ingests(s)) => \A r \in Records : RestPaid(r)
    /\ \A s \in Jobs : Early(s) => \A r \in Records : EarlyPaid(s, r)
    /\ \A s \in Jobs : Ingests(s) => \A r \in Records : InHandPaid(s, r)

PaidInv == kind = "source" /\ ~overlapped => AllPaid

(* At first there is nothing to pay for. *)
LEMMA InitPaid == Init => PaidInv
<1> SUFFICES ASSUME Init PROVE AllPaid
  BY DEF PaidInv
<1>1. \A r \in Records : RestPaid(r)
  BY SyncAssumption DEF Init, RestPaid, Copies, Free
<1> QED
  BY <1>1 DEF Init, AllPaid, OneByOne, Early, Ingests, Ingesting

(* What the bounds are made of, before a step and after it. *)
LEMMA CountTypes ==
    ASSUME TypeOK, TypeOK'
    PROVE  /\ Free \in Int /\ Free' \in Int
           /\ budget \in Int /\ budget' \in Int
           /\ \A r \in Records : /\ Copies(r) \in Nat /\ Copies(r)' \in Nat
                                 /\ tagged[r] \in 0..MaxCopies /\ untagged[r] \in 0..MaxCopies
                                 /\ tagged'[r] \in 0..MaxCopies /\ untagged'[r] \in 0..MaxCopies
<1> USE SyncAssumption
<1>1. /\ budget \in 0..MaxDisturbances /\ budget' \in 0..MaxDisturbances
      /\ Free \in Int /\ Free' \in Int
  BY DEF TypeOK, Free
<1>2. \A r \in Records : Copies(r) \in Nat /\ tagged[r] \in 0..MaxCopies /\ untagged[r] \in 0..MaxCopies
  BY DEF TypeOK, Copies
<1>3. \A r \in Records :
        Copies(r)' \in Nat /\ tagged'[r] \in 0..MaxCopies /\ untagged'[r] \in 0..MaxCopies
  BY DEF TypeOK, Copies
<1> QED
  BY <1>1, <1>2, <1>3

(* A job begins with the hash of the row it reads. *)
LEMMA BeginPaid ==
    ASSUME SyncInv, SyncInv', AllPaid, NEW s \in Jobs, RequestSync(s) \/ SchedulerSync(s),
           ~overlapped'
    PROVE  AllPaid'
<1> USE DEF SyncInv
<1>1. /\ pc[s] = "idle" /\ Busy = {} /\ pc' \in [Jobs -> Steps]
      /\ pc' = [pc EXCEPT ![s] = pc'[s]] /\ pc'[s] \in {"mark", "fetch"}
      /\ tenant' = [tenant EXCEPT ![s] = owner] /\ seenHash' = [seenHash EXCEPT ![s] = hash]
      /\ UNCHANGED <<rowVars, source, graphVars, fetched, todo, purge, budget>>
  BY DEF TypeOK, RequestSync, SchedulerSync, Start, Goto, ReadRow
<1>2. \A u \in Jobs : pc[u] = "idle" /\ (u # s => pc'[u] = "idle")
  BY <1>1 DEF Busy, TypeOK
<1>3. \A r \in Records : RestPaid(r)
  BY <1>2 DEF AllPaid, Ingests, Ingesting
<1>4. \A r \in Records : RestPaid(r)' /\ EarlyPaid(s, r)'
  BY <1>1, <1>3, CountTypes DEF TypeOK, RestPaid, EarlyPaid, Free, Copies, rowVars, graphVars
<1>5. \A u \in Jobs : ~Ingests(u)' /\ (Early(u)' => u = s)
  BY <1>1, <1>2 DEF Ingests, Ingesting, Early
<1>6. OneByOne'
  BY <1>1, <1>2 DEF OneByOne
<1> QED
  BY <1>4, <1>5, <1>6 DEF AllPaid

(* A job that changes nothing but its own step, or ends. *)
LEMMA EndPaid ==
    ASSUME SyncInv, SyncInv', AllPaid, NEW s \in Jobs, pc[s] # "idle",
           pc' = [pc EXCEPT ![s] = pc'[s]], pc'[s] \in {"idle", "unchanged", "error", "checked"},
           UNCHANGED <<source, graphVars, purge>>, budget' <= budget,
           Ingests(s) => budget' < budget \/ (hash' = source /\ fetched[s] = source)
                                          \/ (fetched[s] # source \/ owner # tenant[s]),
           ~Ingests(s) => hash' = hash
    PROVE  AllPaid'
<1> USE DEF SyncInv
<1>1. \A u \in Jobs : u # s => pc[u] = "idle" /\ pc'[u] = "idle"
  BY DEF AllPaid, OneByOne, TypeOK
<1>2. \A u \in Jobs : ~Ingests(u)' /\ ~Early(u)'
  BY <1>1 DEF Ingests, Ingesting, Early
<1>3. OneByOne'
  BY <1>1 DEF OneByOne
<1>4. ASSUME NEW r \in Records PROVE RestPaid(r)'
  <2>1. Copies(r)' = Copies(r) /\ Free' \in Int /\ Free \in Int /\ Copies(r) \in Nat
        /\ budget \in Int /\ budget' \in Int /\ Free' = Free + (budget - budget')
    BY CountTypes, SyncAssumption DEF Copies, graphVars, Free
  <2>2. CASE Ingests(s)
    <3>1. InHandPaid(s, r)
      BY <2>2 DEF AllPaid
    <3> QED
      BY <2>1, <2>2, <3>1 DEF InHandPaid, RestPaid
  <2>3. CASE ~Ingests(s)
    <3>1. RestPaid(r)
      BY <1>1, <2>3 DEF AllPaid, Ingests, Ingesting
    <3> QED
      BY <2>1, <2>3, <3>1 DEF RestPaid
  <2> QED
    BY <2>2, <2>3
<1> QED
  BY <1>2, <1>3, <1>4 DEF AllPaid

(* Marking the row queued changes neither its hash nor the job's. *)
LEMMA MarkPaid ==
    ASSUME SyncInv, SyncInv', AllPaid, NEW s \in Jobs, MarkQueued(s)
    PROVE  AllPaid'
<1> USE DEF SyncInv
<1>1. /\ pc[s] = "mark" /\ pc' = [pc EXCEPT ![s] = "fetch"]
      /\ UNCHANGED <<owner, hash, source, graphVars, seenVars, fetched, todo, purge, budget>>
  BY DEF MarkQueued, Goto
<1>2. \A u \in Jobs : u # s => pc[u] = "idle" /\ pc'[u] = "idle"
  BY <1>1 DEF AllPaid, OneByOne, TypeOK
<1>3. pc'[s] = "fetch"
  BY <1>1 DEF TypeOK
<1>4. \A u \in Jobs : ~Ingests(u) /\ ~Ingests(u)' /\ (Early(u)' => u = s)
  BY <1>1, <1>2, <1>3 DEF Ingests, Ingesting, Early
<1>5. \A r \in Records : RestPaid(r) /\ EarlyPaid(s, r)
  BY <1>1, <1>4 DEF AllPaid, Early
<1>6. \A r \in Records : RestPaid(r)' /\ EarlyPaid(s, r)'
  BY <1>1, <1>5 DEF RestPaid, EarlyPaid, Free, Copies, graphVars, seenVars
<1>7. OneByOne'
  BY <1>2, <1>3 DEF OneByOne
<1> QED
  BY <1>4, <1>6, <1>7 DEF AllPaid

(* A fetch that differs from the hash in the job's hands leaves room for a *)
(* copy of each of its records.                                            *)
LEMMA FetchPaid ==
    ASSUME SyncInv, SyncInv', AllPaid, NEW s \in Jobs, FetchAll(s)
    PROVE  AllPaid'
<1> USE DEF SyncInv
<1>1. /\ pc[s] = "fetch" /\ Fetched(s, source)
      /\ UNCHANGED <<rowVars, source, graphVars, seenVars, purge, history, budget>>
  BY DEF FetchAll
<1>2. CASE SameAsLastSync(s, source)
  <2>1. pc' = [pc EXCEPT ![s] = "unchanged"] /\ pc'[s] = "unchanged" /\ ~Ingests(s)
    BY <1>1, <1>2 DEF Fetched, Goto, TypeOK, Ingests, Ingesting
  <2>2. /\ pc[s] # "idle" /\ pc' = [pc EXCEPT ![s] = pc'[s]] /\ budget' <= budget
        /\ hash' = hash /\ UNCHANGED <<source, graphVars, purge>>
    <3>1. budget' = budget /\ pc[s] # "idle"
      BY <1>1
    <3>2. budget' <= budget
      BY <3>1, CountTypes
    <3> QED
      BY <1>1, <2>1, <3>1, <3>2 DEF rowVars
  <2> QED
    BY <2>1, <2>2, EndPaid
<1>3. CASE ~SameAsLastSync(s, source)
  <2>1. /\ pc' = [pc EXCEPT ![s] = "ingest"] /\ pc'[s] = "ingest" /\ seenHash[s] # source
        /\ fetched'[s] = source /\ todo'[s] = source
    BY <1>1, <1>3 DEF Fetched, Goto, TypeOK, SameAsLastSync
  <2>2. \A u \in Jobs : u # s => pc[u] = "idle" /\ pc'[u] = "idle"
    BY <1>1, <2>1 DEF AllPaid, OneByOne, TypeOK
  <2>3. \A r \in Records : EarlyPaid(s, r)
    BY <1>1 DEF AllPaid, Early
  <2>4. \A r \in Records : InHandPaid(s, r)'
    <3> SUFFICES ASSUME NEW r \in Records PROVE InHandPaid(s, r)'
      OBVIOUS
    <3>1. ~CountedFor(s, r)'
      BY <2>1 DEF CountedFor
    <3>2. Copies(r)' = Copies(r) /\ Free' = Free /\ UNCHANGED <<owner, tenant, source>>
      BY <1>1 DEF Copies, Free, graphVars, rowVars, seenVars
    <3>3. EarlyPaid(s, r)
      BY <2>3
    <3> QED
      BY <2>1, <3>1, <3>2, <3>3 DEF EarlyPaid, InHandPaid
  <2>5. Ingests(s)' /\ \A u \in Jobs : (Ingests(u)' => u = s) /\ ~Early(u)'
    BY <2>1, <2>2 DEF Ingests, Ingesting, Early
  <2>6. OneByOne'
    BY <2>1, <2>2 DEF OneByOne
  <2> QED
    BY <2>4, <2>5, <2>6 DEF AllPaid
<1> QED
  BY <1>2, <1>3

(* An ingesting job that keeps ingesting. *)
LEMMA StillIngesting ==
    ASSUME SyncInv, SyncInv', AllPaid, NEW s \in Jobs, Ingests(s),
           pc' = [pc EXCEPT ![s] = pc'[s]], Ingests(s)',
           pc'[s] = "tag" => untagged'[NextOf(todo'[s])] > 0,
           \A r \in Records : InHandPaid(s, r)'
    PROVE  AllPaid'
<1>1. \A u \in Jobs : u # s => pc[u] = "idle" /\ pc'[u] = "idle"
  BY DEF AllPaid, OneByOne, Ingests, Ingesting, SyncInv, TypeOK
<1>2. \A u \in Jobs : (Ingests(u)' => u = s) /\ ~Early(u)'
  BY <1>1 DEF Ingests, Ingesting, Early
<1>3. OneByOne'
  BY <1>1 DEF OneByOne, Ingests, Ingesting
<1> QED
  BY <1>2, <1>3 DEF AllPaid

(* The next record of an ingesting job. *)
LEMMA NextRecord ==
    ASSUME SyncInv, NEW s \in Jobs, pc[s] \in {"ingest", "tag"}
    PROVE  /\ NextOf(todo[s]) \in todo[s] /\ NextOf(todo[s]) \in fetched[s]
           /\ NextOf(todo[s]) \in Records /\ OnCourse(s) /\ Ingests(s)
<1>1. OnCourse(s) /\ Ingests(s)
  BY DEF SyncInv, IngestionsOnCourse, Ingesting, Ingests
<1>2. todo[s] # {}
  BY <1>1 DEF OnCourse
<1> QED
  BY <1>1, <1>2, NextOfIsAMember DEF OnCourse, SyncInv, TypeOK

(* add_episode: one copy more of the next record, which had none of this   *)
(* sync.                                                                   *)
LEMMA IngestPaid ==
    ASSUME SyncInv, SyncInv', AllPaid, NEW s \in Jobs, IngestRecord(s)
    PROVE  AllPaid'
<1> USE DEF SyncInv
<1> DEFINE n == NextOf(todo[s])
<1>1. /\ pc[s] = "ingest" /\ pc' = [pc EXCEPT ![s] = "tag"] /\ pc'[s] = "tag"
      /\ untagged' = [untagged EXCEPT ![n] = OneMore(@)]
      /\ UNCHANGED <<rowVars, source, tagged, seenVars, fetched, todo, purge, budget>>
  BY DEF IngestRecord, Goto, TypeOK
<1>2. n \in Records /\ n \in todo[s] /\ Ingests(s)
  BY <1>1, NextRecord
<1>3. untagged'[n] > 0 /\ untagged'[n] <= untagged[n] + 1
  BY <1>1, <1>2, CountTypes, SyncAssumption DEF TypeOK, OneMore
<1>4. ASSUME NEW r \in Records PROVE InHandPaid(s, r)'
  <2>1. InHandPaid(s, r)
    BY <1>2 DEF AllPaid
  <2>2. Free' = Free /\ UNCHANGED <<owner, tenant, source, fetched, todo>>
    BY <1>1 DEF Free, rowVars, seenVars
  <2>3. CASE r = n
    <3>1. ~CountedFor(s, r) /\ CountedFor(s, r)'
      BY <1>1, <1>2, <2>2, <2>3 DEF CountedFor
    <3>2. Copies(r)' <= Copies(r) + 1 /\ Copies(r) \in Nat /\ Copies(r)' \in Nat /\ Free \in Int
      BY <1>1, <1>3, <2>3, CountTypes DEF Copies
    <3> QED
      BY <2>1, <2>2, <3>1, <3>2 DEF InHandPaid
  <2>4. CASE r # n
    <3>1. Copies(r)' = Copies(r)
      BY <1>1, <1>2, <2>4 DEF Copies, TypeOK
    <3>2. CountedFor(s, r)' <=> CountedFor(s, r)
      BY <1>1, <2>2, <2>4 DEF CountedFor
    <3> QED
      BY <2>1, <2>2, <3>1, <3>2 DEF InHandPaid
  <2> QED
    BY <2>3, <2>4
<1>5. Ingests(s)'
  BY <1>1 DEF Ingests, Ingesting
<1> QED
  BY <1>1, <1>2, <1>3, <1>4, <1>5, StillIngesting

(* add_episode raises, and may have left its episode: a disturbance. *)
LEMMA IngestFailsPaid ==
    ASSUME SyncInv, SyncInv', AllPaid, NEW s \in Jobs, IngestFails(s)
    PROVE  AllPaid'
<1> USE DEF SyncInv
<1> DEFINE n == NextOf(todo[s])
<1>1. /\ pc[s] = "ingest" /\ pc' = [pc EXCEPT ![s] = "error"] /\ budget' = budget - 1
      /\ untagged' = untagged \/ untagged' = [untagged EXCEPT ![n] = OneMore(@)]
      /\ UNCHANGED <<rowVars, source, tagged, seenVars, fetched, todo, purge>>
  BY DEF IngestFails, Goto, TypeOK, Disturb
<1>2. n \in Records /\ n \in todo[s] /\ Ingests(s)
  BY <1>1, NextRecord
<1>3. untagged'[n] <= untagged[n] + 1
  BY <1>1, <1>2, CountTypes, SyncAssumption DEF TypeOK, OneMore
<1>4. ASSUME NEW r \in Records PROVE RestPaid(r)'
  <2>1. InHandPaid(s, r)
    BY <1>2 DEF AllPaid
  <2>2. Free' = Free + 1 /\ Free \in Int /\ Copies(r) \in Nat /\ Copies(r)' \in Nat
    BY <1>1, CountTypes, SyncAssumption DEF Free
  <2>3. CASE r = n
    <3>1. ~CountedFor(s, r)
      BY <1>1, <1>2, <2>3 DEF CountedFor
    <3>2. Copies(r)' <= Copies(r) + 1
      BY <1>1, <1>3, <2>3, CountTypes DEF Copies
    <3> QED
      BY <2>1, <2>2, <3>1, <3>2 DEF InHandPaid, RestPaid
  <2>4. CASE r # n
    <3>1. Copies(r)' = Copies(r)
      BY <1>1, <1>2, <2>4 DEF Copies, TypeOK
    <3> QED
      BY <2>1, <2>2, <3>1 DEF InHandPaid, RestPaid
  <2> QED
    BY <2>3, <2>4
<1>5. \A u \in Jobs : u # s => pc[u] = "idle" /\ pc'[u] = "idle"
  BY <1>1 DEF AllPaid, OneByOne, TypeOK
<1>6. pc'[s] = "error"
  BY <1>1 DEF TypeOK
<1>7. \A u \in Jobs : ~Ingests(u)' /\ ~Early(u)'
  BY <1>5, <1>6 DEF Ingests, Ingesting, Early
<1>8. OneByOne'
  BY <1>5, <1>6 DEF OneByOne
<1> QED
  BY <1>4, <1>7, <1>8 DEF AllPaid

(* Tagging moves a copy, it makes none; giving up on it leaves one that is *)
(* counted for.                                                            *)
LEMMA TagPaid ==
    ASSUME SyncInv, SyncInv', AllPaid, NEW s \in Jobs, TagEpisode(s) \/ TagGivesUp(s)
    PROVE  AllPaid'
<1> USE DEF SyncInv
<1> DEFINE n == NextOf(todo[s])
<1>1. /\ pc[s] = "tag" /\ DoneWith(s, n) /\ budget' <= budget
      /\ UNCHANGED <<rowVars, source, seenVars, fetched, purge>>
  BY DEF TagEpisode, TagGivesUp, Disturb, TypeOK
<1>2. n \in Records /\ n \in todo[s] /\ n \in fetched[s] /\ Ingests(s) /\ untagged[n] > 0
  BY <1>1, NextRecord DEF AllPaid, OneByOne
<1>3. /\ todo'[s] = todo[s] \ {n} /\ pc'[s] \in {"record", "ingest"}
      /\ pc' = [pc EXCEPT ![s] = pc'[s]]
  BY <1>1 DEF DoneWith, Goto, TypeOK
<1>4. ASSUME NEW r \in Records PROVE Copies(r)' <= Copies(r)
  <2>1. CASE TagGivesUp(s)
    BY <2>1, CountTypes DEF TagGivesUp, Copies, graphVars
  <2>2. CASE TagEpisode(s) /\ r = n
    <3>1. tagged'[n] = OneMore(tagged[n]) /\ untagged'[n] = OneLess(untagged[n])
      BY <1>2, <2>2 DEF TagEpisode, TypeOK
    <3>2. tagged[n] \in 0..MaxCopies /\ untagged[n] \in 0..MaxCopies
      BY <1>2, CountTypes
    <3>3. OneMore(tagged[n]) <= tagged[n] + 1 /\ OneLess(untagged[n]) = untagged[n] - 1
      BY <1>2, <3>2, SyncAssumption DEF OneMore, OneLess
    <3>4. OneMore(tagged[n]) \in Int /\ OneLess(untagged[n]) \in Int
      BY <3>2, OneMoreIsACount, OneLessIsACount, SyncAssumption
    <3> QED
      BY <2>2, <3>1, <3>2, <3>3, <3>4, SyncAssumption DEF Copies
  <2>3. CASE TagEpisode(s) /\ r # n
    BY <1>2, <2>3, CountTypes DEF TagEpisode, Copies, TypeOK
  <2> QED
    BY <2>1, <2>2, <2>3
<1>5. ASSUME NEW r \in Records PROVE InHandPaid(s, r)'
  <2>1. InHandPaid(s, r)
    BY <1>2 DEF AllPaid
  <2>2. Free' >= Free /\ Free \in Int /\ Free' \in Int /\ Copies(r) \in Nat /\ Copies(r)' \in Nat
    BY <1>1, CountTypes, SyncAssumption DEF Free
  <2>3. UNCHANGED <<owner, tenant, source, fetched>>
    BY <1>1 DEF rowVars, seenVars
  <2>4. CountedFor(s, r) => CountedFor(s, r)'
    BY <1>1, <1>2, <1>3, <2>3 DEF CountedFor
  <2> QED
    BY <1>4, <2>1, <2>2, <2>3, <2>4 DEF InHandPaid
<1>6. Ingests(s)'
  BY <1>3 DEF Ingests, Ingesting
<1> QED
  BY <1>2, <1>3, <1>5, <1>6, StillIngesting

(* Steps of purges, operators and the source, under jobs that stand still. *)
LEMMA DisturbedPaid ==
    ASSUME SyncInv, SyncInv', AllPaid,
           UNCHANGED <<jobVars, untagged>>, \A r \in Records : Copies(r)' <= Copies(r),
           Free' = Free \/ Free' > Free,
           Free' = Free => UNCHANGED <<owner, source, hash>>,
           UNCHANGED owner \/ UNCHANGED source
    PROVE  AllPaid'
<1> USE DEF SyncInv
<1>1. /\ UNCHANGED <<pc, tenant, seenHash, fetched, todo>>
      /\ \A u \in Jobs : (Early(u)' <=> Early(u)) /\ (Ingests(u)' <=> Ingests(u))
  BY DEF jobVars, seenVars, Early, Ingests
<1>2. OneByOne'
  BY <1>1 DEF AllPaid, OneByOne
<1> SUFFICES ASSUME NEW r \in Records
             PROVE  /\ (\A u \in Jobs : ~Ingests(u)) => RestPaid(r)'
                    /\ \A u \in Jobs : Early(u) => EarlyPaid(u, r)'
                    /\ \A u \in Jobs : Ingests(u) => InHandPaid(u, r)'
  BY <1>1, <1>2 DEF AllPaid
<1>3. Copies(r)' <= Copies(r) /\ Copies(r) \in Nat /\ Copies(r)' \in Nat
     /\ Free \in Int /\ Free' \in Int
  BY CountTypes
<1>4. ASSUME \A u \in Jobs : ~Ingests(u) PROVE RestPaid(r)'
  BY <1>3, <1>4 DEF AllPaid, RestPaid
<1>5. ASSUME NEW u \in Jobs, Early(u) PROVE EarlyPaid(u, r)'
  <2>1. EarlyPaid(u, r)
    BY <1>5 DEF AllPaid
  <2>2. CASE Free' = Free
    BY <1>1, <1>3, <2>1, <2>2 DEF EarlyPaid
  <2>3. CASE Free' > Free
    <3>1. tenant'[u] = tenant[u] /\ seenHash'[u] = seenHash[u]
      BY <1>1
    <3>2. Free' >= Free + 1
      BY <1>3, <2>3
    <3>3. CASE owner' = owner
      BY <1>3, <2>1, <3>1, <3>2, <3>3 DEF EarlyPaid
    <3>4. CASE source' = source
      BY <1>3, <2>1, <3>1, <3>2, <3>4 DEF EarlyPaid
    <3> QED
      BY <3>3, <3>4
  <2> QED
    BY <2>2, <2>3
<1>6. ASSUME NEW u \in Jobs, Ingests(u) PROVE InHandPaid(u, r)'
  <2>1. CountedFor(u, r)' <=> CountedFor(u, r)
    BY <1>1 DEF CountedFor
  <2> QED
    BY <1>1, <1>3, <1>6, <2>1 DEF AllPaid, InHandPaid
<1> QED
  BY <1>4, <1>5, <1>6

(* Every step is paid for. *)
LEMMA PaidStays == SyncInv /\ SyncInv' /\ PaidInv /\ [Next]_vars => PaidInv'
<1> SUFFICES ASSUME SyncInv, SyncInv', PaidInv, [Next]_vars, kind' = "source", ~overlapped'
             PROVE  AllPaid'
  BY DEF PaidInv
<1>1. kind = "source" /\ ~overlapped
  <2>1. kind' = kind
    BY DEF Next, JobStep, PurgeStep, RequestSync, FinalizeFiles, SchedulerSync, RereadRow,
           MarkQueued, FetchFails, FetchAll, FetchSome, IngestRecord, IngestFails, TagEpisode,
           TagGivesUp, RecordError, RecordUnchanged, RecordSynced, CheckConnectivity,
           RecordChecked, RecordResult, Abandon, PurgeStart, PurgeEpisodes, PurgeReset,
           PurgeDies, SourceChanges, ReassignTenant, DeleteConnector, vars
  <2>2. ASSUME NEW s \in Jobs, RequestSync(s) \/ FinalizeFiles(s) \/ SchedulerSync(s)
        PROVE  ~overlapped
    BY <2>2 DEF RequestSync, FinalizeFiles, SchedulerSync, Start
  <2>3. ASSUME NEW s \in Jobs, JobStep(s) \/ Abandon(s) PROVE overlapped' = overlapped
    BY <2>3 DEF JobStep, RereadRow, MarkQueued, FetchFails, FetchAll, FetchSome, IngestRecord,
                IngestFails, TagEpisode, TagGivesUp, RecordError, RecordUnchanged,
                RecordSynced, CheckConnectivity, RecordChecked, RecordResult, Abandon, history
  <2>4. CASE \/ PurgeStart \/ PurgeStep \/ PurgeDies \/ SourceChanges \/ ReassignTenant
             \/ DeleteConnector \/ UNCHANGED vars
    BY <2>4 DEF PurgeStart, PurgeStep, PurgeEpisodes, PurgeReset, PurgeDies, SourceChanges,
                ReassignTenant, DeleteConnector, vars, history
  <2> QED
    BY <2>1, <2>2, <2>3, <2>4 DEF Next
<1>2. AllPaid
  BY <1>1 DEF PaidInv
<1> USE DEF SyncInv
<1>3. ASSUME NEW s \in Jobs, RequestSync(s) \/ SchedulerSync(s) PROVE AllPaid'
  BY <1>2, <1>3, BeginPaid
<1>4. ASSUME NEW s \in Jobs,
             FinalizeFiles(s) \/ RereadRow(s) \/ FetchSome(s) \/ CheckConnectivity(s)
      PROVE  FALSE
  BY <1>1, <1>2, <1>4 DEF FinalizeFiles, RereadRow, FetchSome, CheckConnectivity, AllPaid,
                          OneByOne
<1>5. ASSUME NEW s \in Jobs, FetchFails(s) PROVE AllPaid'
  <2>1. CanFetch(s)
    BY <1>1 DEF CanFetch
  <2>2. /\ pc[s] = "fetch" /\ ~Ingests(s) /\ pc' = [pc EXCEPT ![s] = "error"]
        /\ pc'[s] = "error" /\ budget' <= budget
        /\ UNCHANGED <<hash, source, graphVars, purge>>
    BY <1>5, <2>1 DEF FetchFails, Goto, Disturb, TypeOK, Ingests, Ingesting, rowVars
  <2> QED
    BY <1>2, <2>2, EndPaid
<1>6. ASSUME NEW s \in Jobs, RecordError(s) \/ RecordUnchanged(s) \/ RecordChecked(s)
      PROVE  AllPaid'
  <2>1. /\ pc[s] # "idle" /\ ~Ingests(s) /\ pc' = [pc EXCEPT ![s] = "idle"]
        /\ pc'[s] = "idle" /\ budget' <= budget
        /\ UNCHANGED <<hash, source, graphVars, purge>>
    BY <1>6 DEF RecordError, RecordUnchanged, RecordChecked, RecordResult, Finish, TypeOK,
                Ingests, Ingesting
  <2> QED
    BY <1>2, <2>1, EndPaid
<1>7. ASSUME NEW s \in Jobs, RecordSynced(s) PROVE AllPaid'
  <2>1. /\ pc[s] = "record" /\ Ingests(s) /\ pc' = [pc EXCEPT ![s] = "idle"]
        /\ pc'[s] = "idle" /\ budget' <= budget
        /\ UNCHANGED <<source, graphVars, purge>>
    BY <1>7 DEF RecordSynced, RecordResult, Finish, TypeOK, Ingests, Ingesting
  <2>2. fetched[s] \in Contents
    BY <2>1 DEF IngestionsOnCourse, OnCourse, Ingests
  <2>3. fetched[s] # None
    BY <2>2, SyncAssumption DEF Contents
  <2>4. owner = tenant[s] => hash' = fetched[s]
    BY <1>7, <2>3 DEF RecordSynced, RecordResult
  <2> QED
    BY <1>2, <2>1, <2>4, EndPaid
<1>8. ASSUME NEW s \in Jobs, Abandon(s) PROVE AllPaid'
  <2>1. /\ pc[s] # "idle" /\ pc' = [pc EXCEPT ![s] = "idle"]
        /\ pc'[s] = "idle" /\ budget' < budget
        /\ UNCHANGED <<hash, source, graphVars, purge>>
    BY <1>8, CountTypes DEF Abandon, Finish, Disturb, TypeOK, rowVars
  <2>2. budget' <= budget
    BY <2>1, CountTypes
  <2> QED
    BY <1>2, <2>1, <2>2, EndPaid
<1>9. CASE PurgeStart \/ PurgeStep \/ PurgeDies
  <2>1. CASE PurgeStart
    <3>1. Free' = Free
      BY <2>1, CountTypes, SyncAssumption DEF PurgeStart, Disturb, Free
    <3>2. UNCHANGED <<jobVars, graphVars, owner, source, hash>>
      BY <2>1 DEF PurgeStart, rowVars
    <3>3. \A r \in Records : Copies(r)' <= Copies(r)
      BY <3>2, CountTypes DEF Copies, graphVars
    <3> QED
      BY <1>2, <3>1, <3>2, <3>3, DisturbedPaid DEF graphVars
  <2>2. CASE PurgeEpisodes
    <3>1. Free' = Free
      BY <2>2 DEF PurgeEpisodes, Free
    <3>2. UNCHANGED <<jobVars, untagged, owner, source, hash>>
      BY <2>2 DEF PurgeEpisodes, rowVars
    <3>3. \A r \in Records : Copies(r)' <= Copies(r)
      BY <2>2, CountTypes DEF PurgeEpisodes, Copies
    <3> QED
      BY <1>2, <3>1, <3>2, <3>3, DisturbedPaid
  <2>3. CASE PurgeReset
    <3>1. Free' > Free
      BY <2>3, CountTypes, SyncAssumption DEF PurgeReset, Free
    <3>2. UNCHANGED <<jobVars, graphVars, owner>>
      BY <2>3 DEF PurgeReset
    <3>3. \A r \in Records : Copies(r)' <= Copies(r)
      BY <3>2, CountTypes DEF Copies, graphVars
    <3>4. Free' # Free
      BY <3>1, CountTypes
    <3> QED
      BY <1>2, <3>1, <3>2, <3>3, <3>4, DisturbedPaid DEF graphVars
  <2>4. CASE PurgeDies
    <3>1. Free' > Free
      BY <2>4, CountTypes, SyncAssumption DEF PurgeDies, Disturb, Free
    <3>2. UNCHANGED <<jobVars, graphVars, owner>>
      BY <2>4 DEF PurgeDies, rowVars
    <3>3. \A r \in Records : Copies(r)' <= Copies(r)
      BY <3>2, CountTypes DEF Copies, graphVars
    <3>4. Free' # Free
      BY <3>1, CountTypes
    <3> QED
      BY <1>2, <3>1, <3>2, <3>3, <3>4, DisturbedPaid DEF graphVars
  <2> QED
    BY <1>9, <2>1, <2>2, <2>3, <2>4 DEF PurgeStep
<1>10. CASE SourceChanges \/ ReassignTenant \/ DeleteConnector
  <2>1. /\ UNCHANGED <<jobVars, graphVars>>
        /\ UNCHANGED owner \/ UNCHANGED source
    BY <1>10 DEF SourceChanges, ReassignTenant, DeleteConnector, rowVars
  <2>2. budget' = budget - 1 /\ purge' = purge
    BY <1>10 DEF SourceChanges, ReassignTenant, DeleteConnector, Disturb
  <2>3. Free' = Free + 1 /\ Free' # Free
    BY <2>2, CountTypes, SyncAssumption DEF Free
  <2>4. \A r \in Records : Copies(r)' <= Copies(r)
    BY <2>1, CountTypes DEF Copies, graphVars
  <2> QED
    BY <1>2, <2>1, <2>3, <2>4, CountTypes, DisturbedPaid DEF graphVars
<1>11. CASE UNCHANGED vars
  BY <1>2, <1>11, CountTypes, DisturbedPaid DEF vars, Free, Copies, graphVars, rowVars
<1> QED
  BY <1>2, <1>3, <1>4, <1>5, <1>6, <1>7, <1>8, <1>9, <1>10, <1>11,
     MarkPaid, FetchPaid, IngestPaid, IngestFailsPaid, TagPaid DEF Next, JobStep

-----------------------------------------------------------------------------
(* The invariant holds in every reachable state. *)
THEOREM InvariantHolds == Spec => []SyncInv
<1>1. Init => SyncInv
  BY InitEstablishes
<1>2. SyncInv /\ [Next]_vars => SyncInv'
  BY TypesArePreserved, RowsAndJobsArePreserved, IngestionsStayOnCourse,
     HashKeepsItsMeaning DEF SyncInv
<1> QED
  BY <1>1, <1>2, PTL DEF Spec

(* Type correctness of connectors, jobs and the graph they write. *)
THEOREM TypeCorrect == Spec => []TypeOK
<1>1. SyncInv => TypeOK
  BY DEF SyncInv
<1> QED
  BY <1>1, InvariantHolds, PTL

(* run_connector_sync and record_sync_result: whatever is in flight, a     *)
(* content_hash in the row stands for records that are all in the graph,   *)
(* unless a purge is about to reset it or overlapped an ingestion.         *)
THEOREM HashIsSound == Spec => []HashMeansIngested
<1>1. SyncInv => HashMeansIngested
  BY DEF SyncInv
<1> QED
  BY <1>1, InvariantHolds, PTL

(* Every ingesting job has put into the graph what it counts as done. *)
THEOREM JobsStayOnCourse == Spec => []IngestionsOnCourse
<1>1. SyncInv => IngestionsOnCourse
  BY DEF SyncInv
<1> QED
  BY <1>1, InvariantHolds, PTL

(* A live retriever, or a Drive connector whose files were never picked,   *)
(* gets neither an episode nor a hash, whatever syncs are started on it.   *)
THEOREM NothingFromNothing == Spec => []NothingToIngest
<1>1. Init => BarrenInv
  BY InitBarren
<1>2. SyncInv /\ BarrenInv /\ [Next]_vars => BarrenInv'
  BY BarrenStays
<1>3. BarrenInv => NothingToIngest
  BY DEF BarrenInv, Barren, NothingToIngest, Present, Copies
<1> QED
  BY <1>1, <1>2, <1>3, InvariantHolds, PTL DEF Spec

(* The content-hash guard: while syncs run one at a time, each copy of a   *)
(* record beyond the first is paid for by a disturbance of its own.        *)
THEOREM CopiesArePaid == Spec => []CopiesArePaidFor
<1>1. Init => PaidInv
  BY InitPaid
<1>2. SyncInv /\ SyncInv' /\ PaidInv /\ [Next]_vars => PaidInv'
  BY PaidStays
<1>3. SyncInv /\ PaidInv => CopiesArePaidFor
  <2> SUFFICES ASSUME SyncInv, AllPaid, NEW r \in Records
               PROVE  Copies(r) <= 1 + (MaxDisturbances - budget)
    BY DEF PaidInv, CopiesArePaidFor
  <2>1. Free <= MaxDisturbances - budget /\ Free \in Int /\ budget \in Int /\ Copies(r) \in Nat
    BY SyncAssumption DEF Free, SyncInv, TypeOK, Copies
  <2>2. RestPaid(r) \/ \E s \in Jobs : InHandPaid(s, r)
    BY DEF AllPaid
  <2> QED
    BY <2>1, <2>2, SyncAssumption DEF RestPaid, InHandPaid
<1> QED
  BY <1>1, <1>2, <1>3, InvariantHolds, PTL DEF Spec

-----------------------------------------------------------------------------
(* Refinement of Corpus. *)

(* A step that leaves the graph and the row's word alone is a stutter. *)
LEMMA NothingVouchedAnew ==
    ASSUME UNCHANGED <<graphVars, hash>>, raced' = raced,
           purge' = purge \/ (purge # "reset" /\ purge' # "reset")
    PROVE  UNCHANGED Promise!corpus
BY DEF Promise!corpus, Present, Copies, Vouched, graphVars

(* Steps that change episodes bring in at most the record they are about. *)
LEMMA OneRecordAtATime ==
    ASSUME SyncInv, SyncInv', NEW s \in Jobs, [Next]_vars,
           IngestRecord(s) \/ IngestFails(s) \/ TagEpisode(s)
    PROVE  [Promise!Next]_(Promise!corpus)
<1> DEFINE n == NextOf(todo[s])
<1>1. n \in Records
  BY NextRecord DEF IngestRecord, IngestFails, TagEpisode
<1>2. UNCHANGED Vouched
  BY DEF IngestRecord, IngestFails, TagEpisode, Vouched, rowVars, history
<1>3. \A r \in Records : r # n => Copies(r)' = Copies(r)
  BY <1>1 DEF IngestRecord, IngestFails, TagEpisode, Copies, SyncInv, TypeOK
<1>4. Present \subseteq Present'
  <2>1. ~PurgeEpisodes
    BY DEF IngestRecord, IngestFails, TagEpisode, PurgeEpisodes
  <2> QED
    BY <2>1, EpisodesStay
<1>5. Present' = Present \/ Present' = Present \cup {n}
  BY <1>3, <1>4 DEF Present
<1> HIDE DEF n
<1> QED
  BY <1>1, <1>2, <1>5 DEF Promise!Next, Promise!BringIn, Promise!corpus

(* run_connector_sync, record_sync_result and purge_connector_data         *)
(* together keep a connector's promise: a recorded hash vouches for        *)
(* episodes that are there, and none is taken away under it.               *)
THEOREM CorpusIsKept == Spec => ImplementsCorpus
<1>1. Init => Promise!Init
  <2> SUFFICES ASSUME Init PROVE Promise!Init
    OBVIOUS
  <2>1. \A r \in Records : Copies(r) = 0
    BY DEF Init, Copies
  <2> QED
    BY <2>1 DEF Init, Promise!Init, Present, Vouched
<1>2. SyncInv /\ SyncInv' /\ [Next]_vars => [Promise!Next]_(Promise!corpus)
  <2> SUFFICES ASSUME SyncInv, SyncInv', [Next]_vars PROVE [Promise!Next]_(Promise!corpus)
    OBVIOUS
  <2>1. ASSUME NEW s \in Jobs, IngestRecord(s) \/ IngestFails(s) \/ TagEpisode(s)
        PROVE  [Promise!Next]_(Promise!corpus)
    BY <2>1, OneRecordAtATime
  <2>2. ASSUME NEW s \in Jobs, RecordSynced(s) PROVE [Promise!Next]_(Promise!corpus)
    <3>1. pc[s] = "record" /\ UNCHANGED <<graphVars, raced, purge>>
      BY <2>2 DEF RecordSynced, RecordResult, history
    <3>2. hash' = hash \/ hash' = fetched[s]
      BY <2>2 DEF RecordSynced, RecordResult
    <3>3. CASE hash' = hash \/ raced \/ purge = "reset"
      BY <3>1, <3>3 DEF Promise!corpus, Present, Copies, Vouched, graphVars
    <3>4. CASE hash' = fetched[s] /\ ~raced /\ purge # "reset"
      <4>1. fetched[s] \in Contents /\ fetched[s] \subseteq Present
        BY <3>1, <3>4 DEF SyncInv, IngestionsOnCourse, OnCourse, Ingesting
      <4>2. Vouched' = fetched[s] /\ Present' = Present
        BY <3>1, <3>4 DEF Vouched, Present, Copies, graphVars
      <4> QED
        BY <4>1, <4>2 DEF Promise!Next, Promise!VouchFor, Promise!Contents, Contents
    <3> QED
      BY <3>2, <3>3, <3>4
  <2>3. ASSUME NEW s \in Jobs,
               \/ RereadRow(s) \/ MarkQueued(s) \/ FetchFails(s) \/ FetchAll(s) \/ FetchSome(s)
               \/ TagGivesUp(s) \/ CheckConnectivity(s) \/ RequestSync(s) \/ FinalizeFiles(s)
               \/ SchedulerSync(s) \/ Abandon(s)
        PROVE  UNCHANGED Promise!corpus
    <3>1. UNCHANGED <<graphVars, hash, raced, purge>>
      BY <2>3 DEF RereadRow, MarkQueued, FetchFails, FetchAll, FetchSome, TagGivesUp,
                  CheckConnectivity, RequestSync, FinalizeFiles, SchedulerSync, Abandon,
                  rowVars, history
    <3> QED
      BY <3>1, NothingVouchedAnew
  <2>4. ASSUME NEW s \in Jobs, RecordError(s) \/ RecordUnchanged(s) \/ RecordChecked(s)
        PROVE  UNCHANGED Promise!corpus
    <3>1. UNCHANGED <<graphVars, hash, raced, purge>>
      BY <2>4 DEF RecordError, RecordUnchanged, RecordChecked, RecordResult, history
    <3> QED
      BY <3>1, NothingVouchedAnew
  <2>5. CASE PurgeEpisodes
    <3>1. Vouched' = None
      BY <2>5 DEF PurgeEpisodes, Vouched
    <3>2. Present' \in SUBSET Present
      <4> SUFFICES ASSUME NEW r \in Records, Copies(r)' > 0 PROVE Copies(r) > 0
        BY DEF Present
      <4>1. Copies(r)' <= Copies(r) /\ Copies(r) \in Nat /\ Copies(r)' \in Nat
        <5>1. tagged'[r] = 0 /\ untagged'[r] = untagged[r]
          BY <2>5 DEF PurgeEpisodes
        <5> QED
          BY <5>1, CountTypes DEF SyncInv, Copies
      <4> QED
        BY <4>1
    <3> QED
      BY <3>1, <3>2 DEF Promise!Next, Promise!Withdraw
  <2>6. CASE PurgeReset \/ DeleteConnector
    <3>1. UNCHANGED graphVars /\ hash' = None
      BY <2>6 DEF PurgeReset, DeleteConnector, SyncInv, RowsAndJobs
    <3>2. Vouched' = None /\ Present' = Present
      BY <3>1 DEF Vouched, Present, Copies, graphVars
    <3> QED
      BY <3>2 DEF Promise!Next, Promise!Withdraw
  <2>7. CASE PurgeDies
    <3>1. UNCHANGED <<graphVars, hash>> /\ purge' = "idle" /\ raced' = (raced \/ purge = "reset")
      BY <2>7 DEF PurgeDies, rowVars
    <3> QED
      BY <3>1 DEF Promise!corpus, Vouched, Present, Copies, graphVars
  <2>8. CASE PurgeStart \/ SourceChanges \/ ReassignTenant \/ UNCHANGED vars
    <3>1. /\ UNCHANGED <<graphVars, hash, raced>>
          /\ purge' = purge \/ (purge # "reset" /\ purge' # "reset")
      BY <2>8 DEF PurgeStart, SourceChanges, ReassignTenant, vars, rowVars, history
    <3> QED
      BY <3>1, NothingVouchedAnew
  <2> QED
    BY <2>1, <2>2, <2>3, <2>4, <2>5, <2>6, <2>7, <2>8 DEF Next, JobStep, PurgeStep
<1> QED
  BY <1>1, <1>2, InvariantHolds, PTL DEF Spec, ImplementsCorpus, Promise!Spec
=============================================================================
