---------------------------- MODULE SpendLimiter ----------------------------
(***************************************************************************)
(* The spend limiter (app/graph/spend_limiter.py) as the wrapped provider  *)
(* clients use it (app/graph/graphiti_adapter.py), with the queries and    *)
(* ingestions whose calls it counts (app/context/query_service.py,         *)
(* app/ingestion/connector_sync.py, scripts/ingest_samples.py).            *)
(*                                                                         *)
(* Each process keeps its own totals, loaded from the state file when it   *)
(* starts, and writes all of them to the file after every paid call.  A    *)
(* call is checked before it is sent and counted when it is answered; any  *)
(* number of calls may be sent in between.  Costs are whole numbers.       *)
(***************************************************************************)
EXTENDS Naturals, FiniteSets

CONSTANTS
    Processes,
    Buckets,   \* "query" and "ingestion"
    Tasks,     \* queries and ingestions that can be under way at once
    ProcOf,    \* the process a task runs in
    BucketOf,  \* the bucket its client was built with
    Calls,     \* provider calls that can be under way at once
    TaskOf,    \* the task that makes the call
    Budget,    \* azure_openai_*_budget_usd
    MaxCost,   \* what one call costs at most
    None

ASSUME SpendAssumption ==
    /\ ProcOf \in [Tasks -> Processes]
    /\ BucketOf \in [Tasks -> Buckets]
    /\ TaskOf \in [Calls -> Tasks]
    /\ IsFiniteSet(Calls)
    /\ Budget \in [Buckets -> Nat]
    /\ MaxCost \in Nat
    /\ None \notin Processes

VARIABLES
    up,        \* which processes run
    spent,     \* _spent of each process (its last one, while it is down)
    file,      \* the state file: "absent", "whole" or "broken"
    saved,     \* the totals in it
    writer,    \* history: who wrote the file last
    running,   \* tasks under way
    inflight,  \* calls checked and not answered
    before,    \* spent_before of each query under way
    own,       \* history: what the task's own calls were counted as
    shared,    \* history: another task's calls were counted meanwhile, or could be
    paid,      \* history: what all processes counted since the file was last reset
    behind,    \* history: processes up that have not read what another one wrote
    lost       \* history: one of these wrote the file; paid is not kept from then on

fileVars == <<file, saved, writer>>
taskVars == <<running, before, own, shared>>
paidVars == <<paid, behind, lost>>
vars     == <<up, spent, fileVars, taskVars, inflight, paidVars>>

Totals   == [Buckets -> Nat]
NoTotals == [b \in Buckets |-> 0]

CallProc(c)   == ProcOf[TaskOf[c]]
CallBucket(c) == BucketOf[TaskOf[c]]
SpentFor(t)   == spent[ProcOf[t]][BucketOf[t]]

(* Tasks that draw on the same total. *)
Mates(t) == {u \in Tasks : ProcOf[u] = ProcOf[t] /\ BucketOf[u] = BucketOf[t]}

CallsOn(b) == {c \in Calls : CallBucket(c) = b}

Init ==
    /\ up = {}
    /\ spent = [p \in Processes |-> NoTotals]
    /\ file = "absent" /\ saved = NoTotals /\ writer = None
    /\ running = {}
    /\ inflight = {}
    /\ before = [t \in Tasks |-> 0]
    /\ own = [t \in Tasks |-> 0]
    /\ shared = [t \in Tasks |-> FALSE]
    /\ paid = NoTotals /\ behind = {} /\ lost = FALSE

-----------------------------------------------------------------------------
(* Processes. *)

(* A task's bookkeeping goes with it. *)
Forget(gone) ==
    /\ running' = running \ gone
    /\ before' = [t \in Tasks |-> IF t \in gone THEN 0 ELSE before[t]]
    /\ own' = [t \in Tasks |-> IF t \in gone THEN 0 ELSE own[t]]
    /\ shared' = [t \in Tasks |-> t \notin gone /\ shared[t]]

StartAtZero(p) ==   \* slip: the totals are not loaded
    /\ p \notin up /\ file # "broken"
    /\ up' = up \cup {p}
    /\ spent' = [spent EXCEPT ![p] = NoTotals]
    /\ UNCHANGED <<fileVars, taskVars, inflight, paidVars>>

StartAnyway(p) ==   \* slip: a file that is no JSON is taken for no file
    /\ p \notin up
    /\ up' = up \cup {p}
    /\ spent' = [spent EXCEPT ![p] = IF file = "whole" THEN saved ELSE NoTotals]
    /\ UNCHANGED <<fileVars, taskVars, inflight, paidVars>>

(* SpendLimiter(), when the module is imported: no file means no spending  *)
(* so far; a file that is no JSON means no process.                        *)
Start(p) ==
    /\ p \notin up /\ file # "broken"
    /\ up' = up \cup {p}
    /\ spent' = [spent EXCEPT ![p] = IF file = "absent" THEN NoTotals ELSE saved]
    /\ UNCHANGED <<fileVars, taskVars, inflight, paidVars>>

Ends(p) ==
    /\ up' = up \ {p}
    /\ Forget({t \in running : ProcOf[t] = p})
    /\ inflight' = {c \in inflight : CallProc(c) # p}
    /\ UNCHANGED <<spent, paid, lost>>

(* The process ends, with or without calls under way. *)
Stop(p) ==
    /\ p \in up
    /\ Ends(p)
    /\ behind' = behind \ {p}
    /\ UNCHANGED fileVars

(* It dies in the middle of write_text. *)
DiesWriting(c) ==
    /\ c \in inflight
    /\ Ends(CallProc(c))
    /\ file' = "broken" /\ saved' = NoTotals /\ writer' = CallProc(c)
    /\ behind' = up'

(* "can be inspected/reset by hand" *)
ResetByHand ==
    /\ file # "absent"
    /\ file' = "absent" /\ saved' = NoTotals /\ writer' = None
    /\ paid' = NoTotals /\ behind' = {} /\ lost' = FALSE
    /\ UNCHANGED <<up, spent, taskVars, inflight>>

-----------------------------------------------------------------------------
(* Tasks. *)

NotAlone(t) ==
    \/ running \cap Mates(t) # {}
    \/ \E c \in inflight : TaskOf[c] \in Mates(t)

(* A query reads spent() before it asks; calls that a failed query of      *)
(* before left behind may still be under way.                              *)
Begin(t) ==
    /\ t \notin running /\ ProcOf[t] \in up
    /\ running' = running \cup {t}
    /\ before' = [before EXCEPT ![t] = SpentFor(t)]
    /\ own' = [own EXCEPT ![t] = 0]
    /\ shared' = [u \in Tasks |->
                    IF u = t THEN NotAlone(t)
                    ELSE shared[u] \/ (u \in running /\ u \in Mates(t))]
    /\ UNCHANGED <<up, spent, fileVars, inflight, paidVars>>

SendUnchecked(c) ==   \* slip: ensure_room is not called
    /\ TaskOf[c] \in running /\ c \notin inflight
    /\ inflight' = inflight \cup {c}
    /\ UNCHANGED <<up, spent, fileVars, taskVars, paidVars>>

(* ensure_room passes and the call goes out. *)
Send(c) ==
    /\ TaskOf[c] \in running /\ c \notin inflight
    /\ SpentFor(TaskOf[c]) < Budget[CallBucket(c)]
    /\ inflight' = inflight \cup {c}
    /\ UNCHANGED <<up, spent, fileVars, taskVars, paidVars>>

Add(totals, b, cost) == [totals EXCEPT ![b] = @ + cost]

Counted(c, cost, totals) ==
    /\ c \in inflight
    /\ inflight' = inflight \ {c}
    /\ spent' = [spent EXCEPT ![CallProc(c)] = totals]
    /\ file' = "whole" /\ saved' = totals /\ writer' = CallProc(c)
    /\ own' = [own EXCEPT ![TaskOf[c]] = IF TaskOf[c] \in running THEN @ + cost ELSE @]
    /\ behind' = up \ {CallProc(c)}
    /\ lost' = (lost \/ CallProc(c) \in behind)
    /\ paid' = IF lost' THEN NoTotals ELSE Add(paid, CallBucket(c), cost)
    /\ UNCHANGED <<up, running, before, shared>>

AnswerStale(c, cost) ==   \* slip: the total is the one read before the call
    Counted(c, cost, Add([spent[CallProc(c)] EXCEPT ![CallBucket(c)] = before[TaskOf[c]]],
                         CallBucket(c), cost))

(* record(): the process's total and the file, all buckets at once. *)
Answer(c, cost) ==
    Counted(c, cost, Add(spent[CallProc(c)], CallBucket(c), cost))

CallFailsCounted(c) ==   \* slip: usage that is None is counted like any other
    /\ c \in inflight
    /\ inflight' = inflight \ {c}
    /\ spent' = [spent EXCEPT ![CallProc(c)][CallBucket(c)] = None]
    /\ UNCHANGED <<up, fileVars, taskVars, paidVars>>

(* The call raises, or its answer says nothing of usage: not counted. *)
CallFails(c) ==
    /\ c \in inflight
    /\ inflight' = inflight \ {c}
    /\ UNCHANGED <<up, spent, fileVars, taskVars, paidVars>>

(* The task has its packet, or fails: on SpendLimitExceeded, for one, with *)
(* other calls of its gather() still under way.                            *)
End(t) ==
    /\ t \in running
    /\ Forget({t})
    /\ UNCHANGED <<up, spent, fileVars, inflight, paidVars>>

Next ==
    \/ \E p \in Processes : Start(p) \/ Stop(p)
    \/ ResetByHand
    \/ \E t \in Tasks : Begin(t) \/ End(t)
    \/ \E c \in Calls :
        \/ Send(c) \/ CallFails(c) \/ DiesWriting(c)
        \/ \E cost \in 1..MaxCost : Answer(c, cost)

Spec == Init /\ [][Next]_vars

-----------------------------------------------------------------------------
(* Properties. *)

(* Every variable has its type. *)
TypeOK ==
    /\ up \subseteq Processes
    /\ spent \in [Processes -> Totals]
    /\ file \in {"absent", "whole", "broken"} /\ saved \in Totals
    /\ writer \in Processes \cup {None}
    /\ running \subseteq {t \in Tasks : ProcOf[t] \in up}
    /\ inflight \subseteq {c \in Calls : CallProc(c) \in up}
    /\ before \in [Tasks -> Nat]
    /\ own \in [Tasks -> Nat]
    /\ shared \in [Tasks -> BOOLEAN]
    /\ paid \in Totals /\ behind \subseteq up /\ lost \in BOOLEAN

(* What a bucket comes to at most: one round of calls below its budget. *)
Ceiling(b) == IF Budget[b] = 0 THEN 0 ELSE Budget[b] - 1 + MaxCost * Cardinality(CallsOn(b))

(* A check before the call and a count after it let a total overshoot its  *)
(* budget, but never by more than one round of calls: whatever is counted  *)
(* was sent while there was room.  True of each process and of the file,   *)
(* across restarts and with several processes writing it.                  *)
OvershootIsBounded == \A p \in Processes, b \in Buckets : spent[p][b] <= Ceiling(b)

(* The budget binds all processes together ("the running total survives    *)
(* process restarts"; "catching a runaway loop ... well before it becomes  *)
(* a real bill"): what they counted since the file was last reset stays    *)
(* under the ceiling of one process, however they start, stop and die, also *)
(* in the middle of a write.  The only way past it is a process that       *)
(* writes the file after another one did and before it starts anew.        *)
BudgetBindsAll == ~lost => \A b \in Buckets : paid[b] <= Ceiling(b)

(* The cost_usd a query reports, spent() after minus spent() before, is    *)
(* never less than what its own calls were counted as, and is exactly that *)
(* unless another task drew on the same total meanwhile.                   *)
CostIsOwn ==
    \A t \in running :
        /\ SpentFor(t) >= before[t] + own[t]
        /\ ~shared[t] => SpentFor(t) = before[t] + own[t]

(* "the running total survives process restarts": it does unless another   *)
(* process has written the file since, or it was reset by hand.            *)
TotalsSurviveRestarts ==
    [][\A p \in Processes : p \in up' \ up /\ writer = p => spent'[p] = spent[p]]_vars

=============================================================================
