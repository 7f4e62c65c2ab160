--------------------------- MODULE SchedulerLock ---------------------------
(***************************************************************************)
(* The scheduler of every replica and the lease lock in Neo4j that lets    *)
(* one of them run a pass over all connectors.                             *)
(*                                                                         *)
(* Time is kept as what is left of it: `left` is expires_at - datetime()   *)
(* of the lock node, on the database's one clock, and `due` what is left   *)
(* until a replica's interval job fires (negative: it is late).  The lease *)
(* is one interval long.  A pass takes as long as its syncs take, and its  *)
(* lease is not renewed while it runs.                                     *)
(***************************************************************************)
EXTENDS Integers

CONSTANTS
    Replicas,
    Interval,     \* connector_sync_interval_minutes, and the length of a lease
    MaxLate,      \* how late an interval job may fire
    MaxStops,     \* how many times a replica stops or crashes
    None

ASSUME LockAssumption ==
    /\ Interval \in Nat \ {0}
    /\ MaxLate \in Nat /\ MaxLate < Interval
    /\ MaxStops \in Nat

Holders == Replicas \X (0..MaxStops)   \* one _HOLDER_ID per process

ASSUME NobodyHolds == None \notin Holders

VARIABLES
    life,     \* how many times the replica was restarted: its process
    up,       \* the process is running
    due,      \* until its interval job fires next
    running,  \* its pass over the connectors is running
    holder,   \* the lock node's holder; None: there is no node
    left,     \* until the lease in the node expires; -1: it has
    mine,     \* what is left of the lease the process last won; -1: nothing
    stops     \* stops and crashes so far

replicaVars == <<life, up, due, running>>
lockVars    == <<holder, left>>
vars        == <<replicaVars, lockVars, mine, stops>>

Me(r) == <<r, life[r]>>

Init ==
    /\ life = [r \in Replicas |-> 0]
    /\ up \in [Replicas -> BOOLEAN]
    /\ due \in [Replicas -> 1..Interval]
    /\ running = [r \in Replicas |-> FALSE]
    /\ holder = None
    /\ left = -1
    /\ mine = [r \in Replicas |-> -1]
    /\ stops = 0

(* Slips: the expiry test takes a lease at its very end, or is left out.    *)
CanTakeAtExpiry(r)    == holder = None \/ holder = Me(r) \/ left <= 0
CanTakeUnlessHeld(r)  == holder = None \/ holder = Me(r)

(* expires_at < datetime(), or the same holder once more, or no node yet. *)
CanTake(r) == holder = None \/ holder = Me(r) \/ left < 0

AcquireMore(r) ==   \* slip: a renewal adds an interval to expires_at
    /\ CanTake(r)
    /\ holder' = Me(r)
    /\ left' = IF holder = Me(r) /\ left >= 0 THEN left + Interval ELSE Interval
    /\ mine' = [mine EXCEPT ![r] = left']

(* try_acquire_lock: one MERGE; TRUE iff r owns the lock afterwards. *)
Acquire(r) ==
    /\ CanTake(r)
    /\ holder' = Me(r)
    /\ left' = Interval
    /\ mine' = [mine EXCEPT ![r] = Interval]

Refused(r) == ~CanTake(r) /\ UNCHANGED <<lockVars, mine>>

(* The interval job fires.  While the previous pass is still running the   *)
(* tick is dropped (max_instances=1) before it gets to the lock.           *)
Fires(r) ==
    /\ up[r] /\ due[r] <= 0
    /\ due' = [due EXCEPT ![r] = @ + Interval]

TickDropped(r) ==
    /\ Fires(r)
    /\ running[r]
    /\ UNCHANGED <<life, up, running, lockVars, mine, stops>>

TickRuns(r) ==
    /\ Fires(r)
    /\ ~running[r]
    /\ Acquire(r)
    /\ running' = [running EXCEPT ![r] = TRUE]
    /\ UNCHANGED <<life, up, stops>>

TickSkips(r) ==
    /\ Fires(r)
    /\ ~running[r]
    /\ Refused(r)
    /\ UNCHANGED <<life, up, running, stops>>

(* _sync_all_connectors and the renewals are through. *)
PassEnds(r) ==
    /\ running[r]
    /\ running' = [running EXCEPT ![r] = FALSE]
    /\ UNCHANGED <<life, up, due, lockVars, mine, stops>>

ReleaseAny(r) ==   \* slip: matches the lock by its id alone
    /\ up[r] /\ ~running[r]
    /\ holder # None
    /\ holder' = None /\ left' = -1
    /\ mine' = [mine EXCEPT ![r] = -1]
    /\ UNCHANGED <<replicaVars, stops>>

(* release_lock, offered by the module and exercised by its tests only.    *)
Release(r) ==
    /\ up[r] /\ ~running[r]
    /\ holder = Me(r)
    /\ holder' = None /\ left' = -1
    /\ mine' = [mine EXCEPT ![r] = -1]
    /\ UNCHANGED <<replicaVars, stops>>

(* A crash, or the lifespan's shutdown(wait=False), which cancels a        *)
(* running pass: nothing is released, the node keeps the dead holder.      *)
Stop(r) ==
    /\ up[r]
    /\ stops < MaxStops
    /\ stops' = stops + 1
    /\ up' = [up EXCEPT ![r] = FALSE]
    /\ running' = [running EXCEPT ![r] = FALSE]
    /\ mine' = [mine EXCEPT ![r] = -1]
    /\ life' = [life EXCEPT ![r] = @ + 1]
    /\ UNCHANGED <<due, lockVars>>

(* A new process has a new holder id, and its first tick an interval away. *)
StartUp(r) ==
    /\ ~up[r]
    /\ up' = [up EXCEPT ![r] = TRUE]
    /\ due' = [due EXCEPT ![r] = Interval]
    /\ UNCHANGED <<life, running, lockVars, mine, stops>>

Less(n) == IF n >= 0 THEN n - 1 ELSE n

TimePasses ==
    /\ \A r \in Replicas : up[r] => due[r] > -MaxLate
    /\ due' = [r \in Replicas |-> IF up[r] THEN due[r] - 1 ELSE due[r]]
    /\ left' = Less(left)
    /\ mine' = [r \in Replicas |-> Less(mine[r])]
    /\ UNCHANGED <<life, up, running, holder, stops>>

Tick(r) == TickDropped(r) \/ TickRuns(r) \/ TickSkips(r)

Next ==
    \/ \E r \in Replicas :
        Tick(r) \/ PassEnds(r) \/ Release(r) \/ Stop(r) \/ StartUp(r)
    \/ TimePasses

Spec == Init /\ [][Next]_vars

(* Time goes on, due jobs fire, a pass over finitely many connectors ends. *)
Fairness ==
    /\ WF_vars(TimePasses)
    /\ \A r \in Replicas : WF_vars(Tick(r)) /\ WF_vars(PassEnds(r))

FairSpec == Spec /\ Fairness

-----------------------------------------------------------------------------
(* Properties. *)

(* Every variable has its type. *)
TypeOK ==
    /\ life \in [Replicas -> 0..MaxStops]
    /\ up \in [Replicas -> BOOLEAN]
    /\ due \in [Replicas -> -MaxLate..Interval]
    /\ running \in [Replicas -> BOOLEAN]
    /\ holder \in Holders \cup {None}
    /\ left \in -1..Interval
    /\ mine \in [Replicas -> -1..Interval]
    /\ stops \in 0..MaxStops

(* A process that was told it holds the lock, and whose lease has not run  *)
(* out, is the holder in the node: no takeover, release or restart         *)
(* anywhere can take a live lease away, and no two processes can both      *)
(* count on one.                                                           *)
LeaseIsHonoured ==
    \A r \in Replicas : mine[r] >= 0 => holder = Me(r) /\ left = mine[r]

(* Two passes at once are only possible when the older one has outlived    *)
(* its lease: a pass that ends within its interval runs alone.             *)
PassesOverlapOnlyPastLease ==
    \A r, q \in Replicas :
        r # q /\ running[r] /\ running[q] => mine[r] < 0 \/ mine[q] < 0

(* While a replica stays up the connectors keep being visited: a lock left *)
(* behind by a dead process never blocks the passes for good.              *)
PassesGoOn ==
    \A r \in Replicas : <>[]up[r] => []<>(\E q \in Replicas : running[q])

(* The owner of the lock, to whom a lease is still running, takes and      *)
(* loses it as a mutex allows.                                             *)
Lock == INSTANCE Mutex WITH
            Owners <- Holders, Free <- None,
            owner <- IF left >= 0 THEN holder ELSE None

LeaseIsMutex == Lock!Spec
=============================================================================
