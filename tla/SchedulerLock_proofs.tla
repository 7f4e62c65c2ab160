----------------------- MODULE SchedulerLock_proofs -----------------------
(***************************************************************************)
(* For any replicas, interval, lateness and number of stops: the lease     *)
(* lock of the scheduler is honoured, it is a mutex, and two passes only   *)
(* overlap past a lease.                                                   *)
(***************************************************************************)
EXTENDS SchedulerLock, TLAPS

(* The holder in the node is a process that was started: its life count is *)
(* not ahead of its replica's, and replicas that are down believe nothing. *)
LockInv == TypeOK /\ LeaseIsHonoured /\ (holder = None => left = -1)
                  /\ \A r \in Replicas : life[r] <= stops

USE LockAssumption, NobodyHolds

(* At first there is no lock node and no believer. *)
LEMMA InitEstablishes == Init => LockInv
<1> SUFFICES ASSUME Init PROVE LockInv
  OBVIOUS
<1>1. TypeOK
  BY DEF Init, TypeOK
<1> QED
  BY <1>1 DEF Init, LockInv, LeaseIsHonoured

(* Every step of a replica, and of time, keeps the invariant. *)
LEMMA StepPreserves == LockInv /\ [Next]_vars => LockInv'
<1> SUFFICES ASSUME LockInv, [Next]_vars PROVE LockInv'
  OBVIOUS
<1> USE DEF LockInv, TypeOK, LeaseIsHonoured, Me, Holders, replicaVars, lockVars
<1>1. ASSUME NEW r \in Replicas, TickDropped(r) PROVE LockInv'
  BY <1>1 DEF TickDropped, Fires
<1>2. ASSUME NEW r \in Replicas, TickRuns(r) PROVE LockInv'
  <2>1. due' \in [Replicas -> -MaxLate..Interval]
    BY <1>2 DEF TickRuns, Fires
  <2>2. holder' = Me(r) /\ left' = Interval /\ mine' = [mine EXCEPT ![r] = Interval]
    BY <1>2 DEF TickRuns, Acquire
  <2>3. TypeOK'
    BY <1>2, <2>1, <2>2 DEF TickRuns
  <2>4. ASSUME NEW q \in Replicas, q # r PROVE mine[q] < 0
    BY <1>2, <2>4 DEF TickRuns, Acquire, CanTake
  <2>5. LeaseIsHonoured'
    BY <1>2, <2>2, <2>4 DEF TickRuns
  <2> QED
    BY <1>2, <2>2, <2>3, <2>5 DEF TickRuns
<1>3. ASSUME NEW r \in Replicas, TickSkips(r) PROVE LockInv'
  BY <1>3 DEF TickSkips, Fires, Refused
<1>4. ASSUME NEW r \in Replicas, PassEnds(r) PROVE LockInv'
  BY <1>4 DEF PassEnds
<1>5. ASSUME NEW r \in Replicas, Release(r) PROVE LockInv'
  <2>1. ASSUME NEW q \in Replicas, q # r PROVE mine[q] < 0
    BY <1>5, <2>1 DEF Release
  <2> QED
    BY <1>5, <2>1 DEF Release
<1>6. ASSUME NEW r \in Replicas, Stop(r) PROVE LockInv'
  BY <1>6 DEF Stop
<1>7. ASSUME NEW r \in Replicas, StartUp(r) PROVE LockInv'
  BY <1>7 DEF StartUp
<1>8. CASE TimePasses
  <2>1. TypeOK'
    BY <1>8 DEF TimePasses, Less
  <2>2. LeaseIsHonoured'
    BY <1>8 DEF TimePasses, Less
  <2> QED
    BY <1>8, <2>1, <2>2 DEF TimePasses, Less
<1>9. CASE UNCHANGED vars
  BY <1>9 DEF vars
<1> QED
  BY <1>1, <1>2, <1>3, <1>4, <1>5, <1>6, <1>7, <1>8, <1>9 DEF Next, Tick

(* The invariant holds in every reachable state. *)
THEOREM InvariantHolds == Spec => []LockInv
<1> QED
  BY InitEstablishes, StepPreserves, PTL DEF Spec

(* Type correctness of the replicas, their ticks and the lock node. *)
THEOREM TypeCorrect == Spec => []TypeOK
<1>1. LockInv => TypeOK
  BY DEF LockInv
<1> QED
  BY <1>1, InvariantHolds, PTL

(* try_acquire_lock and release_lock: nobody takes a live lease away. *)
THEOREM LeasesAreHonoured == Spec => []LeaseIsHonoured
<1>1. LockInv => LeaseIsHonoured
  BY DEF LockInv
<1> QED
  BY <1>1, InvariantHolds, PTL

(* _tick: of two passes that run at once, one has outlived its lease. *)
THEOREM OverlapOnlyPastLease == Spec => []PassesOverlapOnlyPastLease
<1>1. LockInv => PassesOverlapOnlyPastLease
  BY DEF LockInv, TypeOK, LeaseIsHonoured, PassesOverlapOnlyPastLease, Me
<1> QED
  BY <1>1, InvariantHolds, PTL

-----------------------------------------------------------------------------
(* The lock with its leases implements Mutex: its owner is the holder in   *)
(* the node as long as the lease is live.                                  *)
THEOREM LockIsMutex == Spec => LeaseIsMutex
<1> DEFINE own == IF left >= 0 THEN holder ELSE None
<1>1. Init => Lock!Init
  BY DEF Init, Lock!Init
<1>2. LockInv /\ [Next]_vars => [Lock!Next]_own
  <2> SUFFICES ASSUME LockInv, [Next]_vars, own' # own PROVE Lock!Next
    OBVIOUS
  <2> USE DEF LockInv, TypeOK
  <2>1. ASSUME NEW r \in Replicas, TickRuns(r) PROVE Lock!Next
    <3>1. Me(r) \in Holders /\ own' = Me(r)
      BY <2>1 DEF TickRuns, Acquire, Me, Holders
    <3>2. own = None
      BY <2>1, <3>1 DEF TickRuns, Acquire, CanTake
    <3> QED
      BY <3>1, <3>2 DEF Lock!Next, Lock!Take
  <2>2. ASSUME NEW r \in Replicas, Release(r) PROVE Lock!Next
    <3>1. own' = None /\ own # None
      BY <2>2 DEF Release
    <3> QED
      BY <3>1 DEF Lock!Next, Lock!GiveUp
  <2>3. CASE TimePasses
    <3>1. own' = None /\ own # None
      BY <2>3 DEF TimePasses, Less
    <3> QED
      BY <3>1 DEF Lock!Next, Lock!GiveUp
  <2>4. ASSUME NEW r \in Replicas,
               \/ TickDropped(r) \/ TickSkips(r) \/ PassEnds(r) \/ Stop(r) \/ StartUp(r)
        PROVE  FALSE
    <3>1. holder' = holder /\ left' = left
      BY <2>4 DEF TickDropped, TickSkips, Refused, PassEnds, Stop, StartUp, lockVars
    <3> QED
      BY <3>1
  <2>5. CASE UNCHANGED vars
    BY <2>5 DEF vars, lockVars
  <2> QED
    BY <2>1, <2>2, <2>3, <2>4, <2>5 DEF Next, Tick
<1> QED
  BY <1>1, <1>2, InvariantHolds, PTL DEF Spec, LeaseIsMutex, Lock!Spec
=============================================================================
