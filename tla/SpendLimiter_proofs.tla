------------------------ MODULE SpendLimiter_proofs ------------------------
(***************************************************************************)
(* What the spend limiter guarantees for every number of processes, tasks  *)
(* and calls, every budget and every price.                                *)
(*                                                                         *)
(* The bound on a total is not inductive: it says nothing of the calls     *)
(* that are still to be counted.  RoomForCalls adds them at their highest  *)
(* price; a call is sent only below the budget, so one more fits.  Nor is  *)
(* what all processes paid together: PaidIsKnown says who knows of it.     *)
(***************************************************************************)
EXTENDS SpendLimiter, Integers, FiniteSetTheorems, TLAPS

Open(p, b) == {c \in inflight : CallProc(c) = p /\ CallBucket(c) = b}

RoomForCalls ==
    /\ \A b \in Buckets : saved[b] <= Ceiling(b)
    /\ \A p \in Processes, b \in Buckets :
        spent[p][b] + MaxCost * Cardinality(Open(p, b)) <= Ceiling(b)

(* Who is not marked as sharing has its total to itself. *)
AloneUnlessShared ==
    \A t \in running : ~shared[t] =>
        /\ running \cap Mates(t) \subseteq {t}
        /\ \A c \in inflight : TaskOf[c] \in Mates(t) => TaskOf[c] = t

FileIsLatest ==
    /\ file = "absent" => writer = None
    /\ file = "whole" => writer \in Processes /\ saved = spent[writer]

(* Whoever knows what was written last has all that was paid. *)
PaidIsKnown ==
    ~lost =>
        /\ file = "absent" => paid = NoTotals
        /\ file = "whole" => \A b \in Buckets : paid[b] <= saved[b]
        /\ \A p \in up \ behind, b \in Buckets : paid[b] <= spent[p][b]

SpendInv ==
    /\ TypeOK
    /\ RoomForCalls
    /\ AloneUnlessShared
    /\ CostIsOwn
    /\ FileIsLatest
    /\ PaidIsKnown /\ BudgetBindsAll

-----------------------------------------------------------------------------
(* Facts about the constants. *)

(* The types of the constants. *)
LEMMA ConstantFacts ==
  /\ MaxCost \in Nat /\ NoTotals \in Totals
  /\ \A t \in Tasks : ProcOf[t] \in Processes /\ BucketOf[t] \in Buckets
  /\ \A c \in Calls : /\ TaskOf[c] \in Tasks
                      /\ CallProc(c) \in Processes /\ CallBucket(c) \in Buckets
BY SpendAssumption DEF NoTotals, Totals, CallProc, CallBucket

(* Arithmetic of whole costs. *)
LEMMA Times ==
  ASSUME NEW m \in Nat, NEW x \in Nat, NEW y \in Nat, x <= y
  PROVE  m * x <= m * y /\ m * x \in Nat /\ m * y \in Nat
OBVIOUS

(* The bound of a total is a number: finitely many calls draw on it. *)
LEMMA BoundFacts ==
  ASSUME NEW b \in Buckets
  PROVE  /\ IsFiniteSet(CallsOn(b)) /\ Cardinality(CallsOn(b)) \in Nat
         /\ Budget[b] \in Nat /\ Ceiling(b) \in Nat
<1>1. IsFiniteSet(CallsOn(b)) /\ Cardinality(CallsOn(b)) \in Nat
  BY SpendAssumption, FS_Subset, FS_CardinalityType DEF CallsOn
<1>2. MaxCost * Cardinality(CallsOn(b)) \in Nat
  BY <1>1, SpendAssumption, Times
<1> QED
  BY <1>1, <1>2, SpendAssumption DEF Ceiling

(* The open calls on a total are finitely many. *)
LEMMA OpenFacts ==
  ASSUME TypeOK, NEW p \in Processes, NEW b \in Buckets
  PROVE  /\ IsFiniteSet(Open(p, b)) /\ Cardinality(Open(p, b)) \in Nat
         /\ MaxCost * Cardinality(Open(p, b)) \in Nat
<1>1. Open(p, b) \subseteq Calls
  BY DEF Open, TypeOK
<1>2. IsFiniteSet(Open(p, b)) /\ Cardinality(Open(p, b)) \in Nat
  BY <1>1, SpendAssumption, FS_Subset, FS_CardinalityType
<1> QED
  BY <1>2, SpendAssumption, Times

(* Every step keeps the types. *)
LEMMA TypePreserved ==
  ASSUME TypeOK, Next
  PROVE  TypeOK'
<1> USE ConstantFacts
<1>1. ASSUME NEW p \in Processes, Start(p) PROVE TypeOK'
  BY <1>1 DEF TypeOK, Start, fileVars, paidVars, taskVars
<1>2. ASSUME NEW p \in Processes, Ends(p)
      PROVE  /\ up' \subseteq Processes /\ spent' \in [Processes -> Totals]
             /\ up' = up \ {p} /\ paid' \in Totals /\ lost' \in BOOLEAN
             /\ running' \subseteq {t \in Tasks : ProcOf[t] \in up'}
             /\ inflight' \subseteq {c \in Calls : CallProc(c) \in up'}
             /\ before' \in [Tasks -> Nat] /\ own' \in [Tasks -> Nat]
             /\ shared' \in [Tasks -> BOOLEAN]
  BY <1>2 DEF TypeOK, Ends, Forget
<1>3. ASSUME NEW p \in Processes, Stop(p) PROVE TypeOK'
  <2>1. behind' \subseteq up'
    BY <1>2, <1>3 DEF TypeOK, Stop
  <2> QED
    BY <1>2, <1>3, <2>1 DEF TypeOK, Stop, fileVars
<1>4. ASSUME NEW c \in Calls, DiesWriting(c) PROVE TypeOK'
  <2>1. CallProc(c) \in Processes
    BY DEF CallProc
  <2>2. behind' \subseteq up'
    BY <1>4 DEF DiesWriting
  <2> QED
    BY <1>2, <1>4, <2>1, <2>2 DEF TypeOK, DiesWriting
<1>5. CASE ResetByHand
  BY <1>5 DEF TypeOK, ResetByHand, taskVars
<1>6. ASSUME NEW t \in Tasks, Begin(t) PROVE TypeOK'
  <2>1. SpentFor(t) \in Nat
    BY DEF TypeOK, SpentFor, Totals
  <2>2. shared' \in [Tasks -> BOOLEAN]
    <3>1. \A u \in Tasks : (IF u = t THEN NotAlone(t)
                            ELSE shared[u] \/ (u \in running /\ u \in Mates(t))) \in BOOLEAN
      BY Zenon DEF TypeOK, NotAlone
    <3> QED
      BY <1>6, <3>1 DEF Begin
  <2>3. before' \in [Tasks -> Nat] /\ own' \in [Tasks -> Nat]
    BY <1>6, <2>1 DEF TypeOK, Begin
  <2> QED
    BY <1>6, <2>2, <2>3 DEF TypeOK, Begin, fileVars, paidVars
<1>7. ASSUME NEW t \in Tasks, End(t) PROVE TypeOK'
  BY <1>7 DEF TypeOK, End, Forget, fileVars, paidVars
<1>8. ASSUME NEW c \in Calls, Send(c) \/ CallFails(c) PROVE TypeOK'
  BY <1>8 DEF TypeOK, Send, CallFails, fileVars, paidVars, taskVars, CallProc
<1>9. ASSUME NEW c \in Calls, NEW cost \in 1..MaxCost, Answer(c, cost) PROVE TypeOK'
  <2>1. Add(spent[CallProc(c)], CallBucket(c), cost) \in Totals
    BY DEF TypeOK, Add, Totals
  <2>2. lost' \in BOOLEAN
    <3>1. lost' = (lost \/ CallProc(c) \in behind)
      BY <1>9 DEF Answer, Counted
    <3> QED
      BY <3>1, Zenon DEF TypeOK
  <2>3. paid' \in Totals
    <3>1. NoTotals \in Totals /\ Add(paid, CallBucket(c), cost) \in Totals
      BY DEF TypeOK, Add, Totals, NoTotals
    <3>2. paid' = IF lost' THEN NoTotals ELSE Add(paid, CallBucket(c), cost)
      BY <1>9 DEF Answer, Counted
    <3> QED
      BY <3>1, <3>2, Zenon
  <2>4. behind' \subseteq up'
    BY <1>9 DEF Answer, Counted
  <2> QED
    BY <1>9, <2>1, <2>2, <2>3, <2>4 DEF TypeOK, Answer, Counted
<1> QED
  BY <1>1, <1>3, <1>4, <1>5, <1>6, <1>7, <1>8, <1>9 DEF Next

-----------------------------------------------------------------------------
(* Room for the calls that are open. *)

(* Fewer open calls and no more spent: what held still holds. *)
LEMMA FewerOpen ==
  ASSUME TypeOK, TypeOK', RoomForCalls, inflight' \subseteq inflight,
         NEW p \in Processes, NEW b \in Buckets, spent'[p][b] = spent[p][b]
  PROVE  spent'[p][b] + MaxCost * Cardinality(Open(p, b)') <= Ceiling(b)
<1>1. Open(p, b)' \subseteq Open(p, b)
  BY DEF Open
<1>2. /\ IsFiniteSet(Open(p, b)) /\ Cardinality(Open(p, b)) \in Nat
      /\ Cardinality(Open(p, b)') \in Nat
      /\ Cardinality(Open(p, b)') <= Cardinality(Open(p, b))
  BY <1>1, OpenFacts, FS_Subset, FS_CardinalityType
<1>3. MaxCost * Cardinality(Open(p, b)') <= MaxCost * Cardinality(Open(p, b))
  BY <1>2, ConstantFacts, Times
<1>4. /\ MaxCost * Cardinality(Open(p, b)') \in Nat
      /\ MaxCost * Cardinality(Open(p, b)) \in Nat
      /\ spent[p][b] \in Nat /\ Ceiling(b) \in Nat
  BY <1>2, ConstantFacts, Times, BoundFacts DEF TypeOK, Totals
<1>5. spent[p][b] + MaxCost * Cardinality(Open(p, b)) <= Ceiling(b)
  BY DEF RoomForCalls
<1> QED
  BY <1>3, <1>4, <1>5

(* A process that starts has no open calls, and loads what another counted. *)
LEMMA StartKeepsRoom ==
  ASSUME TypeOK, TypeOK', RoomForCalls, NEW p \in Processes, Start(p)
  PROVE  RoomForCalls'
<1>1. /\ inflight' = inflight /\ saved' = saved
      /\ spent' = [spent EXCEPT ![p] = IF file = "absent" THEN NoTotals ELSE saved]
  BY DEF Start, fileVars, paidVars
<1>2. ASSUME NEW q \in Processes, NEW b \in Buckets
      PROVE  spent'[q][b] + MaxCost * Cardinality(Open(q, b)') <= Ceiling(b)
  <2>1. CASE q # p
    BY <1>1, <2>1, FewerOpen DEF TypeOK
  <2>2. CASE q = p
    <3>1. Open(q, b)' = {}
      BY <2>2 DEF Start, TypeOK, Open
    <3>2. Cardinality(Open(q, b)') = 0
      BY <3>1, FS_EmptySet
    <3>3. spent'[q][b] <= Ceiling(b) /\ spent'[q][b] \in Nat
      BY <1>1, <2>2, BoundFacts DEF TypeOK, Totals, NoTotals, RoomForCalls
    <3> QED
      BY <3>2, <3>3, ConstantFacts, BoundFacts
  <2> QED
    BY <2>1, <2>2
<1> QED
  BY <1>1, <1>2 DEF RoomForCalls, Ceiling

(* ensure_room: there is room for one call more at its highest price. *)
LEMMA SendKeepsRoom ==
  ASSUME TypeOK, TypeOK', RoomForCalls, NEW c \in Calls, Send(c)
  PROVE  RoomForCalls'
<1>1. spent' = spent /\ saved' = saved /\ inflight' = inflight \cup {c}
  BY DEF Send, fileVars, paidVars
<1>2. ASSUME NEW p \in Processes, NEW b \in Buckets
      PROVE  spent'[p][b] + MaxCost * Cardinality(Open(p, b)') <= Ceiling(b)
  <2>1. CASE p = CallProc(c) /\ b = CallBucket(c)
    <3>1. spent[p][b] < Budget[b]
      BY <2>1, ConstantFacts DEF Send, SpentFor, CallProc, CallBucket
    <3>2. spent[p][b] \in Nat /\ Budget[b] \in Nat /\ Budget[b] # 0
      BY <3>1, BoundFacts DEF TypeOK, Totals
    <3>3. Open(p, b)' \subseteq CallsOn(b)
      BY DEF Open, CallsOn, TypeOK
    <3>4. /\ Cardinality(Open(p, b)') \in Nat /\ Cardinality(CallsOn(b)) \in Nat
          /\ Cardinality(Open(p, b)') <= Cardinality(CallsOn(b))
      BY <3>3, BoundFacts, FS_Subset, FS_CardinalityType
    <3>5. /\ MaxCost * Cardinality(Open(p, b)') <= MaxCost * Cardinality(CallsOn(b))
          /\ MaxCost * Cardinality(Open(p, b)') \in Nat
          /\ MaxCost * Cardinality(CallsOn(b)) \in Nat
      BY <3>4, ConstantFacts, Times
    <3>6. Ceiling(b) = Budget[b] - 1 + MaxCost * Cardinality(CallsOn(b))
      BY <3>2 DEF Ceiling
    <3> QED
      BY <1>1, <3>1, <3>2, <3>5, <3>6
  <2>2. CASE ~(p = CallProc(c) /\ b = CallBucket(c))
    <3>1. Open(p, b)' = Open(p, b)
      BY <1>1, <2>2 DEF Open
    <3> QED
      BY <1>1, <3>1 DEF RoomForCalls
  <2> QED
    BY <2>1, <2>2
<1> QED
  BY <1>1, <1>2 DEF RoomForCalls, Ceiling

(* record: the call is no longer open, and cost no more than its price. *)
LEMMA AnswerKeepsRoom ==
  ASSUME TypeOK, TypeOK', RoomForCalls, NEW c \in Calls, NEW cost \in 1..MaxCost, Answer(c, cost)
  PROVE  RoomForCalls'
<1> DEFINE p0 == CallProc(c)
           b0 == CallBucket(c)
<1>1. /\ c \in inflight /\ inflight' = inflight \ {c}
      /\ p0 \in Processes /\ b0 \in Buckets /\ cost \in Nat /\ cost <= MaxCost
      /\ spent' = [spent EXCEPT ![p0] = [spent[p0] EXCEPT ![b0] = @ + cost]]
      /\ saved' = [spent[p0] EXCEPT ![b0] = @ + cost]
  BY ConstantFacts DEF Answer, Counted, Add
<1>2. spent[p0] \in Totals /\ spent'[p0] = saved'
  BY <1>1 DEF TypeOK
<1>3. ASSUME NEW p \in Processes, NEW b \in Buckets
      PROVE  spent'[p][b] + MaxCost * Cardinality(Open(p, b)') <= Ceiling(b)
  <2>1. CASE p = p0 /\ b = b0
    <3>1. Open(p, b)' = Open(p, b) \ {c} /\ c \in Open(p, b)
      BY <1>1, <2>1 DEF Open
    <3>2. /\ IsFiniteSet(Open(p, b)) /\ Cardinality(Open(p, b)) \in Nat
          /\ Cardinality(Open(p, b)') = Cardinality(Open(p, b)) - 1
      BY <3>1, OpenFacts, FS_RemoveElement
    <3>3. spent'[p][b] = spent[p][b] + cost /\ spent[p][b] \in Nat
      BY <1>1, <1>2, <2>1 DEF TypeOK, Totals
    <3>4. spent[p][b] + MaxCost * Cardinality(Open(p, b)) <= Ceiling(b)
      BY DEF RoomForCalls
    <3>5. MaxCost * (Cardinality(Open(p, b)) - 1) = MaxCost * Cardinality(Open(p, b)) - MaxCost
      BY <3>2, ConstantFacts
    <3>6. MaxCost * Cardinality(Open(p, b)) \in Nat /\ Ceiling(b) \in Nat
      BY OpenFacts, BoundFacts
    <3> QED
      BY <1>1, <3>2, <3>3, <3>4, <3>5, <3>6, ConstantFacts
  <2>2. CASE ~(p = p0 /\ b = b0)
    <3>1. spent'[p][b] = spent[p][b]
      BY <1>1, <1>2, <2>2 DEF TypeOK, Totals
    <3>2. inflight' \subseteq inflight
      BY <1>1
    <3> QED
      BY <3>1, <3>2, FewerOpen
  <2> QED
    BY <2>1, <2>2
<1>4. ASSUME NEW b \in Buckets PROVE saved'[b] <= Ceiling(b)
  <2>1. spent'[p0][b] + MaxCost * Cardinality(Open(p0, b)') <= Ceiling(b)
    BY <1>1, <1>3
  <2>2. spent'[p0][b] \in Nat /\ Ceiling(b) \in Nat /\ MaxCost * Cardinality(Open(p0, b)') \in Nat
    <3>1. Open(p0, b)' \subseteq Calls
      BY DEF Open, TypeOK
    <3>2. Cardinality(Open(p0, b)') \in Nat
      BY <3>1, SpendAssumption, FS_Subset, FS_CardinalityType
    <3> QED
      BY <1>1, <3>2, ConstantFacts, Times, BoundFacts DEF TypeOK, Totals
  <2> QED
    BY <1>2, <2>1, <2>2
<1> QED
  BY <1>3, <1>4 DEF RoomForCalls, Ceiling

(* No step leaves a total without room for the calls under way. *)
LEMMA RoomPreserved ==
  ASSUME TypeOK, RoomForCalls, Next
  PROVE  RoomForCalls'
<1>0. TypeOK'
  BY TypePreserved
<1>1. ASSUME spent' = spent, inflight' \subseteq inflight,
             saved' = saved \/ saved' = NoTotals
      PROVE  RoomForCalls'
  <2>1. ASSUME NEW p \in Processes, NEW b \in Buckets
        PROVE  spent'[p][b] + MaxCost * Cardinality(Open(p, b)') <= Ceiling(b)
    BY <1>0, <1>1, FewerOpen
  <2>2. ASSUME NEW b \in Buckets PROVE saved'[b] <= Ceiling(b)
    BY <1>1, BoundFacts DEF RoomForCalls, NoTotals
  <2> QED
    BY <2>1, <2>2 DEF RoomForCalls, Ceiling
<1>2. ASSUME NEW p \in Processes, Stop(p) PROVE RoomForCalls'
  BY <1>1, <1>2 DEF Stop, Ends, fileVars, paidVars
<1>3. ASSUME NEW c \in Calls, DiesWriting(c) \/ CallFails(c) PROVE RoomForCalls'
  BY <1>1, <1>3 DEF DiesWriting, Ends, CallFails, fileVars, paidVars
<1>4. CASE ResetByHand
  BY <1>1, <1>4 DEF ResetByHand
<1>5. ASSUME NEW t \in Tasks, Begin(t) \/ End(t) PROVE RoomForCalls'
  BY <1>1, <1>5 DEF Begin, End, fileVars, paidVars
<1> QED
  BY <1>0, <1>2, <1>3, <1>4, <1>5, StartKeepsRoom, SendKeepsRoom, AnswerKeepsRoom DEF Next

-----------------------------------------------------------------------------
(* Whose cost it is. *)

(* Mates share one process and one bucket. *)
LEMMA MatesFacts ==
  ASSUME NEW t \in Tasks
  PROVE  /\ t \in Mates(t)
         /\ \A u \in Tasks : u \in Mates(t) <=> t \in Mates(u)
         /\ \A u \in Tasks : u \in Mates(t) <=>
                ProcOf[u] = ProcOf[t] /\ BucketOf[u] = BucketOf[t]
BY DEF Mates

(* Whoever gets company is marked as sharing. *)
LEMMA AlonePreserved ==
  ASSUME TypeOK, AloneUnlessShared, Next
  PROVE  AloneUnlessShared'
<1>1. ASSUME running' \subseteq running, inflight' \subseteq inflight,
             \A t \in running' : shared'[t] = shared[t]
      PROVE  AloneUnlessShared'
  BY <1>1 DEF AloneUnlessShared
<1>2. ASSUME NEW p \in Processes, Ends(p) \/ Start(p) PROVE AloneUnlessShared'
  <2>1. running' \subseteq running /\ inflight' \subseteq inflight
    BY <1>2 DEF Ends, Forget, Start, taskVars
  <2>2. ASSUME NEW t \in running' PROVE shared'[t] = shared[t]
    <3>1. CASE Start(p)
      BY <3>1 DEF Start, taskVars
    <3>2. CASE Ends(p)
      <4>1. t \in Tasks /\ t \notin {u \in running : ProcOf[u] = p} /\ shared[t] \in BOOLEAN
        BY <2>2, <3>2 DEF Ends, Forget, TypeOK
      <4> QED
        BY <3>2, <4>1 DEF Ends, Forget
    <3> QED
      BY <1>2, <3>1, <3>2
  <2> QED
    BY <1>1, <2>1, <2>2
<1>3. ASSUME NEW t \in Tasks, End(t) PROVE AloneUnlessShared'
  <2>1. running' \subseteq running /\ inflight' = inflight
    BY <1>3 DEF End, Forget
  <2>2. ASSUME NEW u \in running' PROVE shared'[u] = shared[u]
    <3>1. u \in Tasks /\ u \notin {t} /\ shared[u] \in BOOLEAN
      BY <1>3, <2>2 DEF End, Forget, TypeOK
    <3> QED
      BY <1>3, <3>1 DEF End, Forget
  <2> QED
    BY <1>1, <2>1, <2>2
<1>4. ASSUME NEW t \in Tasks, Begin(t) PROVE AloneUnlessShared'
  <2>1. /\ running' = running \cup {t} /\ inflight' = inflight /\ t \notin running
        /\ shared' = [u \in Tasks |-> IF u = t THEN NotAlone(t)
                                      ELSE shared[u] \/ (u \in running /\ u \in Mates(t))]
    BY <1>4 DEF Begin
  <2> SUFFICES ASSUME NEW u \in running', ~shared'[u]
               PROVE  /\ running' \cap Mates(u) \subseteq {u}
                      /\ \A c \in inflight : TaskOf[c] \in Mates(u) => TaskOf[c] = u
    BY <2>1 DEF AloneUnlessShared
  <2>2. u \in Tasks /\ running \subseteq Tasks
    BY <2>1 DEF TypeOK
  <2>3. CASE u = t
    <3>1. ~NotAlone(t)
      BY <2>1, <2>3
    <3> QED
      BY <2>1, <2>3, <3>1 DEF NotAlone
  <2>4. CASE u # t
    <3>1. u \in running /\ ~shared[u] /\ u \notin Mates(t)
      BY <2>1, <2>2, <2>4
    <3>2. t \notin Mates(u)
      BY <2>2, <3>1, MatesFacts
    <3> QED
      BY <2>1, <3>1, <3>2 DEF AloneUnlessShared
  <2> QED
    BY <2>3, <2>4
<1>5. ASSUME NEW c \in Calls, Send(c) PROVE AloneUnlessShared'
  <2>1. /\ running' = running /\ shared' = shared /\ inflight' = inflight \cup {c}
        /\ TaskOf[c] \in running
    BY <1>5 DEF Send, taskVars
  <2> SUFFICES ASSUME NEW t \in running, ~shared[t]
               PROVE  /\ running \cap Mates(t) \subseteq {t}
                      /\ \A d \in inflight' : TaskOf[d] \in Mates(t) => TaskOf[d] = t
    BY <2>1 DEF AloneUnlessShared
  <2>2. /\ running \cap Mates(t) \subseteq {t}
        /\ \A d \in inflight : TaskOf[d] \in Mates(t) => TaskOf[d] = t
    BY DEF AloneUnlessShared
  <2> QED
    BY <2>1, <2>2
<1>6. ASSUME NEW c \in Calls, CallFails(c) PROVE AloneUnlessShared'
  BY <1>1, <1>6 DEF CallFails, taskVars
<1>7. ASSUME NEW c \in Calls, NEW cost \in 1..MaxCost, Answer(c, cost) PROVE AloneUnlessShared'
  BY <1>1, <1>7 DEF Answer, Counted
<1>8. CASE ResetByHand
  BY <1>1, <1>8 DEF ResetByHand, taskVars
<1> QED
  BY <1>2, <1>3, <1>4, <1>5, <1>6, <1>7, <1>8, ConstantFacts DEF Next, Stop, DiesWriting

(* What a total grew by since a query began covers the query's own calls. *)
LEMMA CostPreserved ==
  ASSUME TypeOK, AloneUnlessShared, CostIsOwn, Next
  PROVE  CostIsOwn'
<1> DEFINE Right(t) == /\ SpentFor(t) >= before[t] + own[t]
                       /\ ~shared[t] => SpentFor(t) = before[t] + own[t]
<1>0. running \subseteq Tasks /\ \A t \in running : Right(t)
  BY DEF CostIsOwn, TypeOK
<1>1. ASSUME NEW t \in running,
             SpentFor(t)' = SpentFor(t), before'[t] = before[t], own'[t] = own[t],
             ~shared'[t] => ~shared[t]
      PROVE  Right(t)'
  BY <1>0, <1>1
<1>2. ASSUME NEW p \in Processes, Start(p) PROVE CostIsOwn'
  <2>1. ASSUME NEW t \in running PROVE SpentFor(t)' = SpentFor(t)
    <3>1. t \in Tasks /\ ProcOf[t] # p /\ ProcOf[t] \in Processes
      BY <1>2, ConstantFacts DEF Start, TypeOK
    <3> QED
      BY <1>2, <3>1 DEF Start, SpentFor, TypeOK
  <2>2. UNCHANGED <<running, before, own, shared>>
    BY <1>2 DEF Start, taskVars
  <2> QED
    BY <1>1, <2>1, <2>2 DEF CostIsOwn
<1>3. ASSUME NEW gone, Forget(gone), spent' = spent PROVE CostIsOwn'
  <2> SUFFICES ASSUME NEW t \in running' PROVE Right(t)'
    BY DEF CostIsOwn
  <2>1. t \in running /\ t \in Tasks /\ t \notin gone
    BY <1>0, <1>3 DEF Forget
  <2>2. before'[t] = before[t] /\ own'[t] = own[t]
    BY <1>3, <2>1 DEF Forget
  <2>3. ~shared'[t] => ~shared[t]
    BY <1>3, <2>1 DEF Forget
  <2>4. SpentFor(t)' = SpentFor(t)
    BY <1>3 DEF SpentFor
  <2> QED
    BY <1>1, <2>1, <2>2, <2>3, <2>4
<1>4. ASSUME NEW t \in Tasks, Begin(t) PROVE CostIsOwn'
  <2> SUFFICES ASSUME NEW u \in running' PROVE Right(u)'
    BY DEF CostIsOwn
  <2>1. /\ spent' = spent /\ running' = running \cup {t}
        /\ before' = [before EXCEPT ![t] = SpentFor(t)] /\ own' = [own EXCEPT ![t] = 0]
    BY <1>4 DEF Begin
  <2>2. CASE u = t
    <3>1. before'[t] = SpentFor(t) /\ own'[t] = 0 /\ SpentFor(t)' = SpentFor(t)
      BY <2>1 DEF TypeOK, SpentFor
    <3>2. SpentFor(t) \in Nat
      BY ConstantFacts DEF SpentFor, TypeOK, Totals
    <3> QED
      BY <2>2, <3>1, <3>2
  <2>3. CASE u # t
    <3>1. u \in running /\ u \in Tasks
      BY <1>0, <2>1, <2>3
    <3>2. before'[u] = before[u] /\ own'[u] = own[u] /\ SpentFor(u)' = SpentFor(u)
      BY <2>1, <2>3, <3>1 DEF TypeOK, SpentFor
    <3>3. ~shared'[u] => ~shared[u]
      BY <1>4, <2>3, <3>1 DEF Begin
    <3> QED
      BY <1>1, <3>1, <3>2, <3>3
  <2> QED
    BY <2>2, <2>3
<1>5. ASSUME NEW c \in Calls, NEW cost \in 1..MaxCost, Answer(c, cost) PROVE CostIsOwn'
  <2> DEFINE k == TaskOf[c]
  <2>1. /\ c \in inflight /\ k \in Tasks /\ cost \in Nat
        /\ UNCHANGED <<running, before, shared>>
        /\ spent' = [spent EXCEPT ![ProcOf[k]] = [spent[ProcOf[k]] EXCEPT ![BucketOf[k]] = @ + cost]]
        /\ own' = [own EXCEPT ![k] = IF k \in running THEN @ + cost ELSE @]
    BY <1>5, ConstantFacts DEF Answer, Counted, Add, CallProc, CallBucket
  <2> SUFFICES ASSUME NEW t \in running PROVE Right(t)'
    BY <2>1 DEF CostIsOwn
  <2>2. /\ t \in Tasks /\ before[t] \in Nat /\ own[t] \in Nat /\ SpentFor(t) \in Nat
        /\ ProcOf[t] \in Processes /\ BucketOf[t] \in Buckets
    BY <1>0, ConstantFacts DEF TypeOK, SpentFor, Totals
  <2>3. CASE k \in Mates(t)
    <3>1. SpentFor(t)' = SpentFor(t) + cost
      BY <2>1, <2>2, <2>3 DEF Mates, SpentFor, TypeOK, Totals
    <3>2. CASE k = t
      <4>1. own'[t] = own[t] + cost
        BY <2>1, <2>2, <3>2 DEF TypeOK
      <4> QED
        BY <1>0, <2>1, <2>2, <3>1, <4>1
    <3>3. CASE k # t
      <4>1. own'[t] = own[t] /\ shared[t]
        BY <2>1, <2>2, <2>3, <3>3 DEF TypeOK, AloneUnlessShared
      <4> QED
        BY <1>0, <2>1, <2>2, <3>1, <4>1
    <3> QED
      BY <3>2, <3>3
  <2>4. CASE k \notin Mates(t)
    <3>1. k # t /\ own'[t] = own[t]
      BY <2>1, <2>2, <2>4, MatesFacts DEF TypeOK
    <3>2. SpentFor(t)' = SpentFor(t)
      BY <2>1, <2>2, <2>4 DEF Mates, SpentFor, TypeOK, Totals
    <3> QED
      BY <1>1, <2>1, <3>1, <3>2
  <2> QED
    BY <2>3, <2>4
<1>6. ASSUME UNCHANGED <<spent, taskVars>> PROVE CostIsOwn'
  BY <1>6 DEF CostIsOwn, taskVars, SpentFor
<1>7. ASSUME NEW c \in Calls, Send(c) \/ CallFails(c) PROVE CostIsOwn'
  BY <1>6, <1>7 DEF Send, CallFails
<1>8. CASE ResetByHand
  BY <1>6, <1>8 DEF ResetByHand
<1> HIDE DEF Right
<1> QED
  BY <1>2, <1>3, <1>4, <1>5, <1>7, <1>8 DEF Next, Stop, DiesWriting, Ends, End

-----------------------------------------------------------------------------
(* The file. *)

(* The file holds the totals of its last writer. *)
LEMMA FilePreserved ==
  ASSUME TypeOK, FileIsLatest, Next
  PROVE  FileIsLatest'
<1>1. ASSUME NEW p \in Processes, Start(p) PROVE FileIsLatest'
  <2>1. /\ UNCHANGED <<file, saved, writer>>
        /\ spent' = [spent EXCEPT ![p] = IF file = "absent" THEN NoTotals ELSE saved]
    BY <1>1 DEF Start, fileVars, paidVars
  <2>2. ASSUME file = "whole" PROVE writer \in Processes /\ saved = spent'[writer]
    BY <2>1, <2>2 DEF FileIsLatest, TypeOK
  <2> QED
    BY <2>1, <2>2 DEF FileIsLatest
<1>2. ASSUME NEW c \in Calls, NEW cost \in 1..MaxCost, Answer(c, cost) PROVE FileIsLatest'
  BY <1>2, ConstantFacts DEF Answer, Counted, FileIsLatest, TypeOK
<1>3. ASSUME NEW c \in Calls, DiesWriting(c) PROVE FileIsLatest'
  BY <1>3 DEF DiesWriting, FileIsLatest
<1>4. CASE ResetByHand
  BY <1>4 DEF ResetByHand, FileIsLatest
<1>5. ASSUME UNCHANGED <<spent, fileVars>> PROVE FileIsLatest'
  BY <1>5 DEF FileIsLatest, fileVars, paidVars
<1>6. ASSUME NEW p \in Processes, Stop(p) PROVE FileIsLatest'
  BY <1>5, <1>6 DEF Stop, Ends
<1>7. ASSUME NEW t \in Tasks, Begin(t) \/ End(t) PROVE FileIsLatest'
  BY <1>5, <1>7 DEF Begin, End
<1>8. ASSUME NEW c \in Calls, Send(c) \/ CallFails(c) PROVE FileIsLatest'
  BY <1>5, <1>8 DEF Send, CallFails
<1> QED
  BY <1>1, <1>2, <1>3, <1>4, <1>6, <1>7, <1>8 DEF Next

-----------------------------------------------------------------------------
(* What all processes paid. *)

(* record: a process that knows what was written last is now the only one  *)
(* that does, and its total covers the call with all that was paid before. *)
LEMMA AnswerKeepsPaid ==
  ASSUME TypeOK, PaidIsKnown, RoomForCalls', NEW c \in Calls, NEW cost \in 1..MaxCost,
         Answer(c, cost)
  PROVE  PaidIsKnown' /\ BudgetBindsAll'
<1> DEFINE p0 == CallProc(c)
           b0 == CallBucket(c)
<1> SUFFICES ASSUME ~lost' PROVE PaidIsKnown' /\ BudgetBindsAll'
  BY DEF PaidIsKnown, BudgetBindsAll
<1>1. /\ c \in inflight /\ p0 \in Processes /\ b0 \in Buckets /\ cost \in Nat
      /\ up' = up /\ file' = "whole"
      /\ spent' = [spent EXCEPT ![p0] = Add(spent[p0], b0, cost)]
      /\ saved' = Add(spent[p0], b0, cost)
      /\ behind' = up \ {p0}
      /\ lost' = (lost \/ p0 \in behind)
      /\ paid' = Add(paid, b0, cost)
  BY ConstantFacts DEF Answer, Counted
<1>2. p0 \in up /\ ~lost /\ p0 \notin behind
  BY <1>1 DEF TypeOK
<1>3. \A b \in Buckets : paid[b] \in Nat /\ spent[p0][b] \in Nat /\ paid[b] <= spent[p0][b]
  BY <1>1, <1>2 DEF TypeOK, Totals, PaidIsKnown
<1>4. spent'[p0] = saved'
  BY <1>1 DEF TypeOK
<1>5. ASSUME NEW b \in Buckets
      PROVE  paid'[b] <= saved'[b] /\ paid'[b] \in Nat /\ saved'[b] \in Nat
  <2>1. /\ paid'[b] = IF b = b0 THEN paid[b] + cost ELSE paid[b]
        /\ saved'[b] = IF b = b0 THEN spent[p0][b] + cost ELSE spent[p0][b]
    BY <1>1 DEF Add, TypeOK, Totals
  <2> QED
    BY <1>1, <1>3, <2>1
<1>6. \A p \in up' \ behind' : p = p0
  BY <1>1
<1>7. PaidIsKnown'
  BY <1>1, <1>4, <1>5, <1>6 DEF PaidIsKnown
<1>8. ASSUME NEW b \in Buckets PROVE paid'[b] <= Ceiling(b)
  <2>1. saved'[b] <= Ceiling(b) /\ Ceiling(b) \in Nat
    BY BoundFacts DEF RoomForCalls, Ceiling
  <2> QED
    BY <1>5, <2>1
<1> QED
  BY <1>7, <1>8 DEF BudgetBindsAll, Ceiling

(* No step lets the processes together pay more than one of them may. *)
LEMMA PaidPreserved ==
  ASSUME TypeOK, RoomForCalls, PaidIsKnown, BudgetBindsAll, Next
  PROVE  PaidIsKnown' /\ BudgetBindsAll'
<1>1. ASSUME UNCHANGED <<paid, lost, spent>>,
             UNCHANGED <<file, saved>> \/ file' = "broken",
             up' \ behind' \subseteq up \ behind
      PROVE  PaidIsKnown' /\ BudgetBindsAll'
  BY <1>1 DEF PaidIsKnown, BudgetBindsAll, Ceiling
<1>2. ASSUME NEW p \in Processes, Start(p) PROVE PaidIsKnown' /\ BudgetBindsAll'
  <2>1. /\ UNCHANGED <<paid, behind, lost, file, saved>> /\ up' = up \cup {p}
        /\ file # "broken"
        /\ spent' = [spent EXCEPT ![p] = IF file = "absent" THEN NoTotals ELSE saved]
    BY <1>2 DEF Start, fileVars, paidVars
  <2>2. ASSUME ~lost, NEW q \in up' \ behind', NEW b \in Buckets PROVE paid[b] <= spent'[q][b]
    <3>1. CASE q # p
      BY <2>1, <2>2, <3>1 DEF PaidIsKnown, TypeOK
    <3>2. CASE q = p /\ file = "absent"
      BY <2>1, <2>2, <3>2 DEF PaidIsKnown, TypeOK, NoTotals
    <3>3. CASE q = p /\ file = "whole"
      BY <2>1, <2>2, <3>3 DEF PaidIsKnown, TypeOK
    <3> QED
      BY <2>1, <3>1, <3>2, <3>3 DEF TypeOK
  <2> QED
    BY <2>1, <2>2 DEF PaidIsKnown, BudgetBindsAll, Ceiling
<1>3. ASSUME NEW p \in Processes, Stop(p) PROVE PaidIsKnown' /\ BudgetBindsAll'
  BY <1>1, <1>3 DEF Stop, Ends, fileVars
<1>4. ASSUME NEW c \in Calls, DiesWriting(c) PROVE PaidIsKnown' /\ BudgetBindsAll'
  BY <1>1, <1>4 DEF DiesWriting, Ends
<1>5. CASE ResetByHand
  <2>1. /\ paid' = NoTotals /\ file' = "absent" /\ up' \subseteq Processes
        /\ spent' \in [Processes -> Totals]
    BY <1>5 DEF ResetByHand, TypeOK
  <2>2. \A b \in Buckets : paid'[b] = 0 /\ 0 <= Ceiling(b)
    BY <2>1, BoundFacts DEF NoTotals
  <2>3. \A p \in up', b \in Buckets : paid'[b] <= spent'[p][b]
    BY <2>1, <2>2 DEF Totals
  <2> QED
    BY <2>1, <2>2, <2>3 DEF PaidIsKnown, BudgetBindsAll, Ceiling
<1>6. ASSUME NEW t \in Tasks, Begin(t) \/ End(t) PROVE PaidIsKnown' /\ BudgetBindsAll'
  BY <1>1, <1>6 DEF Begin, End, fileVars, paidVars
<1>7. ASSUME NEW c \in Calls, Send(c) \/ CallFails(c) PROVE PaidIsKnown' /\ BudgetBindsAll'
  BY <1>1, <1>7 DEF Send, CallFails, fileVars, paidVars
<1>8. ASSUME NEW c \in Calls, NEW cost \in 1..MaxCost, Answer(c, cost)
      PROVE  PaidIsKnown' /\ BudgetBindsAll'
  BY <1>8, RoomPreserved, AnswerKeepsPaid
<1> QED
  BY <1>2, <1>3, <1>4, <1>5, <1>6, <1>7, <1>8 DEF Next

-----------------------------------------------------------------------------
(* Every reachable state satisfies the invariant. *)
THEOREM InvariantHolds == Spec => []SpendInv
<1>1. Init => SpendInv
  <2> SUFFICES ASSUME Init PROVE SpendInv
    OBVIOUS
  <2>1. TypeOK
    BY ConstantFacts DEF Init, TypeOK
  <2>2. RoomForCalls
    <3>1. ASSUME NEW p \in Processes, NEW b \in Buckets PROVE Cardinality(Open(p, b)) = 0
      <4>1. Open(p, b) = {}
        BY DEF Init, Open
      <4> QED
        BY <4>1, FS_EmptySet
    <3> QED
      BY <3>1, BoundFacts, ConstantFacts DEF Init, RoomForCalls, NoTotals
  <2>3. AloneUnlessShared /\ CostIsOwn /\ FileIsLatest
    BY DEF Init, AloneUnlessShared, CostIsOwn, FileIsLatest
  <2>4. PaidIsKnown /\ BudgetBindsAll
    BY BoundFacts DEF Init, PaidIsKnown, BudgetBindsAll, NoTotals
  <2> QED
    BY <2>1, <2>2, <2>3, <2>4 DEF SpendInv
<1>2. SpendInv /\ [Next]_vars => SpendInv'
  <2>1. ASSUME SpendInv, Next PROVE SpendInv'
    BY <2>1, TypePreserved, RoomPreserved, AlonePreserved, CostPreserved, FilePreserved,
       PaidPreserved
       DEF SpendInv
  <2>2. ASSUME SpendInv, UNCHANGED vars PROVE SpendInv'
    BY <2>2 DEF vars, fileVars, paidVars, taskVars, SpendInv, TypeOK, RoomForCalls, Ceiling, Open,
                AloneUnlessShared, CostIsOwn, SpentFor, FileIsLatest, PaidIsKnown,
                BudgetBindsAll
  <2> QED
    BY <2>1, <2>2
<1> QED
  BY <1>1, <1>2, PTL DEF Spec

(* Each variable of the limiter keeps its type. *)
THEOREM TypeCorrect == Spec => []TypeOK
<1>1. SpendInv => TypeOK
  BY DEF SpendInv
<1> QED
  BY <1>1, InvariantHolds, PTL

(* ensure_room and record: a total passes its budget by less than what all *)
(* calls on that bucket can cost at once.                                  *)
THEOREM TotalsAreBounded == Spec => []OvershootIsBounded
<1>1. SpendInv => OvershootIsBounded
  <2> SUFFICES ASSUME SpendInv, NEW p \in Processes, NEW b \in Buckets
               PROVE  spent[p][b] <= Ceiling(b)
    BY DEF OvershootIsBounded, Ceiling
  <2>1. /\ spent[p][b] \in Nat /\ MaxCost * Cardinality(Open(p, b)) \in Nat /\ Ceiling(b) \in Nat
        /\ spent[p][b] + MaxCost * Cardinality(Open(p, b)) <= Ceiling(b)
    BY OpenFacts, BoundFacts DEF SpendInv, TypeOK, Totals, RoomForCalls
  <2> QED
    BY <2>1
<1> QED
  BY <1>1, InvariantHolds, PTL

(* Restarts, deaths in the middle of a write and several processes on one  *)
(* file do not add up to more than one process may spend, unless one of    *)
(* them writes over totals it never read.                                  *)
THEOREM BudgetsBindAll == Spec => []BudgetBindsAll
<1>1. SpendInv => BudgetBindsAll
  BY DEF SpendInv
<1> QED
  BY <1>1, InvariantHolds, PTL

(* execute_context_query: what cost_usd says of the query's own calls. *)
THEOREM CostsAreOwn == Spec => []CostIsOwn
<1>1. SpendInv => CostIsOwn
  BY DEF SpendInv
<1> QED
  BY <1>1, InvariantHolds, PTL

(* SpendLimiter(): a restart loses nothing unless the file was written by  *)
(* somebody else.                                                          *)
THEOREM RestartsKeepTotals == Spec => TotalsSurviveRestarts
<1>1. SpendInv /\ [Next]_vars =>
        [\A p \in Processes : p \in up' \ up /\ writer = p => spent'[p] = spent[p]]_vars
  <2> SUFFICES ASSUME SpendInv, Next, NEW p \in Processes, p \in up' \ up, writer = p
               PROVE  spent'[p] = spent[p]
    OBVIOUS
  <2>1. Start(p)
    BY DEF Next, Start, Stop, Ends, ResetByHand, Begin, End, Send, CallFails, DiesWriting,
           Answer, Counted
  <2>2. file = "whole" /\ saved = spent[p]
    BY <2>1, SpendAssumption DEF SpendInv, FileIsLatest, Start, TypeOK
  <2> QED
    BY <2>1, <2>2 DEF Start, SpendInv, TypeOK
<1> QED
  BY <1>1, InvariantHolds, PTL DEF Spec, TotalsSurviveRestarts
=============================================================================
