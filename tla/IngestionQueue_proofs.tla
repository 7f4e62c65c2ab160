------------------------ MODULE IngestionQueue_proofs ------------------------
(***************************************************************************)
(* What the ingestion queue guarantees for every set of jobs and every     *)
(* number of permits.                                                      *)
(*                                                                         *)
(* That the permits add up needs more than itself: Begin takes a permit    *)
(* for a job only if the job was not holding one yet, so the invariant     *)
(* says that no job is in two places (NoJobTwice).  That stop() outlives   *)
(* every job needs to know what stop() cancelled (StopMeans).              *)
(***************************************************************************)
EXTENDS IngestionQueue, FiniteSetTheorems, SequenceTheorems, TLAPS

Backlog == line \o queue

(* A job waits at most once, and not while it runs. *)
NoJobTwice ==
    /\ holding \subseteq enqueued
    /\ \A a \in 1..Len(Backlog) : Backlog[a] \in enqueued \ holding
    /\ \A a, b \in 1..Len(Backlog) : Backlog[a] = Backlog[b] => a = b

StopMeans ==
    /\ stopping = "no" => cancelled = {} /\ dispatcher = "running"
    /\ stopping # "no" => cancelled = Workers /\ dispatcher # "running"

QueueInv ==
    /\ TypeOK
    /\ IsFiniteSet(holding)
    /\ PermitsAddUp
    /\ NoJobTwice
    /\ StopMeans
    /\ NothingOutlivesStop

-----------------------------------------------------------------------------
(* What the steps do to the backlog. *)

(* put(): the backlog grows at its end. *)
LEMMA EnqueueAppends ==
  ASSUME TypeOK, NEW j \in Jobs, Enqueue(j)
  PROVE  /\ queue' \in Seq(Jobs) /\ line' = line
         /\ Backlog' = Append(Backlog, j)
<1>1. Append(queue, j) = queue \o <<j>>
  BY AppendIsConcat DEF TypeOK
<1>2. <<j>> \in Seq(Jobs)
  OBVIOUS
<1>3. (line \o queue) \o <<j>> = line \o (queue \o <<j>>)
  BY <1>2, ConcatAssociative DEF TypeOK
<1>4. line \o queue \in Seq(Jobs)
  BY ConcatProperties DEF TypeOK
<1>5. Append(line \o queue, j) = (line \o queue) \o <<j>>
  BY <1>4, AppendIsConcat
<1>6. queue' \in Seq(Jobs)
  BY AppendProperties DEF Enqueue, TypeOK
<1> QED
  BY <1>1, <1>3, <1>5, <1>6 DEF Enqueue, Backlog

(* _dispatch: a job moves from the queue into the line, its place kept. *)
LEMMA DispatchKeepsBacklog ==
  ASSUME TypeOK, Dispatch
  PROVE  /\ queue' \in Seq(Jobs) /\ line' \in Seq(Jobs)
         /\ Backlog' = Backlog
         /\ Range(line) \subseteq Range(line')
<1> DEFINE h == Head(queue)
           t == Tail(queue)
<1>1. h \in Jobs /\ t \in Seq(Jobs)
  BY HeadTailProperties DEF Dispatch, TypeOK
<1>2. queue' = t /\ line' = Append(line, h)
  BY DEF Dispatch
<1>3. queue = <<h>> \o t
  <2>1. <<h>> \in Seq(Jobs) /\ Len(<<h>>) = 1 /\ <<h>>[1] = h
    BY <1>1
  <2>2. /\ <<h>> \o t \in Seq(Jobs)
        /\ Len(<<h>> \o t) = 1 + Len(t)
        /\ \A i \in 1..(1 + Len(t)) : (<<h>> \o t)[i] = IF i <= 1 THEN <<h>>[i] ELSE t[i - 1]
    BY <1>1, <2>1, ConcatProperties
  <2>3. /\ Len(t) = Len(queue) - 1 /\ Len(queue) \in Nat
        /\ \A i \in 1..Len(t) : t[i] = queue[i + 1]
    BY HeadTailProperties, LenProperties DEF Dispatch, TypeOK
  <2>4. ASSUME NEW i \in 1..Len(queue) PROVE queue[i] = (<<h>> \o t)[i]
    <3>1. CASE i = 1
      BY <3>1, <2>1, <2>2, <2>3
    <3>2. CASE i # 1
      <4>1. i - 1 \in 1..Len(t) /\ (i - 1) + 1 = i
        BY <3>2, <2>3
      <4>2. t[i - 1] = queue[i]
        BY <4>1, <2>3
      <4> QED
        BY <3>2, <4>2, <2>2, <2>3
    <3> QED
      BY <3>1, <3>2
  <2>5. queue \in Seq(Jobs) /\ Len(queue) = Len(<<h>> \o t)
    BY <2>2, <2>3 DEF TypeOK
  <2> HIDE DEF h, t
  <2> QED
    BY <2>2, <2>4, <2>5, SeqEqual
<1>4. Append(line, h) = line \o <<h>> /\ line' \in Seq(Jobs)
  BY <1>1, <1>2, AppendIsConcat, AppendProperties DEF TypeOK
<1>5. (line \o <<h>>) \o t = line \o (<<h>> \o t)
  <2>1. <<h>> \in Seq(Jobs)
    BY <1>1
  <2> QED
    BY <1>1, <2>1, ConcatAssociative DEF TypeOK
<1>6. Range(line) \subseteq Range(line')
  <2>1. /\ Len(line') = Len(line) + 1
        /\ \A i \in 1..Len(line) : line'[i] = line[i]
    BY <1>1, <1>2, AppendProperties DEF TypeOK
  <2>2. DOMAIN line = 1..Len(line) /\ DOMAIN line' = 1..Len(line') /\ Len(line) \in Nat
    BY <1>4, LenProperties DEF TypeOK
  <2> QED
    BY <2>1, <2>2 DEF Range
<1>7. Backlog' = Append(line, h) \o t
  BY <1>2 DEF Backlog
<1> QED
  BY <1>1, <1>2, <1>3, <1>4, <1>5, <1>6, <1>7 DEF Backlog

(* The semaphore: the first in line is the first of the backlog. *)
LEMMA BeginTakesHead ==
  ASSUME TypeOK, line # <<>>
  PROVE  /\ Tail(line) \in Seq(Jobs)
         /\ Backlog # <<>>
         /\ Head(line) = Head(Backlog)
         /\ Tail(line) \o queue = Tail(Backlog)
<1> USE DEF Backlog
<1>1. /\ Len(line) \in Nat \ {0} /\ Len(queue) \in Nat
      /\ line \in Seq(Jobs) /\ queue \in Seq(Jobs)
  BY EmptySeq, LenProperties DEF TypeOK
<1>2. /\ Backlog \in Seq(Jobs)
      /\ Len(Backlog) = Len(line) + Len(queue)
      /\ \A i \in 1..Len(line) + Len(queue) :
            Backlog[i] = IF i <= Len(line) THEN line[i] ELSE queue[i - Len(line)]
  BY <1>1, ConcatProperties
<1>3. Backlog # <<>>
  BY <1>1, <1>2
<1>4. Head(line) = line[1] /\ Head(Backlog) = Backlog[1] /\ Backlog[1] = line[1]
  BY <1>1, <1>2
<1>5. /\ Tail(line) \in Seq(Jobs) /\ Len(Tail(line)) = Len(line) - 1
      /\ \A i \in 1..Len(Tail(line)) : Tail(line)[i] = line[i + 1]
  BY <1>1, HeadTailProperties
<1>6. /\ Tail(Backlog) \in Seq(Jobs) /\ Len(Tail(Backlog)) = Len(Backlog) - 1
      /\ \A i \in 1..Len(Tail(Backlog)) : Tail(Backlog)[i] = Backlog[i + 1]
  BY <1>2, <1>3, HeadTailProperties
<1>7. /\ Tail(line) \o queue \in Seq(Jobs)
      /\ Len(Tail(line) \o queue) = Len(Tail(line)) + Len(queue)
      /\ \A i \in 1..Len(Tail(line)) + Len(queue) :
            (Tail(line) \o queue)[i] =
                IF i <= Len(Tail(line)) THEN Tail(line)[i] ELSE queue[i - Len(Tail(line))]
  BY <1>1, <1>5, ConcatProperties
<1>8. ASSUME NEW i \in 1..Len(Tail(line) \o queue)
      PROVE  (Tail(line) \o queue)[i] = Tail(Backlog)[i]
  <2>1. /\ i \in 1..Len(Tail(line)) + Len(queue) /\ i \in 1..Len(Tail(Backlog))
        /\ i + 1 \in 1..Len(line) + Len(queue)
    BY <1>1, <1>2, <1>5, <1>6, <1>7
  <2>2. Tail(Backlog)[i] = Backlog[i + 1]
    BY <2>1, <1>6
  <2>3. CASE i <= Len(Tail(line))
    <3>1. Tail(line)[i] = line[i + 1] /\ i + 1 <= Len(line)
      BY <2>1, <2>3, <1>1, <1>5
    <3> QED
      BY <2>1, <2>2, <2>3, <3>1, <1>2, <1>7
  <2>4. CASE ~(i <= Len(Tail(line)))
    <3>1. ~(i + 1 <= Len(line)) /\ i - Len(Tail(line)) = (i + 1) - Len(line)
      BY <2>1, <2>4, <1>1, <1>5
    <3> QED
      BY <2>1, <2>2, <2>4, <3>1, <1>2, <1>7
  <2> QED
    BY <2>3, <2>4
<1>9. Len(Tail(line) \o queue) = Len(Tail(Backlog))
  BY <1>1, <1>2, <1>5, <1>6, <1>7
<1>10. Tail(line) \o queue = Tail(Backlog)
  BY <1>6, <1>7, <1>8, <1>9, SeqEqual
<1> QED
  BY <1>3, <1>4, <1>5, <1>10

-----------------------------------------------------------------------------
(* The invariant, part by part. *)

(* The backlog is a sequence that begins with the line. *)
LEMMA BacklogIsSeq ==
  ASSUME TypeOK
  PROVE  /\ Backlog \in Seq(Jobs) /\ Len(Backlog) = Len(line) + Len(queue)
         /\ \A i \in 1..Len(line) : i \in 1..Len(Backlog) /\ Backlog[i] = line[i]
         /\ Range(line) = {line[i] : i \in 1..Len(line)}
         /\ Len(line) \in Nat /\ Len(queue) \in Nat /\ Len(Backlog) \in Nat
<1>1. /\ line \in Seq(Jobs) /\ queue \in Seq(Jobs)
      /\ Len(line) \in Nat /\ Len(queue) \in Nat /\ DOMAIN line = 1..Len(line)
  BY LenProperties DEF TypeOK
<1>2. /\ Backlog \in Seq(Jobs) /\ Len(Backlog) = Len(line) + Len(queue)
      /\ \A i \in 1..Len(line) + Len(queue) :
            Backlog[i] = IF i <= Len(line) THEN line[i] ELSE queue[i - Len(line)]
  BY <1>1, ConcatProperties DEF Backlog
<1>3. ASSUME NEW i \in 1..Len(line)
      PROVE  i \in 1..Len(Backlog) /\ Backlog[i] = line[i]
  <2>1. i \in 1..Len(line) + Len(queue) /\ i <= Len(line)
    BY <1>1
  <2> QED
    BY <1>2, <2>1
<1> QED
  BY <1>1, <1>2, <1>3 DEF Range

(* The first worker in line is one of those in line. *)
LEMMA HeadIsInLine ==
  ASSUME TypeOK, line # <<>>
  PROVE  Head(line) \in Range(line)
<1>1. Head(line) = line[1] /\ 1 \in 1..Len(line)
  BY EmptySeq DEF TypeOK
<1> QED
  BY <1>1, BacklogIsSeq

(* Nobody in line holds a permit, and nobody is in line twice. *)
LEMMA LineIsApart ==
  ASSUME QueueInv
  PROVE  Range(line) \cap holding = {}
<1> QED
  BY BacklogIsSeq DEF QueueInv, NoJobTwice

(* No step puts a job into a second place. *)
LEMMA NoJobTwicePreserved ==
  ASSUME QueueInv, Next
  PROVE  NoJobTwice'
<1> USE DEF QueueInv
<1>0. /\ Backlog \in Seq(Jobs) /\ Len(Backlog) \in Nat
      /\ holding \subseteq enqueued
      /\ \A a \in 1..Len(Backlog) : Backlog[a] \in enqueued \ holding
      /\ \A a, b \in 1..Len(Backlog) : Backlog[a] = Backlog[b] => a = b
  BY BacklogIsSeq DEF NoJobTwice
<1>1. ASSUME NEW j \in Jobs, Enqueue(j) PROVE NoJobTwice'
  <2>1. Backlog' = Append(Backlog, j) /\ holding' = holding
        /\ j \notin enqueued /\ enqueued' = enqueued \cup {j}
    BY <1>1, EnqueueAppends DEF Enqueue
  <2>2. /\ Len(Backlog') = Len(Backlog) + 1
        /\ \A i \in 1..Len(Backlog) : Backlog'[i] = Backlog[i]
        /\ Backlog'[Len(Backlog) + 1] = j
    BY <1>0, <2>1, AppendProperties
  <2>3. ASSUME NEW a \in 1..Len(Backlog')
        PROVE  a \in 1..Len(Backlog) \/ a = Len(Backlog) + 1
    BY <2>2, <1>0
  <2>4. ASSUME NEW a \in 1..Len(Backlog')
        PROVE  Backlog'[a] \in enqueued' \ holding'
    BY <1>0, <2>1, <2>2, <2>3
  <2>5. ASSUME NEW a \in 1..Len(Backlog'), NEW b \in 1..Len(Backlog'), Backlog'[a] = Backlog'[b]
        PROVE  a = b
    BY <1>0, <2>1, <2>2, <2>3, <2>5
  <2> QED
    BY <1>0, <2>1, <2>4, <2>5 DEF NoJobTwice
<1>2. CASE Dispatch
  <2>1. Backlog' = Backlog /\ holding' = holding /\ enqueued' = enqueued
    BY <1>2, DispatchKeepsBacklog DEF Dispatch
  <2> QED
    BY <1>0, <2>1 DEF NoJobTwice
<1>3. CASE Begin
  <2>1. /\ Backlog # <<>> /\ Head(line) = Head(Backlog)
        /\ Backlog' = Tail(Backlog) /\ enqueued' = enqueued
        /\ holding' = holding \cup {Head(Backlog)}
    BY <1>3, BeginTakesHead DEF Begin, Backlog
  <2>2. /\ Len(Backlog') = Len(Backlog) - 1
        /\ \A i \in 1..Len(Backlog') : Backlog'[i] = Backlog[i + 1]
        /\ Len(Backlog) > 0 /\ Head(Backlog) = Backlog[1]
    BY <1>0, <2>1, HeadTailProperties, EmptySeq
  <2>3. ASSUME NEW a \in 1..Len(Backlog')
        PROVE  /\ a + 1 \in 1..Len(Backlog) /\ 1 \in 1..Len(Backlog) /\ a + 1 # 1
               /\ Backlog'[a] = Backlog[a + 1]
    BY <1>0, <2>2
  <2>4. ASSUME NEW a \in 1..Len(Backlog')
        PROVE  Backlog'[a] \in enqueued' \ holding'
    <3>1. Backlog[a + 1] # Backlog[1]
      BY <1>0, <2>3
    <3> QED
      BY <3>1, <1>0, <2>1, <2>2, <2>3
  <2>5. ASSUME NEW a \in 1..Len(Backlog'), NEW b \in 1..Len(Backlog'), Backlog'[a] = Backlog'[b]
        PROVE  a = b
    <3>1. a + 1 = b + 1
      BY <1>0, <2>3, <2>5
    <3> QED
      BY <3>1, <2>2, <1>0
  <2>6. holding' \subseteq enqueued'
    BY <1>0, <2>1, <2>2
  <2> QED
    BY <2>4, <2>5, <2>6 DEF NoJobTwice
<1>4. CASE LineUnwinds
  <2>1. Backlog' = queue /\ holding' = holding /\ enqueued' = enqueued
    BY <1>4, ConcatEmptySeq DEF LineUnwinds, Backlog, TypeOK
  <2>2. /\ Len(Backlog) = Len(line) + Len(queue) /\ Len(line) \in Nat /\ Len(queue) \in Nat
        /\ \A i \in 1..Len(line) + Len(queue) :
              Backlog[i] = IF i <= Len(line) THEN line[i] ELSE queue[i - Len(line)]
    BY ConcatProperties, LenProperties DEF Backlog, TypeOK
  <2>3. ASSUME NEW a \in 1..Len(queue)
        PROVE  /\ a + Len(line) \in 1..Len(Backlog)
               /\ queue[a] = Backlog[a + Len(line)]
    <3>1. /\ a + Len(line) \in 1..Len(line) + Len(queue)
          /\ ~(a + Len(line) <= Len(line)) /\ (a + Len(line)) - Len(line) = a
      BY <2>2
    <3> QED
      BY <2>2, <3>1
  <2>4. ASSUME NEW a \in 1..Len(queue), NEW b \in 1..Len(queue), queue[a] = queue[b]
        PROVE  a = b
    <3>1. a + Len(line) = b + Len(line)
      BY <1>0, <2>3, <2>4
    <3> QED
      BY <3>1, <2>2
  <2>5. \A a \in 1..Len(queue) : queue[a] \in enqueued \ holding
    BY <1>0, <2>3
  <2> QED
    BY <1>0, <2>1, <2>4, <2>5 DEF NoJobTwice
<1>5. ASSUME NEW j \in Jobs, End(j) \/ JobUnwinds(j) PROVE NoJobTwice'
  <2>1. Backlog' = Backlog /\ holding' = holding \ {j} /\ enqueued' = enqueued
    BY <1>5 DEF End, JobUnwinds, Leave, Backlog
  <2> QED
    BY <1>0, <2>1 DEF NoJobTwice
<1>6. CASE Stop \/ DispatcherUnwinds \/ StopReturns
  <2>1. Backlog' = Backlog /\ holding' = holding /\ enqueued' = enqueued
    BY <1>6 DEF Stop, DispatcherUnwinds, StopReturns, Backlog
  <2> QED
    BY <1>0, <2>1 DEF NoJobTwice
<1> QED
  BY <1>1, <1>2, <1>3, <1>4, <1>5, <1>6 DEF Next

(* Every step moves a permit exactly when it moves a job. *)
LEMMA PermitsPreserved ==
  ASSUME QueueInv, Next
  PROVE  IsFiniteSet(holding') /\ PermitsAddUp'
<1> USE DEF QueueInv
<1>0. /\ IsFiniteSet(holding) /\ permits + Cardinality(holding) = MaxConcurrent
      /\ permits \in Nat /\ MaxConcurrent \in Nat /\ Cardinality(holding) \in Nat
  BY QueueAssumption, FS_CardinalityType DEF PermitsAddUp, TypeOK
<1>1. CASE Begin
  <2>1. /\ Head(line) \notin holding
        /\ holding' = holding \cup {Head(line)} /\ permits' = permits - 1
    BY <1>1, HeadIsInLine, LineIsApart DEF Begin
  <2>2. IsFiniteSet(holding') /\ Cardinality(holding') = Cardinality(holding) + 1
    BY <1>0, <2>1, FS_AddElement
  <2> QED
    BY <1>0, <2>1, <2>2 DEF PermitsAddUp
<1>2. ASSUME NEW j \in Jobs, End(j) \/ JobUnwinds(j)
      PROVE  IsFiniteSet(holding') /\ PermitsAddUp'
  <2>1. j \in holding /\ holding' = holding \ {j} /\ permits' = permits + 1
    BY <1>2 DEF End, JobUnwinds, Leave
  <2>2. IsFiniteSet(holding') /\ Cardinality(holding') = Cardinality(holding) - 1
    BY <1>0, <2>1, FS_RemoveElement
  <2> QED
    BY <1>0, <2>1, <2>2 DEF PermitsAddUp
<1>3. ASSUME UNCHANGED <<permits, holding>>
      PROVE  IsFiniteSet(holding') /\ PermitsAddUp'
  BY <1>0, <1>3 DEF PermitsAddUp
<1>4. ASSUME NEW j \in Jobs, Enqueue(j) PROVE UNCHANGED <<permits, holding>>
  BY <1>4 DEF Enqueue
<1>5. CASE Dispatch \/ Stop \/ DispatcherUnwinds \/ LineUnwinds \/ StopReturns
  BY <1>5, <1>3 DEF Dispatch, Stop, DispatcherUnwinds, LineUnwinds, StopReturns
<1> QED
  BY <1>1, <1>2, <1>3, <1>4, <1>5 DEF Next

(* What stop() cancelled stays all there is until it unwinds. *)
LEMMA StopMeansPreserved ==
  ASSUME QueueInv, Next
  PROVE  StopMeans'
<1> USE DEF QueueInv
<1>1. CASE stopping = "no" /\ stopping' = "no"
  <2>1. cancelled = {} /\ dispatcher = "running"
    BY <1>1 DEF StopMeans
  <2>2. cancelled' = cancelled /\ dispatcher' = dispatcher
    <3>1. ASSUME NEW j \in Jobs, JobUnwinds(j) PROVE FALSE
      BY <2>1, <3>1 DEF JobUnwinds
    <3>2. ~LineUnwinds
      BY <2>1, HeadIsInLine DEF LineUnwinds
    <3>3. ~DispatcherUnwinds /\ ~Stop /\ ~StopReturns
      BY <1>1, <2>1 DEF DispatcherUnwinds, Stop, StopReturns
    <3> QED
      BY <3>1, <3>2, <3>3 DEF Next, Enqueue, End, Dispatch, Begin
  <2> QED
    BY <1>1, <2>1, <2>2 DEF StopMeans
<1>2. CASE Stop
  BY <1>2 DEF Stop, StopMeans, Workers
<1>3. CASE stopping # "no"
  <2>1. cancelled = Workers /\ dispatcher # "running"
    BY <1>3 DEF StopMeans
  <2>2. stopping' # "no"
    BY <1>3 DEF Next, Enqueue, End, JobUnwinds, Dispatch, Begin, Stop,
                DispatcherUnwinds, LineUnwinds, StopReturns
  <2>3. dispatcher' # "running"
    BY <2>1 DEF Next, Enqueue, End, JobUnwinds, Dispatch, Begin, Stop,
                DispatcherUnwinds, LineUnwinds, StopReturns
  <2>4. cancelled' = Workers'
    <3>1. ASSUME NEW j \in Jobs, JobUnwinds(j) PROVE cancelled' = Workers'
      BY <2>1, <3>1, LineIsApart DEF JobUnwinds, Leave, Workers
    <3>2. CASE LineUnwinds
      <4>1. Range(<<>>) = {}
        BY DEF Range
      <4> QED
        BY <2>1, <3>2, <4>1, LineIsApart DEF LineUnwinds, Workers
    <3>3. ~Dispatch /\ ~Stop
      BY <1>3, <2>1 DEF Dispatch, Stop
    <3>4. ASSUME NEW j \in Jobs PROVE ~End(j)
      BY <2>1 DEF End, Workers
    <3>5. ~Begin
      BY <2>1, HeadIsInLine DEF Begin, Workers
    <3>6. CASE UNCHANGED <<line, holding, cancelled>>
      BY <2>1, <3>6 DEF Workers
    <3> QED
      BY <3>1, <3>2, <3>3, <3>4, <3>5, <3>6 DEF Next, Enqueue, DispatcherUnwinds, StopReturns
  <2> QED
    BY <2>2, <2>3, <2>4 DEF StopMeans
<1>4. ASSUME stopping = "no", stopping' # "no" PROVE Stop
  BY <1>4 DEF Next, Enqueue, End, JobUnwinds, Dispatch, Begin,
              DispatcherUnwinds, LineUnwinds, StopReturns
<1> QED
  BY <1>1, <1>2, <1>3, <1>4

(* Once stop() has returned, only put() still happens. *)
LEMMA NothingOutlivesStopPreserved ==
  ASSUME QueueInv, Next
  PROVE  NothingOutlivesStop'
<1> USE DEF QueueInv, NothingOutlivesStop
<1>1. CASE StopReturns
  BY <1>1 DEF StopReturns, Workers
<1>2. CASE stopping = "returned"
  <2>1. Range(line) = {} /\ holding = {} /\ dispatcher = "done"
    BY <1>2 DEF Workers
  <2>2. line = <<>>
    BY <2>1, HeadIsInLine
  <2>3. UNCHANGED <<line, holding, dispatcher>>
    BY <1>2, <2>1, <2>2 DEF Next, Enqueue, End, JobUnwinds, Dispatch, Begin, Stop,
                            DispatcherUnwinds, LineUnwinds, StopReturns
  <2> QED
    BY <2>1, <2>3 DEF Workers
<1>3. ASSUME stopping # "returned", ~StopReturns PROVE stopping' # "returned"
  BY <1>3 DEF Next, Enqueue, End, JobUnwinds, Dispatch, Begin, Stop,
              DispatcherUnwinds, LineUnwinds
<1> QED
  BY <1>1, <1>2, <1>3

(* Every step keeps the types. *)
LEMMA TypePreserved ==
  ASSUME QueueInv, Next
  PROVE  TypeOK'
<1> USE DEF QueueInv
<1>1. enqueued' \subseteq Jobs
  BY DEF TypeOK, Next, Enqueue, End, JobUnwinds, Dispatch, Begin, Stop,
         DispatcherUnwinds, LineUnwinds, StopReturns
<1>2. queue' \in Seq(Jobs) /\ line' \in Seq(Jobs)
  <2>1. ASSUME NEW j \in Jobs, Enqueue(j) PROVE queue' \in Seq(Jobs) /\ line' \in Seq(Jobs)
    BY <2>1, EnqueueAppends DEF TypeOK
  <2>2. CASE Dispatch
    BY <2>2, DispatchKeepsBacklog
  <2>3. CASE Begin
    BY <2>3, BeginTakesHead DEF Begin, TypeOK
  <2>4. CASE LineUnwinds
    BY <2>4 DEF LineUnwinds, TypeOK
  <2>5. CASE UNCHANGED <<queue, line>>
    BY <2>5 DEF TypeOK
  <2> QED
    BY <2>1, <2>2, <2>3, <2>4, <2>5
       DEF Next, End, JobUnwinds, Stop, DispatcherUnwinds, StopReturns
<1>3. dispatcher' \in {"running", "cancelled", "done"} /\ stopping' \in {"no", "waiting", "returned"}
  BY DEF TypeOK, Next, Enqueue, End, JobUnwinds, Dispatch, Begin, Stop,
         DispatcherUnwinds, LineUnwinds, StopReturns
<1>4. holding' \subseteq Jobs
  <2>1. CASE Begin
    BY <2>1, HeadTailProperties DEF Begin, TypeOK
  <2>2. ASSUME ~Begin PROVE holding' \subseteq holding
    BY <2>2 DEF Next, Enqueue, End, JobUnwinds, Leave, Dispatch, Stop,
                DispatcherUnwinds, LineUnwinds, StopReturns
  <2> QED
    BY <2>1, <2>2 DEF TypeOK
<1>5. permits' \in 0..MaxConcurrent
  <2>1. permits' + Cardinality(holding') = MaxConcurrent /\ Cardinality(holding') \in Nat
    BY PermitsPreserved, FS_CardinalityType DEF PermitsAddUp
  <2>2. permits' \in Int
    BY DEF TypeOK, Next, Enqueue, End, JobUnwinds, Leave, Dispatch, Begin, Stop,
           DispatcherUnwinds, LineUnwinds, StopReturns
  <2>3. ASSUME permits' < 0 PROVE FALSE
    BY <2>3 DEF TypeOK, Next, Enqueue, End, JobUnwinds, Leave, Dispatch, Begin, Stop,
                DispatcherUnwinds, LineUnwinds, StopReturns
  <2> QED
    BY <2>1, <2>2, <2>3, QueueAssumption
<1>6. cancelled' \subseteq Workers'
  BY StopMeansPreserved, <1>3 DEF StopMeans
<1> QED
  BY <1>1, <1>2, <1>3, <1>4, <1>5, <1>6 DEF TypeOK

-----------------------------------------------------------------------------
(* Every reachable state of the queue satisfies the invariant. *)
THEOREM InvariantHolds == Spec => []QueueInv
<1>1. Init => QueueInv
  <2> SUFFICES ASSUME Init PROVE QueueInv
    OBVIOUS
  <2> USE DEF Init
  <2>1. IsFiniteSet(holding) /\ PermitsAddUp
    BY FS_EmptySet, QueueAssumption DEF PermitsAddUp
  <2>2. Backlog = <<>> /\ Len(Backlog) = 0
    BY ConcatEmptySeq, EmptySeq DEF Backlog
  <2>3. NoJobTwice
    BY <2>2 DEF NoJobTwice
  <2>4. Workers = {}
    BY DEF Workers, Range
  <2>5. TypeOK
    BY QueueAssumption, EmptySeq DEF TypeOK
  <2> QED
    BY <2>1, <2>3, <2>4, <2>5 DEF QueueInv, StopMeans, NothingOutlivesStop
<1>2. QueueInv /\ [Next]_vars => QueueInv'
  <2>1. ASSUME QueueInv, Next PROVE QueueInv'
    BY <2>1, NoJobTwicePreserved, PermitsPreserved, StopMeansPreserved,
       NothingOutlivesStopPreserved, TypePreserved DEF QueueInv
  <2>2. ASSUME QueueInv, UNCHANGED vars PROVE QueueInv'
    BY <2>2 DEF vars, QueueInv, TypeOK, PermitsAddUp, NoJobTwice, Backlog, StopMeans,
                NothingOutlivesStop, Workers
  <2> QED
    BY <2>1, <2>2
<1> QED
  BY <1>1, <1>2, PTL DEF Spec

(* Each variable of the queue keeps its type. *)
THEOREM TypeCorrect == Spec => []TypeOK
<1>1. QueueInv => TypeOK
  BY DEF QueueInv
<1> QED
  BY <1>1, InvariantHolds, PTL

(* The semaphore: permits are neither lost nor made up. *)
THEOREM PermitsAreKept == Spec => []PermitsAddUp
<1>1. QueueInv => PermitsAddUp
  BY DEF QueueInv
<1> QED
  BY <1>1, InvariantHolds, PTL

(* stop(): once it has returned, no job runs or ever will. *)
THEOREM StopIsFinal == Spec => []NothingOutlivesStop
<1>1. QueueInv => NothingOutlivesStop
  BY DEF QueueInv
<1> QED
  BY <1>1, InvariantHolds, PTL

-----------------------------------------------------------------------------
(* The queue implements JobService: what waits is the line and the queue   *)
(* after it, and a job begins when its worker gets a permit.               *)
THEOREM QueueIsService == Spec => ImplementsService
<1>1. Init => Service!Init
  <2> SUFFICES ASSUME Init PROVE Service!Init
    OBVIOUS
  <2>1. line \o queue = <<>>
    BY ConcatEmptySeq, EmptySeq DEF Init
  <2> QED
    BY <2>1 DEF Init, Service!Init, Phase
<1>2. QueueInv /\ [Next]_vars => [Service!Next]_(Service!svars)
  <2> SUFFICES ASSUME QueueInv, [Next]_vars PROVE [Service!Next]_(Service!svars)
    OBVIOUS
  <2>0. /\ TypeOK /\ IsFiniteSet(holding) /\ PermitsAddUp /\ StopMeans
        /\ NothingOutlivesStop /\ stopping \in {"no", "waiting", "returned"}
    BY DEF QueueInv, TypeOK
  <2>1. ASSUME NEW j \in Jobs, Enqueue(j) PROVE Service!Accept(j)
    <3>1. line' \o queue' = Append(line \o queue, j)
      BY <2>0, <2>1, EnqueueAppends DEF Backlog
    <3> QED
      BY <2>1, <3>1 DEF Enqueue, Service!Accept, Phase
  <2>2. CASE Dispatch
    <3>1. line' \o queue' = line \o queue
      BY <2>0, <2>2, DispatchKeepsBacklog DEF Backlog
    <3> QED
      BY <2>2, <3>1 DEF Dispatch, Service!svars, Phase
  <2>3. CASE Begin
    <3>1. stopping = "no"
      <4>1. Head(line) \in Workers \ cancelled
        BY <2>0, <2>3, HeadIsInLine DEF Begin, Workers
      <4> QED
        BY <2>0, <4>1 DEF StopMeans
    <3>2. /\ line \o queue # <<>> /\ Head(line) = Head(line \o queue)
          /\ line' \o queue' = Tail(line \o queue)
      BY <2>0, <2>3, BeginTakesHead DEF Begin, Backlog
    <3>3. Cardinality(holding) < MaxConcurrent
      BY <2>0, <2>3, FS_CardinalityType, QueueAssumption DEF Begin, PermitsAddUp, TypeOK
    <3>4. Service!Cardinality(holding) = Cardinality(holding)
      BY DEF Service!Cardinality, Cardinality
    <3>5. Service!Begin
      BY <2>3, <3>1, <3>2, <3>3, <3>4 DEF Begin, Service!Begin, Phase
    <3> QED
      BY <3>5 DEF Service!Next
  <2>4. ASSUME NEW j \in Jobs, End(j) \/ JobUnwinds(j) PROVE Service!End(j)
    BY <2>4 DEF End, JobUnwinds, Leave, Service!End, Phase
  <2>5. CASE Stop
    BY <2>5 DEF Stop, Service!Closing, Service!Next, Phase
  <2>6. CASE LineUnwinds
    <3>1. /\ line \in Seq(Jobs) /\ queue \in Seq(Jobs) /\ Len(line) \in Nat \ {0}
          /\ Len(queue) \in Nat
      BY <2>0, <2>6, EmptySeq, LenProperties DEF TypeOK, LineUnwinds
    <3>2. Len(line) \in 1..Len(line \o queue)
      BY <3>1, ConcatProperties
    <3>3. line' \o queue' = queue
      BY <3>1, <2>6, ConcatEmptySeq DEF LineUnwinds
    <3>4. SubSeq(line \o queue, Len(line) + 1, Len(line \o queue)) = queue
      BY <3>1, SubSeqOfConcat2, SubSeqFull, ConcatProperties
    <3>5. stopping = "waiting"
      <4>1. Head(line) \in Workers /\ Head(line) \in cancelled
        BY <2>0, <2>6, HeadIsInLine DEF LineUnwinds, Workers
      <4> QED
        BY <2>0, <4>1 DEF StopMeans, NothingOutlivesStop
    <3> QED
      BY <2>6, <3>2, <3>3, <3>4, <3>5 DEF LineUnwinds, Service!GiveUp, Service!Next, Phase
  <2>7. CASE StopReturns
    <3>1. holding = {} /\ stopping = "waiting" /\ stopping' = "returned"
      BY <2>7 DEF StopReturns, Workers
    <3> QED
      BY <2>7, <3>1 DEF StopReturns, Service!Closed, Service!Next, Phase
  <2>8. CASE DispatcherUnwinds
    BY <2>8 DEF DispatcherUnwinds, Service!svars, Phase
  <2>9. CASE UNCHANGED vars
    BY <2>9 DEF vars, Service!svars, Phase
  <2> QED
    BY <2>1, <2>2, <2>3, <2>4, <2>5, <2>6, <2>7, <2>8, <2>9 DEF Next, Service!Next
<1> QED
  BY <1>1, <1>2, InvariantHolds, PTL DEF Spec, ImplementsService, Service!Spec
=============================================================================
