------------------------ MODULE ResponseCache_proofs ------------------------
(***************************************************************************)
(* Which cached answers can be outdated, for any tenants, knowledge bases, *)
(* keys and queries.  The invariant follows an answer from its retrieval:  *)
(* it knows all that was announced by then, and an invalidation of its     *)
(* scope either marks it as crossed, while its query is under way, or      *)
(* drops it, once it is cached.  The order of evictions plays no part in   *)
(* that.  What it does bound, the size of the cache, is proved after it:   *)
(* removing keys moves each remaining one to the place that counts the     *)
(* remaining ones up to it, so no place stays empty or is taken twice.     *)
(***************************************************************************)
EXTENDS ResponseCache, FiniteSetTheorems, FunctionTheorems, TLAPS

CacheTypes ==
    /\ version \in Versions
    /\ told \in [Tenants -> Versions]
    /\ Cached \subseteq Keys
    /\ \A k \in Cached : entries[k] \in Entry
    /\ asking \in [Askers -> {"idle", "retrieve", "store"}]
    /\ asked \in [Askers -> Keys \cup {None}]
    /\ \A a \in Askers : asking[a] # "idle" => asked[a] \in Keys
    /\ answer \in [Askers -> Versions]
    /\ crossed \in [Askers -> BOOLEAN]

(* Nothing is announced that has not happened. *)
ToldIsPast == \A t \in Tenants, g \in Groups : told[t][g] <= version[g]

(* An answer under way knows what was announced before it was retrieved,   *)
(* and if anything was announced since, it is marked.                      *)
UnderWay ==
    \A a \in Askers : asking[a] = "store" /\ ~crossed[a] => Knows(answer[a], asked[a])

CacheInv == CacheTypes /\ ToldIsPast /\ UnderWay /\ OutdatedOnlyIfCrossed

(* Keys stay within their tenant's knowledge bases. *)
LEMMA KeyFacts ==
  ASSUME NEW k \in Keys
  PROVE  /\ TenantOf[k] \in Tenants
         /\ ScopeOf[k] \subseteq Groups
         /\ \A t \in Tenants : GroupsOf[t] \subseteq Groups
         /\ k # None
BY CacheAssumption

-----------------------------------------------------------------------------
(* One lemma per group of steps. *)

(* An empty cache satisfies the invariant. *)
LEMMA InitEstablishes == Init => CacheInv
<1> SUFFICES ASSUME Init PROVE CacheInv
  OBVIOUS
<1>1. Unread \in Versions /\ Cached = {}
  BY CacheAssumption DEF Init, Cached, Unread, Versions
<1>2. CacheTypes
  BY <1>1 DEF Init, CacheTypes
<1>3. ToldIsPast
  BY DEF Init, ToldIsPast, Unread
<1>4. UnderWay /\ OutdatedOnlyIfCrossed
  BY <1>1 DEF Init, UnderWay, OutdatedOnlyIfCrossed
<1> QED
  BY <1>2, <1>3, <1>4 DEF CacheInv

(* Dropping entries disturbs nothing. *)
LEMMA DropKeeps ==
  ASSUME CacheInv, NEW dropped, Drop(dropped)
  PROVE  /\ Cached' = Cached \ dropped
         /\ \A k \in Cached' : entries'[k] = entries[k]
BY DEF Drop, Restrict, Cached

(* A miss drops what expired and begins a query. *)
LEMMA MissKeeps ==
  ASSUME CacheInv, NEW a \in Askers, NEW k \in Keys, Miss(a, k)
  PROVE  CacheInv'
<1> USE DEF CacheInv
<1>1. /\ Cached' = Cached \ {k} /\ \A x \in Cached' : entries'[x] = entries[x]
  BY DropKeeps DEF Miss
<1>2. CacheTypes'
  <2>1. /\ asking' \in [Askers -> {"idle", "retrieve", "store"}]
        /\ asked' \in [Askers -> Keys \cup {None}]
        /\ UNCHANGED <<version, told, answer, crossed>>
    BY DEF CacheTypes, Miss
  <2>2. ASSUME NEW b \in Askers, asking'[b] # "idle" PROVE asked'[b] \in Keys
    BY <2>2 DEF CacheTypes, Miss
  <2>3. Cached' \subseteq Keys /\ \A x \in Cached' : entries'[x] \in Entry
    BY <1>1 DEF CacheTypes
  <2> QED
    BY <2>1, <2>2, <2>3 DEF CacheTypes
<1>3. ToldIsPast'
  BY DEF ToldIsPast, Miss
<1>4. UnderWay'
  <2>0. /\ asking' = [asking EXCEPT ![a] = "retrieve"] /\ asked' = [asked EXCEPT ![a] = k]
        /\ UNCHANGED <<told, answer, crossed>>
    BY DEF Miss
  <2> SUFFICES ASSUME NEW b \in Askers, asking'[b] = "store", ~crossed[b]
               PROVE  Knows(answer[b], asked[b])'
    BY <2>0 DEF UnderWay
  <2>1. b # a /\ asking[b] = "store" /\ asked'[b] = asked[b]
    BY <2>0 DEF CacheTypes
  <2>2. Knows(answer[b], asked[b])
    BY <2>1 DEF UnderWay
  <2> QED
    BY <2>0, <2>1, <2>2 DEF Knows
<1>5. OutdatedOnlyIfCrossed'
  <2>1. told' = told
    BY DEF Miss
  <2> QED
    BY <1>1, <2>1 DEF OutdatedOnlyIfCrossed, Knows
<1> QED
  BY <1>2, <1>3, <1>4, <1>5

(* Retrieval sees everything there is, so everything that was announced. *)
LEMMA RetrieveKeeps ==
  ASSUME CacheInv, NEW a \in Askers, Retrieve(a)
  PROVE  CacheInv'
<1> USE DEF CacheInv
<1> DEFINE k == asked[a]
           read == [g \in Groups |-> IF g \in ScopeOf[k] THEN version[g] ELSE 0]
<1>1. /\ asking[a] = "retrieve" /\ k \in Keys /\ read \in Versions
      /\ answer' = [answer EXCEPT ![a] = read]
      /\ asking' = [asking EXCEPT ![a] = "store"]
      /\ UNCHANGED <<version, told, entries, order, asked, crossed, writing>>
  BY CacheAssumption DEF Retrieve, CacheTypes, Versions
<1>2. CacheTypes'
  BY <1>1 DEF CacheTypes, Cached
<1>3. ToldIsPast'
  BY <1>1 DEF ToldIsPast
<1>4. Knows(read, k)
  BY <1>1, KeyFacts DEF Knows, ToldIsPast
<1>5. UnderWay'
  <2> SUFFICES ASSUME NEW b \in Askers, asking'[b] = "store", ~crossed'[b]
               PROVE  Knows(answer'[b], asked[b])
    BY <1>1 DEF UnderWay, Knows
  <2>1. CASE b = a
    BY <1>1, <1>4, <2>1 DEF CacheTypes
  <2>2. CASE b # a
    BY <1>1, <2>2 DEF CacheTypes, UnderWay
  <2> QED
    BY <2>1, <2>2
<1>6. OutdatedOnlyIfCrossed'
  BY <1>1 DEF OutdatedOnlyIfCrossed, Knows, Cached
<1> QED
  BY <1>2, <1>3, <1>5, <1>6

(* A query that ends leaves the others as they were. *)
LEMMA DoneKeeps ==
  ASSUME CacheInv, NEW a \in Askers, Done(a), told' = told, version' = version
  PROVE  /\ asking' \in [Askers -> {"idle", "retrieve", "store"}]
         /\ asked' \in [Askers -> Keys \cup {None}]
         /\ \A b \in Askers : asking'[b] # "idle" => asked'[b] \in Keys
         /\ answer' \in [Askers -> Versions] /\ crossed' \in [Askers -> BOOLEAN]
         /\ ToldIsPast' /\ UnderWay'
<1> USE DEF CacheInv
<1>1. Unread \in Versions
  BY CacheAssumption DEF Unread, Versions
<1>2. \A b \in Askers : b # a =>
        /\ asking'[b] = asking[b] /\ asked'[b] = asked[b]
        /\ answer'[b] = answer[b] /\ crossed'[b] = crossed[b]
  BY DEF CacheTypes, Done
<1>3. asking'[a] = "idle"
  BY DEF CacheTypes, Done
<1>4. /\ asking' \in [Askers -> {"idle", "retrieve", "store"}]
      /\ asked' \in [Askers -> Keys \cup {None}]
      /\ answer' \in [Askers -> Versions] /\ crossed' \in [Askers -> BOOLEAN]
  BY <1>1 DEF CacheTypes, Done
<1>5. \A b \in Askers : asking'[b] # "idle" => asked'[b] \in Keys
  BY <1>2, <1>3 DEF CacheTypes
<1>6. ToldIsPast'
  BY DEF ToldIsPast
<1>7. UnderWay'
  <2> SUFFICES ASSUME NEW b \in Askers, asking'[b] = "store", ~crossed'[b]
               PROVE  Knows(answer[b], asked[b])'
    BY DEF UnderWay
  <2>1. b # a
    BY <1>3
  <2>2. Knows(answer[b], asked[b])
    BY <1>2, <2>1 DEF UnderWay
  <2> QED
    BY <1>2, <2>1, <2>2 DEF Knows
<1> QED
  BY <1>4, <1>5, <1>6, <1>7

(* A crossed answer is cached as crossed. *)
LEMMA StoreKeeps ==
  ASSUME CacheInv, NEW a \in Askers, Store(a)
  PROVE  CacheInv'
<1> USE DEF CacheInv
<1> DEFINE k == asked[a]
           out == Evicted(k)
           new == [seen |-> answer[a], age |-> 0, crossed |-> crossed[a]]
<1>1. /\ asking[a] = "store" /\ Done(a) /\ UNCHANGED <<version, told>>
      /\ entries' = [x \in (Cached \ out) \cup {k} |-> IF x = k THEN new ELSE entries[x]]
  BY DEF Store
<1>2. k \in Keys /\ new \in Entry
  BY <1>1, CacheAssumption DEF CacheTypes, Entry
<1>3. /\ Cached' \subseteq Cached \cup {k}
      /\ \A x \in Cached' : entries'[x] = IF x = k THEN new ELSE entries[x]
  <2> HIDE DEF out, new, k
  <2> QED
    BY <1>1 DEF Cached
<1>4. CacheTypes'
  <2>1. Cached' \subseteq Keys /\ \A x \in Cached' : entries'[x] \in Entry
    <3> HIDE DEF new, k
    <3> QED
      BY <1>2, <1>3 DEF CacheTypes
  <2> QED
    BY <1>1, <2>1, DoneKeeps DEF CacheTypes
<1>5. ToldIsPast' /\ UnderWay'
  BY <1>1, DoneKeeps
<1>6. OutdatedOnlyIfCrossed'
  <2> SUFFICES ASSUME NEW x \in Cached', ~entries'[x].crossed
               PROVE  Knows(entries'[x].seen, x)
    BY <1>1 DEF OutdatedOnlyIfCrossed, Knows
  <2>1. CASE x = k
    <3>1. entries'[x].seen = answer[a] /\ ~crossed[a]
      BY <1>3, <2>1
    <3> QED
      BY <1>1, <2>1, <3>1 DEF UnderWay
  <2>2. CASE x # k
    BY <1>3, <2>2 DEF OutdatedOnlyIfCrossed
  <2> QED
    BY <2>1, <2>2
<1> QED
  BY <1>4, <1>5, <1>6

(* A query that fails stores nothing. *)
LEMMA AskFailsKeeps ==
  ASSUME CacheInv, NEW a \in Askers, AskFails(a)
  PROVE  CacheInv'
<1>1. Done(a) /\ UNCHANGED <<version, told, entries>>
  BY DEF AskFails
<1>2. Cached' = Cached
  BY <1>1 DEF Cached
<1>3. CacheTypes'
  BY <1>1, <1>2, DoneKeeps DEF CacheInv, CacheTypes
<1>4. OutdatedOnlyIfCrossed'
  BY <1>1, <1>2 DEF CacheInv, OutdatedOnlyIfCrossed, Knows
<1> QED
  BY <1>1, <1>3, <1>4, DoneKeeps DEF CacheInv

(* A change makes answers outdated, not the announcement of it. *)
LEMMA ChangeKeeps ==
  ASSUME CacheInv, NEW g \in Groups, Change(g), UNCHANGED <<told, entries, askVars>>
  PROVE  CacheInv'
<1> USE DEF CacheInv
<1>1. version' \in Versions /\ \A h \in Groups : version[h] <= version'[h] /\ version[h] \in Nat
  BY CacheAssumption DEF Change, CacheTypes, Versions
<1>2. CacheTypes' /\ Cached' = Cached
  BY <1>1 DEF CacheTypes, Cached, askVars
<1>3. ToldIsPast'
  <2> SUFFICES ASSUME NEW t \in Tenants, NEW h \in Groups PROVE told[t][h] <= version'[h]
    BY DEF ToldIsPast
  <2>1. told[t][h] \in Nat /\ version'[h] \in Nat
    BY <1>1, CacheAssumption DEF CacheTypes, Versions
  <2> QED
    BY <1>1, <2>1 DEF ToldIsPast
<1>4. UnderWay' /\ OutdatedOnlyIfCrossed'
  BY <1>2 DEF UnderWay, OutdatedOnlyIfCrossed, Knows, askVars
<1> QED
  BY <1>2, <1>3, <1>4

(* An announcement finds every answer it concerns: cached ones are         *)
(* dropped, those under way are marked.                                    *)
LEMMA InvalidateKeeps ==
  ASSUME CacheInv, NEW w \in Writers, NEW t \in Tenants, NEW g \in Groups, Invalidate(w, t, g)
  PROVE  CacheInv'
<1> USE DEF CacheInv
<1>1. /\ Drop(Stale(t, g))
      /\ told' = [told EXCEPT ![t][g] = version[g]]
      /\ UNCHANGED <<version, asking, asked, answer>>
      /\ crossed' = [a \in Askers |->
                        crossed[a] \/ (asking[a] = "store" /\ Covers(asked[a], t, g))]
  BY DEF Invalidate
<1>2. /\ Cached' = Cached \ Stale(t, g) /\ \A k \in Cached' : entries'[k] = entries[k]
  BY <1>1, DropKeeps
<1>3. told' \in [Tenants -> Versions]
  BY <1>1 DEF CacheTypes, Versions
<1>4. \A s \in Tenants, h \in Groups :
        told'[s][h] = IF s = t /\ h = g THEN version[g] ELSE told[s][h]
  BY <1>1 DEF CacheTypes, Versions
<1>5. crossed' \in [Askers -> BOOLEAN]
  <2>1. \A a \in Askers : (crossed[a] \/ (asking[a] = "store" /\ Covers(asked[a], t, g))) \in BOOLEAN
    BY ZenonT(30) DEF CacheTypes
  <2> QED
    BY <1>1, <2>1, Zenon
<1>6. CacheTypes'
  BY <1>1, <1>2, <1>3, <1>5 DEF CacheTypes
<1>7. ToldIsPast'
  <2> SUFFICES ASSUME NEW s \in Tenants, NEW h \in Groups PROVE told'[s][h] <= version[h]
    BY <1>1 DEF ToldIsPast
  <2>1. version[g] \in Nat
    BY CacheAssumption DEF CacheTypes, Versions
  <2> QED
    BY <1>4, <2>1 DEF ToldIsPast
<1>8. ASSUME NEW k \in Keys, ~Covers(k, t, g), NEW seen, Knows(seen, k)
      PROVE  Knows(seen, k)'
  <2> SUFFICES ASSUME NEW h \in ScopeOf[k] PROVE seen[h] >= told'[TenantOf[k]][h]
    BY DEF Knows
  <2>1. told'[TenantOf[k]][h] = told[TenantOf[k]][h]
    BY <1>4, <1>8, KeyFacts DEF Covers
  <2> QED
    BY <1>8, <2>1 DEF Knows
<1>9. UnderWay'
  <2> SUFFICES ASSUME NEW a \in Askers, asking[a] = "store", ~crossed'[a]
               PROVE  Knows(answer[a], asked[a])'
    BY <1>1 DEF UnderWay
  <2>1. ~crossed[a] /\ ~Covers(asked[a], t, g) /\ asked[a] \in Keys
    BY <1>1 DEF CacheTypes
  <2>2. Knows(answer[a], asked[a])
    BY <2>1 DEF UnderWay
  <2>3. answer' = answer /\ asked' = asked
    BY <1>1
  <2> QED
    BY <1>8, <2>1, <2>2, <2>3 DEF Knows
<1>10. OutdatedOnlyIfCrossed'
  <2> SUFFICES ASSUME NEW k \in Cached', ~entries'[k].crossed
               PROVE  Knows(entries[k].seen, k)'
    BY DEF OutdatedOnlyIfCrossed
  <2>1. k \in Cached /\ k \in Keys /\ ~Covers(k, t, g) /\ entries'[k] = entries[k]
    BY <1>2 DEF Stale, CacheTypes
  <2>2. Knows(entries[k].seen, k)
    BY <2>1 DEF OutdatedOnlyIfCrossed
  <2> QED
    BY <1>8, <2>1, <2>2 DEF Knows
<1> QED
  BY <1>6, <1>7, <1>9, <1>10

(* Time changes the age of an entry, never what it knows. *)
LEMMA TimePassesKeeps ==
  ASSUME CacheInv, TimePasses
  PROVE  CacheInv'
<1> USE DEF CacheInv
<1>1. /\ Cached' = Cached /\ UNCHANGED <<version, told, askVars>>
      /\ entries' = [k \in Cached |-> IF Expired(k) THEN entries[k]
                                      ELSE [entries[k] EXCEPT !.age = @ + 1]]
  BY DEF TimePasses, Cached
<1>2. ASSUME NEW k \in Cached
      PROVE  /\ entries'[k] \in Entry
             /\ entries'[k].seen = entries[k].seen /\ entries'[k].crossed = entries[k].crossed
  <2>1. entries[k] \in Entry
    BY DEF CacheTypes
  <2>2. CASE Expired(k)
    BY <1>1, <2>1, <2>2
  <2>3. CASE ~Expired(k)
    <3>1. entries'[k] = [entries[k] EXCEPT !.age = @ + 1]
      BY <1>1, <2>3
    <3>2. entries[k].age + 1 \in 0..(TTL + 1)
      BY <2>1, <2>3, CacheAssumption DEF Entry, Expired
    <3> QED
      BY <2>1, <3>1, <3>2 DEF Entry
  <2> QED
    BY <2>2, <2>3
<1>3. CacheTypes'
  BY <1>1, <1>2 DEF CacheTypes, askVars
<1>4. ToldIsPast' /\ UnderWay'
  BY <1>1 DEF ToldIsPast, UnderWay, Knows, askVars
<1>5. OutdatedOnlyIfCrossed'
  BY <1>1, <1>2 DEF OutdatedOnlyIfCrossed, Knows
<1> QED
  BY <1>3, <1>4, <1>5

-----------------------------------------------------------------------------
(* The order of evictions.                                                 *)

(* _order lists the cached keys, each once, within the bound. *)
OrderInv ==
    /\ order \in Seq(Keys)
    /\ \A i, j \in DOMAIN order : order[i] = order[j] => i = j
    /\ Range(order) = Cached
    /\ Len(order) <= MaxEntries

(* The places that stay are closed up without a gap: each moves to a place *)
(* of its own.                                                             *)
LEMMA PlacesCloseUp ==
  ASSUME OrderInv, NEW dropped
  PROVE  /\ Cardinality(Staying(dropped)) \in Nat
         /\ Cardinality(Staying(dropped)) <= Len(order)
         /\ Staying(dropped) # DOMAIN order => Cardinality(Staying(dropped)) < Len(order)
         /\ \A n \in 1..Cardinality(Staying(dropped)) :
                /\ ComesFrom(n, dropped) \in Staying(dropped)
                /\ MovesTo(ComesFrom(n, dropped), dropped) = n
         /\ \A i \in Staying(dropped) :
                /\ MovesTo(i, dropped) \in 1..Cardinality(Staying(dropped))
                /\ ComesFrom(MovesTo(i, dropped), dropped) = i
<1> DEFINE S == Staying(dropped)
           upto(i) == {j \in S : j <= i}
           c == Cardinality(S)
<1>1. /\ Len(order) \in Nat /\ DOMAIN order = 1..Len(order) /\ S \subseteq 1..Len(order)
      /\ IsFiniteSet(1..Len(order)) /\ Cardinality(1..Len(order)) = Len(order)
  <2>1. Len(order) \in Nat /\ DOMAIN order = 1..Len(order)
    BY DEF OrderInv
  <2>2. S \subseteq 1..Len(order)
    BY <2>1 DEF Staying
  <2>3. IsFiniteSet(1..Len(order)) /\ Cardinality(1..Len(order)) = Len(order)
    <3>1. Cardinality(1..Len(order)) = IF 1 > Len(order) THEN 0 ELSE Len(order) - 1 + 1
      BY <2>1, FS_Interval
    <3> QED
      BY <2>1, <3>1, FS_Interval
  <2> QED
    BY <2>1, <2>2, <2>3
<1>2. IsFiniteSet(S) /\ c \in Nat /\ c <= Len(order) /\ (S # DOMAIN order => c < Len(order))
  BY <1>1, FS_Subset, FS_CardinalityType
<1>3. ASSUME NEW i \in S
      PROVE  /\ IsFiniteSet(upto(i)) /\ MovesTo(i, dropped) = Cardinality(upto(i))
             /\ MovesTo(i, dropped) \in 1..c /\ MovesTo(i, dropped) \in Nat
  <2>1. i \in upto(i) /\ upto(i) \in SUBSET S
    BY <1>1
  <2>2. IsFiniteSet(upto(i)) /\ Cardinality(upto(i)) <= c /\ Cardinality(upto(i)) \in Nat
    BY <1>2, <2>1, FS_Subset, FS_CardinalityType
  <2>3. Cardinality(upto(i)) # 0
    BY <2>1, <2>2, FS_EmptySet
  <2> QED
    BY <1>2, <2>2, <2>3 DEF MovesTo
<1>4. ASSUME NEW i \in S, NEW j \in S, i < j PROVE MovesTo(i, dropped) < MovesTo(j, dropped)
  <2>1. upto(i) \in SUBSET upto(j) /\ j \in upto(j) /\ j \notin upto(i)
    BY <1>1, <1>4
  <2>2. /\ IsFiniteSet(upto(j)) /\ Cardinality(upto(j)) \in Nat /\ Cardinality(upto(i)) \in Nat
        /\ MovesTo(i, dropped) = Cardinality(upto(i)) /\ MovesTo(j, dropped) = Cardinality(upto(j))
    BY <1>3, FS_CardinalityType
  <2> HIDE DEF upto, S
  <2>3. Cardinality(upto(i)) <= Cardinality(upto(j)) /\ Cardinality(upto(i)) # Cardinality(upto(j))
    BY <2>1, <2>2, FS_Subset
  <2> QED
    BY <2>2, <2>3
<1>5. ASSUME NEW i \in S, NEW j \in S, MovesTo(i, dropped) = MovesTo(j, dropped) PROVE i = j
  <2>1. i \in Nat /\ j \in Nat
    BY <1>1
  <2>2. MovesTo(i, dropped) \in Nat /\ MovesTo(j, dropped) \in Nat
    BY <1>3, Zenon
  <2> QED
    BY <1>4, <1>5, <2>1, <2>2
<1> DEFINE f == [i \in S |-> MovesTo(i, dropped)]
<1>6. f \in Injection(S, 1..c)
  <2>1. f \in [S -> 1..c]
    BY <1>3
  <2>2. \A i, j \in S : f[i] = f[j] => i = j
    BY <1>5
  <2> HIDE DEF f, S, c
  <2> QED
    BY <2>1, <2>2, Fun_IsInj
<1>7. \A n \in 1..c : \E i \in S : MovesTo(i, dropped) = n
  <2>1. IsFiniteSet(1..c) /\ Cardinality(1..c) = c
    BY <1>2, FS_Interval
  <2>2. f \in Surjection(S, 1..c)
    <3> HIDE DEF f, S
    <3> QED
      BY <1>6, <2>1, FS_Injection
  <2>3. \A n \in 1..c : \E i \in S : f[i] = n
    BY <2>2 DEF Surjection
  <2> QED
    BY <2>3
<1>8. \A n \in 1..c : ComesFrom(n, dropped) \in S /\ MovesTo(ComesFrom(n, dropped), dropped) = n
  BY <1>7 DEF ComesFrom
<1>9. \A i \in S : ComesFrom(MovesTo(i, dropped), dropped) = i
  BY <1>3, <1>5, <1>8
<1> QED
  BY <1>2, <1>3, <1>8, <1>9

(* _drop: what is left of the order has the other keys, each once, in one  *)
(* place less for a key that goes.                                         *)
LEMMA WithoutKeepsTheRest ==
  ASSUME OrderInv, NEW dropped
  PROVE  /\ Without(dropped) \in Seq(Keys)
         /\ \A m, n \in DOMAIN Without(dropped) :
                Without(dropped)[m] = Without(dropped)[n] => m = n
         /\ Range(Without(dropped)) = Cached \ dropped
         /\ Len(Without(dropped)) <= Len(order)
         /\ Cached \cap dropped # {} => Len(Without(dropped)) < Len(order)
<1> DEFINE S == Staying(dropped)
           c == Cardinality(S)
           left == Without(dropped)
<1>1. /\ DOMAIN order = 1..Len(order) /\ Len(order) \in Nat
      /\ \A i \in DOMAIN order : order[i] \in Keys
  BY DEF OrderInv
<1>2. /\ c \in Nat /\ c <= Len(order) /\ (S # DOMAIN order => c < Len(order))
      /\ \A n \in 1..c : ComesFrom(n, dropped) \in S /\ MovesTo(ComesFrom(n, dropped), dropped) = n
      /\ \A i \in S : MovesTo(i, dropped) \in 1..c /\ ComesFrom(MovesTo(i, dropped), dropped) = i
  BY PlacesCloseUp
<1>3. \A i \in S : i \in DOMAIN order /\ order[i] \notin dropped
  BY DEF Staying
<1>4. left = [n \in 1..c |-> order[ComesFrom(n, dropped)]]
  BY DEF Without
<1> HIDE DEF left, S, c
<1>5. left \in Seq(Keys) /\ Len(left) = c /\ DOMAIN left = 1..c
  BY <1>1, <1>2, <1>3, <1>4
<1>6. \A m, n \in 1..c : left[m] = left[n] => m = n
  <2> SUFFICES ASSUME NEW m \in 1..c, NEW n \in 1..c, left[m] = left[n] PROVE m = n
    OBVIOUS
  <2>1. order[ComesFrom(m, dropped)] = order[ComesFrom(n, dropped)]
    BY <1>4
  <2>2. ComesFrom(m, dropped) = ComesFrom(n, dropped)
    BY <1>2, <1>3, <2>1 DEF OrderInv
  <2> QED
    BY <1>2, <2>2
<1>7. Range(left) = Cached \ dropped
  <2>1. ASSUME NEW k \in Range(left) PROVE k \in Cached \ dropped
    <3>1. PICK n \in 1..c : k = order[ComesFrom(n, dropped)]
      BY <1>4, <1>5 DEF Range
    <3> QED
      BY <1>2, <1>3, <3>1 DEF OrderInv, Range
  <2>2. ASSUME NEW k \in Cached \ dropped PROVE k \in Range(left)
    <3>1. PICK i \in DOMAIN order : k = order[i]
      BY DEF OrderInv, Range
    <3>2. i \in S
      BY <3>1 DEF S, Staying
    <3>3. MovesTo(i, dropped) \in 1..c /\ left[MovesTo(i, dropped)] = k
      BY <1>2, <1>4, <3>1, <3>2
    <3> QED
      BY <1>5, <3>3 DEF Range
  <2> QED
    BY <2>1, <2>2
<1>8. Cached \cap dropped # {} => c < Len(order)
  BY <1>2, <1>3 DEF OrderInv, Range
<1> QED
  BY <1>2, <1>5, <1>6, <1>7, <1>8 DEF left

(* Each key once: as many places as keys. *)
LEMMA OrderCounts == OrderInv => Len(order) = Cardinality(Cached)
<1> SUFFICES ASSUME OrderInv PROVE Len(order) = Cardinality(Cached)
  OBVIOUS
<1>1. Len(order) \in Nat /\ order \in [1..Len(order) -> Cached]
  BY DEF OrderInv, Range
<1>2. order \in Bijection(1..Len(order), Cached)
  BY <1>1 DEF OrderInv, Range, Bijection, Injection, Surjection, IsInjective
<1> QED
  BY <1>1, <1>2, FS_CountingElements DEF ExistsBijection

(* A drop keeps order and entries together. *)
LEMMA DropKeepsOrder ==
  ASSUME OrderInv, NEW dropped, Drop(dropped)
  PROVE  OrderInv'
<1>1. order' = Without(dropped) /\ Cached' = Cached \ dropped
  BY DEF Drop, Restrict, Cached
<1>2. Len(order') <= MaxEntries
  BY <1>1, WithoutKeepsTheRest, CacheAssumption DEF OrderInv
<1> QED
  BY <1>1, <1>2, WithoutKeepsTheRest DEF OrderInv

(* set() at the bound evicts a key that is there, and a key that is cached *)
(* keeps its place.                                                        *)
LEMMA StoreKeepsOrder ==
  ASSUME CacheInv, OrderInv, NEW a \in Askers, Store(a)
  PROVE  OrderInv'
<1> DEFINE k == asked[a]
           out == Evicted(k)
           left == Without(out)
<1>1. k \in Keys
  BY DEF Store, CacheInv, CacheTypes
<1>2. /\ left \in Seq(Keys) /\ \A m, n \in DOMAIN left : left[m] = left[n] => m = n
      /\ Range(left) = Cached \ out /\ Len(left) <= Len(order)
      /\ Cached \cap out # {} => Len(left) < Len(order)
  BY WithoutKeepsTheRest
<1>3. order' = Place(k, left) /\ Cached' = (Cached \ out) \cup {k}
  BY DEF Store, Cached
<1>4. Len(order) \in Nat /\ Len(left) \in Nat /\ Len(order) <= MaxEntries /\ MaxEntries \in Nat \ {0}
  BY <1>2, CacheAssumption DEF OrderInv
<1>5. k \notin Cached => Len(left) < MaxEntries
  <2> SUFFICES ASSUME k \notin Cached PROVE Len(left) < MaxEntries
    OBVIOUS
  <2>1. Len(order) = Cardinality(Cached)
    BY OrderCounts
  <2>2. CASE Len(order) >= MaxEntries
    <3>1. out = {Head(order)}
      BY <2>1, <2>2 DEF Evicted
    <3>2. Len(order) > 0
      BY <1>4, <2>2
    <3>3. Head(order) \in Cached
      BY <3>2 DEF OrderInv, Range
    <3> QED
      BY <1>2, <1>4, <3>1, <3>3
  <2>3. CASE Len(order) < MaxEntries
    BY <1>2, <1>4, <2>3
  <2> QED
    BY <1>4, <2>2, <2>3
<1>6. k \in Cached => k \notin out
  BY DEF Evicted
<1> HIDE DEF k, out, left
<1>7. CASE k \in Range(left)
  <2>1. order' = left /\ Cached' = Range(left)
    BY <1>2, <1>3, <1>7 DEF Place
  <2>2. Len(order') <= MaxEntries
    BY <1>2, <1>4, <2>1
  <2> QED
    BY <1>2, <2>1, <2>2 DEF OrderInv
<1>8. CASE k \notin Range(left)
  <2>1. order' = Append(left, k) /\ k \notin Cached
    BY <1>2, <1>3, <1>6, <1>8 DEF Place
  <2>2. /\ order' \in Seq(Keys) /\ Len(order') = Len(left) + 1
        /\ DOMAIN order' = 1..(Len(left) + 1) /\ DOMAIN left = 1..Len(left)
        /\ \A i \in 1..Len(left) : order'[i] = left[i]
        /\ order'[Len(left) + 1] = k
    BY <1>1, <1>2, <1>4, <2>1
  <2>3. Range(order') = Range(left) \cup {k}
    BY <1>4, <2>2 DEF Range
  <2>4. \A i \in 1..Len(left) : left[i] # k
    BY <1>8, <2>2 DEF Range
  <2>5. \A i, j \in DOMAIN order' : order'[i] = order'[j] => i = j
    BY <1>2, <1>4, <2>2, <2>4
  <2>6. Len(order') <= MaxEntries
    BY <1>4, <1>5, <2>1, <2>2
  <2>7. Range(order') = Cached'
    BY <1>2, <1>3, <2>3
  <2> QED
    BY <2>2, <2>5, <2>6, <2>7 DEF OrderInv
<1> QED
  BY <1>7, <1>8

-----------------------------------------------------------------------------
(* Every reachable state of the cache satisfies the invariant. *)
THEOREM InvariantHolds == Spec => []CacheInv
<1>1. Init => CacheInv
  BY InitEstablishes
<1>2. CacheInv /\ [Next]_vars => CacheInv'
  <2> SUFFICES ASSUME CacheInv, [Next]_vars PROVE CacheInv'
    OBVIOUS
  <2>1. ASSUME UNCHANGED vars PROVE CacheInv'
    BY <2>1 DEF vars, askVars, CacheInv, CacheTypes, ToldIsPast, UnderWay,
                OutdatedOnlyIfCrossed, Knows, Cached
  <2>2. ASSUME NEW a \in Askers,
               \/ \E k \in Keys : Hit(a, k) \/ Miss(a, k)
               \/ Retrieve(a) \/ Store(a) \/ AskFails(a)
        PROVE  CacheInv'
    BY <2>1, <2>2, MissKeeps, RetrieveKeeps, StoreKeeps, AskFailsKeeps DEF Hit
  <2>3. ASSUME NEW w \in Writers, NEW t \in Tenants, NEW g \in GroupsOf[t],
               Write(w, t, g) \/ Invalidate(w, t, g)
        PROVE  CacheInv'
    <3>1. g \in Groups
      BY CacheAssumption
    <3> QED
      BY <2>3, <3>1, ChangeKeeps, InvalidateKeeps DEF Write
  <2>4. ASSUME NEW w \in Writers, WriteFails(w) PROVE CacheInv'
    BY <2>4 DEF WriteFails, askVars, CacheInv, CacheTypes, ToldIsPast, UnderWay,
                OutdatedOnlyIfCrossed, Knows, Cached
  <2>5. ASSUME NEW g \in Groups, ChangesElsewhere(g) PROVE CacheInv'
    BY <2>5, ChangeKeeps DEF ChangesElsewhere
  <2> QED
    BY <2>1, <2>2, <2>3, <2>4, <2>5, TimePassesKeeps DEF Next
<1> QED
  BY <1>1, <1>2, PTL DEF Spec

(* invalidate_group: what was in the cache does not come through it. *)
THEOREM InvalidationReachesTheCache == Spec => []OutdatedOnlyIfCrossed
<1>1. CacheInv => OutdatedOnlyIfCrossed
  BY DEF CacheInv
<1> QED
  BY <1>1, InvariantHolds, PTL

(* _entries and _order move together in every step that touches either. *)
THEOREM OrderHolds == Spec => []OrderInv
<1>1. Init => OrderInv
  <2> SUFFICES ASSUME Init PROVE OrderInv
    OBVIOUS
  <2>1. order = <<>> /\ Cached = {}
    BY DEF Init, Cached
  <2>2. order \in Seq(Keys) /\ Len(order) = 0 /\ DOMAIN order = {}
    BY <2>1
  <2> QED
    BY <2>1, <2>2, CacheAssumption DEF OrderInv, Range
<1>2. CacheInv /\ OrderInv /\ [Next]_vars => OrderInv'
  <2> SUFFICES ASSUME CacheInv, OrderInv, [Next]_vars PROVE OrderInv'
    OBVIOUS
  <2>1. ASSUME order' = order, Cached' = Cached PROVE OrderInv'
    BY <2>1 DEF OrderInv
  <2>2. ASSUME NEW a \in Askers, NEW k \in Keys, Miss(a, k) PROVE OrderInv'
    BY <2>2, DropKeepsOrder DEF Miss
  <2>3. ASSUME NEW a \in Askers, Store(a) PROVE OrderInv'
    BY <2>3, StoreKeepsOrder
  <2>4. ASSUME NEW w \in Writers, NEW t \in Tenants, NEW g \in GroupsOf[t], Invalidate(w, t, g)
        PROVE  OrderInv'
    BY <2>4, DropKeepsOrder DEF Invalidate
  <2>5. CASE TimePasses
    BY <2>1, <2>5 DEF TimePasses, Cached
  <2>6. CASE UNCHANGED <<order, entries>>
    BY <2>1, <2>6 DEF Cached
  <2>7. ASSUME NEW a \in Askers,
               (\E k \in Keys : Hit(a, k)) \/ Retrieve(a) \/ AskFails(a)
        PROVE  UNCHANGED <<order, entries>>
    BY <2>7 DEF Hit, Retrieve, AskFails, vars
  <2>8. ASSUME NEW w \in Writers,
               (\E t \in Tenants : \E g \in GroupsOf[t] : Write(w, t, g)) \/ WriteFails(w)
        PROVE  UNCHANGED <<order, entries>>
    BY <2>8 DEF Write, WriteFails
  <2>9. ASSUME NEW g \in Groups, ChangesElsewhere(g) PROVE UNCHANGED <<order, entries>>
    BY <2>9 DEF ChangesElsewhere
  <2>10. CASE UNCHANGED vars
    BY <2>6, <2>10 DEF vars
  <2> QED
    BY <2>2, <2>3, <2>4, <2>5, <2>6, <2>7, <2>8, <2>9, <2>10 DEF Next
<1> QED
  BY <1>1, <1>2, InvariantHolds, PTL DEF Spec

(* set, get and invalidate_group: _entries and _order hold the same keys,  *)
(* each once, however queries with the same key overlap, so that           *)
(* _order[0] is there whenever the cache is full.                          *)
THEOREM OrderIsTheCache == Spec => []OrderMatchesEntries
<1>1. OrderInv => OrderMatchesEntries
  BY OrderCounts DEF OrderInv, OrderMatchesEntries
<1> QED
  BY <1>1, OrderHolds, PTL

(* What syncs and purges write to. *)
WritingType == writing \in [Writers -> [tenant : Tenants, group : Groups] \cup {Idle}]

(* Type correctness, the bound of the cache included. *)
THEOREM TypeCorrect == Spec => []TypeOK
<1>1. Init => WritingType
  BY DEF Init, WritingType
<1>2. WritingType /\ [Next]_vars => WritingType'
  <2> SUFFICES ASSUME WritingType, [Next]_vars PROVE WritingType'
    OBVIOUS
  <2>1. CASE writing' = writing
    BY <2>1 DEF WritingType
  <2>2. ASSUME NEW w \in Writers,
               \E t \in Tenants : \E g \in GroupsOf[t] : Write(w, t, g) \/ Invalidate(w, t, g)
        PROVE  WritingType'
    BY <2>2, CacheAssumption DEF WritingType, Write, Invalidate
  <2>3. ASSUME NEW w \in Writers, WriteFails(w) PROVE WritingType'
    BY <2>3 DEF WritingType, WriteFails
  <2>4. ASSUME NEW a \in Askers,
               (\E k \in Keys : Hit(a, k) \/ Miss(a, k)) \/ Retrieve(a) \/ Store(a) \/ AskFails(a)
        PROVE  writing' = writing
    BY <2>4 DEF Hit, Miss, Retrieve, Store, AskFails, vars
  <2>5. CASE (\E g \in Groups : ChangesElsewhere(g)) \/ TimePasses \/ UNCHANGED vars
    BY <2>1, <2>5 DEF ChangesElsewhere, TimePasses, vars
  <2> QED
    BY <2>1, <2>2, <2>3, <2>4, <2>5 DEF Next
<1>3. CacheInv /\ OrderInv /\ WritingType => TypeOK
  BY DEF CacheInv, CacheTypes, OrderInv, WritingType, TypeOK
<1> QED
  BY <1>1, <1>2, <1>3, InvariantHolds, OrderHolds, PTL DEF Spec
=============================================================================
