---------------------------- MODULE ResponseCache ----------------------------
(***************************************************************************)
(* The in-process response cache (app/context/response_cache.py) with the  *)
(* queries that fill it (app/context/query_service.py) and the syncs and   *)
(* purges that invalidate it (app/ingestion/connector_sync.py,             *)
(* app/api/connectors.py).                                                 *)
(*                                                                         *)
(* get, set and invalidate_group hold the cache's lock: each is one step.  *)
(* A query awaits retrieval and synthesis between its get and its set, so  *)
(* anything may happen to the graph and to the cache in between.           *)
(*                                                                         *)
(* The content of a knowledge base is a version number.  An answer is what *)
(* it was computed from: the version of each knowledge base in its scope.  *)
(* Time is the age of the entries, counted up to just past the TTL.        *)
(***************************************************************************)
EXTENDS Naturals, Sequences, FiniteSets, Functions

CONSTANTS
    Tenants,
    Groups,      \* knowledge bases (group_id)
    GroupsOf,    \* the tenant's knowledge bases; tenants may share one
    Keys,        \* cache keys: tenant, scope, user, query, result count
    TenantOf,    \* the key's tenant
    ScopeOf,     \* the key's group_ids
    Askers,      \* queries that can be under way at once
    Writers,     \* syncs and purges that can be under way at once
    MaxEntries,  \* _MAX_ENTRIES
    TTL,         \* response_cache_ttl_seconds, in ticks
    MaxVersion,  \* content changes are counted up to here
    None

ASSUME CacheAssumption ==
    /\ TenantOf \in [Keys -> Tenants]
    /\ GroupsOf \in [Tenants -> SUBSET Groups]
    /\ ScopeOf \in [Keys -> SUBSET Groups]
    /\ \A k \in Keys : ScopeOf[k] # {} /\ ScopeOf[k] \subseteq GroupsOf[TenantOf[k]]
    /\ None \notin Keys
    /\ MaxEntries \in Nat \ {0}
    /\ TTL \in Nat /\ MaxVersion \in Nat

VARIABLES
    version,  \* what each knowledge base holds
    told,     \* history: what it held at the last invalidation by each tenant
    entries,  \* _entries
    order,    \* _order
    asking,   \* what each query is about to do
    asked,    \* its cache key
    answer,   \* its packet, once retrieved
    crossed,  \* history: its scope was invalidated after it retrieved
    writing   \* the tenant and knowledge base a sync or purge is writing

askVars == <<asking, asked, answer, crossed>>
vars    == <<version, told, entries, order, askVars, writing>>

Versions == [Groups -> 0..MaxVersion]
Entry    == [seen : Versions, age : 0..(TTL + 1), crossed : BOOLEAN]
Idle     == [tenant |-> None, group |-> None]
Unread   == [g \in Groups |-> 0]

Cached == DOMAIN entries
Covers(k, t, g) == TenantOf[k] = t /\ g \in ScopeOf[k]
Expired(k) == entries[k].age > TTL

Init ==
    /\ version = Unread
    /\ told = [t \in Tenants |-> Unread]
    /\ entries = [k \in {} |-> 0]
    /\ order = <<>>
    /\ asking = [a \in Askers |-> "idle"]
    /\ asked = [a \in Askers |-> None]
    /\ answer = [a \in Askers |-> Unread]
    /\ crossed = [a \in Askers |-> FALSE]
    /\ writing = [w \in Writers |-> Idle]

-----------------------------------------------------------------------------
(* The cache. *)

(* The places of the order whose key stays, and how many come up to one of *)
(* them: where its key moves to when the others are removed.               *)
Staying(dropped)     == {i \in DOMAIN order : order[i] \notin dropped}
MovesTo(i, dropped)  == Cardinality({j \in Staying(dropped) : j <= i})
ComesFrom(n, dropped) == CHOOSE i \in Staying(dropped) : MovesTo(i, dropped) = n

(* What is left of the order, in its order. *)
Without(dropped) ==
    [n \in 1..Cardinality(Staying(dropped)) |-> order[ComesFrom(n, dropped)]]

Drop(dropped) ==
    /\ entries' = Restrict(entries, Cached \ dropped)
    /\ order' = Without(dropped)

EvictedLate(k) ==   \* slip: the bound is checked with > instead of >=
    IF k \notin Cached /\ Cardinality(Cached) > MaxEntries THEN {Head(order)} ELSE {}

Evicted(k) ==
    IF k \notin Cached /\ Cardinality(Cached) >= MaxEntries THEN {Head(order)} ELSE {}

PlaceAgain(k, kept) == Append(kept, k)   \* slip: no look whether it has a place

(* A key that is cached already keeps its place. *)
Place(k, kept) == IF k \in Range(kept) THEN kept ELSE Append(kept, k)

-----------------------------------------------------------------------------
(* execute_context_query. *)

HitRenewing(a, k) ==   \* slip: a hit restarts the entry's TTL
    /\ asking[a] = "idle"
    /\ k \in Cached /\ ~Expired(k)
    /\ entries' = [entries EXCEPT ![k].age = 0]
    /\ UNCHANGED <<version, told, order, askVars, writing>>

(* get() finds a live entry: the caller gets a copy of it. *)
Hit(a, k) ==
    /\ asking[a] = "idle"
    /\ k \in Cached /\ ~Expired(k)
    /\ UNCHANGED vars

(* get() finds nothing, or drops what has expired. *)
Miss(a, k) ==
    /\ asking[a] = "idle"
    /\ k \in Cached => Expired(k)
    /\ Drop({k})
    /\ asking' = [asking EXCEPT ![a] = "retrieve"]
    /\ asked' = [asked EXCEPT ![a] = k]
    /\ UNCHANGED <<version, told, answer, crossed, writing>>

Retrieve(a) ==
    /\ asking[a] = "retrieve"
    /\ answer' = [answer EXCEPT ![a] =
                    [g \in Groups |-> IF g \in ScopeOf[asked[a]] THEN version[g] ELSE 0]]
    /\ asking' = [asking EXCEPT ![a] = "store"]
    /\ UNCHANGED <<version, told, entries, order, asked, crossed, writing>>

Done(a) ==
    /\ asking' = [asking EXCEPT ![a] = "idle"]
    /\ asked' = [asked EXCEPT ![a] = None]
    /\ answer' = [answer EXCEPT ![a] = Unread]
    /\ crossed' = [crossed EXCEPT ![a] = FALSE]

(* set(): the packet is cached as of now, however long ago it was          *)
(* retrieved and whatever was invalidated since.                           *)
Store(a) ==
    /\ asking[a] = "store"
    /\ LET k    == asked[a]
           out  == Evicted(k)
           kept == Without(out)
           new  == [seen |-> answer[a], age |-> 0,
                    crossed |-> crossed[a]]
       IN /\ entries' = [x \in (Cached \ out) \cup {k} |-> IF x = k THEN new ELSE entries[x]]
          /\ order' = Place(k, kept)
    /\ Done(a)
    /\ UNCHANGED <<version, told, writing>>

(* A spend limit, a retrieval error, a client that went away. *)
AskFails(a) ==
    /\ asking[a] # "idle"
    /\ Done(a)
    /\ UNCHANGED <<version, told, entries, order, writing>>

-----------------------------------------------------------------------------
(* Syncs and purges. *)

Change(g) ==
    /\ version[g] < MaxVersion
    /\ version' = [version EXCEPT ![g] = @ + 1]

(* One more episode of a sync, or one more statement of a purge. *)
Write(w, t, g) ==
    /\ writing[w] \in {Idle, [tenant |-> t, group |-> g]}
    /\ Change(g)
    /\ writing' = [writing EXCEPT ![w] = [tenant |-> t, group |-> g]]
    /\ UNCHANGED <<told, entries, order, askVars>>

(* A sync that ends in error, or dies, invalidates nothing. *)
WriteFails(w) ==
    /\ writing[w] # Idle
    /\ writing' = [writing EXCEPT ![w] = Idle]
    /\ UNCHANGED <<version, told, entries, order, askVars>>

StaleSingle(t, g) ==   \* slip: keys that span several knowledge bases are left
    {k \in Cached : TenantOf[k] = t /\ ScopeOf[k] = {g}}

Stale(t, g) == {k \in Cached : Covers(k, t, g)}

(* A sync or a purge that succeeds calls invalidate_group. *)
Invalidate(w, t, g) ==
    /\ writing[w] = [tenant |-> t, group |-> g]
    /\ Drop(Stale(t, g))
    /\ told' = [told EXCEPT ![t][g] = version[g]]
    /\ crossed' = [a \in Askers |->
                    crossed[a] \/ (asking[a] = "store" /\ Covers(asked[a], t, g))]
    /\ writing' = [writing EXCEPT ![w] = Idle]
    /\ UNCHANGED <<version, asking, asked, answer>>

(* Content changes this cache never hears of: another replica's syncs,     *)
(* the reconciliation that follows a sync's invalidation, scripts.         *)
ChangesElsewhere(g) ==
    /\ Change(g)
    /\ UNCHANGED <<told, entries, order, askVars, writing>>

TimePasses ==
    /\ \E k \in Cached : ~Expired(k)
    /\ entries' = [k \in Cached |-> IF Expired(k) THEN entries[k]
                                    ELSE [entries[k] EXCEPT !.age = @ + 1]]
    /\ UNCHANGED <<version, told, order, askVars, writing>>

Next ==
    \/ \E a \in Askers :
        \/ \E k \in Keys : Hit(a, k) \/ Miss(a, k)
        \/ Retrieve(a) \/ Store(a) \/ AskFails(a)
    \/ \E w \in Writers :
        \/ \E t \in Tenants : \E g \in GroupsOf[t] : Write(w, t, g) \/ Invalidate(w, t, g)
        \/ WriteFails(w)
    \/ \E g \in Groups : ChangesElsewhere(g)
    \/ TimePasses

Spec == Init /\ [][Next]_vars

(* Awaits return, and time passes. *)
Fairness ==
    /\ \A a \in Askers : WF_vars(Retrieve(a) \/ Store(a) \/ AskFails(a))
    /\ WF_vars(TimePasses)

FairSpec == Spec /\ Fairness

-----------------------------------------------------------------------------
(* Properties. *)

(* Every variable has its type; the cache keeps within its bound. *)
TypeOK ==
    /\ version \in Versions
    /\ told \in [Tenants -> Versions]
    /\ Cached \subseteq Keys /\ \A k \in Cached : entries[k] \in Entry
    /\ order \in Seq(Keys) /\ Len(order) <= MaxEntries
    /\ asking \in [Askers -> {"idle", "retrieve", "store"}]
    /\ asked \in [Askers -> Keys \cup {None}]
    /\ answer \in [Askers -> Versions]
    /\ crossed \in [Askers -> BOOLEAN]
    /\ writing \in [Writers -> [tenant : Tenants, group : Groups] \cup {Idle}]

(* An answer knows what tenant t was told about a knowledge base in its    *)
(* scope.                                                                  *)
Knows(seen, k) == \A g \in ScopeOf[k] : seen[g] >= told[TenantOf[k]][g]

(* A cached answer predates an invalidation of its scope only if the query *)
(* that computed it was still under way when the invalidation ran; no      *)
(* entry that was in the cache then, under any key whose scope has the     *)
(* group, comes through it.                                                *)
OutdatedOnlyIfCrossed ==
    \A k \in Cached : ~entries[k].crossed => Knows(entries[k].seen, k)

(* _entries and _order hold the same keys, each once, whatever queries     *)
(* with the same key end in whatever order: so an eviction always finds    *)
(* one to drop and the cache never outgrows its bound.                     *)
OrderMatchesEntries ==
    /\ Range(order) = Cached
    /\ Len(order) = Cardinality(Cached)

(* The TTL as the safety net: once the knowledge bases rest, no hit serves *)
(* an outdated answer any more, whether or not the changes were announced. *)
StaleAnswersDie ==
    <>[](\A k \in Cached : ~Expired(k) =>
            \A g \in ScopeOf[k] : entries[k].seen[g] = version[g])

(* app/ingestion/connector_sync.py:143: after a sync, "don't leave a stale *)
(* ... (or an outdated answer) sitting in the response cache for however   *)
(* long its TTL has left".                                                 *)
NoOutdatedAnswer == \A k \in Cached : Knows(entries[k].seen, k)
=============================================================================
