----------------------------- MODULE MCService -----------------------------
(***************************************************************************)
(* Instances of ContextQuery and Lifecycle.  A behaviour is of one part.   *)
(* In "graph" syncs and purges of two connectors overlap freely, and a     *)
(* route that lists the knowledge base has its list in one step; in        *)
(* "query" the corpus is ingested first, and what then disturbs the        *)
(* questions is at most MaxStirs re-ingestions and purges, in any overlap, *)
(* of which no statement fails.  In the others tenants and connectors come *)
(* and go, with at most MaxUpsets steps of the operator and restarts:      *)
(* "tenant" has a connector and a document set, "push" a mailbox with a    *)
(* subscription, "drive" a Google Drive with a grant and "consent" a       *)
(* connection made through an OAuth state.                                 *)
(***************************************************************************)
EXTENDS ContextQuery, Lifecycle, Sequences

CONSTANTS k1, k2, c1, c2, c3, r1, r2, r3, r4, a, b, d, h, s, a2,
          f1, f2, f3, f4, f5, f6, boss, clerk, web, q1, q2, q3, q4, both,
          acme, acmeInc, bolt, plant, order, store,
          MaxStirs, MaxMade,
          t1, t2, g1, g2, plain, mail, drive, iq, MaxUpsets

VARIABLES part, stirs

Feeds     == [c \in Connector |-> IF c = c3 THEN k2 ELSE k1]
Feeders   == [r \in Record |-> IF r = r4 THEN c3 ELSE IF r = r2 THEN c2 ELSE c1]
Extracted == [r \in Record |-> CASE r = r1 -> {f1, f2} [] r = r2 -> {f2, f3, f6}
                                 [] r = r3 -> {f4, f5} [] OTHER -> {}]
Named     == [r \in Record |-> CASE r \in {r1, r2} -> {s} [] r = r4 -> {a2} [] OTHER -> {}]

\* A plant h nobody is assigned to lies between a and d, and so does b.
From(x, type, y, text, from, to) ==
    [source |-> x, type |-> type, target |-> y, text |-> text, from |-> from, to |-> to]
Edges == [f \in Fact |->
    CASE f = f1 -> From(a, "CAUSES", b, "t1", 1, 0)
      [] f = f2 -> From(a, "LOCATED_AT", b, "t2", 2, 0)
      [] f = f3 -> From(a, "LOCATED_AT", b, "t3", 1, 1)
      [] f = f4 -> From(a, "CAUSES", h, "t4", 2, 0)
      [] f = f5 -> From(h, "CAUSES", d, "t5", 1, 0)
      [] f = f6 -> From(b, "LOCATED_AT", d, "t6", 1, 0)]
Homes      == [e \in Entity |-> IF e = a2 THEN k2 ELSE k1]
Successors == [f \in Fact |-> IF f = f1 THEN f4 ELSE None]

Orgs     == [u \in User |-> k1]
Reports  == [u \in User |-> IF u = clerk THEN boss ELSE None]
Assigned == [e \in Entity |-> CASE e \in {a, b} -> {clerk} [] e \in {d, s} -> {boss} [] OTHER -> {}]

NamesOf == [e \in Entity |-> CASE e = a -> acme [] e = a2 -> acmeInc [] e = b -> bolt
                               [] e = h -> plant [] e = d -> order [] e = s -> store]
Norms == [n \in Name |-> IF n = acmeInc THEN acme ELSE n]
Hits  == [n \in Name |-> IF n \in {acme, acmeInc} THEN {acme, acmeInc} ELSE {n}]
Holds == [n \in Name |-> IF n = bolt THEN {bolt, store} ELSE {n}]
Same  == {<<a, a2>>}

Asking(name, kind) == [name |-> name, kind |-> kind]
Asked == [q \in Question |-> CASE q = q1 -> <<Asking(acme, "proper")>>
                               [] q = q2 -> <<Asking(acme, "proper"), Asking(order, "proper")>>
                               [] q = q3 -> <<Asking(store, "word")>>
                               [] q = q4 -> <<>>]
Sets      == [x \in DocumentSet |-> {k1, k2}]
Authorities == [c \in Connector |-> IF c = c1 THEN 2 ELSE 1]

Corpus == <<r1, r2, r3, r4>>

Bases     == [g \in Config |-> IF g = g1 THEN {k1} ELSE {k2}]
InFile    == [t \in Tenant |-> IF t = t1 THEN g1 ELSE Null]
KindsHere == [c \in Conn |-> CASE c = plain -> "plain" [] c = mail -> "mail"
                                [] c = drive -> "drive" [] c = iq -> "iq"]

-----------------------------------------------------------------------------
Filled == made >= Len(Corpus) /\ Len(Corpus) \in tagged

Fill ==
    /\ ~Filled
    /\ \/ /\ \A c \in Connector : draft[c].at = "idle"
          /\ ReadEdges(Corpus[made + 1])
       \/ \E c \in Connector : SaveEpisode(c) \/ (TagEpisode(c) /\ tagged' # tagged)
    /\ UNCHANGED <<ask, decisions, stirs>>

Stir ==
    /\ Filled
    /\ \/ /\ stirs < MaxStirs /\ stirs' = stirs + 1
          /\ ReadEdges(r3) \/ \E c \in {c1, c2} : PurgeFacts(c)
       \/ /\ stirs' = stirs
          /\ \E c \in Connector :
               \/ SaveEpisode(c) \/ (TagEpisode(c) /\ tagged' # tagged)
               \/ PurgeEntities(c) \/ PurgeEpisodes(c)
    /\ UNCHANGED <<ask, decisions>>

Overlap ==
    /\ At("idle") /\ GraphStep /\ made' <= MaxMade
    /\ \A c \in Connector : (draft[c].record)' \in {None, r1, r2}
    /\ purge'[c3] = NoPurge
    /\ UNCHANGED stirs

Look ==
    /\ \/ BrowseBase(k1)
       \/ Deliver
    /\ UNCHANGED stirs

-----------------------------------------------------------------------------
LifeParts == {"tenant", "push", "drive", "consent"}

\* What a part leaves alone.
NoneExchanges == \A q \in Call : (calls[q].at)' # "exchanging"

Within ==
    CASE part = "tenant"  -> drawn' \subseteq {plain}
                             /\ <<calls, states, tick>>' = <<calls, states, tick>>
      [] part = "push"    -> drawn' \subseteq {mail} /\ NoneExchanges
                             /\ <<clients, sets, states>>' = <<clients, sets, states>>
      [] part = "drive"   -> drawn' \subseteq {drive}
                             /\ <<clients, sets, states, tick>>' = <<clients, sets, states, tick>>
      [] part = "consent" -> drawn' \subseteq {iq} /\ NoneExchanges
                             /\ <<clients, sets, tick>>' = <<clients, sets, tick>>

Requests ==
    \/ \E t \in Tenant : TenantNext(t)
    \/ \E q \in Call : CallNext(q)
    \/ BackgroundNext

Upset == Restart \/ \E t \in Tenant : OperatorNext(t)

Init ==
    /\ QueryInit /\ LifeInit /\ stirs = 0
    /\ part \in {"graph", "query"} \cup LifeParts

Next ==
    /\ part' = part
    /\ \/ /\ \/ part = "graph" /\ (Overlap \/ Look)
             \/ part = "query" /\ (Fill \/ Stir)
             \/ part = "query" /\ Filled /\ AskNext /\ UNCHANGED stirs
          /\ UNCHANGED lifeVars
       \/ /\ part \in LifeParts
          /\ \/ Requests /\ UNCHANGED stirs
             \/ Upset /\ stirs < MaxUpsets /\ stirs' = stirs + 1
          /\ Within
          /\ UNCHANGED queryVars

Spec == Init /\ [][Next]_<<queryVars, lifeVars, part, stirs>>

TypeOK == QueryTypeOK /\ LifeTypeOK
=============================================================================
