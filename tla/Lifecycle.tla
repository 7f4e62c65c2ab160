----------------------------- MODULE Lifecycle -----------------------------
(***************************************************************************)
(* What a tenant owns and how it comes and goes: tenants                   *)
(* (app/graph/tenants.py, app/api/admin.py), the cached Graphiti clients   *)
(* (app/graph/tenant_graphiti_pool.py), connectors with their push         *)
(* subscriptions and OAuth grants (app/api/connectors.py,                  *)
(* app/graph/connectors.py, app/ingestion/graph_subscriptions.py,          *)
(* app/ingestion/google_oauth.py, app/ingestion/microsoft_oauth.py),       *)
(* document sets, Graph's notifications (app/api/webhooks.py) and the      *)
(* second half of a scheduler's tick (app/graph/connector_scheduler.py).   *)
(*                                                                         *)
(* A subscription or a grant lives at Microsoft or Google; the service     *)
(* has what it recorded of it.  A request is followed from one call to     *)
(* such a service, or statement of Neo4j, to the next.  What a sync does   *)
(* to a connector is ConnectorSync.                                        *)
(***************************************************************************)
EXTENDS Naturals, FiniteSets

CONSTANTS
    Tenant,       \* tenant_ids
    Config,       \* what may be registered: a provider key, knowledge bases
    Base,         \* knowledge bases
    Given,        \* the knowledge bases of a configuration
    Static,       \* the configuration of a tenant in tenants.json, or Null
    Conn,         \* connectors, each a uuid
    KindOf,       \* "mail", "drive" and "iq" connect to something; "plain"
    Sub,          \* push subscriptions at Microsoft Graph
    Grant,        \* refresh tokens granted at Google
    Call,         \* requests that may be under way at once
    Collection,   \* document sets
    Null

Kinds == {"plain", "mail", "drive", "iq"}

RowKept == [tenant : Tenant, base : Base, sub : Sub \cup {Null}, grant : Grant \cup {Null}]

ASSUME LifeAssumption ==
    /\ Given \in [Config -> SUBSET Base]
    /\ Static \in [Tenant -> Config \cup {Null}]
    /\ KindOf \in [Conn -> Kinds]
    /\ Sub \cap Grant = {}
    /\ Null \notin Config \cup Tenant \cup Conn \cup Base \cup Sub \cup Grant \cup RowKept

VARIABLES
    dynamic,   \* :Tenant nodes
    clients,   \* TenantGraphitiPool._clients: the configuration of each
    rows,      \* :Connector nodes
    drawn,     \* connector ids that were given out
    sets,      \* :DocumentSet nodes
    subs,      \* each subscription at Graph, and the connector it is for
    grants,    \* each grant at Google
    calls,     \* requests under way
    states,    \* OAuth states in a browser
    jobs,      \* syncs that notifications queued
    tick,      \* whether a tick is in its second half
    former,    \* history: tenant_ids that more than one tenant has had
    moved,     \* history: connectors an operator reassigned
    halted,    \* history: connectors whose deletion did not end
    adrift     \* history: subscriptions and grants that slipped away

tenantVars == <<dynamic, clients, former>>
remoteVars == <<subs, grants>>
lifeVars   == <<tenantVars, rows, drawn, sets, remoteVars, calls, states, jobs, tick,
                moved, halted, adrift>>

Row(t, b, s, g) == [tenant |-> t, base |-> b, sub |-> s, grant |-> g]

CallAt(stage, t, c, b, s, g) ==
    [at |-> stage, tenant |-> t, conn |-> c, base |-> b, sub |-> s, grant |-> g]

NoCall == CallAt("idle", Null, Null, Null, Null, Null)

LifeInit ==
    /\ dynamic = [t \in Tenant |-> Null]
    /\ clients = [t \in Tenant |-> Null]
    /\ rows = [c \in Conn |-> Null]
    /\ drawn = {}
    /\ sets = [x \in Collection |-> Null]
    /\ subs = [s \in Sub |-> [at |-> "unborn", for |-> Null]]
    /\ grants = [g \in Grant |-> "unborn"]
    /\ calls = [q \in Call |-> NoCall]
    /\ states = {} /\ jobs = {} /\ tick = "syncing"
    /\ former = {} /\ moved = {} /\ halted = {} /\ adrift = {}

-----------------------------------------------------------------------------
(* Tenants and their clients. *)

(* An id may be both in tenants.json and in Neo4j, with a key for each. *)
InForce(t)  == {Static[t], dynamic[t]} \ {Null}
OwnBases(t) == UNION {Given[f] : f \in InForce(t)}

(* The constraint that ids are unique is Neo4j's alone. *)
CreateTenant(t, f) ==
    /\ dynamic[t] = Null
    /\ dynamic' = [dynamic EXCEPT ![t] = f]
    /\ former' = IF Static[t] = Null THEN former ELSE former \cup {t}
    /\ UNCHANGED <<clients, rows, drawn, sets, remoteVars, calls, states, jobs, tick,
                   moved, halted, adrift>>

(* Its connectors, document sets and client stay. *)
DeleteTenant(t) ==
    /\ dynamic[t] # Null
    /\ dynamic' = [dynamic EXCEPT ![t] = Null]
    /\ former' = former \cup {t}
    /\ UNCHANGED <<clients, rows, drawn, sets, remoteVars, calls, states, jobs, tick,
                   moved, halted, adrift>>

(* get_or_create: built on the tenant's first question, kept from then on. *)
GetClient(t, f) ==
    /\ f \in InForce(t)
    /\ clients' = [clients EXCEPT ![t] = IF clients[t] = Null THEN f ELSE clients[t]]
    /\ UNCHANGED <<dynamic, former, rows, drawn, sets, remoteVars, calls, states, jobs, tick,
                   moved, halted, adrift>>

-----------------------------------------------------------------------------
(* Document sets: create, replace, delete, each under the caller's tenant. *)

SaveSet(x, t, f, bases) ==
    /\ f \in InForce(t) /\ bases \subseteq Given[f]
    /\ sets[x] # Null => sets[x].tenant = t
    /\ sets' = [sets EXCEPT ![x] = [tenant |-> t, bases |-> bases]]
    /\ UNCHANGED <<tenantVars, rows, drawn, remoteVars, calls, states, jobs, tick,
                   moved, halted, adrift>>

DeleteSet(x, t) ==
    /\ InForce(t) # {}
    /\ sets[x] # Null /\ sets[x].tenant = t
    /\ sets' = [sets EXCEPT ![x] = Null]
    /\ UNCHANGED <<tenantVars, rows, drawn, remoteVars, calls, states, jobs, tick,
                   moved, halted, adrift>>

-----------------------------------------------------------------------------
(* Requests. *)

Free(q) == calls[q] = NoCall

Of(c, t) == rows[c] # Null /\ rows[c].tenant = t

Deleting == {"unsubscribing", "revoking", "deleting"}

Carried(Q) == {calls[q].sub : q \in {p \in Q : calls[p].at = "subscribed"}}
         \cup {calls[q].grant : q \in {p \in Q : calls[p].at = "granted"}}

CutOff(Q) == {calls[q].conn : q \in {p \in Q : calls[p].at \in Deleting}}

(* A call to another service, or a statement of Neo4j, fails: what the      *)
(* request carried is lost, and a deletion ends where it is.                *)
BreaksOff(q) ==
    /\ ~Free(q)
    /\ calls' = [calls EXCEPT ![q] = NoCall]
    /\ adrift' = adrift \cup Carried({q})
    /\ halted' = halted \cup CutOff({q})
    /\ UNCHANGED <<tenantVars, rows, drawn, sets, remoteVars, states, jobs, tick, moved>>

-----------------------------------------------------------------------------
(* A connector from the form, and its subscription. *)

(* The form's base must be the tenant's; a mailbox goes on to ask for push, *)
(* unless the deployment has no public URL.                                 *)
CreateConnector(q, t, f, b, c) ==
    /\ Free(q) /\ f \in InForce(t) /\ b \in Given[f]
    /\ c \notin drawn /\ KindOf[c] \in {"plain", "mail"}
    /\ drawn' = drawn \cup {c}
    /\ rows' = [rows EXCEPT ![c] = Row(t, b, Null, Null)]
    /\ \/ calls' = calls
       \/ /\ KindOf[c] = "mail"
          /\ calls' = [calls EXCEPT ![q] = CallAt("subscribing", t, c, Null, Null, Null)]
    /\ UNCHANGED <<tenantVars, sets, remoteVars, states, jobs, tick, moved, halted, adrift>>

(* Graph makes the subscription; its answer may not arrive. *)
Subscribe(q, s) ==
    LET call == calls[q] IN
    /\ call.at = "subscribing" /\ subs[s].at = "unborn"
    /\ subs' = [subs EXCEPT ![s] = [at |-> "live", for |-> call.conn]]
    /\ \/ /\ calls' = [calls EXCEPT ![q] =
                CallAt("subscribed", call.tenant, call.conn, Null, s, Null)]
          /\ adrift' = adrift
       \/ /\ calls' = [calls EXCEPT ![q] = NoCall]
          /\ adrift' = adrift \cup {s}
    /\ UNCHANGED <<tenantVars, rows, drawn, sets, grants, states, jobs, tick, moved, halted>>

MergeSubscription(q) ==   \* slip: MERGE for MATCH makes the row that is gone anew
    LET call == calls[q]
        row  == rows[call.conn]
    IN
    /\ call.at = "subscribed"
    /\ calls' = [calls EXCEPT ![q] = NoCall]
    /\ rows' = [rows EXCEPT ![call.conn] =
          IF row = Null THEN Row(call.tenant, Null, call.sub, Null)
                        ELSE Row(row.tenant, row.base, call.sub, row.grant)]
    /\ UNCHANGED <<tenantVars, drawn, sets, remoteVars, states, jobs, tick, moved, halted,
                   adrift>>

(* set_push_subscription matches id and tenant; a row that is gone or has   *)
(* another tenant by now is not found, and nobody notices.                  *)
RecordSubscription(q) ==
    LET call == calls[q]
        row  == rows[call.conn]
    IN
    /\ call.at = "subscribed"
    /\ calls' = [calls EXCEPT ![q] = NoCall]
    /\ \/ /\ Of(call.conn, call.tenant)
          /\ rows' = [rows EXCEPT ![call.conn] = Row(row.tenant, row.base, call.sub, row.grant)]
          /\ adrift' = adrift
       \/ /\ ~Of(call.conn, call.tenant)
          /\ rows' = rows
          /\ adrift' = adrift \cup {call.sub}
    /\ UNCHANGED <<tenantVars, drawn, sets, remoteVars, states, jobs, tick, moved, halted>>

-----------------------------------------------------------------------------
(* Google Drive: the code is exchanged for a grant, then the row is made. *)

BeginExchange(q, t, f, b) ==
    /\ Free(q) /\ f \in InForce(t) /\ b \in Given[f]
    /\ calls' = [calls EXCEPT ![q] = CallAt("exchanging", t, Null, b, Null, Null)]
    /\ UNCHANGED <<tenantVars, rows, drawn, sets, remoteVars, states, jobs, tick,
                   moved, halted, adrift>>

(* Google grants; its answer may not arrive. *)
Exchange(q, g) ==
    LET call == calls[q] IN
    /\ call.at = "exchanging" /\ grants[g] = "unborn"
    /\ grants' = [grants EXCEPT ![g] = "live"]
    /\ \/ /\ calls' = [calls EXCEPT ![q] =
                CallAt("granted", call.tenant, Null, call.base, Null, g)]
          /\ adrift' = adrift
       \/ /\ calls' = [calls EXCEPT ![q] = NoCall]
          /\ adrift' = adrift \cup {g}
    /\ UNCHANGED <<tenantVars, rows, drawn, sets, subs, states, jobs, tick, moved, halted>>

CreatePending(q, c) ==
    LET call == calls[q] IN
    /\ call.at = "granted" /\ c \notin drawn /\ KindOf[c] = "drive"
    /\ drawn' = drawn \cup {c}
    /\ rows' = [rows EXCEPT ![c] = Row(call.tenant, call.base, Null, call.grant)]
    /\ calls' = [calls EXCEPT ![q] = NoCall]
    /\ UNCHANGED <<tenantVars, sets, remoteVars, states, jobs, tick, moved, halted, adrift>>

-----------------------------------------------------------------------------
(* Fabric IQ and Work IQ: what the connection is for travels through the    *)
(* browser in a sealed state, which expires.                                *)

StartConsent(t, f, b) ==
    /\ f \in InForce(t) /\ b \in Given[f]
    /\ states' = states \cup {[tenant |-> t, base |-> b]}
    /\ UNCHANGED <<tenantVars, rows, drawn, sets, remoteVars, calls, jobs, tick,
                   moved, halted, adrift>>

ExpireState(st) ==
    /\ st \in states
    /\ states' = states \ {st}
    /\ UNCHANGED <<tenantVars, rows, drawn, sets, remoteVars, calls, jobs, tick,
                   moved, halted, adrift>>

FinishAnyConsent(q, st, t) ==   \* slip: whoever brings the state back gets the connector
    /\ Free(q) /\ st \in states /\ InForce(t) # {}
    /\ calls' = [calls EXCEPT ![q] = CallAt("redeeming", t, Null, st.base, Null, Null)]
    /\ UNCHANGED <<tenantVars, rows, drawn, sets, remoteVars, states, jobs, tick,
                   moved, halted, adrift>>

(* The state must be the caller's; the base in it is not looked at again. *)
FinishConsent(q, st, t) ==
    /\ Free(q) /\ st \in states /\ InForce(t) # {} /\ st.tenant = t
    /\ calls' = [calls EXCEPT ![q] = CallAt("redeeming", t, Null, st.base, Null, Null)]
    /\ UNCHANGED <<tenantVars, rows, drawn, sets, remoteVars, states, jobs, tick,
                   moved, halted, adrift>>

Redeem(q, c) ==
    LET call == calls[q] IN
    /\ call.at = "redeeming" /\ c \notin drawn /\ KindOf[c] = "iq"
    /\ drawn' = drawn \cup {c}
    /\ rows' = [rows EXCEPT ![c] = Row(call.tenant, call.base, Null, Null)]
    /\ calls' = [calls EXCEPT ![q] = NoCall]
    /\ UNCHANGED <<tenantVars, sets, remoteVars, states, jobs, tick, moved, halted, adrift>>

-----------------------------------------------------------------------------
(* Deletion: the subscription the row had, the grant, then the row. *)

BeginDelete(q, t, c) ==
    /\ Free(q) /\ InForce(t) # {} /\ Of(c, t)
    /\ calls' = [calls EXCEPT ![q] =
          CallAt("unsubscribing", t, c, Null, rows[c].sub, Null)]
    /\ UNCHANGED <<tenantVars, rows, drawn, sets, remoteVars, states, jobs, tick,
                   moved, halted, adrift>>

UnsubscribeNothing(q) ==   \* slip: the subscription is left to Graph
    LET call == calls[q] IN
    /\ call.at = "unsubscribing"
    /\ calls' = [calls EXCEPT ![q] =
          CallAt("revoking", call.tenant, call.conn, Null, call.sub,
                 IF Of(call.conn, call.tenant) THEN rows[call.conn].grant ELSE Null)]
    /\ UNCHANGED <<tenantVars, rows, drawn, sets, remoteVars, states, jobs, tick, moved, halted,
                   adrift>>

(* delete_subscription is best effort; then the stored token is read. *)
Unsubscribe(q) ==
    LET call == calls[q] IN
    /\ call.at = "unsubscribing"
    /\ \/ /\ subs' = [s \in Sub |-> IF s = call.sub
                        THEN [at |-> "ended", for |-> subs[s].for] ELSE subs[s]]
          /\ adrift' = adrift
       \/ /\ subs' = subs
          /\ adrift' = adrift \cup ({call.sub} \cap Sub)
    /\ calls' = [calls EXCEPT ![q] =
          CallAt("revoking", call.tenant, call.conn, Null, call.sub,
                 IF Of(call.conn, call.tenant) THEN rows[call.conn].grant ELSE Null)]
    /\ UNCHANGED <<tenantVars, rows, drawn, sets, grants, states, jobs, tick, moved, halted>>

(* revoke_token is best effort as well. *)
Revoke(q) ==
    LET call == calls[q] IN
    /\ call.at = "revoking"
    /\ \/ /\ grants' = [g \in Grant |-> IF g = call.grant THEN "revoked" ELSE grants[g]]
          /\ adrift' = adrift
       \/ /\ grants' = grants
          /\ adrift' = adrift \cup ({call.grant} \cap Grant)
    /\ calls' = [calls EXCEPT ![q] =
          CallAt("deleting", call.tenant, call.conn, Null, call.sub, call.grant)]
    /\ UNCHANGED <<tenantVars, rows, drawn, sets, subs, states, jobs, tick, moved, halted>>

(* The row goes with whatever was recorded in it meanwhile; one that has    *)
(* another tenant by now stays.                                             *)
DeleteRow(q) ==
    LET call == calls[q]
        row  == rows[call.conn]
    IN
    /\ call.at = "deleting"
    /\ calls' = [calls EXCEPT ![q] = NoCall]
    /\ \/ /\ Of(call.conn, call.tenant)
          /\ rows' = [rows EXCEPT ![call.conn] = Null]
          /\ adrift' = adrift \cup (({row.sub} \ {call.sub}) \cap Sub)
                              \cup (({row.grant} \ {call.grant}) \cap Grant)
          /\ halted' = halted
       \/ /\ ~Of(call.conn, call.tenant)
          /\ rows' = rows /\ adrift' = adrift
          /\ halted' = halted \cup {call.conn}
    /\ UNCHANGED <<tenantVars, drawn, sets, remoteVars, states, jobs, tick, moved>>

-----------------------------------------------------------------------------
(* The operator, the process, Graph and the scheduler. *)

ReassignTenant(c, t) ==
    /\ rows[c] # Null
    /\ rows' = [rows EXCEPT ![c] = Row(t, rows[c].base, rows[c].sub, rows[c].grant)]
    /\ moved' = moved \cup {c}
    /\ UNCHANGED <<tenantVars, drawn, sets, remoteVars, calls, states, jobs, tick,
                   halted, adrift>>

(* The process ends and starts: what it had in memory is lost. *)
Restart ==
    /\ clients' = [t \in Tenant |-> Null]
    /\ calls' = [q \in Call |-> NoCall]
    /\ jobs' = {} /\ tick' = "syncing"
    /\ adrift' = adrift \cup Carried(Call)
    /\ halted' = halted \cup CutOff(Call)
    /\ UNCHANGED <<dynamic, former, rows, drawn, sets, remoteVars, states, moved>>

(* Graph ends a subscription that nobody renewed. *)
Lapse(s) ==
    /\ subs[s].at = "live"
    /\ subs' = [subs EXCEPT ![s] = [at |-> "ended", for |-> subs[s].for]]
    /\ UNCHANGED <<tenantVars, rows, drawn, sets, grants, calls, states, jobs, tick,
                   moved, halted, adrift>>

(* find_tenant_by_tenant_id: tenants.json first. *)
TenantOf(c) ==
    IF Static[rows[c].tenant] # Null THEN Static[rows[c].tenant] ELSE dynamic[rows[c].tenant]

(* A notification, however late: the row that has its subscription is       *)
(* synced as its tenant, if there is one.                                   *)
Notify(s, c) ==
    /\ subs[s].at # "unborn"
    /\ rows[c] # Null /\ rows[c].sub = s /\ TenantOf(c) # Null
    /\ jobs' = jobs \cup {[conn |-> c, tenant |-> rows[c].tenant, config |-> TenantOf(c)]}
    /\ UNCHANGED <<tenantVars, rows, drawn, sets, remoteVars, calls, states, tick,
                   moved, halted, adrift>>

JobEnds(j) ==
    /\ j \in jobs
    /\ jobs' = jobs \ {j}
    /\ UNCHANGED <<tenantVars, rows, drawn, sets, remoteVars, calls, states, tick,
                   moved, halted, adrift>>

TickRenews ==
    /\ tick = "syncing" /\ tick' = "renewing"
    /\ UNCHANGED <<tenantVars, rows, drawn, sets, remoteVars, calls, states, jobs,
                   moved, halted, adrift>>

(* push_expires_at is stored as text and is read as text: the first row     *)
(* with a subscription, whether it is due or not, ends the pass with a      *)
(* TypeError when now is subtracted from it.  Nothing is renewed or cleared.*)
TickEnds ==
    /\ tick = "renewing" /\ tick' = "syncing"
    /\ UNCHANGED <<tenantVars, rows, drawn, sets, remoteVars, calls, states, jobs,
                   moved, halted, adrift>>

OAuthState == [tenant : Tenant, base : Base]

CallNext(q) ==
    \/ \E s \in Sub : Subscribe(q, s)
    \/ RecordSubscription(q)
    \/ \E g \in Grant : Exchange(q, g)
    \/ \E c \in Conn : CreatePending(q, c) \/ Redeem(q, c)
    \/ Unsubscribe(q) \/ Revoke(q) \/ DeleteRow(q)
    \/ BreaksOff(q)

TenantNext(t) ==
    \/ \E f \in Config : GetClient(t, f)
    \/ \E f \in Config, b \in Base : StartConsent(t, f, b)
    \/ \E x \in Collection :
         \/ \E f \in Config : \E bases \in SUBSET Given[f] : SaveSet(x, t, f, bases)
         \/ DeleteSet(x, t)
    \/ \E q \in Call :
         \/ \E f \in Config, b \in Base :
              \/ BeginExchange(q, t, f, b)
              \/ \E c \in Conn : CreateConnector(q, t, f, b, c)
         \/ \E st \in states : FinishConsent(q, st, t)
         \/ \E c \in Conn : BeginDelete(q, t, c)

OperatorNext(t) ==
    \/ DeleteTenant(t)
    \/ \E f \in Config : CreateTenant(t, f)
    \/ \E c \in Conn : ReassignTenant(c, t)

BackgroundNext ==
    \/ \E st \in states : ExpireState(st)
    \/ \E s \in Sub : Lapse(s) \/ \E c \in Conn : Notify(s, c)
    \/ \E j \in jobs : JobEnds(j)
    \/ TickRenews \/ TickEnds

LifeNext ==
    \/ \E t \in Tenant : TenantNext(t) \/ OperatorNext(t)
    \/ \E q \in Call : CallNext(q)
    \/ BackgroundNext \/ Restart

LifeSpec == LifeInit /\ [][LifeNext]_lifeVars

(* The interval job keeps running, and requests are worked on. *)
LifeFairness ==
    /\ WF_lifeVars(TickRenews) /\ WF_lifeVars(TickEnds)
    /\ \A q \in Call : WF_lifeVars(CallNext(q))

-----------------------------------------------------------------------------
(* Properties. *)

CallKept ==
    [at : {"idle", "subscribing", "subscribed", "exchanging", "granted", "redeeming"} \cup Deleting,
     tenant : Tenant \cup {Null}, conn : Conn \cup {Null}, base : Base \cup {Null},
     sub : Sub \cup {Null}, grant : Grant \cup {Null}]

LifeTypeOK ==
    /\ dynamic \in [Tenant -> Config \cup {Null}]
    /\ clients \in [Tenant -> Config \cup {Null}]
    /\ rows \in [Conn -> RowKept \cup {Null}]
    /\ drawn \subseteq Conn
    /\ sets \in [Collection -> [tenant : Tenant, bases : SUBSET Base] \cup {Null}]
    /\ subs \in [Sub -> [at : {"unborn", "live", "ended"}, for : Conn \cup {Null}]]
    /\ grants \in [Grant -> {"unborn", "live", "revoked"}]
    /\ calls \in [Call -> CallKept]
    /\ states \subseteq OAuthState
    /\ jobs \subseteq [conn : Conn, tenant : Tenant, config : Config]
    /\ tick \in {"syncing", "renewing"}
    /\ former \subseteq Tenant /\ moved \subseteq Conn /\ halted \subseteq Conn
    /\ adrift \subseteq Sub \cup Grant

BeingDeleted(c) == \E q \in Call : calls[q].at \in Deleting /\ calls[q].conn = c

SubscriptionsAreHeld ==
    \A s \in Sub : subs[s].at = "live" =>
        \/ s \in adrift
        \/ \E q \in Call : calls[q].at = "subscribed" /\ calls[q].sub = s
        \/ subs[s].for \in Conn /\ rows[subs[s].for] # Null /\ rows[subs[s].for].sub = s

GrantsAreHeld ==
    \A g \in Grant : grants[g] = "live" =>
        \/ g \in adrift
        \/ \E q \in Call : calls[q].at = "granted" /\ calls[q].grant = g
        \/ \E c \in Conn : rows[c] # Null /\ rows[c].grant = g

GrantsWork ==
    \A c \in Conn : rows[c] # Null /\ rows[c].grant # Null =>
        grants[rows[c].grant] = "live" \/ BeingDeleted(c) \/ c \in halted

(* What was set up at Microsoft and Google is accounted for, however        *)
(* creations, deletions, moves and restarts interleave: a live subscription *)
(* or grant is in the row of its connector or in the hands of a request, or *)
(* it was lost at a known point; and a row's grant works, unless its        *)
(* deletion is under way or was cut off ("disconnecting in Saxon also       *)
(* actually revokes the grant at Google", revoke_token).                    *)
RemoteStateIsAccounted == SubscriptionsAreHeld /\ GrantsAreHeld /\ GrantsWork

(* The service implements Custody, with its connectors as keepers of        *)
(* subscriptions and grants: what a remote service set up goes from the     *)
(* request that asked for it to one connector, which has it, moved or not,  *)
(* until its deletion begins; a grant ends at the hands of a deletion only; *)
(* and what slipped away is nobody's, until a deletion tried again or its   *)
(* end makes up for it.                                                     *)
LiveThings  == {s \in Sub : subs[s].at = "live"} \cup {g \in Grant : grants[g] = "live"}
EndedThings == {s \in Sub : subs[s].at = "ended"} \cup {g \in Grant : grants[g] = "revoked"}

Keeps(c) ==
    IF rows[c] = Null THEN {} ELSE ({rows[c].sub, rows[c].grant} \cap LiveThings) \ adrift

StageOf(c) ==
    IF c \notin drawn THEN "unborn"
    ELSE IF rows[c] = Null THEN "gone"
    ELSE IF BeingDeleted(c) \/ c \in halted THEN "closing"
    ELSE "open"

Trust == INSTANCE Custody WITH
    Thing <- Sub \cup Grant, Perishable <- Sub, Keeper <- Conn,
    live <- LiveThings, over <- EndedThings, carried <- Carried(Call) \cap LiveThings,
    kept <- [c \in Conn |-> Keeps(c)], lost <- adrift \cap LiveThings,
    stage <- [c \in Conn |-> StageOf(c)]

ImplementsCustody == Trust!Spec

(* As long as a tenant_id has had one tenant only, everything under it is   *)
(* that tenant's: connectors ingest into its knowledge bases, document sets *)
(* and consents name them, its questions go out under its own provider key, *)
(* and a notification's sync runs as the tenant of its connector            *)
(* ("tenant-bound", microsoft_oauth_start; "never reach one it wasn't       *)
(* given", resolve_knowledge_base).                                         *)
TenantBoundary ==
    /\ \A t \in Tenant \ former :
         /\ \A c \in Conn \ moved : Of(c, t) => rows[c].base \in OwnBases(t)
         /\ \A x \in Collection :
              sets[x] # Null /\ sets[x].tenant = t => sets[x].bases \subseteq OwnBases(t)
         /\ clients[t] # Null => clients[t] \in InForce(t)
    /\ \A j \in jobs : j.tenant \notin former => j.config \in InForce(j.tenant)

(* A connector does not count as pushed for ever on a subscription that has *)
(* ended: its subscription is renewed or cleared ("every connector's push   *)
(* subscription that's due to expire soon gets renewed").                   *)
Lapsed(c) == rows[c] # Null /\ rows[c].sub # Null /\ subs[rows[c].sub].at = "ended"

PushIsRenewed == \A c \in Conn : Lapsed(c) ~> ~Lapsed(c)
=============================================================================
