-------------------------- MODULE Lifecycle_proofs --------------------------
(***************************************************************************)
(* Proofs about Lifecycle: its types, that a tenant's connectors, document *)
(* sets, clients and jobs stay its own, that what is set up at Microsoft   *)
(* and Google is accounted for, and that it implements Custody, for any    *)
(* tenants, connectors, requests, subscriptions and grants.                *)
(***************************************************************************)
EXTENDS Lifecycle, TLAPS

(* What a request carries when it is at a call to another service. *)
CallsAreTyped ==
    \A q \in Call :
        /\ calls[q].at # "idle" => calls[q].tenant \in Tenant
        /\ calls[q].at \in {"subscribing", "subscribed"} \cup Deleting => calls[q].conn \in Conn
        /\ calls[q].at \in {"exchanging", "granted", "redeeming"} => calls[q].base \in Base
        /\ calls[q].at = "subscribed" => calls[q].sub \in Sub
        /\ calls[q].at = "granted" => calls[q].grant \in Grant

TypeInv == LifeTypeOK /\ CallsAreTyped

(* The service starts well-typed. *)
LEMMA LifeInitTypes == LifeInit => TypeInv
  BY LifeAssumption DEF LifeInit, TypeInv, LifeTypeOK, CallsAreTyped, CallKept, Deleting,
       NoCall, CallAt

(* Every step keeps the types. *)
LEMMA LifeStepTypes == TypeInv /\ [LifeNext]_lifeVars => TypeInv'
<1> SUFFICES ASSUME TypeInv, [LifeNext]_lifeVars PROVE TypeInv'
  OBVIOUS
<1> USE LifeAssumption DEF TypeInv, LifeTypeOK, CallsAreTyped, CallKept, Deleting
<1>1. ASSUME NEW t \in Tenant, NEW f \in Config, CreateTenant(t, f) PROVE TypeInv'
  BY <1>1 DEF CreateTenant, remoteVars
<1>2. ASSUME NEW t \in Tenant, DeleteTenant(t) PROVE TypeInv'
  BY <1>2 DEF DeleteTenant, remoteVars
<1>3. ASSUME NEW t \in Tenant, NEW f \in Config, GetClient(t, f) PROVE TypeInv'
  BY <1>3 DEF GetClient, remoteVars
<1>4. ASSUME NEW t \in Tenant, NEW x \in Collection, NEW f \in Config,
             NEW bases \in SUBSET Given[f], SaveSet(x, t, f, bases)
      PROVE  TypeInv'
  <2>1. bases \in SUBSET Base
    OBVIOUS
  <2>2. sets' \in [Collection -> [tenant : Tenant, bases : SUBSET Base] \cup {Null}]
    BY <1>4, <2>1 DEF SaveSet
  <2> QED
    BY <1>4, <2>2 DEF SaveSet, remoteVars, tenantVars
<1>5. ASSUME NEW t \in Tenant, NEW x \in Collection, DeleteSet(x, t) PROVE TypeInv'
  BY <1>5 DEF DeleteSet, remoteVars, tenantVars
<1>6. ASSUME NEW q \in Call, NEW t \in Tenant, NEW f \in Config, NEW b \in Base, NEW c \in Conn,
             CreateConnector(q, t, f, b, c) PROVE TypeInv'
  <2>1. rows' \in [Conn -> RowKept \cup {Null}] /\ drawn' \subseteq Conn
    BY <1>6 DEF CreateConnector, Row, RowKept
  <2>2. CASE calls' = calls
    BY <1>6, <2>1, <2>2 DEF CreateConnector, remoteVars, tenantVars
  <2>3. CASE calls' = [calls EXCEPT ![q] = CallAt("subscribing", t, c, Null, Null, Null)]
    BY <1>6, <2>1, <2>3 DEF CreateConnector, remoteVars, tenantVars, CallAt
  <2> QED
    BY <1>6, <2>2, <2>3 DEF CreateConnector
<1>7. ASSUME NEW q \in Call, NEW s \in Sub, Subscribe(q, s) PROVE TypeInv'
  <2>1. calls' \in [Call -> CallKept] /\ CallsAreTyped'
    <3>1. calls[q].tenant \in Tenant /\ calls[q].conn \in Conn
      BY <1>7 DEF Subscribe
    <3>2. CASE calls' = [calls EXCEPT ![q] =
                 CallAt("subscribed", calls[q].tenant, calls[q].conn, Null, s, Null)]
      BY <3>1, <3>2 DEF CallAt
    <3>3. CASE calls' = [calls EXCEPT ![q] = NoCall]
      BY <3>3 DEF CallAt, NoCall
    <3> QED
      BY <1>7, <3>2, <3>3 DEF Subscribe
  <2>2. /\ subs' \in [Sub -> [at : {"unborn", "live", "ended"}, for : Conn \cup {Null}]]
          /\ adrift' \subseteq Sub \cup Grant
    BY <1>7 DEF Subscribe
  <2> QED
    BY <1>7, <2>1, <2>2 DEF Subscribe, tenantVars
<1>8. ASSUME NEW q \in Call, BreaksOff(q) PROVE TypeInv'
  BY <1>8 DEF BreaksOff, Carried, CutOff, Free, tenantVars, remoteVars, CallAt, NoCall
<1>9. ASSUME NEW q \in Call, RecordSubscription(q) PROVE TypeInv'
  <2>1. calls' \in [Call -> CallKept] /\ CallsAreTyped'
    BY <1>9 DEF RecordSubscription, CallAt, NoCall
  <2>2. rows' \in [Conn -> RowKept \cup {Null}] /\ adrift' \subseteq Sub \cup Grant
    <3> DEFINE row == rows[calls[q].conn]
               r   == Row(row.tenant, row.base, calls[q].sub, row.grant)
    <3>1. calls[q].conn \in Conn /\ calls[q].sub \in Sub
      BY <1>9 DEF RecordSubscription
    <3>2. CASE Of(calls[q].conn, calls[q].tenant)
      <4>1. row \in RowKept
        BY <3>1, <3>2 DEF Of
      <4>2. r \in RowKept
        BY <3>1, <4>1 DEF Row, RowKept
      <4>3. rows' = [rows EXCEPT ![calls[q].conn] = r] /\ adrift' = adrift
        BY <1>9, <3>2 DEF RecordSubscription
      <4> QED
        BY <4>2, <4>3
    <3>3. CASE ~Of(calls[q].conn, calls[q].tenant)
      BY <1>9, <3>1, <3>3 DEF RecordSubscription
    <3> QED
      BY <3>2, <3>3
  <2> QED
    BY <1>9, <2>1, <2>2 DEF RecordSubscription, tenantVars, remoteVars
<1>10. ASSUME NEW q \in Call, NEW t \in Tenant, NEW f \in Config, NEW b \in Base,
              BeginExchange(q, t, f, b) PROVE TypeInv'
  BY <1>10 DEF BeginExchange, tenantVars, remoteVars, CallAt, NoCall
<1>11. ASSUME NEW q \in Call, NEW g \in Grant, Exchange(q, g) PROVE TypeInv'
  <2>1. calls' \in [Call -> CallKept] /\ CallsAreTyped'
    BY <1>11 DEF Exchange, CallAt, NoCall
  <2>2. grants' \in [Grant -> {"unborn", "live", "revoked"}] /\ adrift' \subseteq Sub \cup Grant
    BY <1>11 DEF Exchange
  <2> QED
    BY <1>11, <2>1, <2>2 DEF Exchange, tenantVars
<1>12. ASSUME NEW q \in Call, NEW c \in Conn, CreatePending(q, c) PROVE TypeInv'
  BY <1>12 DEF CreatePending, tenantVars, remoteVars, Row, RowKept, CallAt, NoCall
<1>13. ASSUME NEW t \in Tenant, NEW f \in Config, NEW b \in Base, StartConsent(t, f, b)
       PROVE  TypeInv'
  BY <1>13 DEF StartConsent, OAuthState, tenantVars, remoteVars
<1>14. ASSUME NEW st \in states, ExpireState(st) PROVE TypeInv'
  BY <1>14 DEF ExpireState, OAuthState, tenantVars, remoteVars
<1>15. ASSUME NEW q \in Call, NEW st \in states, NEW t \in Tenant, FinishConsent(q, st, t)
       PROVE  TypeInv'
  BY <1>15 DEF FinishConsent, OAuthState, tenantVars, remoteVars, CallAt, NoCall
<1>16. ASSUME NEW q \in Call, NEW c \in Conn, Redeem(q, c) PROVE TypeInv'
  BY <1>16 DEF Redeem, tenantVars, remoteVars, Row, RowKept, CallAt, NoCall
<1>17. ASSUME NEW q \in Call, NEW t \in Tenant, NEW c \in Conn, BeginDelete(q, t, c) PROVE TypeInv'
  BY <1>17 DEF BeginDelete, Deleting, Of, tenantVars, remoteVars, RowKept, CallAt, NoCall
<1>18. ASSUME NEW q \in Call, Unsubscribe(q) PROVE TypeInv'
  BY <1>18 DEF Unsubscribe, Deleting, Of, tenantVars, RowKept, CallAt, NoCall
<1>19. ASSUME NEW q \in Call, Revoke(q) PROVE TypeInv'
  BY <1>19 DEF Revoke, Deleting, tenantVars, CallAt, NoCall
<1>20. ASSUME NEW q \in Call, DeleteRow(q) PROVE TypeInv'
  BY <1>20 DEF DeleteRow, Deleting, Of, tenantVars, remoteVars, RowKept, CallAt, NoCall
<1>21. ASSUME NEW c \in Conn, NEW t \in Tenant, ReassignTenant(c, t) PROVE TypeInv'
  BY <1>21 DEF ReassignTenant, tenantVars, remoteVars, Row, RowKept
<1>22. CASE Restart
  BY <1>22 DEF Restart, Carried, CutOff, remoteVars, CallAt, NoCall, Deleting
<1>23. ASSUME NEW s \in Sub, Lapse(s) PROVE TypeInv'
  BY <1>23 DEF Lapse, tenantVars
<1>24. ASSUME NEW s \in Sub, NEW c \in Conn, Notify(s, c) PROVE TypeInv'
  BY <1>24 DEF Notify, TenantOf, RowKept, tenantVars, remoteVars
<1>25. ASSUME NEW j \in jobs, JobEnds(j) PROVE TypeInv'
  BY <1>25 DEF JobEnds, tenantVars, remoteVars
<1>26. CASE TickRenews \/ TickEnds
  BY <1>26 DEF TickRenews, TickEnds, tenantVars, remoteVars
<1>27. CASE UNCHANGED lifeVars
  BY <1>27 DEF lifeVars, tenantVars, remoteVars
<1> QED
  BY <1>1, <1>2, <1>3, <1>4, <1>5, <1>6, <1>7, <1>8, <1>9, <1>10, <1>11, <1>12, <1>13, <1>14,
     <1>15, <1>16, <1>17, <1>18, <1>19, <1>20, <1>21, <1>22, <1>23, <1>24, <1>25, <1>26, <1>27
     DEF LifeNext, TenantNext, OperatorNext, CallNext, BackgroundNext

-----------------------------------------------------------------------------
(* What a request or an OAuth state carries is its tenant's as well. *)
CarriedIsOwn ==
    \A t \in Tenant \ former :
        /\ \A q \in Call :
             calls[q].tenant = t /\ calls[q].at \in {"exchanging", "granted", "redeeming"}
               => calls[q].base \in OwnBases(t)
        /\ \A st \in states : st.tenant = t => st.base \in OwnBases(t)

BoundaryInv == TenantBoundary /\ CarriedIsOwn

(* A tenant that is the only one of its id keeps what it was given. *)
LEMMA TenantsKeepTheirOwn ==
    ASSUME [LifeNext]_lifeVars
    PROVE  /\ former \subseteq former'
           /\ \A t \in Tenant \ former' :
                InForce(t) \subseteq InForce(t)' /\ OwnBases(t) \subseteq OwnBases(t)'
<1>1. CASE UNCHANGED <<dynamic, former>>
  BY <1>1 DEF InForce, OwnBases
<1>2. ASSUME NEW u \in Tenant, NEW f \in Config, CreateTenant(u, f)
      PROVE  /\ former \subseteq former'
             /\ \A t \in Tenant \ former' : InForce(t) \subseteq InForce(t)'
  BY <1>2 DEF CreateTenant, InForce
<1>3. ASSUME NEW u \in Tenant, DeleteTenant(u)
      PROVE  /\ former \subseteq former'
             /\ \A t \in Tenant \ former' : InForce(t) \subseteq InForce(t)'
  BY <1>3 DEF DeleteTenant, InForce
<1>4. \/ UNCHANGED <<dynamic, former>>
      \/ \E u \in Tenant, f \in Config : CreateTenant(u, f)
      \/ \E u \in Tenant : DeleteTenant(u)
  <2>1. CASE UNCHANGED lifeVars \/ BackgroundNext \/ Restart
    BY <2>1 DEF lifeVars, tenantVars, BackgroundNext, Restart, ExpireState, Lapse, Notify,
       JobEnds, TickRenews, TickEnds
  <2>2. ASSUME NEW q \in Call, CallNext(q) PROVE UNCHANGED <<dynamic, former>>
    BY <2>2 DEF CallNext, tenantVars, Subscribe, RecordSubscription, Exchange, CreatePending,
       Redeem, Unsubscribe, Revoke, DeleteRow, BreaksOff
  <2>3. ASSUME NEW t \in Tenant, TenantNext(t) PROVE UNCHANGED <<dynamic, former>>
    BY <2>3 DEF TenantNext, tenantVars, GetClient, StartConsent, SaveSet, DeleteSet,
       BeginExchange, CreateConnector, FinishConsent, BeginDelete
  <2>4. ASSUME NEW c \in Conn, NEW t \in Tenant, ReassignTenant(c, t)
        PROVE  UNCHANGED <<dynamic, former>>
    BY <2>4 DEF ReassignTenant, tenantVars
  <2> QED
    BY <2>1, <2>2, <2>3, <2>4 DEF LifeNext, OperatorNext
<1>5. /\ former \subseteq former'
      /\ \A t \in Tenant \ former' : InForce(t) \subseteq InForce(t)'
  BY <1>1, <1>2, <1>3, <1>4
<1>6. \A t \in Tenant \ former' : OwnBases(t) \subseteq OwnBases(t)'
  BY <1>5 DEF OwnBases
<1> QED
  BY <1>5, <1>6

(* What a configuration in force gives is the tenant's. *)
LEMMA GivenIsOwn ==
    ASSUME NEW t \in Tenant, NEW f \in InForce(t), NEW b \in Given[f]
    PROVE  b \in OwnBases(t)
BY DEF OwnBases

(* At first nobody has anything. *)
LEMMA LifeInitBoundary == LifeInit => BoundaryInv
BY LifeAssumption DEF LifeInit, BoundaryInv, TenantBoundary, CarriedIsOwn, Of, NoCall, CallAt

(* Every step leaves what a tenant has within the tenant's own. *)
LEMMA LifeStepBoundary ==
    TypeInv /\ BoundaryInv /\ [LifeNext]_lifeVars => BoundaryInv'
<1> SUFFICES ASSUME TypeInv, BoundaryInv, [LifeNext]_lifeVars
             PROVE  BoundaryInv'
  OBVIOUS
<1>a. /\ former \subseteq former'
      /\ \A t \in Tenant \ former' :
           InForce(t) \subseteq InForce(t)' /\ OwnBases(t) \subseteq OwnBases(t)'
  BY TenantsKeepTheirOwn
<1> USE LifeAssumption, <1>a
    DEF BoundaryInv, TenantBoundary, CarriedIsOwn, Of, TypeInv, LifeTypeOK
<1>1. ASSUME NEW t \in Tenant, NEW f \in Config, CreateTenant(t, f) PROVE BoundaryInv'
  BY <1>1 DEF CreateTenant
<1>2. ASSUME NEW t \in Tenant, DeleteTenant(t) PROVE BoundaryInv'
  BY <1>2 DEF DeleteTenant
<1>3. ASSUME NEW t \in Tenant, NEW f \in Config, GetClient(t, f) PROVE BoundaryInv'
  BY <1>3 DEF GetClient
<1>4. ASSUME NEW t \in Tenant, NEW x \in Collection, NEW f \in Config,
             NEW bases \in SUBSET Given[f], SaveSet(x, t, f, bases)
      PROVE  BoundaryInv'
  BY <1>4, GivenIsOwn DEF SaveSet, tenantVars
<1>5. ASSUME NEW t \in Tenant, NEW x \in Collection, DeleteSet(x, t) PROVE BoundaryInv'
  BY <1>5 DEF DeleteSet, tenantVars
<1>6. ASSUME NEW q \in Call, NEW t \in Tenant, NEW f \in Config, NEW b \in Base, NEW c \in Conn,
             CreateConnector(q, t, f, b, c)
      PROVE  BoundaryInv'
  BY <1>6, GivenIsOwn DEF CreateConnector, tenantVars, Row, CallAt, NoCall
<1>7. ASSUME NEW q \in Call, \E s \in Sub : Subscribe(q, s) PROVE BoundaryInv'
  BY <1>7 DEF Subscribe, tenantVars, CallAt, NoCall
<1>8. ASSUME NEW q \in Call, BreaksOff(q)
      PROVE  BoundaryInv'
  BY <1>8 DEF BreaksOff, Carried, CutOff, Free, tenantVars, CallAt, NoCall
<1>9. ASSUME NEW q \in Call, RecordSubscription(q) PROVE BoundaryInv'
  BY <1>9 DEF RecordSubscription, tenantVars, Row, CallAt, NoCall
<1>10. ASSUME NEW q \in Call, NEW t \in Tenant, NEW f \in Config, NEW b \in Base,
              BeginExchange(q, t, f, b)
       PROVE  BoundaryInv'
  BY <1>10, GivenIsOwn DEF BeginExchange, tenantVars, CallAt
<1>11. ASSUME NEW q \in Call, \E g \in Grant : Exchange(q, g) PROVE BoundaryInv'
  BY <1>11 DEF Exchange, tenantVars, CallAt, NoCall
<1>12. ASSUME NEW q \in Call, NEW c \in Conn, CreatePending(q, c) PROVE BoundaryInv'
  BY <1>12 DEF CreatePending, tenantVars, Row, CallAt, NoCall
<1>13. ASSUME NEW t \in Tenant, NEW f \in Config, NEW b \in Base, StartConsent(t, f, b)
       PROVE  BoundaryInv'
  BY <1>13, GivenIsOwn DEF StartConsent, tenantVars
<1>14. ASSUME NEW st \in states, ExpireState(st) PROVE BoundaryInv'
  BY <1>14 DEF ExpireState, tenantVars
<1>15. ASSUME NEW q \in Call, NEW st \in states, NEW t \in Tenant, FinishConsent(q, st, t)
       PROVE  BoundaryInv'
  BY <1>15 DEF FinishConsent, tenantVars, CallAt
<1>16. ASSUME NEW q \in Call, NEW c \in Conn, Redeem(q, c) PROVE BoundaryInv'
  BY <1>16 DEF Redeem, tenantVars, Row, CallAt, NoCall
<1>17. ASSUME NEW q \in Call, NEW t \in Tenant, NEW c \in Conn, BeginDelete(q, t, c)
       PROVE  BoundaryInv'
  BY <1>17 DEF BeginDelete, tenantVars, CallAt
<1>18. ASSUME NEW q \in Call, Unsubscribe(q) \/ Revoke(q) PROVE BoundaryInv'
  BY <1>18 DEF Unsubscribe, Revoke, tenantVars, CallAt
<1>19. ASSUME NEW q \in Call, DeleteRow(q) PROVE BoundaryInv'
  BY <1>19 DEF DeleteRow, tenantVars, CallAt, NoCall
<1>20. ASSUME NEW c \in Conn, NEW t \in Tenant, ReassignTenant(c, t) PROVE BoundaryInv'
  BY <1>20 DEF ReassignTenant, tenantVars
<1>21. CASE Restart
  BY <1>21 DEF Restart, CallAt, NoCall
<1>22. ASSUME NEW s \in Sub, Lapse(s) PROVE BoundaryInv'
  BY <1>22 DEF Lapse, tenantVars
<1>23. ASSUME NEW s \in Sub, NEW c \in Conn, Notify(s, c) PROVE BoundaryInv'
  BY <1>23 DEF Notify, TenantOf, InForce, RowKept, tenantVars
<1>24. ASSUME NEW j \in jobs, JobEnds(j) PROVE BoundaryInv'
  BY <1>24 DEF JobEnds, tenantVars
<1>25. CASE TickRenews \/ TickEnds
  BY <1>25 DEF TickRenews, TickEnds, tenantVars
<1>26. CASE UNCHANGED lifeVars
  BY <1>26 DEF lifeVars, tenantVars
<1> QED
  BY <1>1, <1>2, <1>3, <1>4, <1>5, <1>6, <1>7, <1>8, <1>9, <1>10, <1>11, <1>12, <1>13, <1>14,
     <1>15, <1>16, <1>17, <1>18, <1>19, <1>20, <1>21, <1>22, <1>23, <1>24, <1>25, <1>26
     DEF LifeNext, TenantNext, OperatorNext, CallNext, BackgroundNext

-----------------------------------------------------------------------------
(* The steps that touch connectors, requests or what is remote. *)
RemoteStep ==
    \/ UNCHANGED <<rows, drawn, remoteVars, calls, halted, adrift>>
    \/ \E q \in Call :
         \/ \E t \in Tenant, f \in Config, b \in Base :
              BeginExchange(q, t, f, b) \/ \E c \in Conn : CreateConnector(q, t, f, b, c)
         \/ \E s \in Sub : Subscribe(q, s)
         \/ \E g \in Grant : Exchange(q, g)
         \/ BreaksOff(q)
         \/ RecordSubscription(q) \/ Unsubscribe(q) \/ Revoke(q) \/ DeleteRow(q)
         \/ \E c \in Conn : CreatePending(q, c) \/ Redeem(q, c)
         \/ \E st \in states, t \in Tenant : FinishConsent(q, st, t)
         \/ \E t \in Tenant, c \in Conn : BeginDelete(q, t, c)
    \/ \E c \in Conn, t \in Tenant : ReassignTenant(c, t)
    \/ Restart \/ \E s \in Sub : Lapse(s)

(* Every step is one of these. *)
LEMMA StepsThatMatter == [LifeNext]_lifeVars => RemoteStep
BY DEF RemoteStep, LifeNext, TenantNext, OperatorNext, CallNext, BackgroundNext, lifeVars,
       CreateTenant, DeleteTenant, GetClient, SaveSet, DeleteSet, StartConsent, ExpireState,
       Notify, JobEnds, TickRenews, TickEnds

-----------------------------------------------------------------------------
(* A connector is asked a subscription for once, before its row has one,    *)
(* and a deletion has dealt with the one it saw before the row goes.        *)
Pushing == {"subscribing", "subscribed"}

RowsAreDrawn == \A c \in Conn : rows[c] # Null => c \in drawn

AskedOnce ==
    \A q \in Call : calls[q].at \in Pushing =>
        /\ calls[q].conn \in drawn
        /\ rows[calls[q].conn] # Null => rows[calls[q].conn].sub = Null
        /\ \A p \in Call : calls[p].at \in Pushing /\ calls[p].conn = calls[q].conn => p = q

AnsweredForItsOwn ==
    \A q \in Call : calls[q].at = "subscribed" =>
        subs[calls[q].sub].at # "unborn" /\ subs[calls[q].sub].for = calls[q].conn

UnsubscribedOrAdrift ==
    \A q \in Call : calls[q].at \in {"revoking", "deleting"} /\ calls[q].sub \in Sub =>
        subs[calls[q].sub].at = "ended" \/ calls[q].sub \in adrift

PushInv ==
    /\ SubscriptionsAreHeld
    /\ RowsAreDrawn /\ AskedOnce /\ AnsweredForItsOwn /\ UnsubscribedOrAdrift

(* At first there are no subscriptions. *)
LEMMA LifeInitPush == LifeInit => PushInv
BY DEF LifeInit, PushInv, SubscriptionsAreHeld, RowsAreDrawn, AskedOnce, AnsweredForItsOwn,
        UnsubscribedOrAdrift, Pushing, NoCall, CallAt

(* Every step accounts for the subscriptions. *)
LEMMA LifeStepPush ==
    TypeInv /\ PushInv /\ [LifeNext]_lifeVars => PushInv'
<1> SUFFICES ASSUME TypeInv, PushInv, [LifeNext]_lifeVars
             PROVE  PushInv'
  OBVIOUS
<1> USE DEF SubscriptionsAreHeld, RowsAreDrawn, AskedOnce, AnsweredForItsOwn,
            UnsubscribedOrAdrift, Pushing, CallsAreTyped
<1>a. /\ SubscriptionsAreHeld /\ RowsAreDrawn /\ AskedOnce /\ AnsweredForItsOwn
      /\ UnsubscribedOrAdrift /\ CallsAreTyped
  BY DEF PushInv, TypeInv
<1>1. CASE UNCHANGED <<rows, drawn, remoteVars, calls, halted, adrift>>
  BY <1>a, <1>1 DEF remoteVars, PushInv
<1>2. ASSUME NEW q \in Call, NEW t \in Tenant, NEW f \in Config, NEW b \in Base, NEW c \in Conn,
             CreateConnector(q, t, f, b, c)
      PROVE  PushInv'
  <2>1. /\ c \notin drawn /\ drawn' = drawn \cup {c} /\ subs' = subs /\ adrift' = adrift
        /\ \A d \in Conn : d # c => rows'[d] = rows[d]
        /\ rows'[c].sub = Null
    BY LifeAssumption, <1>a, <1>2 DEF CreateConnector, remoteVars, Row, CallAt, Free, NoCall,
         TypeInv, LifeTypeOK, CallKept, Deleting
  <2>2. \A p \in Call :
          \/ calls'[p] = calls[p]
          \/ /\ p = q /\ calls[q].at = "idle"
             /\ calls'[q].at = "subscribing" /\ calls'[q].conn = c
    BY LifeAssumption, <1>a, <1>2 DEF CreateConnector, remoteVars, Row, CallAt, Free, NoCall,
         TypeInv, LifeTypeOK, CallKept, Deleting
  <2>3. SubscriptionsAreHeld'
    BY <1>a, <2>1, <2>2
  <2>4. RowsAreDrawn'
    BY <1>a, <2>1, <2>2
  <2>5. AskedOnce'
    BY <1>a, <2>1, <2>2
  <2>6. AnsweredForItsOwn'
    BY <1>a, <2>1, <2>2
  <2>7. UnsubscribedOrAdrift'
    BY <1>a, <2>1, <2>2
  <2> QED
    BY <2>3, <2>4, <2>5, <2>6, <2>7 DEF PushInv
<1>3. ASSUME NEW q \in Call, NEW s \in Sub, Subscribe(q, s) PROVE PushInv'
  <2>1. /\ calls[q].at = "subscribing" /\ subs[s].at = "unborn"
        /\ subs'[s].at = "live" /\ subs'[s].for = calls[q].conn
        /\ \A r \in Sub : r # s => subs'[r] = subs[r]
        /\ rows' = rows /\ drawn' = drawn /\ adrift \subseteq adrift'
        /\ \A p \in Call : p # q => calls'[p] = calls[p]
    BY LifeAssumption, <1>a, <1>3 DEF Subscribe, CallAt, NoCall, TypeInv, LifeTypeOK,
         CallKept, Deleting
  <2>2. \/ /\ calls'[q].at = "subscribed" /\ calls'[q].sub = s
           /\ calls'[q].conn = calls[q].conn
        \/ calls'[q].at = "idle" /\ s \in adrift'
    BY LifeAssumption, <1>a, <1>3 DEF Subscribe, CallAt, NoCall, TypeInv, LifeTypeOK,
         CallKept, Deleting
  <2>3. SubscriptionsAreHeld'
    BY <1>a, <2>1, <2>2
  <2>4. RowsAreDrawn'
    BY <1>a, <2>1, <2>2
  <2>5. AskedOnce'
    BY <1>a, <2>1, <2>2
  <2>6. AnsweredForItsOwn'
    BY <1>a, <2>1, <2>2
  <2>7. UnsubscribedOrAdrift'
    BY <1>a, <2>1, <2>2
  <2> QED
    BY <2>3, <2>4, <2>5, <2>6, <2>7 DEF PushInv
<1>4. ASSUME NEW q \in Call, BreaksOff(q) PROVE PushInv'
  <2>1. /\ rows' = rows /\ drawn' = drawn /\ subs' = subs /\ adrift \subseteq adrift'
        /\ \A p \in Call : p # q => calls'[p] = calls[p]
        /\ calls'[q].at = "idle"
        /\ calls[q].at = "subscribed" => calls[q].sub \in adrift'
    BY LifeAssumption, <1>a, <1>4 DEF BreaksOff, Carried, remoteVars, CallAt, NoCall, TypeInv,
         LifeTypeOK, CallKept, Deleting
  <2>2. SubscriptionsAreHeld'
    BY <1>a, <2>1
  <2>3. RowsAreDrawn'
    BY <1>a, <2>1
  <2>4. AskedOnce'
    BY <1>a, <2>1
  <2>5. AnsweredForItsOwn'
    BY <1>a, <2>1
  <2>6. UnsubscribedOrAdrift'
    BY <1>a, <2>1
  <2> QED
    BY <2>2, <2>3, <2>4, <2>5, <2>6 DEF PushInv
<1>5. ASSUME NEW q \in Call, RecordSubscription(q) PROVE PushInv'
  <2>1. /\ calls[q].at = "subscribed" /\ calls'[q].at = "idle"
        /\ \A p \in Call : p # q => calls'[p] = calls[p]
        /\ drawn' = drawn /\ subs' = subs /\ adrift \subseteq adrift'
        /\ \A d \in Conn : d # calls[q].conn => rows'[d] = rows[d]
    BY LifeAssumption, <1>a, <1>5 DEF RecordSubscription, Of, remoteVars, Row, RowKept,
          CallAt, NoCall, TypeInv, LifeTypeOK, CallKept, Deleting
  <2>2. \/ rows' = rows /\ calls[q].sub \in adrift'
        \/ /\ rows[calls[q].conn] # Null /\ rows'[calls[q].conn] # Null
           /\ rows'[calls[q].conn].sub = calls[q].sub
    BY LifeAssumption, <1>a, <1>5 DEF RecordSubscription, Of, remoteVars, Row, RowKept,
          CallAt, NoCall, TypeInv, LifeTypeOK, CallKept, Deleting
  <2>3. SubscriptionsAreHeld'
    BY LifeAssumption, <1>a, <2>1, <2>2
  <2>4. RowsAreDrawn'
    BY <1>a, <2>1, <2>2
  <2>5. AskedOnce'
    BY <1>a, <2>1, <2>2
  <2>6. AnsweredForItsOwn'
    BY <1>a, <2>1, <2>2
  <2>7. UnsubscribedOrAdrift'
    BY <1>a, <2>1, <2>2
  <2> QED
    BY <2>3, <2>4, <2>5, <2>6, <2>7 DEF PushInv
<1>6. ASSUME NEW q \in Call, NEW t \in Tenant, NEW f \in Config, NEW b \in Base,
             BeginExchange(q, t, f, b)
      PROVE  PushInv'
  BY LifeAssumption, <1>a, <1>6 DEF PushInv, BeginExchange, remoteVars, CallAt, Free, NoCall,
       TypeInv, LifeTypeOK, CallKept, Deleting
<1>7. ASSUME NEW q \in Call, NEW g \in Grant, Exchange(q, g) PROVE PushInv'
  <2>1. /\ rows' = rows /\ drawn' = drawn /\ subs' = subs /\ adrift \subseteq adrift'
        /\ \A p \in Call : p # q => calls'[p] = calls[p]
        /\ calls'[q].at \in {"idle", "granted"} /\ calls[q].at = "exchanging"
    BY LifeAssumption, <1>a, <1>7 DEF Exchange, CallAt, NoCall, TypeInv, LifeTypeOK,
         CallKept, Deleting
  <2>2. SubscriptionsAreHeld'
    BY <1>a, <2>1
  <2>3. RowsAreDrawn'
    BY <1>a, <2>1
  <2>4. AskedOnce'
    BY <1>a, <2>1
  <2>5. AnsweredForItsOwn'
    BY <1>a, <2>1
  <2>6. UnsubscribedOrAdrift'
    BY <1>a, <2>1
  <2> QED
    BY <2>2, <2>3, <2>4, <2>5, <2>6 DEF PushInv
<1>8. ASSUME NEW q \in Call, NEW c \in Conn, CreatePending(q, c) \/ Redeem(q, c) PROVE PushInv'
  <2>1. /\ c \notin drawn /\ drawn' = drawn \cup {c} /\ subs' = subs /\ adrift' = adrift
        /\ \A d \in Conn : d # c => rows'[d] = rows[d]
        /\ calls[q].at \in {"granted", "redeeming"} /\ calls'[q].at = "idle"
        /\ \A p \in Call : p # q => calls'[p] = calls[p]
    BY LifeAssumption, <1>a, <1>8 DEF CreatePending, Redeem, remoteVars, Row, CallAt, NoCall,
         TypeInv, LifeTypeOK, CallKept, Deleting
  <2>2. SubscriptionsAreHeld'
    BY <1>a, <2>1
  <2>3. RowsAreDrawn'
    BY <1>a, <2>1
  <2>4. AskedOnce'
    BY <1>a, <2>1
  <2>5. AnsweredForItsOwn'
    BY <1>a, <2>1
  <2>6. UnsubscribedOrAdrift'
    BY <1>a, <2>1
  <2> QED
    BY <2>2, <2>3, <2>4, <2>5, <2>6 DEF PushInv
<1>9. ASSUME NEW q \in Call, NEW st \in states, NEW t \in Tenant, FinishConsent(q, st, t)
      PROVE  PushInv'
  BY LifeAssumption, <1>a, <1>9 DEF PushInv, FinishConsent, remoteVars, CallAt, Free, NoCall,
       TypeInv, LifeTypeOK, CallKept, Deleting
<1>10. ASSUME NEW q \in Call, NEW t \in Tenant, NEW c \in Conn, BeginDelete(q, t, c)
       PROVE  PushInv'
  BY LifeAssumption, <1>a, <1>10 DEF PushInv, BeginDelete, remoteVars, CallAt, Free, NoCall,
       TypeInv, LifeTypeOK, CallKept, Deleting
<1>11. ASSUME NEW q \in Call, Unsubscribe(q) PROVE PushInv'
  <2>1. SubscriptionsAreHeld'
    BY LifeAssumption, <1>a, <1>11 DEF Unsubscribe, CallAt, TypeInv, LifeTypeOK, CallKept,
         Deleting
  <2>2. RowsAreDrawn'
    BY LifeAssumption, <1>a, <1>11 DEF Unsubscribe, CallAt, TypeInv, LifeTypeOK, CallKept,
         Deleting
  <2>3. AskedOnce'
    BY LifeAssumption, <1>a, <1>11 DEF Unsubscribe, CallAt, TypeInv, LifeTypeOK, CallKept,
         Deleting
  <2>4. AnsweredForItsOwn'
    BY LifeAssumption, <1>a, <1>11 DEF Unsubscribe, CallAt, TypeInv, LifeTypeOK, CallKept,
         Deleting
  <2>5. UnsubscribedOrAdrift'
    BY LifeAssumption, <1>a, <1>11 DEF Unsubscribe, CallAt, TypeInv, LifeTypeOK, CallKept,
         Deleting
  <2> QED
    BY <2>1, <2>2, <2>3, <2>4, <2>5 DEF PushInv
<1>12. ASSUME NEW q \in Call, Revoke(q) PROVE PushInv'
  BY LifeAssumption, <1>a, <1>12 DEF PushInv, Revoke, CallAt, TypeInv, LifeTypeOK, CallKept,
       Deleting
<1>13. ASSUME NEW q \in Call, DeleteRow(q) PROVE PushInv'
  <2>1. /\ drawn' = drawn /\ subs' = subs /\ adrift \subseteq adrift'
        /\ \A d \in Conn : d # calls[q].conn => rows'[d] = rows[d]
        /\ calls[q].at = "deleting" /\ calls'[q].at = "idle"
        /\ \A p \in Call : p # q => calls'[p] = calls[p]
    BY LifeAssumption, <1>a, <1>13 DEF DeleteRow, Of, RowKept, remoteVars, CallAt, NoCall,
         TypeInv, LifeTypeOK, CallKept, Deleting
  <2>2. \/ rows' = rows
        \/ /\ rows[calls[q].conn] # Null /\ rows'[calls[q].conn] = Null
           /\ \A s \in Sub : rows[calls[q].conn].sub = s => s = calls[q].sub \/ s \in adrift'
    BY LifeAssumption, <1>a, <1>13 DEF DeleteRow, Of, RowKept, remoteVars, CallAt, NoCall,
         TypeInv, LifeTypeOK, CallKept, Deleting
  <2>3. SubscriptionsAreHeld'
    BY <1>a, <2>1, <2>2
  <2>4. RowsAreDrawn'
    BY <1>a, <2>1, <2>2
  <2>5. AskedOnce'
    BY <1>a, <2>1, <2>2
  <2>6. AnsweredForItsOwn'
    BY <1>a, <2>1, <2>2
  <2>7. UnsubscribedOrAdrift'
    BY <1>a, <2>1, <2>2
  <2> QED
    BY <2>3, <2>4, <2>5, <2>6, <2>7 DEF PushInv
<1>14. ASSUME NEW c \in Conn, NEW t \in Tenant, ReassignTenant(c, t) PROVE PushInv'
  BY LifeAssumption, <1>a, <1>14 DEF PushInv, ReassignTenant, remoteVars, Row, RowKept,
       TypeInv, LifeTypeOK, CallKept, Deleting
<1>15. CASE Restart
  BY LifeAssumption, <1>a, <1>15 DEF PushInv, Restart, Carried, CutOff, remoteVars, CallAt, NoCall, TypeInv,
       LifeTypeOK, CallKept, Deleting
<1>16. ASSUME NEW s \in Sub, Lapse(s) PROVE PushInv'
  BY LifeAssumption, <1>a, <1>16 DEF PushInv, Lapse, TypeInv, LifeTypeOK, CallKept, Deleting
<1> QED
  BY <1>1, <1>2, <1>3, <1>4, <1>5, <1>6, <1>7, <1>8, <1>9, <1>10, <1>11, <1>12, <1>13, <1>14,
     <1>15, <1>16, StepsThatMatter DEF RemoteStep

-----------------------------------------------------------------------------
(* A grant is in one row, or in the hands of the request that will make     *)
(* one; what a deletion revokes is in no row but its own.                   *)
OneRowPerGrant ==
    \A c, d \in Conn : rows[c] # Null /\ rows[d] # Null /\ rows[c].grant # Null =>
        /\ grants[rows[c].grant] # "unborn"
        /\ rows[c].grant = rows[d].grant => c = d

GrantedIsLive ==
    \A q \in Call : calls[q].at = "granted" =>
        /\ grants[calls[q].grant] = "live"
        /\ \A c \in Conn : rows[c] # Null => rows[c].grant # calls[q].grant
        /\ \A p \in Call : calls[p].at = "granted" /\ calls[p].grant = calls[q].grant => p = q

RevokedIsItsOwn ==
    \A q \in Call : calls[q].at \in {"revoking", "deleting"} /\ calls[q].grant \in Grant =>
        /\ grants[calls[q].grant] # "unborn"
        /\ \A c \in Conn : rows[c] # Null /\ rows[c].grant = calls[q].grant => c = calls[q].conn
        /\ \A p \in Call : calls[p].at = "granted" => calls[p].grant # calls[q].grant

RevokedOrAdrift ==
    \A q \in Call : calls[q].at = "deleting" /\ calls[q].grant \in Grant =>
        grants[calls[q].grant] = "revoked" \/ calls[q].grant \in adrift

GrantInv ==
    /\ GrantsAreHeld /\ GrantsWork
    /\ OneRowPerGrant /\ GrantedIsLive /\ RevokedIsItsOwn /\ RevokedOrAdrift

(* At first there are no grants. *)
LEMMA LifeInitGrants == LifeInit => GrantInv
BY DEF LifeInit, GrantInv, GrantsAreHeld, GrantsWork, OneRowPerGrant, GrantedIsLive,
       RevokedIsItsOwn, RevokedOrAdrift, NoCall, CallAt

(* Every step accounts for the grants. *)
LEMMA LifeStepGrants ==
    TypeInv /\ RowsAreDrawn /\ GrantInv /\ [LifeNext]_lifeVars => GrantInv'
<1> SUFFICES ASSUME TypeInv, RowsAreDrawn, GrantInv, [LifeNext]_lifeVars
             PROVE  GrantInv'
  OBVIOUS
<1> USE DEF GrantsAreHeld, GrantsWork, BeingDeleted, OneRowPerGrant, GrantedIsLive,
            RevokedIsItsOwn, RevokedOrAdrift, RowsAreDrawn, Deleting, CallsAreTyped
<1>a. /\ GrantsAreHeld /\ GrantsWork /\ OneRowPerGrant /\ GrantedIsLive /\ RevokedIsItsOwn
      /\ RevokedOrAdrift /\ RowsAreDrawn /\ CallsAreTyped
      /\ \A c \in Conn : rows[c] # Null => rows[c].grant \in Grant \cup {Null}
  BY DEF GrantInv, TypeInv, LifeTypeOK, RowKept
<1>1. CASE UNCHANGED <<rows, drawn, remoteVars, calls, halted, adrift>>
  BY <1>a, <1>1 DEF remoteVars, GrantInv
<1>2. ASSUME NEW q \in Call, NEW t \in Tenant, NEW f \in Config, NEW b \in Base, NEW c \in Conn,
             CreateConnector(q, t, f, b, c)
      PROVE  GrantInv'
  <2>1. /\ grants' = grants /\ halted' = halted /\ adrift' = adrift
        /\ rows[c] = Null /\ \A d \in Conn : d # c => rows'[d] = rows[d]
        /\ rows'[c].grant = Null
        /\ calls[q].at = "idle"
        /\ \A p \in Call : p # q => calls'[p] = calls[p]
    BY LifeAssumption, <1>a, <1>2 DEF CreateConnector, remoteVars, Row, CallAt, Free, NoCall,
         TypeInv, LifeTypeOK, CallKept, Deleting
  <2>2. calls'[q] = calls[q] \/ calls'[q].at = "subscribing"
    BY LifeAssumption, <1>a, <1>2 DEF CreateConnector, remoteVars, Row, CallAt, Free, NoCall,
         TypeInv, LifeTypeOK, CallKept, Deleting
  <2>3. GrantsAreHeld'
    BY LifeAssumption, <1>a, <2>1, <2>2
  <2>4. GrantsWork'
    BY LifeAssumption, <1>a, <2>1, <2>2
  <2>5. OneRowPerGrant'
    BY LifeAssumption, <1>a, <2>1, <2>2
  <2>6. GrantedIsLive'
    BY LifeAssumption, <1>a, <2>1, <2>2
  <2>7. RevokedIsItsOwn'
    BY LifeAssumption, <1>a, <2>1, <2>2
  <2>8. RevokedOrAdrift'
    BY LifeAssumption, <1>a, <2>1, <2>2
  <2> QED
    BY <2>3, <2>4, <2>5, <2>6, <2>7, <2>8 DEF GrantInv
<1>3. ASSUME NEW q \in Call, \E s \in Sub : Subscribe(q, s)
      PROVE  GrantInv'
  <2>1. /\ grants' = grants /\ halted' = halted /\ rows' = rows /\ adrift \subseteq adrift'
        /\ \A p \in Call : p # q => calls'[p] = calls[p]
        /\ calls[q].at = "subscribing" /\ calls'[q].at \in {"subscribed", "idle"}
    BY LifeAssumption, <1>a, <1>3 DEF Subscribe, CallAt, NoCall, TypeInv, LifeTypeOK,
         CallKept, Deleting
  <2>2. GrantsAreHeld'
    BY LifeAssumption, <1>a, <2>1
  <2>3. GrantsWork'
    BY LifeAssumption, <1>a, <2>1
  <2>4. OneRowPerGrant'
    BY LifeAssumption, <1>a, <2>1
  <2>5. GrantedIsLive'
    BY LifeAssumption, <1>a, <2>1
  <2>6. RevokedIsItsOwn'
    BY LifeAssumption, <1>a, <2>1
  <2>7. RevokedOrAdrift'
    BY LifeAssumption, <1>a, <2>1
  <2> QED
    BY <2>2, <2>3, <2>4, <2>5, <2>6, <2>7 DEF GrantInv
<1>4. ASSUME NEW q \in Call, BreaksOff(q)
      PROVE  GrantInv'
  <2>1. /\ grants' = grants /\ rows' = rows /\ halted \subseteq halted' /\ adrift \subseteq adrift'
        /\ \A p \in Call : p # q => calls'[p] = calls[p]
        /\ calls'[q].at = "idle"
        /\ calls[q].at = "granted" => calls[q].grant \in adrift'
        /\ calls[q].at \in Deleting => calls[q].conn \in halted'
    BY LifeAssumption, <1>a, <1>4 DEF BreaksOff, Carried, CutOff, remoteVars, CallAt, NoCall,
         TypeInv, LifeTypeOK, CallKept, Deleting
  <2>2. GrantsAreHeld'
    BY LifeAssumption, <1>a, <2>1
  <2>3. GrantsWork'
    BY LifeAssumption, <1>a, <2>1
  <2>4. OneRowPerGrant'
    BY LifeAssumption, <1>a, <2>1
  <2>5. GrantedIsLive'
    BY LifeAssumption, <1>a, <2>1
  <2>6. RevokedIsItsOwn'
    BY LifeAssumption, <1>a, <2>1
  <2>7. RevokedOrAdrift'
    BY LifeAssumption, <1>a, <2>1
  <2> QED
    BY <2>2, <2>3, <2>4, <2>5, <2>6, <2>7 DEF GrantInv
<1>5. ASSUME NEW q \in Call, RecordSubscription(q)
      PROVE  GrantInv'
  <2>1. /\ grants' = grants /\ halted' = halted /\ adrift \subseteq adrift'
        /\ \A p \in Call : p # q => calls'[p] = calls[p]
        /\ calls[q].at = "subscribed" /\ calls'[q].at = "idle"
    BY LifeAssumption, <1>a, <1>5 DEF RecordSubscription, Of, remoteVars, Row, RowKept,
         CallAt, NoCall, TypeInv, LifeTypeOK, CallKept, Deleting
  <2>2. \A c \in Conn :
          /\ rows[c] # Null <=> rows'[c] # Null
          /\ rows[c] # Null => rows'[c].grant = rows[c].grant
    <3>1. CASE rows' = rows
      BY <3>1
    <3>2. CASE /\ Of(calls[q].conn, calls[q].tenant)
               /\ rows' = [rows EXCEPT ![calls[q].conn] =
                     Row(rows[calls[q].conn].tenant, rows[calls[q].conn].base, calls[q].sub,
                         rows[calls[q].conn].grant)]
      <4>1. calls[q].conn \in Conn /\ calls[q].sub \in Sub /\ rows[calls[q].conn] \in RowKept
        BY <1>a, <1>5, <3>2 DEF RecordSubscription, Of, TypeInv, LifeTypeOK
      <4>2. rows'[calls[q].conn] \in RowKept
        BY <3>2, <4>1 DEF Row, RowKept, TypeInv, LifeTypeOK
      <4> QED
        BY LifeAssumption, <3>2, <4>1, <4>2 DEF Of, Row, TypeInv, LifeTypeOK
    <3> QED
      BY <1>5, <3>1, <3>2 DEF RecordSubscription
  <2>3. GrantsAreHeld'
    BY LifeAssumption, <1>a, <2>1, <2>2
  <2>4. GrantsWork'
    BY LifeAssumption, <1>a, <2>1, <2>2
  <2>5. OneRowPerGrant'
    BY LifeAssumption, <1>a, <2>1, <2>2
  <2>6. GrantedIsLive'
    BY LifeAssumption, <1>a, <2>1, <2>2
  <2>7. RevokedIsItsOwn'
    BY LifeAssumption, <1>a, <2>1, <2>2
  <2>8. RevokedOrAdrift'
    BY LifeAssumption, <1>a, <2>1, <2>2
  <2> QED
    BY <2>3, <2>4, <2>5, <2>6, <2>7, <2>8 DEF GrantInv
<1>6. ASSUME NEW q \in Call, NEW t \in Tenant, NEW f \in Config, NEW b \in Base,
             BeginExchange(q, t, f, b)
      PROVE  GrantInv'
  <2>1. /\ grants' = grants /\ halted' = halted /\ adrift' = adrift /\ rows' = rows
        /\ \A p \in Call : p # q => calls'[p] = calls[p]
        /\ calls[q].at = "idle" /\ calls'[q].at = "exchanging"
    BY LifeAssumption, <1>a, <1>6 DEF BeginExchange, remoteVars, CallAt, Free, NoCall,
         TypeInv, LifeTypeOK, CallKept, Deleting
  <2>2. GrantsAreHeld'
    BY LifeAssumption, <1>a, <2>1
  <2>3. GrantsWork'
    BY LifeAssumption, <1>a, <2>1
  <2>4. OneRowPerGrant'
    BY LifeAssumption, <1>a, <2>1
  <2>5. GrantedIsLive'
    BY LifeAssumption, <1>a, <2>1
  <2>6. RevokedIsItsOwn'
    BY LifeAssumption, <1>a, <2>1
  <2>7. RevokedOrAdrift'
    BY LifeAssumption, <1>a, <2>1
  <2> QED
    BY <2>2, <2>3, <2>4, <2>5, <2>6, <2>7 DEF GrantInv
<1>7. ASSUME NEW q \in Call, NEW g \in Grant, Exchange(q, g)
      PROVE  GrantInv'
  <2>1. /\ halted' = halted /\ rows' = rows /\ adrift \subseteq adrift'
        /\ \A p \in Call : p # q => calls'[p] = calls[p]
        /\ calls[q].at = "exchanging"
        /\ grants[g] = "unborn" /\ grants'[g] = "live"
        /\ \A h \in Grant : h # g => grants'[h] = grants[h]
    BY LifeAssumption, <1>a, <1>7 DEF Exchange, CallAt, NoCall, TypeInv, LifeTypeOK,
         CallKept, Deleting
  <2>2. \/ calls'[q].at = "granted" /\ calls'[q].grant = g
        \/ calls'[q].at = "idle" /\ g \in adrift'
    BY LifeAssumption, <1>a, <1>7 DEF Exchange, CallAt, NoCall, TypeInv, LifeTypeOK,
         CallKept, Deleting
  <2>3. GrantsAreHeld'
    BY LifeAssumption, <1>a, <2>1, <2>2
  <2>4. GrantsWork'
    BY LifeAssumption, <1>a, <2>1, <2>2
  <2>5. OneRowPerGrant'
    BY LifeAssumption, <1>a, <2>1, <2>2
  <2>6. GrantedIsLive'
    BY LifeAssumption, <1>a, <2>1, <2>2
  <2>7. RevokedIsItsOwn'
    BY LifeAssumption, <1>a, <2>1, <2>2
  <2>8. RevokedOrAdrift'
    BY LifeAssumption, <1>a, <2>1, <2>2
  <2> QED
    BY <2>3, <2>4, <2>5, <2>6, <2>7, <2>8 DEF GrantInv
<1>8. ASSUME NEW q \in Call, NEW c \in Conn, CreatePending(q, c)
      PROVE  GrantInv'
  <2>1. /\ grants' = grants /\ halted' = halted /\ adrift' = adrift
        /\ rows[c] = Null /\ \A d \in Conn : d # c => rows'[d] = rows[d]
        /\ rows'[c] # Null /\ rows'[c].grant = calls[q].grant
        /\ calls[q].at = "granted" /\ calls'[q].at = "idle"
        /\ \A p \in Call : p # q => calls'[p] = calls[p]
    BY LifeAssumption, <1>a, <1>8 DEF CreatePending, remoteVars, Row, RowKept, CallAt,
         NoCall, TypeInv, LifeTypeOK, CallKept, Deleting
  <2>2. GrantsAreHeld'
    BY LifeAssumption, <1>a, <2>1
  <2>3. GrantsWork'
    BY LifeAssumption, <1>a, <2>1
  <2>4. OneRowPerGrant'
    BY LifeAssumption, <1>a, <2>1
  <2>5. GrantedIsLive'
    BY LifeAssumption, <1>a, <2>1
  <2>6. RevokedIsItsOwn'
    BY LifeAssumption, <1>a, <2>1
  <2>7. RevokedOrAdrift'
    BY LifeAssumption, <1>a, <2>1
  <2> QED
    BY <2>2, <2>3, <2>4, <2>5, <2>6, <2>7 DEF GrantInv
<1>9. ASSUME NEW q \in Call, NEW c \in Conn, Redeem(q, c)
      PROVE  GrantInv'
  <2>1. /\ grants' = grants /\ halted' = halted /\ adrift' = adrift
        /\ rows[c] = Null /\ \A d \in Conn : d # c => rows'[d] = rows[d]
        /\ rows'[c].grant = Null
        /\ calls[q].at = "redeeming" /\ calls'[q].at = "idle"
        /\ \A p \in Call : p # q => calls'[p] = calls[p]
    BY LifeAssumption, <1>a, <1>9 DEF Redeem, remoteVars, Row, CallAt, NoCall, TypeInv,
         LifeTypeOK, CallKept, Deleting
  <2>2. GrantsAreHeld'
    BY LifeAssumption, <1>a, <2>1
  <2>3. GrantsWork'
    BY LifeAssumption, <1>a, <2>1
  <2>4. OneRowPerGrant'
    BY LifeAssumption, <1>a, <2>1
  <2>5. GrantedIsLive'
    BY LifeAssumption, <1>a, <2>1
  <2>6. RevokedIsItsOwn'
    BY LifeAssumption, <1>a, <2>1
  <2>7. RevokedOrAdrift'
    BY LifeAssumption, <1>a, <2>1
  <2> QED
    BY <2>2, <2>3, <2>4, <2>5, <2>6, <2>7 DEF GrantInv
<1>10. ASSUME NEW q \in Call, NEW st \in states, NEW t \in Tenant, FinishConsent(q, st, t)
       PROVE  GrantInv'
  <2>1. /\ grants' = grants /\ halted' = halted /\ adrift' = adrift /\ rows' = rows
        /\ \A p \in Call : p # q => calls'[p] = calls[p]
        /\ calls[q].at = "idle" /\ calls'[q].at = "redeeming"
    BY LifeAssumption, <1>a, <1>10 DEF FinishConsent, remoteVars, CallAt, Free, NoCall,
         TypeInv, LifeTypeOK, CallKept, Deleting
  <2>2. GrantsAreHeld'
    BY LifeAssumption, <1>a, <2>1
  <2>3. GrantsWork'
    BY LifeAssumption, <1>a, <2>1
  <2>4. OneRowPerGrant'
    BY LifeAssumption, <1>a, <2>1
  <2>5. GrantedIsLive'
    BY LifeAssumption, <1>a, <2>1
  <2>6. RevokedIsItsOwn'
    BY LifeAssumption, <1>a, <2>1
  <2>7. RevokedOrAdrift'
    BY LifeAssumption, <1>a, <2>1
  <2> QED
    BY <2>2, <2>3, <2>4, <2>5, <2>6, <2>7 DEF GrantInv
<1>11. ASSUME NEW q \in Call, NEW t \in Tenant, NEW c \in Conn, BeginDelete(q, t, c)
       PROVE  GrantInv'
  <2>1. /\ grants' = grants /\ halted' = halted /\ adrift' = adrift /\ rows' = rows
        /\ \A p \in Call : p # q => calls'[p] = calls[p]
        /\ calls[q].at = "idle" /\ calls'[q].at = "unsubscribing"
    BY LifeAssumption, <1>a, <1>11 DEF BeginDelete, remoteVars, CallAt, Free, NoCall,
         TypeInv, LifeTypeOK, CallKept, Deleting
  <2>2. GrantsAreHeld'
    BY LifeAssumption, <1>a, <2>1
  <2>3. GrantsWork'
    BY LifeAssumption, <1>a, <2>1
  <2>4. OneRowPerGrant'
    BY LifeAssumption, <1>a, <2>1
  <2>5. GrantedIsLive'
    BY LifeAssumption, <1>a, <2>1
  <2>6. RevokedIsItsOwn'
    BY LifeAssumption, <1>a, <2>1
  <2>7. RevokedOrAdrift'
    BY LifeAssumption, <1>a, <2>1
  <2> QED
    BY <2>2, <2>3, <2>4, <2>5, <2>6, <2>7 DEF GrantInv
<1>12. ASSUME NEW q \in Call, Unsubscribe(q)
       PROVE  GrantInv'
  <2>1. /\ grants' = grants /\ halted' = halted /\ rows' = rows /\ adrift \subseteq adrift'
        /\ \A p \in Call : p # q => calls'[p] = calls[p]
        /\ calls[q].at = "unsubscribing" /\ calls'[q].at = "revoking"
        /\ calls'[q].conn = calls[q].conn
    BY LifeAssumption, <1>a, <1>12 DEF Unsubscribe, Of, CallAt, TypeInv, LifeTypeOK,
         CallKept, Deleting
  <2>2. calls'[q].grant \in Grant =>
          rows[calls[q].conn] # Null /\ rows[calls[q].conn].grant = calls'[q].grant
    BY LifeAssumption, <1>a, <1>12 DEF Unsubscribe, Of, CallAt, TypeInv, LifeTypeOK,
         CallKept, Deleting
  <2>3. GrantsAreHeld'
    BY LifeAssumption, <1>a, <2>1, <2>2
  <2>4. GrantsWork'
    BY LifeAssumption, <1>a, <2>1, <2>2
  <2>5. OneRowPerGrant'
    BY LifeAssumption, <1>a, <2>1, <2>2
  <2>6. GrantedIsLive'
    BY LifeAssumption, <1>a, <2>1, <2>2
  <2>7. RevokedIsItsOwn'
    BY LifeAssumption, <1>a, <2>1, <2>2
  <2>8. RevokedOrAdrift'
    BY LifeAssumption, <1>a, <2>1, <2>2
  <2> QED
    BY <2>3, <2>4, <2>5, <2>6, <2>7, <2>8 DEF GrantInv
<1>13. ASSUME NEW q \in Call, Revoke(q)
       PROVE  GrantInv'
  <2>1. /\ halted' = halted /\ rows' = rows /\ adrift \subseteq adrift'
        /\ \A p \in Call : p # q => calls'[p] = calls[p]
        /\ calls[q].at = "revoking" /\ calls'[q].at = "deleting"
        /\ calls'[q].conn = calls[q].conn /\ calls'[q].grant = calls[q].grant
        /\ \A g \in Grant : g # calls[q].grant => grants'[g] = grants[g]
    BY LifeAssumption, <1>a, <1>13 DEF Revoke, CallAt, TypeInv, LifeTypeOK, CallKept, Deleting
  <2>2. calls[q].grant \in Grant =>
          \/ grants'[calls[q].grant] = "revoked"
          \/ grants' = grants /\ calls[q].grant \in adrift'
    BY LifeAssumption, <1>a, <1>13 DEF Revoke, CallAt, TypeInv, LifeTypeOK, CallKept, Deleting
  <2>3. GrantsAreHeld'
    BY LifeAssumption, <1>a, <2>1, <2>2
  <2>4. GrantsWork'
    BY LifeAssumption, <1>a, <2>1, <2>2
  <2>5. OneRowPerGrant'
    BY LifeAssumption, <1>a, <2>1, <2>2
  <2>6. GrantedIsLive'
    BY LifeAssumption, <1>a, <2>1, <2>2
  <2>7. RevokedIsItsOwn'
    BY LifeAssumption, <1>a, <2>1, <2>2
  <2>8. RevokedOrAdrift'
    BY LifeAssumption, <1>a, <2>1, <2>2
  <2> QED
    BY <2>3, <2>4, <2>5, <2>6, <2>7, <2>8 DEF GrantInv
<1>14. ASSUME NEW q \in Call, DeleteRow(q)
       PROVE  GrantInv'
  <2>1. /\ grants' = grants /\ halted \subseteq halted' /\ adrift \subseteq adrift'
        /\ \A p \in Call : p # q => calls'[p] = calls[p]
        /\ calls[q].at = "deleting" /\ calls'[q].at = "idle"
        /\ \A d \in Conn : d # calls[q].conn => rows'[d] = rows[d]
    BY LifeAssumption, <1>a, <1>14 DEF DeleteRow, Of, RowKept, remoteVars, CallAt, NoCall,
         TypeInv, LifeTypeOK, CallKept, Deleting
  <2>2. \/ rows' = rows /\ calls[q].conn \in halted'
        \/ /\ rows[calls[q].conn] # Null /\ rows'[calls[q].conn] = Null
           /\ \A g \in Grant : rows[calls[q].conn].grant = g => g = calls[q].grant \/ g \in adrift'
    BY LifeAssumption, <1>a, <1>14 DEF DeleteRow, Of, RowKept, remoteVars, CallAt, NoCall,
         TypeInv, LifeTypeOK, CallKept, Deleting
  <2>3. GrantsAreHeld'
    BY LifeAssumption, <1>a, <2>1, <2>2
  <2>4. GrantsWork'
    BY LifeAssumption, <1>a, <2>1, <2>2
  <2>5. OneRowPerGrant'
    BY LifeAssumption, <1>a, <2>1, <2>2
  <2>6. GrantedIsLive'
    BY LifeAssumption, <1>a, <2>1, <2>2
  <2>7. RevokedIsItsOwn'
    BY LifeAssumption, <1>a, <2>1, <2>2
  <2>8. RevokedOrAdrift'
    BY LifeAssumption, <1>a, <2>1, <2>2
  <2> QED
    BY <2>3, <2>4, <2>5, <2>6, <2>7, <2>8 DEF GrantInv
<1>15. ASSUME NEW c \in Conn, NEW t \in Tenant, ReassignTenant(c, t)
       PROVE  GrantInv'
  <2>1. /\ grants' = grants /\ halted' = halted /\ adrift' = adrift /\ calls' = calls
    BY LifeAssumption, <1>a, <1>15 DEF ReassignTenant, remoteVars, Row, RowKept, TypeInv,
         LifeTypeOK, CallKept, Deleting
  <2>2. \A d \in Conn :
          /\ rows[d] # Null <=> rows'[d] # Null
          /\ rows[d] # Null => rows'[d].grant = rows[d].grant
    BY LifeAssumption, <1>a, <1>15 DEF ReassignTenant, remoteVars, Row, RowKept, TypeInv,
         LifeTypeOK, CallKept, Deleting
  <2>3. GrantsAreHeld'
    BY LifeAssumption, <1>a, <2>1, <2>2
  <2>4. GrantsWork'
    BY LifeAssumption, <1>a, <2>1, <2>2
  <2>5. OneRowPerGrant'
    BY LifeAssumption, <1>a, <2>1, <2>2
  <2>6. GrantedIsLive'
    BY LifeAssumption, <1>a, <2>1, <2>2
  <2>7. RevokedIsItsOwn'
    BY LifeAssumption, <1>a, <2>1, <2>2
  <2>8. RevokedOrAdrift'
    BY LifeAssumption, <1>a, <2>1, <2>2
  <2> QED
    BY <2>3, <2>4, <2>5, <2>6, <2>7, <2>8 DEF GrantInv
<1>16. CASE Restart
  <2>1. /\ grants' = grants /\ rows' = rows
        /\ halted \subseteq halted' /\ adrift \subseteq adrift'
        /\ \A q \in Call : calls'[q].at = "idle"
    BY LifeAssumption, <1>a, <1>16 DEF Restart, Carried, CutOff, remoteVars, CallAt, NoCall, TypeInv,
         LifeTypeOK, CallKept, Deleting
  <2>2. \A q \in Call :
          /\ calls[q].at = "granted" => calls[q].grant \in adrift'
          /\ calls[q].at \in Deleting => calls[q].conn \in halted'
    BY LifeAssumption, <1>a, <1>16 DEF Restart, Carried, CutOff, remoteVars, CallAt, NoCall, TypeInv,
         LifeTypeOK, CallKept, Deleting
  <2>3. GrantsAreHeld'
    BY LifeAssumption, <1>a, <2>1, <2>2
  <2>4. GrantsWork'
    BY LifeAssumption, <1>a, <2>1, <2>2
  <2>5. OneRowPerGrant'
    BY LifeAssumption, <1>a, <2>1, <2>2
  <2>6. GrantedIsLive'
    BY LifeAssumption, <1>a, <2>1, <2>2
  <2>7. RevokedIsItsOwn'
    BY LifeAssumption, <1>a, <2>1, <2>2
  <2>8. RevokedOrAdrift'
    BY LifeAssumption, <1>a, <2>1, <2>2
  <2> QED
    BY <2>3, <2>4, <2>5, <2>6, <2>7, <2>8 DEF GrantInv
<1>17. ASSUME NEW s \in Sub, Lapse(s)
       PROVE  GrantInv'
  <2>1. /\ grants' = grants /\ halted' = halted /\ adrift' = adrift
        /\ rows' = rows /\ calls' = calls
    BY LifeAssumption, <1>a, <1>17 DEF Lapse, TypeInv, LifeTypeOK, CallKept, Deleting
  <2>2. GrantsAreHeld'
    BY LifeAssumption, <1>a, <2>1
  <2>3. GrantsWork'
    BY LifeAssumption, <1>a, <2>1
  <2>4. OneRowPerGrant'
    BY LifeAssumption, <1>a, <2>1
  <2>5. GrantedIsLive'
    BY LifeAssumption, <1>a, <2>1
  <2>6. RevokedIsItsOwn'
    BY LifeAssumption, <1>a, <2>1
  <2>7. RevokedOrAdrift'
    BY LifeAssumption, <1>a, <2>1
  <2> QED
    BY <2>2, <2>3, <2>4, <2>5, <2>6, <2>7 DEF GrantInv
<1> QED
  BY <1>1, <1>2, <1>3, <1>4, <1>5, <1>6, <1>7, <1>8, <1>9, <1>10, <1>11, <1>12, <1>13, <1>14,
     <1>15, <1>16, <1>17, StepsThatMatter DEF RemoteStep

-----------------------------------------------------------------------------
(* What each step does to rows, requests and remote things, one by one.     *)

(* Creation draws a connector that keeps nothing and may ask for push.      *)
LEMMA CreateDoes ==
    ASSUME TypeInv, RowsAreDrawn, NEW q \in Call, NEW t \in Tenant, NEW f \in Config,
           NEW b \in Base, NEW c \in Conn, CreateConnector(q, t, f, b, c)
    PROVE  /\ UNCHANGED <<subs, grants, halted, adrift>>
           /\ c \notin drawn /\ drawn' = drawn \cup {c} /\ rows[c] = Null
           /\ \A d \in Conn : d # c => rows'[d] = rows[d]
           /\ rows'[c] # Null /\ rows'[c].sub = Null /\ rows'[c].grant = Null
           /\ \A p \in Call : p # q => calls'[p] = calls[p]
           /\ calls[q].at = "idle"
           /\ \/ calls'[q] = calls[q]
              \/ calls'[q].at = "subscribing" /\ calls'[q].conn = c /\ KindOf[c] = "mail"
<1>1. Row(t, b, Null, Null) \in RowKept
  BY DEF Row, RowKept
<1>2. calls[q].at = "idle"
  BY DEF CreateConnector, Free, NoCall, CallAt
<1>3. /\ UNCHANGED <<subs, grants, halted, adrift>>
      /\ c \notin drawn /\ drawn' = drawn \cup {c} /\ rows[c] = Null
      /\ \A d \in Conn : d # c => rows'[d] = rows[d]
      /\ rows'[c] = Row(t, b, Null, Null)
  BY DEF CreateConnector, remoteVars, RowsAreDrawn, TypeInv, LifeTypeOK
<1>4. \/ calls' = calls
      \/ /\ KindOf[c] = "mail"
         /\ calls' = [calls EXCEPT ![q] = CallAt("subscribing", t, c, Null, Null, Null)]
  BY DEF CreateConnector
<1>5. /\ \A p \in Call : p # q => calls'[p] = calls[p]
      /\ \/ calls'[q] = calls[q]
         \/ calls'[q].at = "subscribing" /\ calls'[q].conn = c /\ KindOf[c] = "mail"
  BY <1>4 DEF CallAt, TypeInv, LifeTypeOK
<1>6. rows'[c] # Null /\ rows'[c].sub = Null /\ rows'[c].grant = Null
  BY LifeAssumption, <1>1, <1>3 DEF Row
<1> QED
  BY <1>2, <1>3, <1>5, <1>6

(* A new subscription is in the hands of its request, or adrift.            *)
LEMMA SubscribeDoes ==
    ASSUME TypeInv, NEW q \in Call, NEW s \in Sub, Subscribe(q, s)
    PROVE  /\ UNCHANGED <<rows, drawn, grants, halted>>
           /\ calls[q].at = "subscribing" /\ subs[s].at = "unborn"
           /\ subs'[s].at = "live" /\ subs'[s].for = calls[q].conn
           /\ \A r \in Sub : r # s => subs'[r] = subs[r]
           /\ \A p \in Call : p # q => calls'[p] = calls[p]
           /\ \/ /\ calls'[q].at = "subscribed" /\ calls'[q].sub = s
                 /\ calls'[q].conn = calls[q].conn /\ adrift' = adrift
              \/ calls'[q].at = "idle" /\ adrift' = adrift \cup {s}
BY DEF Subscribe, CallAt, NoCall, TypeInv, LifeTypeOK

(* A request that breaks off loses what it carries.                         *)
LEMMA BreakDoes ==
    ASSUME TypeInv, NEW q \in Call, BreaksOff(q)
    PROVE  /\ UNCHANGED <<rows, drawn, subs, grants>>
           /\ calls'[q].at = "idle"
           /\ \A p \in Call : p # q => calls'[p] = calls[p]
           /\ \A x : x \in adrift' <=> \/ x \in adrift
                                       \/ calls[q].at = "subscribed" /\ x = calls[q].sub
                                       \/ calls[q].at = "granted" /\ x = calls[q].grant
           /\ \A d : d \in halted' <=> \/ d \in halted
                                       \/ calls[q].at \in Deleting /\ d = calls[q].conn
<1>1. /\ UNCHANGED <<rows, drawn, subs, grants>>
      /\ calls' = [calls EXCEPT ![q] = NoCall]
      /\ adrift' = adrift \cup Carried({q}) /\ halted' = halted \cup CutOff({q})
  BY DEF BreaksOff, remoteVars
<1>2. calls'[q].at = "idle" /\ \A p \in Call : p # q => calls'[p] = calls[p]
  BY <1>1 DEF NoCall, CallAt, TypeInv, LifeTypeOK
<1>3. /\ \A x : x \in Carried({q}) <=> \/ calls[q].at = "subscribed" /\ x = calls[q].sub
                                       \/ calls[q].at = "granted" /\ x = calls[q].grant
      /\ \A d : d \in CutOff({q}) <=> calls[q].at \in Deleting /\ d = calls[q].conn
  BY DEF Carried, CutOff
<1> QED
  BY <1>1, <1>2, <1>3

(* A subscription is recorded in the row of its connector, or adrift.       *)
LEMMA RecordDoes ==
    ASSUME TypeInv, NEW q \in Call, RecordSubscription(q)
    PROVE  /\ UNCHANGED <<drawn, subs, grants, halted>>
           /\ calls[q].at = "subscribed" /\ calls'[q].at = "idle"
           /\ \A p \in Call : p # q => calls'[p] = calls[p]
           /\ \A d \in Conn : d # calls[q].conn => rows'[d] = rows[d]
           /\ \/ rows' = rows /\ adrift' = adrift \cup {calls[q].sub}
              \/ /\ adrift' = adrift
                 /\ rows[calls[q].conn] # Null /\ rows'[calls[q].conn] # Null
                 /\ rows'[calls[q].conn].sub = calls[q].sub
                 /\ rows'[calls[q].conn].grant = rows[calls[q].conn].grant
<1> DEFINE c == calls[q].conn
           r == Row(rows[c].tenant, rows[c].base, calls[q].sub, rows[c].grant)
<1>1. /\ UNCHANGED <<drawn, subs, grants, halted>>
      /\ calls[q].at = "subscribed" /\ calls' = [calls EXCEPT ![q] = NoCall]
  BY DEF RecordSubscription, remoteVars
<1>2. calls'[q].at = "idle" /\ \A p \in Call : p # q => calls'[p] = calls[p]
  BY <1>1 DEF NoCall, CallAt, TypeInv, LifeTypeOK
<1>3. c \in Conn /\ calls[q].sub \in Sub
  BY <1>1 DEF TypeInv, CallsAreTyped, Deleting
<1>4. CASE Of(c, calls[q].tenant) /\ rows' = [rows EXCEPT ![c] = r] /\ adrift' = adrift
  <2>1. rows[c] # Null /\ rows[c] \in RowKept
    BY <1>3, <1>4 DEF Of, TypeInv, LifeTypeOK
  <2>2. r \in RowKept /\ r.sub = calls[q].sub /\ r.grant = rows[c].grant
    BY <1>3, <2>1 DEF Row, RowKept
  <2>3. rows'[c] = r /\ \A d \in Conn : d # c => rows'[d] = rows[d]
    BY <1>3, <1>4 DEF TypeInv, LifeTypeOK
  <2> QED
    BY LifeAssumption, <1>1, <1>2, <1>4, <2>1, <2>2, <2>3
<1>5. CASE rows' = rows /\ adrift' = adrift \cup {calls[q].sub}
  BY <1>1, <1>2, <1>5
<1> QED
  BY <1>4, <1>5 DEF RecordSubscription

(* A new grant is in the hands of its request, or adrift.                   *)
LEMMA ExchangeDoes ==
    ASSUME TypeInv, NEW q \in Call, NEW g \in Grant, Exchange(q, g)
    PROVE  /\ UNCHANGED <<rows, drawn, subs, halted>>
           /\ calls[q].at = "exchanging" /\ grants[g] = "unborn"
           /\ grants'[g] = "live" /\ \A h \in Grant : h # g => grants'[h] = grants[h]
           /\ \A p \in Call : p # q => calls'[p] = calls[p]
           /\ \/ calls'[q].at = "granted" /\ calls'[q].grant = g /\ adrift' = adrift
              \/ calls'[q].at = "idle" /\ adrift' = adrift \cup {g}
BY DEF Exchange, CallAt, NoCall, TypeInv, LifeTypeOK

(* A connector is made of the grant it is for, or of a consent.             *)
LEMMA FoundDoes ==
    ASSUME TypeInv, RowsAreDrawn, NEW q \in Call, NEW c \in Conn,
           CreatePending(q, c) \/ Redeem(q, c)
    PROVE  /\ UNCHANGED <<subs, grants, halted, adrift>>
           /\ c \notin drawn /\ drawn' = drawn \cup {c} /\ rows[c] = Null
           /\ \A d \in Conn : d # c => rows'[d] = rows[d]
           /\ rows'[c] # Null /\ rows'[c].sub = Null
           /\ calls'[q].at = "idle"
           /\ \A p \in Call : p # q => calls'[p] = calls[p]
           /\ \/ /\ calls[q].at = "granted" /\ rows'[c].grant = calls[q].grant
                 /\ KindOf[c] = "drive"
              \/ calls[q].at = "redeeming" /\ rows'[c].grant = Null
<1>1. /\ UNCHANGED <<subs, grants, halted, adrift>>
      /\ c \notin drawn /\ drawn' = drawn \cup {c}
      /\ calls' = [calls EXCEPT ![q] = NoCall]
  BY DEF CreatePending, Redeem, remoteVars
<1>2. /\ calls'[q].at = "idle" /\ \A p \in Call : p # q => calls'[p] = calls[p]
      /\ rows[c] = Null
  BY <1>1 DEF NoCall, CallAt, TypeInv, LifeTypeOK, RowsAreDrawn
<1>3. CASE CreatePending(q, c)
  <2> DEFINE r == Row(calls[q].tenant, calls[q].base, Null, calls[q].grant)
  <2>1. /\ calls[q].at = "granted" /\ KindOf[c] = "drive"
        /\ rows'[c] = r /\ \A d \in Conn : d # c => rows'[d] = rows[d]
    BY <1>3 DEF CreatePending, TypeInv, LifeTypeOK
  <2>2. r \in RowKept /\ r.sub = Null /\ r.grant = calls[q].grant
    BY <2>1 DEF Row, RowKept, TypeInv, CallsAreTyped
  <2> QED
    BY LifeAssumption, <1>1, <1>2, <2>1, <2>2
<1>4. CASE Redeem(q, c)
  <2> DEFINE r == Row(calls[q].tenant, calls[q].base, Null, Null)
  <2>1. /\ calls[q].at = "redeeming"
        /\ rows'[c] = r /\ \A d \in Conn : d # c => rows'[d] = rows[d]
    BY <1>4 DEF Redeem, TypeInv, LifeTypeOK
  <2>2. r \in RowKept /\ r.sub = Null /\ r.grant = Null
    BY <2>1 DEF Row, RowKept, TypeInv, CallsAreTyped
  <2> QED
    BY LifeAssumption, <1>1, <1>2, <2>1, <2>2
<1> QED
  BY <1>3, <1>4

(* A deletion goes on from what the row had when it began.                  *)
LEMMA DeletionDoes ==
    ASSUME TypeInv, NEW q \in Call, NEW t \in Tenant, NEW c \in Conn, BeginDelete(q, t, c)
    PROVE  /\ UNCHANGED <<rows, drawn, subs, grants, halted, adrift>>
           /\ rows[c] # Null /\ calls[q].at = "idle"
           /\ \A p \in Call : p # q => calls'[p] = calls[p]
           /\ calls'[q].at = "unsubscribing" /\ calls'[q].conn = c
           /\ calls'[q].sub = rows[c].sub /\ calls'[q].grant = Null
BY DEF BeginDelete, Of, Free, NoCall, CallAt, remoteVars, TypeInv, LifeTypeOK

(* The subscription is ended, or adrift; then the row is read again.        *)
LEMMA UnsubscribeDoes ==
    ASSUME TypeInv, NEW q \in Call, Unsubscribe(q)
    PROVE  /\ UNCHANGED <<rows, drawn, grants, halted>>
           /\ calls[q].at = "unsubscribing" /\ calls'[q].at = "revoking"
           /\ calls'[q].conn = calls[q].conn /\ calls'[q].sub = calls[q].sub
           /\ \A p \in Call : p # q => calls'[p] = calls[p]
           /\ \A s \in Sub : s # calls[q].sub => subs'[s] = subs[s]
           /\ \/ /\ adrift' = adrift
                 /\ \A s \in Sub : s = calls[q].sub =>
                      subs'[s].at = "ended" /\ subs'[s].for = subs[s].for
              \/ /\ subs' = subs
                 /\ adrift' = adrift \cup ({calls[q].sub} \cap Sub)
           /\ \/ calls'[q].grant = Null
              \/ /\ rows[calls[q].conn] # Null
                 /\ calls'[q].grant = rows[calls[q].conn].grant
BY DEF Unsubscribe, Of, CallAt, TypeInv, LifeTypeOK

(* The grant is revoked, or adrift.                                         *)
LEMMA RevokeDoes ==
    ASSUME TypeInv, NEW q \in Call, Revoke(q)
    PROVE  /\ UNCHANGED <<rows, drawn, subs, halted>>
           /\ calls[q].at = "revoking" /\ calls'[q].at = "deleting"
           /\ calls'[q].conn = calls[q].conn /\ calls'[q].sub = calls[q].sub
           /\ calls'[q].grant = calls[q].grant
           /\ \A p \in Call : p # q => calls'[p] = calls[p]
           /\ \A g \in Grant : g # calls[q].grant => grants'[g] = grants[g]
           /\ \/ /\ adrift' = adrift
                 /\ \A g \in Grant : g = calls[q].grant => grants'[g] = "revoked"
              \/ /\ grants' = grants
                 /\ adrift' = adrift \cup ({calls[q].grant} \cap Grant)
BY DEF Revoke, CallAt, TypeInv, LifeTypeOK

(* The row goes, and what was recorded in it meanwhile is adrift; or it is  *)
(* another tenant's by now, or gone.                                        *)
LEMMA DeleteDoes ==
    ASSUME TypeInv, NEW q \in Call, DeleteRow(q)
    PROVE  /\ UNCHANGED <<drawn, subs, grants>>
           /\ calls[q].at = "deleting" /\ calls'[q].at = "idle"
           /\ \A p \in Call : p # q => calls'[p] = calls[p]
           /\ \A d \in Conn : d # calls[q].conn => rows'[d] = rows[d]
           /\ \/ /\ rows[calls[q].conn] # Null /\ rows'[calls[q].conn] = Null
                 /\ halted' = halted
                 /\ adrift' = adrift
                      \cup (({rows[calls[q].conn].sub} \ {calls[q].sub}) \cap Sub)
                      \cup (({rows[calls[q].conn].grant} \ {calls[q].grant}) \cap Grant)
              \/ /\ rows' = rows /\ adrift' = adrift
                 /\ halted' = halted \cup {calls[q].conn}
BY DEF DeleteRow, Of, CallAt, NoCall, remoteVars, TypeInv, LifeTypeOK, CallsAreTyped, Deleting

(* A move leaves a row what it keeps.                                       *)
LEMMA MoveDoes ==
    ASSUME TypeInv, NEW c \in Conn, NEW t \in Tenant, ReassignTenant(c, t)
    PROVE  /\ UNCHANGED <<drawn, subs, grants, calls, halted, adrift>>
           /\ \A d \in Conn : d # c => rows'[d] = rows[d]
           /\ rows[c] # Null /\ rows'[c] # Null
           /\ rows'[c].sub = rows[c].sub /\ rows'[c].grant = rows[c].grant
<1> DEFINE r == Row(t, rows[c].base, rows[c].sub, rows[c].grant)
<1>1. /\ UNCHANGED <<drawn, subs, grants, calls, halted, adrift>>
      /\ rows[c] # Null /\ rows[c] \in RowKept
      /\ rows'[c] = r /\ \A d \in Conn : d # c => rows'[d] = rows[d]
  BY DEF ReassignTenant, remoteVars, TypeInv, LifeTypeOK
<1>2. r \in RowKept /\ r.sub = rows[c].sub /\ r.grant = rows[c].grant
  BY <1>1 DEF Row, RowKept
<1> QED
  BY LifeAssumption, <1>1, <1>2

(* A restart loses what all requests carry.                                 *)
LEMMA RestartDoes ==
    ASSUME TypeInv, Restart
    PROVE  /\ UNCHANGED <<rows, drawn, subs, grants>>
           /\ \A p \in Call : calls'[p].at = "idle"
           /\ \A x : x \in adrift' <=>
                \/ x \in adrift
                \/ \E q \in Call : \/ calls[q].at = "subscribed" /\ x = calls[q].sub
                                   \/ calls[q].at = "granted" /\ x = calls[q].grant
           /\ \A d : d \in halted' <=>
                \/ d \in halted
                \/ \E q \in Call : calls[q].at \in Deleting /\ d = calls[q].conn
<1>1. /\ UNCHANGED <<rows, drawn, subs, grants>>
      /\ calls' = [q \in Call |-> NoCall]
      /\ adrift' = adrift \cup Carried(Call) /\ halted' = halted \cup CutOff(Call)
  BY DEF Restart, remoteVars
<1>2. \A p \in Call : calls'[p].at = "idle"
  BY <1>1 DEF NoCall, CallAt
<1>3. /\ \A x : x \in Carried(Call) <=>
           \E q \in Call : \/ calls[q].at = "subscribed" /\ x = calls[q].sub
                           \/ calls[q].at = "granted" /\ x = calls[q].grant
      /\ \A d : d \in CutOff(Call) <=>
           \E q \in Call : calls[q].at \in Deleting /\ d = calls[q].conn
  BY DEF Carried, CutOff
<1> QED
  BY <1>1, <1>2, <1>3

(* A request that begins with nothing at hand.                              *)
LEMMA BeginDoes ==
    ASSUME TypeInv, NEW q \in Call, NEW t \in Tenant,
           \/ \E f \in Config, b \in Base : BeginExchange(q, t, f, b)
           \/ \E st \in states : FinishConsent(q, st, t)
    PROVE  /\ UNCHANGED <<rows, drawn, subs, grants, halted, adrift>>
           /\ calls[q].at = "idle" /\ calls'[q].at \in {"exchanging", "redeeming"}
           /\ \A p \in Call : p # q => calls'[p] = calls[p]
BY DEF BeginExchange, FinishConsent, Free, NoCall, CallAt, remoteVars, TypeInv, LifeTypeOK

(* Graph ends a subscription.                                               *)
LEMMA LapseDoes ==
    ASSUME TypeInv, NEW s \in Sub, Lapse(s)
    PROVE  /\ UNCHANGED <<rows, drawn, grants, calls, halted, adrift>>
           /\ subs[s].at = "live" /\ subs'[s].at = "ended" /\ subs'[s].for = subs[s].for
           /\ \A r \in Sub : r # s => subs'[r] = subs[r]
BY DEF Lapse, TypeInv, LifeTypeOK

-----------------------------------------------------------------------------
(* Whose things are: what is adrift or in a row was once set up; what a     *)
(* request carries never slipped away before; a row keeps what its kind of  *)
(* connector has, a subscription that is its own; a deletion is one of a    *)
(* connector there was, and what it has still to end is in the row.         *)
AdriftIsThere ==
    /\ \A s \in Sub : s \in adrift => subs[s].at # "unborn"
    /\ \A g \in Grant : g \in adrift => grants[g] # "unborn"

CarriedIsCertain ==
    \A q \in Call :
        /\ calls[q].at = "subscribed" => calls[q].sub \notin adrift
        /\ calls[q].at = "granted" => calls[q].grant \notin adrift

RowsAreOfAKind ==
    /\ \A c \in Conn : rows[c] # Null =>
         /\ rows[c].sub # Null =>
              /\ KindOf[c] = "mail"
              /\ subs[rows[c].sub].at # "unborn" /\ subs[rows[c].sub].for = c
         /\ rows[c].grant # Null => KindOf[c] = "drive"
    /\ \A q \in Call : calls[q].at \in Pushing => KindOf[calls[q].conn] = "mail"

DeletionsKnow ==
    /\ halted \subseteq drawn
    /\ \A q \in Call : calls[q].at \in Deleting =>
         /\ calls[q].conn \in drawn
         /\ calls[q].sub \in Sub =>
              /\ subs[calls[q].sub].at # "unborn"
              /\ \A p \in Call : calls[p].at = "subscribed" => calls[p].sub # calls[q].sub

UnsubscribesItsOwn ==
    \A q \in Call : calls[q].at = "unsubscribing" /\ calls[q].sub \in Sub =>
        \/ subs[calls[q].sub].at = "ended" \/ calls[q].sub \in adrift
        \/ rows[calls[q].conn] # Null /\ rows[calls[q].conn].sub = calls[q].sub

RevokesItsOwn ==
    \A q \in Call : calls[q].at = "revoking" /\ calls[q].grant \in Grant =>
        \/ grants[calls[q].grant] = "revoked" \/ calls[q].grant \in adrift
        \/ rows[calls[q].conn] # Null /\ rows[calls[q].conn].grant = calls[q].grant

CustodyInv ==
    /\ AdriftIsThere /\ CarriedIsCertain /\ RowsAreOfAKind
    /\ DeletionsKnow /\ UnsubscribesItsOwn /\ RevokesItsOwn

(* At first there is nothing to be in custody.                              *)
LEMMA LifeInitCustody == LifeInit => CustodyInv
BY DEF LifeInit, CustodyInv, AdriftIsThere, CarriedIsCertain, RowsAreOfAKind, DeletionsKnow,
       UnsubscribesItsOwn, RevokesItsOwn, Pushing, Deleting, NoCall, CallAt

(* Every step keeps track of whose things are.                              *)
LEMMA LifeStepCustody ==
    TypeInv /\ PushInv /\ GrantInv /\ CustodyInv /\ [LifeNext]_lifeVars => CustodyInv'
<1> SUFFICES ASSUME TypeInv, PushInv, GrantInv, CustodyInv, [LifeNext]_lifeVars
             PROVE  CustodyInv'
  OBVIOUS
<1> USE DEF AdriftIsThere, CarriedIsCertain, RowsAreOfAKind, DeletionsKnow,
            UnsubscribesItsOwn, RevokesItsOwn, Pushing, Deleting
<1>a. AdriftIsThere
  BY DEF CustodyInv
<1>b. CarriedIsCertain
  BY DEF CustodyInv
<1>c. RowsAreOfAKind
  BY DEF CustodyInv
<1>d. DeletionsKnow
  BY DEF CustodyInv
<1>e. UnsubscribesItsOwn
  BY DEF CustodyInv
<1>f. RevokesItsOwn
  BY DEF CustodyInv
<1>g. RowsAreDrawn
  BY DEF PushInv
<1>t. /\ \A q \in Call :
           /\ calls[q].at = "subscribed" => calls[q].sub \in Sub
           /\ calls[q].at = "granted" => calls[q].grant \in Grant
           /\ calls[q].at \in Pushing \cup Deleting => calls[q].conn \in Conn
      /\ \A c \in Conn : rows[c] # Null =>
           rows[c].sub \in Sub \cup {Null} /\ rows[c].grant \in Grant \cup {Null}
      /\ Sub \cap Grant = {} /\ Null \notin Sub \cup Grant
  BY LifeAssumption DEF TypeInv, LifeTypeOK, CallsAreTyped, RowKept
<1>s. \A q \in Call : calls[q].at = "subscribed" =>
        /\ subs[calls[q].sub].at # "unborn" /\ subs[calls[q].sub].for = calls[q].conn
        /\ rows[calls[q].conn] # Null => rows[calls[q].conn].sub = Null
        /\ \A p \in Call : calls[p].at = "subscribed" /\ calls[p].sub = calls[q].sub => p = q
  <2>1. AskedOnce /\ AnsweredForItsOwn
    BY DEF PushInv
  <2> QED
    BY <2>1 DEF AskedOnce, AnsweredForItsOwn
<1>r. \A q \in Call : calls[q].at = "granted" =>
        /\ grants[calls[q].grant] = "live"
        /\ \A c \in Conn : rows[c] # Null => rows[c].grant # calls[q].grant
        /\ \A p \in Call :
             /\ calls[p].at = "granted" /\ calls[p].grant = calls[q].grant => p = q
             /\ calls[p].at \in {"revoking", "deleting"} => calls[p].grant # calls[q].grant
  BY <1>t DEF GrantInv, GrantedIsLive, RevokedIsItsOwn
<1>o. \A q \in Call : calls[q].at = "subscribed" =>
        \A c \in Conn : rows[c] # Null => rows[c].sub # calls[q].sub
  BY <1>c, <1>s, <1>t
<1>u. /\ \A c \in Conn : rows[c] # Null /\ rows[c].grant # Null => grants[rows[c].grant] # "unborn"
      /\ \A q \in Call : calls[q].at \in {"revoking", "deleting"} /\ calls[q].grant \in Grant =>
           grants[calls[q].grant] # "unborn"
  BY DEF GrantInv, OneRowPerGrant, RevokedIsItsOwn
<1>v. /\ \A q \in Call : calls[q].at \in {"revoking", "deleting"} /\ calls[q].sub \in Sub =>
           subs[calls[q].sub].at = "ended" \/ calls[q].sub \in adrift
      /\ \A q \in Call : calls[q].at = "deleting" /\ calls[q].grant \in Grant =>
           grants[calls[q].grant] = "revoked" \/ calls[q].grant \in adrift
  BY DEF PushInv, UnsubscribedOrAdrift, GrantInv, RevokedOrAdrift
<1>1. CASE UNCHANGED <<rows, drawn, remoteVars, calls, halted, adrift>>
  BY <1>1 DEF remoteVars, CustodyInv
<1>2. ASSUME NEW q \in Call, NEW t \in Tenant, NEW f \in Config, NEW b \in Base, NEW c \in Conn,
             CreateConnector(q, t, f, b, c)
      PROVE  CustodyInv'
  <2>1. /\ UNCHANGED <<subs, grants, halted, adrift>>
        /\ c \notin drawn /\ drawn' = drawn \cup {c} /\ rows[c] = Null
        /\ \A d \in Conn : d # c => rows'[d] = rows[d]
        /\ rows'[c] # Null /\ rows'[c].sub = Null /\ rows'[c].grant = Null
        /\ \A p \in Call : p # q => calls'[p] = calls[p]
        /\ calls[q].at = "idle"
        /\ \/ calls'[q] = calls[q]
           \/ calls'[q].at = "subscribing" /\ calls'[q].conn = c /\ KindOf[c] = "mail"
    BY <1>g, <1>2, CreateDoes
  <2>2. AdriftIsThere'
    BY <1>a, <2>1
  <2>3. CarriedIsCertain'
    BY <1>b, <2>1
  <2>4. RowsAreOfAKind'
    BY <1>c, <1>t, <2>1
  <2>5. DeletionsKnow'
    BY <1>d, <2>1
  <2>6. UnsubscribesItsOwn'
    BY <1>e, <1>t, <2>1
  <2>7. RevokesItsOwn'
    BY <1>f, <1>t, <2>1
  <2> QED
    BY <2>2, <2>3, <2>4, <2>5, <2>6, <2>7 DEF CustodyInv
<1>3. ASSUME NEW q \in Call, NEW s \in Sub, Subscribe(q, s)
      PROVE  CustodyInv'
  <2>1. /\ UNCHANGED <<rows, drawn, grants, halted>>
        /\ calls[q].at = "subscribing" /\ subs[s].at = "unborn"
        /\ subs'[s].at = "live" /\ subs'[s].for = calls[q].conn
        /\ \A r \in Sub : r # s => subs'[r] = subs[r]
        /\ \A p \in Call : p # q => calls'[p] = calls[p]
        /\ \/ /\ calls'[q].at = "subscribed" /\ calls'[q].sub = s
              /\ calls'[q].conn = calls[q].conn /\ adrift' = adrift
           \/ calls'[q].at = "idle" /\ adrift' = adrift \cup {s}
    BY <1>3, SubscribeDoes
  <2>2. AdriftIsThere'
    BY <1>a, <1>t, <2>1
  <2>3. CarriedIsCertain'
    BY <1>a, <1>b, <1>s, <1>t, <2>1
  <2>4. RowsAreOfAKind'
    BY <1>c, <1>t, <2>1
  <2>5. DeletionsKnow'
    BY <1>d, <2>1
  <2>6. UnsubscribesItsOwn'
    BY <1>e, <1>d, <2>1
  <2>7. RevokesItsOwn'
    BY <1>f, <2>1
  <2> QED
    BY <2>2, <2>3, <2>4, <2>5, <2>6, <2>7 DEF CustodyInv
<1>4. ASSUME NEW q \in Call, BreaksOff(q)
      PROVE  CustodyInv'
  <2>1. /\ UNCHANGED <<rows, drawn, subs, grants>>
        /\ calls'[q].at = "idle"
        /\ \A p \in Call : p # q => calls'[p] = calls[p]
        /\ \A x : x \in adrift' <=> \/ x \in adrift
                                    \/ calls[q].at = "subscribed" /\ x = calls[q].sub
                                    \/ calls[q].at = "granted" /\ x = calls[q].grant
        /\ \A d : d \in halted' <=> \/ d \in halted
                                    \/ calls[q].at \in Deleting /\ d = calls[q].conn
    BY <1>4, BreakDoes
  <2>2. AdriftIsThere'
    BY <1>a, <1>s, <1>r, <1>t, <2>1
  <2>3. CarriedIsCertain'
    BY <1>b, <1>s, <1>r, <1>t, <2>1
  <2>4. RowsAreOfAKind'
    BY <1>c, <2>1
  <2>5. DeletionsKnow'
    BY <1>d, <2>1
  <2>6. UnsubscribesItsOwn'
    BY <1>e, <2>1
  <2>7. RevokesItsOwn'
    BY <1>f, <2>1
  <2> QED
    BY <2>2, <2>3, <2>4, <2>5, <2>6, <2>7 DEF CustodyInv
<1>5. ASSUME NEW q \in Call, RecordSubscription(q)
      PROVE  CustodyInv'
  <2>1. /\ UNCHANGED <<drawn, subs, grants, halted>>
        /\ calls[q].at = "subscribed" /\ calls'[q].at = "idle"
        /\ \A p \in Call : p # q => calls'[p] = calls[p]
        /\ \A d \in Conn : d # calls[q].conn => rows'[d] = rows[d]
        /\ \/ rows' = rows /\ adrift' = adrift \cup {calls[q].sub}
           \/ /\ adrift' = adrift
              /\ rows[calls[q].conn] # Null /\ rows'[calls[q].conn] # Null
              /\ rows'[calls[q].conn].sub = calls[q].sub
              /\ rows'[calls[q].conn].grant = rows[calls[q].conn].grant
    BY <1>5, RecordDoes
  <2>2. AdriftIsThere'
    BY <1>a, <1>s, <1>t, <2>1
  <2>3. CarriedIsCertain'
    BY <1>b, <1>s, <1>t, <2>1
  <2>4. RowsAreOfAKind'
    BY <1>c, <1>s, <1>t, <2>1
  <2>5. DeletionsKnow'
    BY <1>d, <2>1
  <2>6. UnsubscribesItsOwn'
    BY <1>e, <1>s, <1>t, <2>1
  <2>7. RevokesItsOwn'
    BY <1>f, <1>t, <2>1
  <2> QED
    BY <2>2, <2>3, <2>4, <2>5, <2>6, <2>7 DEF CustodyInv
<1>6. ASSUME NEW q \in Call, NEW g \in Grant, Exchange(q, g)
      PROVE  CustodyInv'
  <2>1. /\ UNCHANGED <<rows, drawn, subs, halted>>
        /\ calls[q].at = "exchanging" /\ grants[g] = "unborn"
        /\ grants'[g] = "live" /\ \A h \in Grant : h # g => grants'[h] = grants[h]
        /\ \A p \in Call : p # q => calls'[p] = calls[p]
        /\ \/ calls'[q].at = "granted" /\ calls'[q].grant = g /\ adrift' = adrift
           \/ calls'[q].at = "idle" /\ adrift' = adrift \cup {g}
    BY <1>6, ExchangeDoes
  <2>2. AdriftIsThere'
    BY <1>a, <1>t, <2>1
  <2>3. CarriedIsCertain'
    BY <1>a, <1>b, <1>r, <1>t, <2>1
  <2>4. RowsAreOfAKind'
    BY <1>c, <2>1
  <2>5. DeletionsKnow'
    BY <1>d, <2>1
  <2>6. UnsubscribesItsOwn'
    BY <1>e, <2>1
  <2>7. RevokesItsOwn'
    BY <1>f, <1>u, <2>1
  <2> QED
    BY <2>2, <2>3, <2>4, <2>5, <2>6, <2>7 DEF CustodyInv
<1>7. ASSUME NEW q \in Call, NEW c \in Conn, CreatePending(q, c) \/ Redeem(q, c)
      PROVE  CustodyInv'
  <2>1. /\ UNCHANGED <<subs, grants, halted, adrift>>
        /\ c \notin drawn /\ drawn' = drawn \cup {c} /\ rows[c] = Null
        /\ \A d \in Conn : d # c => rows'[d] = rows[d]
        /\ rows'[c] # Null /\ rows'[c].sub = Null
        /\ calls'[q].at = "idle"
        /\ \A p \in Call : p # q => calls'[p] = calls[p]
        /\ \/ /\ calls[q].at = "granted" /\ rows'[c].grant = calls[q].grant
              /\ KindOf[c] = "drive"
           \/ calls[q].at = "redeeming" /\ rows'[c].grant = Null
    BY <1>g, <1>7, FoundDoes
  <2>2. AdriftIsThere'
    BY <1>a, <2>1
  <2>3. CarriedIsCertain'
    BY <1>b, <2>1
  <2>4. RowsAreOfAKind'
    BY <1>c, <1>t, <2>1
  <2>5. DeletionsKnow'
    BY <1>d, <2>1
  <2>6. UnsubscribesItsOwn'
    BY <1>e, <1>t, <2>1
  <2>7. RevokesItsOwn'
    BY <1>f, <1>t, <2>1
  <2> QED
    BY <2>2, <2>3, <2>4, <2>5, <2>6, <2>7 DEF CustodyInv
<1>8. ASSUME NEW q \in Call, NEW t \in Tenant,
             \/ \E f \in Config, b \in Base : BeginExchange(q, t, f, b)
             \/ \E st \in states : FinishConsent(q, st, t)
      PROVE  CustodyInv'
  <2>1. /\ UNCHANGED <<rows, drawn, subs, grants, halted, adrift>>
        /\ calls[q].at = "idle" /\ calls'[q].at \in {"exchanging", "redeeming"}
        /\ \A p \in Call : p # q => calls'[p] = calls[p]
    BY <1>8, BeginDoes
  <2>2. AdriftIsThere'
    BY <1>a, <2>1
  <2>3. CarriedIsCertain'
    BY <1>b, <2>1
  <2>4. RowsAreOfAKind'
    BY <1>c, <2>1
  <2>5. DeletionsKnow'
    BY <1>d, <2>1
  <2>6. UnsubscribesItsOwn'
    BY <1>e, <2>1
  <2>7. RevokesItsOwn'
    BY <1>f, <2>1
  <2> QED
    BY <2>2, <2>3, <2>4, <2>5, <2>6, <2>7 DEF CustodyInv
<1>9. ASSUME NEW q \in Call, NEW t \in Tenant, NEW c \in Conn, BeginDelete(q, t, c)
      PROVE  CustodyInv'
  <2>1. /\ UNCHANGED <<rows, drawn, subs, grants, halted, adrift>>
        /\ rows[c] # Null /\ calls[q].at = "idle"
        /\ \A p \in Call : p # q => calls'[p] = calls[p]
        /\ calls'[q].at = "unsubscribing" /\ calls'[q].conn = c
        /\ calls'[q].sub = rows[c].sub /\ calls'[q].grant = Null
    BY <1>9, DeletionDoes
  <2>0. rows[c].sub \in Sub =>
          /\ subs[rows[c].sub].at # "unborn"
          /\ \A p \in Call : calls[p].at = "subscribed" => calls[p].sub # rows[c].sub
    BY <1>c, <1>o, <1>t, <2>1
  <2>2. AdriftIsThere'
    BY <1>a, <2>1
  <2>3. CarriedIsCertain'
    BY <1>b, <2>1
  <2>4. RowsAreOfAKind'
    BY <1>c, <2>1
  <2>5. DeletionsKnow'
    <3>1. \A p \in Call : calls'[p].at = "subscribed" => calls[p].at = "subscribed"
                                                      /\ calls'[p].sub = calls[p].sub
      BY <2>1
    <3>2. c \in drawn
      BY <1>g, <2>1 DEF RowsAreDrawn
    <3> QED
      BY <1>d, <2>0, <2>1, <3>1, <3>2
  <2>6. UnsubscribesItsOwn'
    BY <1>e, <2>1
  <2>7. RevokesItsOwn'
    BY <1>f, <2>1
  <2> QED
    BY <2>2, <2>3, <2>4, <2>5, <2>6, <2>7 DEF CustodyInv
<1>10. ASSUME NEW q \in Call, Unsubscribe(q)
      PROVE  CustodyInv'
  <2>1. /\ UNCHANGED <<rows, drawn, grants, halted>>
        /\ calls[q].at = "unsubscribing" /\ calls'[q].at = "revoking"
        /\ calls'[q].conn = calls[q].conn /\ calls'[q].sub = calls[q].sub
        /\ \A p \in Call : p # q => calls'[p] = calls[p]
        /\ \A s \in Sub : s # calls[q].sub => subs'[s] = subs[s]
        /\ \/ /\ adrift' = adrift
              /\ \A s \in Sub : s = calls[q].sub =>
                   subs'[s].at = "ended" /\ subs'[s].for = subs[s].for
           \/ /\ subs' = subs
              /\ adrift' = adrift \cup ({calls[q].sub} \cap Sub)
        /\ \/ calls'[q].grant = Null
           \/ /\ rows[calls[q].conn] # Null
              /\ calls'[q].grant = rows[calls[q].conn].grant
    BY <1>10, UnsubscribeDoes
  <2>2. AdriftIsThere'
    BY <1>a, <1>d, <1>t, <2>1
  <2>3. CarriedIsCertain'
    BY <1>b, <1>d, <1>t, <2>1
  <2>4. RowsAreOfAKind'
    BY <1>c, <1>t, <2>1
  <2>5. DeletionsKnow'
    BY <1>d, <2>1
  <2>6. UnsubscribesItsOwn'
    BY <1>e, <2>1
  <2>7. RevokesItsOwn'
    BY <1>f, <1>t, <2>1
  <2> QED
    BY <2>2, <2>3, <2>4, <2>5, <2>6, <2>7 DEF CustodyInv
<1>11. ASSUME NEW q \in Call, Revoke(q)
      PROVE  CustodyInv'
  <2>1. /\ UNCHANGED <<rows, drawn, subs, halted>>
        /\ calls[q].at = "revoking" /\ calls'[q].at = "deleting"
        /\ calls'[q].conn = calls[q].conn /\ calls'[q].sub = calls[q].sub
        /\ calls'[q].grant = calls[q].grant
        /\ \A p \in Call : p # q => calls'[p] = calls[p]
        /\ \A g \in Grant : g # calls[q].grant => grants'[g] = grants[g]
        /\ \/ /\ adrift' = adrift
              /\ \A g \in Grant : g = calls[q].grant => grants'[g] = "revoked"
           \/ /\ grants' = grants
              /\ adrift' = adrift \cup ({calls[q].grant} \cap Grant)
    BY <1>11, RevokeDoes
  <2>2. AdriftIsThere'
    BY <1>a, <1>u, <1>t, <2>1
  <2>3. CarriedIsCertain'
    BY <1>b, <1>r, <1>t, <2>1
  <2>4. RowsAreOfAKind'
    BY <1>c, <2>1
  <2>5. DeletionsKnow'
    BY <1>d, <2>1
  <2>6. UnsubscribesItsOwn'
    BY <1>e, <1>t, <2>1
  <2>7. RevokesItsOwn'
    BY <1>f, <2>1
  <2> QED
    BY <2>2, <2>3, <2>4, <2>5, <2>6, <2>7 DEF CustodyInv
<1>12. ASSUME NEW q \in Call, DeleteRow(q)
      PROVE  CustodyInv'
  <2>1. /\ UNCHANGED <<drawn, subs, grants>>
        /\ calls[q].at = "deleting" /\ calls'[q].at = "idle"
        /\ \A p \in Call : p # q => calls'[p] = calls[p]
        /\ \A d \in Conn : d # calls[q].conn => rows'[d] = rows[d]
        /\ \/ /\ rows[calls[q].conn] # Null /\ rows'[calls[q].conn] = Null
              /\ halted' = halted
              /\ adrift' = adrift
                   \cup (({rows[calls[q].conn].sub} \ {calls[q].sub}) \cap Sub)
                   \cup (({rows[calls[q].conn].grant} \ {calls[q].grant}) \cap Grant)
           \/ /\ rows' = rows /\ adrift' = adrift
              /\ halted' = halted \cup {calls[q].conn}
    BY <1>12, DeleteDoes
  <2>2. AdriftIsThere'
    BY <1>a, <1>c, <1>u, <1>t, <2>1
  <2>3. CarriedIsCertain'
    BY <1>b, <1>o, <1>r, <1>t, <2>1
  <2>4. RowsAreOfAKind'
    BY <1>c, <1>t, <2>1
  <2>5. DeletionsKnow'
    BY <1>d, <2>1
  <2>6. UnsubscribesItsOwn'
    BY <1>e, <1>v, <1>t, <2>1
  <2>7. RevokesItsOwn'
    BY <1>f, <1>v, <1>t, <2>1
  <2> QED
    BY <2>2, <2>3, <2>4, <2>5, <2>6, <2>7 DEF CustodyInv
<1>13. ASSUME NEW c \in Conn, NEW t \in Tenant, ReassignTenant(c, t)
      PROVE  CustodyInv'
  <2>1. /\ UNCHANGED <<drawn, subs, grants, calls, halted, adrift>>
        /\ \A d \in Conn : d # c => rows'[d] = rows[d]
        /\ rows[c] # Null /\ rows'[c] # Null
        /\ rows'[c].sub = rows[c].sub /\ rows'[c].grant = rows[c].grant
    BY <1>13, MoveDoes
  <2>2. AdriftIsThere'
    BY <1>a, <2>1
  <2>3. CarriedIsCertain'
    BY <1>b, <2>1
  <2>4. RowsAreOfAKind'
    BY <1>c, <1>t, <2>1
  <2>5. DeletionsKnow'
    BY <1>d, <2>1
  <2>6. UnsubscribesItsOwn'
    BY <1>e, <1>t, <2>1
  <2>7. RevokesItsOwn'
    BY <1>f, <1>t, <2>1
  <2> QED
    BY <2>2, <2>3, <2>4, <2>5, <2>6, <2>7 DEF CustodyInv
<1>14. ASSUME NEW s \in Sub, Lapse(s)
      PROVE  CustodyInv'
  <2>1. /\ UNCHANGED <<rows, drawn, grants, calls, halted, adrift>>
        /\ subs[s].at = "live" /\ subs'[s].at = "ended" /\ subs'[s].for = subs[s].for
        /\ \A r \in Sub : r # s => subs'[r] = subs[r]
    BY <1>14, LapseDoes
  <2>2. AdriftIsThere'
    BY <1>a, <2>1
  <2>3. CarriedIsCertain'
    BY <1>b, <2>1
  <2>4. RowsAreOfAKind'
    BY <1>c, <1>t, <2>1
  <2>5. DeletionsKnow'
    BY <1>d, <2>1
  <2>6. UnsubscribesItsOwn'
    BY <1>e, <2>1
  <2>7. RevokesItsOwn'
    BY <1>f, <2>1
  <2> QED
    BY <2>2, <2>3, <2>4, <2>5, <2>6, <2>7 DEF CustodyInv
<1>15. ASSUME Restart
      PROVE  CustodyInv'
  <2>1. /\ UNCHANGED <<rows, drawn, subs, grants>>
        /\ \A p \in Call : calls'[p].at = "idle"
        /\ \A x : x \in adrift' <=>
             \/ x \in adrift
             \/ \E q \in Call : \/ calls[q].at = "subscribed" /\ x = calls[q].sub
                                \/ calls[q].at = "granted" /\ x = calls[q].grant
        /\ \A d : d \in halted' <=>
             \/ d \in halted
             \/ \E q \in Call : calls[q].at \in Deleting /\ d = calls[q].conn
    BY <1>15, RestartDoes
  <2>2. AdriftIsThere'
    BY <1>a, <1>s, <1>r, <1>t, <2>1
  <2>3. CarriedIsCertain'
    BY <1>b, <2>1
  <2>4. RowsAreOfAKind'
    BY <1>c, <2>1
  <2>5. DeletionsKnow'
    BY <1>d, <2>1
  <2>6. UnsubscribesItsOwn'
    BY <1>e, <2>1
  <2>7. RevokesItsOwn'
    BY <1>f, <2>1
  <2> QED
    BY <2>2, <2>3, <2>4, <2>5, <2>6, <2>7 DEF CustodyInv
<1> QED
  BY <1>1, <1>2, <1>3, <1>4, <1>5, <1>6, <1>7, <1>8, <1>9, <1>10, <1>11, <1>12, <1>13, <1>14,
     <1>15, StepsThatMatter DEF RemoteStep

-----------------------------------------------------------------------------
(* The service implements Custody: the initial states map to its initial    *)
(* state.                                                                   *)
LEMMA CustodyBegins == LifeInit => Trust!Init
<1> SUFFICES ASSUME LifeInit
             PROVE  Trust!Init
  OBVIOUS
<1>1. LiveThings = {} /\ EndedThings = {} /\ adrift = {}
  BY DEF LifeInit, LiveThings, EndedThings
<1>2. \A c \in Conn : Keeps(c) = {} /\ StageOf(c) = "unborn"
  BY DEF LifeInit, Keeps, StageOf
<1> QED
  BY <1>1, <1>2 DEF Trust!Init

(* Every step maps to a step of Custody, or changes nothing there.          *)
LEMMA LifeStepImplements ==
    TypeInv /\ PushInv /\ GrantInv /\ CustodyInv /\ [LifeNext]_lifeVars =>
        [Trust!Next]_(Trust!custody)
<1> SUFFICES ASSUME TypeInv, PushInv, GrantInv, CustodyInv, [LifeNext]_lifeVars
             PROVE  Trust!Change \/ UNCHANGED Trust!custody
  BY DEF Trust!Next
<1> DEFINE Live == LiveThings
           Hands == Carried(Call)
           Closing(d) == d \in halted \/ \E p \in Call : calls[p].at \in Deleting /\ calls[p].conn = d
<1>a. AdriftIsThere /\ CarriedIsCertain /\ RowsAreOfAKind /\ DeletionsKnow /\ RowsAreDrawn
  BY DEF CustodyInv, PushInv
<1>t. /\ \A q \in Call :
           /\ calls[q].at = "subscribed" => calls[q].sub \in Sub
           /\ calls[q].at = "granted" => calls[q].grant \in Grant
           /\ calls[q].at \in Pushing \cup Deleting => calls[q].conn \in Conn
      /\ \A c \in Conn : rows[c] # Null =>
           rows[c].sub \in Sub \cup {Null} /\ rows[c].grant \in Grant \cup {Null}
      /\ Sub \cap Grant = {} /\ Null \notin Sub \cup Grant
  BY LifeAssumption DEF TypeInv, LifeTypeOK, CallsAreTyped, RowKept, Pushing, Deleting
<1>s. \A q \in Call : calls[q].at = "subscribed" =>
        /\ subs[calls[q].sub].at # "unborn" /\ subs[calls[q].sub].for = calls[q].conn
        /\ rows[calls[q].conn] # Null => rows[calls[q].conn].sub = Null
        /\ \A p \in Call : calls[p].at = "subscribed" /\ calls[p].sub = calls[q].sub => p = q
  <2>1. AskedOnce /\ AnsweredForItsOwn
    BY DEF PushInv
  <2> QED
    BY <2>1 DEF AskedOnce, AnsweredForItsOwn, Pushing
<1>r. \A q \in Call : calls[q].at = "granted" =>
        /\ grants[calls[q].grant] = "live"
        /\ \A c \in Conn : rows[c] # Null => rows[c].grant # calls[q].grant
        /\ \A p \in Call :
             /\ calls[p].at = "granted" /\ calls[p].grant = calls[q].grant => p = q
             /\ calls[p].at \in {"revoking", "deleting"} => calls[p].grant # calls[q].grant
  BY <1>t DEF GrantInv, GrantedIsLive, RevokedIsItsOwn
<1>o. \A q \in Call : calls[q].at = "subscribed" =>
        \A c \in Conn : rows[c] # Null => rows[c].sub # calls[q].sub
  BY <1>a, <1>s, <1>t DEF RowsAreOfAKind
<1>u. /\ \A c \in Conn : rows[c] # Null /\ rows[c].grant # Null => grants[rows[c].grant] # "unborn"
      /\ \A q \in Call : calls[q].at \in {"revoking", "deleting"} /\ calls[q].grant \in Grant =>
           grants[calls[q].grant] # "unborn"
  BY DEF GrantInv, OneRowPerGrant, RevokedIsItsOwn
<1>v. /\ \A q \in Call : calls[q].at \in {"revoking", "deleting"} /\ calls[q].sub \in Sub =>
           subs[calls[q].sub].at = "ended" \/ calls[q].sub \in adrift
      /\ \A q \in Call : calls[q].at = "deleting" /\ calls[q].grant \in Grant =>
           grants[calls[q].grant] = "revoked" \/ calls[q].grant \in adrift
  BY DEF PushInv, UnsubscribedOrAdrift, GrantInv, RevokedOrAdrift
<1>L. /\ \A x : x \in LiveThings <=> \/ x \in Sub /\ subs[x].at = "live"
                                     \/ x \in Grant /\ grants[x] = "live"
      /\ \A x : x \in LiveThings' <=> \/ x \in Sub /\ subs'[x].at = "live"
                                      \/ x \in Grant /\ grants'[x] = "live"
  BY DEF LiveThings
<1>E. /\ \A x : x \in EndedThings <=> \/ x \in Sub /\ subs[x].at = "ended"
                                      \/ x \in Grant /\ grants[x] = "revoked"
      /\ \A x : x \in EndedThings' <=> \/ x \in Sub /\ subs'[x].at = "ended"
                                       \/ x \in Grant /\ grants'[x] = "revoked"
  BY DEF EndedThings
<1>C. /\ \A x : x \in Hands <=>
           \E p \in Call : \/ calls[p].at = "subscribed" /\ x = calls[p].sub
                           \/ calls[p].at = "granted" /\ x = calls[p].grant
      /\ \A x : x \in Hands' <=>
           \E p \in Call : \/ calls'[p].at = "subscribed" /\ x = calls'[p].sub
                           \/ calls'[p].at = "granted" /\ x = calls'[p].grant
  BY DEF Carried
<1>K. /\ \A d \in Conn : \A x : x \in Keeps(d) <=>
           /\ rows[d] # Null /\ (x = rows[d].sub \/ x = rows[d].grant)
           /\ x \in LiveThings /\ x \notin adrift
      /\ \A d \in Conn : \A x : x \in Keeps(d)' <=>
           /\ rows'[d] # Null /\ (x = rows'[d].sub \/ x = rows'[d].grant)
           /\ x \in LiveThings' /\ x \notin adrift'
  BY DEF Keeps
<1>S. /\ \A d \in Conn : StageOf(d) =
           IF d \notin drawn THEN "unborn" ELSE IF rows[d] = Null THEN "gone"
           ELSE IF Closing(d) THEN "closing" ELSE "open"
      /\ \A d \in Conn : StageOf(d)' =
           IF d \notin drawn' THEN "unborn" ELSE IF rows'[d] = Null THEN "gone"
           ELSE IF Closing(d)' THEN "closing" ELSE "open"
  BY DEF StageOf, BeingDeleted
<1> HIDE DEF Hands, Closing
<1>1. CASE UNCHANGED <<rows, drawn, remoteVars, calls, halted, adrift>>
  BY <1>1 DEF Trust!custody, remoteVars, LiveThings, EndedThings, Carried, Keeps, StageOf,
       BeingDeleted
<1>2. ASSUME NEW q \in Call, NEW t \in Tenant, NEW f \in Config, NEW b \in Base, NEW c \in Conn,
             CreateConnector(q, t, f, b, c)
      PROVE  Trust!Change
  <2>1. /\ UNCHANGED <<subs, grants, halted, adrift>>
        /\ c \notin drawn /\ drawn' = drawn \cup {c} /\ rows[c] = Null
        /\ \A d \in Conn : d # c => rows'[d] = rows[d]
        /\ rows'[c] # Null /\ rows'[c].sub = Null /\ rows'[c].grant = Null
        /\ \A p \in Call : p # q => calls'[p] = calls[p]
        /\ calls[q].at = "idle"
        /\ \/ calls'[q] = calls[q]
           \/ calls'[q].at = "subscribing" /\ calls'[q].conn = c /\ KindOf[c] = "mail"
    BY <1>a, <1>2, CreateDoes
  <2>2. UNCHANGED <<LiveThings, EndedThings>>
    BY <2>1 DEF LiveThings, EndedThings
  <2>3. \A x : x \in Hands' <=> x \in Hands
    BY <1>C, <2>1
  <2>4. \A d \in Conn : \A x : x \in Keeps(d)' <=> x \in Keeps(d)
    <3>1. Null \notin LiveThings
      BY <1>L, LifeAssumption
    <3> QED
      BY <1>K, <2>1, <2>2, <3>1
  <2>5. \A d \in Conn : StageOf(d)' = IF d = c THEN "open" ELSE StageOf(d)
    <3>1. \A d \in Conn : Closing(d)' <=> Closing(d)
      BY <2>1 DEF Closing, Deleting
    <3>2. ~Closing(c)
      BY <1>a, <2>1 DEF Closing, DeletionsKnow
    <3> QED
      BY <1>S, <2>1, <3>1, <3>2
  <2>6. Trust!Open(c)
    BY <1>S, <2>1, <2>2, <2>3, <2>4, <2>5 DEF Trust!Open, Hands
  <2> QED
    BY <2>6 DEF Trust!Change
<1>3. ASSUME NEW q \in Call, NEW s \in Sub, Subscribe(q, s)
      PROVE  Trust!Change
  <2>1. /\ UNCHANGED <<rows, drawn, grants, halted>>
        /\ calls[q].at = "subscribing" /\ subs[s].at = "unborn"
        /\ subs'[s].at = "live" /\ subs'[s].for = calls[q].conn
        /\ \A r \in Sub : r # s => subs'[r] = subs[r]
        /\ \A p \in Call : p # q => calls'[p] = calls[p]
        /\ \/ /\ calls'[q].at = "subscribed" /\ calls'[q].sub = s
              /\ calls'[q].conn = calls[q].conn /\ adrift' = adrift
           \/ calls'[q].at = "idle" /\ adrift' = adrift \cup {s}
    BY <1>3, SubscribeDoes
  <2>2. s \notin Grant /\ s \notin Hands /\ s \notin adrift
        /\ \A c \in Conn : rows[c] # Null => rows[c].sub # s /\ rows[c].grant # s
    BY <1>a, <1>t, <1>s, <1>C, <2>1 DEF AdriftIsThere, RowsAreOfAKind
  <2>3. s \notin LiveThings \cup EndedThings
    BY <1>L, <1>E, <2>1, <2>2
  <2>4. \A x : /\ x \in LiveThings' <=> x \in LiveThings \/ x = s
               /\ x \in EndedThings' <=> x \in EndedThings
    BY <1>L, <1>E, <2>1, <2>2
  <2>5. \A d \in Conn : \A x : x \in Keeps(d)' <=> x \in Keeps(d)
    BY <1>K, <2>1, <2>2, <2>4
  <2>6. \A d \in Conn : StageOf(d)' = StageOf(d)
    <3>1. \A d \in Conn : Closing(d)' <=> Closing(d)
      BY <2>1 DEF Closing, Deleting
    <3> QED
      BY <1>S, <2>1, <3>1
  <2>7. CASE calls'[q].at = "subscribed" /\ calls'[q].sub = s /\ adrift' = adrift
    <3>1. \A x : x \in Hands' <=> x \in Hands \/ x = s
      BY <1>C, <2>1, <2>7
    <3>2. Trust!Obtain(s)
      BY <2>2, <2>3, <2>4, <2>5, <2>6, <2>7, <3>1 DEF Trust!Obtain, Hands
    <3> QED
      BY <3>2 DEF Trust!Change, Trust!ThingStep
  <2>8. CASE calls'[q].at = "idle" /\ adrift' = adrift \cup {s}
    <3>1. \A x : x \in Hands' <=> x \in Hands
      BY <1>C, <2>1, <2>8
    <3>2. Trust!Miss(s)
      BY <2>2, <2>3, <2>4, <2>5, <2>6, <2>8, <3>1 DEF Trust!Miss, Hands
    <3> QED
      BY <3>2 DEF Trust!Change, Trust!ThingStep
  <2> QED
    BY <2>1, <2>7, <2>8
<1>4. ASSUME NEW q \in Call, BreaksOff(q)
      PROVE  Trust!Change
  <2> DEFINE X == {x \in Carried({q}) : x \in LiveThings}
  <2>1. /\ UNCHANGED <<rows, drawn, subs, grants>>
        /\ calls'[q].at = "idle"
        /\ \A p \in Call : p # q => calls'[p] = calls[p]
        /\ \A x : x \in adrift' <=> \/ x \in adrift
                                    \/ calls[q].at = "subscribed" /\ x = calls[q].sub
                                    \/ calls[q].at = "granted" /\ x = calls[q].grant
        /\ \A d : d \in halted' <=> \/ d \in halted
                                    \/ calls[q].at \in Deleting /\ d = calls[q].conn
    BY <1>4, BreakDoes
  <2>2. \A x : x \in X <=> /\ x \in LiveThings
                           /\ \/ calls[q].at = "subscribed" /\ x = calls[q].sub
                              \/ calls[q].at = "granted" /\ x = calls[q].grant
    BY DEF Carried
  <2> HIDE DEF X
  <2>3. UNCHANGED <<LiveThings, EndedThings>>
    BY <2>1 DEF LiveThings, EndedThings
  <2>4. \A x \in X : x \in Hands
    BY <1>C, <2>2
  <2>5. \A x \in LiveThings : x \in Hands' <=> x \in Hands /\ x \notin X
    <3>1. \A p \in Call : calls'[p].at \in {"subscribed", "granted"} => p # q
      BY <2>1
    <3>2. \A x : x \in Hands' <=> \E p \in Call : /\ p # q
                                     /\ \/ calls[p].at = "subscribed" /\ x = calls[p].sub
                                        \/ calls[p].at = "granted" /\ x = calls[p].grant
      BY <1>C, <2>1, <3>1
    <3>3. \A p \in Call, x \in X : p # q =>
            /\ calls[p].at = "subscribed" => x # calls[p].sub
            /\ calls[p].at = "granted" => x # calls[p].grant
      BY <1>t, <1>s, <1>r, <2>2
    <3> QED
      BY <1>C, <2>2, <3>2, <3>3
  <2>6. \A d \in Conn : \A x : x \in Keeps(d)' <=> x \in Keeps(d)
    <3>1. \A d \in Conn, x \in X : rows[d] # Null => rows[d].sub # x /\ rows[d].grant # x
      BY <1>t, <1>o, <1>r, <2>2
    <3> QED
      BY <1>K, <2>1, <2>2, <2>3, <3>1
  <2>7. \A d \in Conn : StageOf(d)' = StageOf(d)
    <3>1. \A d \in Conn : Closing(d)' <=> Closing(d)
      BY <2>1 DEF Closing, Deleting
    <3> QED
      BY <1>S, <2>1, <3>1
  <2>8. Trust!Drop(X)
    BY <2>1, <2>2, <2>3, <2>4, <2>5, <2>6, <2>7 DEF Trust!Drop, Hands
  <2>9. X \in SUBSET (Hands \cap LiveThings)
    BY <2>2, <2>4
  <2> QED
    BY <2>8, <2>9 DEF Trust!Change, Hands
<1>5. ASSUME NEW q \in Call, RecordSubscription(q)
      PROVE  Trust!Change \/ UNCHANGED Trust!custody
  <2> DEFINE s == calls[q].sub
             c == calls[q].conn
  <2>1. /\ UNCHANGED <<drawn, subs, grants, halted>>
        /\ calls[q].at = "subscribed" /\ calls'[q].at = "idle"
        /\ \A p \in Call : p # q => calls'[p] = calls[p]
        /\ \A d \in Conn : d # c => rows'[d] = rows[d]
        /\ \/ rows' = rows /\ adrift' = adrift \cup {s}
           \/ /\ adrift' = adrift
              /\ rows[c] # Null /\ rows'[c] # Null
              /\ rows'[c].sub = s /\ rows'[c].grant = rows[c].grant
    BY <1>5, RecordDoes
  <2>2. /\ s \in Sub /\ s \notin Grant /\ s \in Hands /\ s \notin adrift
        /\ c \in Conn /\ KindOf[c] = "mail"
        /\ \A d \in Conn : rows[d] # Null => rows[d].sub # s /\ rows[d].grant # s
    BY <1>a, <1>t, <1>o, <1>C, <2>1 DEF CarriedIsCertain, RowsAreOfAKind, Pushing
  <2>3. rows[c] # Null => rows[c].sub = Null /\ rows[c].grant = Null
    BY <1>a, <1>s, <2>1, <2>2 DEF RowsAreOfAKind
  <2>4. UNCHANGED <<LiveThings, EndedThings>>
    BY <2>1 DEF LiveThings, EndedThings
  <2>5. \A x : x \in Hands' <=> x \in Hands /\ x # s
    <3>1. \A p \in Call : calls'[p].at \in {"subscribed", "granted"} => p # q
      BY <2>1
    <3>2. \A x : x \in Hands' <=> \E p \in Call : /\ p # q
                                     /\ \/ calls[p].at = "subscribed" /\ x = calls[p].sub
                                        \/ calls[p].at = "granted" /\ x = calls[p].grant
      BY <1>C, <2>1, <3>1
    <3>3. \A p \in Call : p # q => /\ calls[p].at = "subscribed" => s # calls[p].sub
                                   /\ calls[p].at = "granted" => s # calls[p].grant
      BY <1>t, <1>s, <2>1, <2>2
    <3> QED
      BY <1>C, <2>1, <3>2, <3>3
  <2>6. \A d \in Conn : StageOf(d)' = StageOf(d)
    <3>1. \A d \in Conn : Closing(d)' <=> Closing(d)
      BY <2>1 DEF Closing, Deleting
    <3> QED
      BY <1>S, <2>1, <3>1
  <2>7. CASE rows' = rows /\ adrift' = adrift \cup {s}
    <3>1. \A d \in Conn : \A x : x \in Keeps(d)' <=> x \in Keeps(d)
      BY <1>K, <2>1, <2>2, <2>4, <2>7
    <3>2. Trust!Drop({s} \cap LiveThings)
      BY <2>2, <2>4, <2>5, <2>6, <2>7, <3>1 DEF Trust!Drop, Hands
    <3>3. {s} \cap LiveThings \in SUBSET (Hands \cap LiveThings)
      BY <2>2
    <3> QED
      BY <3>2, <3>3 DEF Trust!Change, Hands
  <2>8. CASE /\ adrift' = adrift
             /\ rows[c] # Null /\ rows'[c] # Null
             /\ rows'[c].sub = s /\ rows'[c].grant = rows[c].grant
    <3>1. Null \notin LiveThings
      BY <1>L, <1>t
    <3>2. \A x : x \notin Keeps(c)
      BY <1>K, <2>2, <2>3, <2>8, <3>1
    <3>3. \A d \in Conn : \A x : x \in Keeps(d)' <=>
            IF d = c THEN x = s /\ s \in LiveThings ELSE x \in Keeps(d)
      BY <1>K, <2>1, <2>2, <2>3, <2>4, <2>8, <3>1
    <3>4. StageOf(c) \in {"open", "closing"}
      BY <1>a, <1>S, <2>2, <2>8 DEF RowsAreDrawn
    <3>5. CASE s \in LiveThings
      <4>1. Trust!Entrust(s, c)
        BY <2>2, <2>4, <2>5, <2>6, <2>8, <3>2, <3>3, <3>4, <3>5
           DEF Trust!Entrust, Trust!Entrusted, Hands
      <4> QED
        BY <2>2, <4>1 DEF Trust!Change, Trust!ThingStep
    <3>6. CASE s \notin LiveThings
      BY <2>4, <2>5, <2>6, <2>8, <3>2, <3>3, <3>6 DEF Trust!custody, Hands
    <3> QED
      BY <3>5, <3>6
  <2> QED
    BY <2>1, <2>7, <2>8
<1>6. ASSUME NEW q \in Call, NEW g \in Grant, Exchange(q, g)
      PROVE  Trust!Change
  <2>1. /\ UNCHANGED <<rows, drawn, subs, halted>>
        /\ calls[q].at = "exchanging" /\ grants[g] = "unborn"
        /\ grants'[g] = "live" /\ \A h \in Grant : h # g => grants'[h] = grants[h]
        /\ \A p \in Call : p # q => calls'[p] = calls[p]
        /\ \/ calls'[q].at = "granted" /\ calls'[q].grant = g /\ adrift' = adrift
           \/ calls'[q].at = "idle" /\ adrift' = adrift \cup {g}
    BY <1>6, ExchangeDoes
  <2>2. g \notin Sub /\ g \notin Hands /\ g \notin adrift
        /\ \A c \in Conn : rows[c] # Null => rows[c].sub # g /\ rows[c].grant # g
    BY <1>a, <1>t, <1>r, <1>u, <1>C, <2>1 DEF AdriftIsThere
  <2>3. g \notin LiveThings \cup EndedThings
    BY <1>L, <1>E, <2>1, <2>2
  <2>4. \A x : /\ x \in LiveThings' <=> x \in LiveThings \/ x = g
               /\ x \in EndedThings' <=> x \in EndedThings
    BY <1>L, <1>E, <2>1, <2>2
  <2>5. \A d \in Conn : \A x : x \in Keeps(d)' <=> x \in Keeps(d)
    BY <1>K, <2>1, <2>2, <2>4
  <2>6. \A d \in Conn : StageOf(d)' = StageOf(d)
    <3>1. \A d \in Conn : Closing(d)' <=> Closing(d)
      BY <2>1 DEF Closing, Deleting
    <3> QED
      BY <1>S, <2>1, <3>1
  <2>7. CASE calls'[q].at = "granted" /\ calls'[q].grant = g /\ adrift' = adrift
    <3>1. \A x : x \in Hands' <=> x \in Hands \/ x = g
      BY <1>C, <2>1, <2>7
    <3>2. Trust!Obtain(g)
      BY <2>2, <2>3, <2>4, <2>5, <2>6, <2>7, <3>1 DEF Trust!Obtain, Hands
    <3> QED
      BY <3>2 DEF Trust!Change, Trust!ThingStep
  <2>8. CASE calls'[q].at = "idle" /\ adrift' = adrift \cup {g}
    <3>1. \A x : x \in Hands' <=> x \in Hands
      BY <1>C, <2>1, <2>8
    <3>2. Trust!Miss(g)
      BY <2>2, <2>3, <2>4, <2>5, <2>6, <2>8, <3>1 DEF Trust!Miss, Hands
    <3> QED
      BY <3>2 DEF Trust!Change, Trust!ThingStep
  <2> QED
    BY <2>1, <2>7, <2>8
<1>7. ASSUME NEW q \in Call, NEW c \in Conn, CreatePending(q, c) \/ Redeem(q, c)
      PROVE  Trust!Change
  <2>1. /\ UNCHANGED <<subs, grants, halted, adrift>>
        /\ c \notin drawn /\ drawn' = drawn \cup {c} /\ rows[c] = Null
        /\ \A d \in Conn : d # c => rows'[d] = rows[d]
        /\ rows'[c] # Null /\ rows'[c].sub = Null
        /\ calls'[q].at = "idle"
        /\ \A p \in Call : p # q => calls'[p] = calls[p]
        /\ \/ /\ calls[q].at = "granted" /\ rows'[c].grant = calls[q].grant
              /\ KindOf[c] = "drive"
           \/ calls[q].at = "redeeming" /\ rows'[c].grant = Null
    BY <1>a, <1>7, FoundDoes
  <2>2. UNCHANGED <<LiveThings, EndedThings>>
    BY <2>1 DEF LiveThings, EndedThings
  <2>3. Null \notin LiveThings /\ \A x : x \notin Keeps(c)
    BY <1>L, <1>t, <1>K, <2>1
  <2>4. StageOf(c) = "unborn" /\ \A d \in Conn : StageOf(d)' = IF d = c THEN "open" ELSE StageOf(d)
    <3>1. \A d \in Conn : Closing(d)' <=> Closing(d)
      BY <2>1 DEF Closing, Deleting
    <3>2. ~Closing(c)
      BY <1>a, <2>1 DEF Closing, DeletionsKnow
    <3> QED
      BY <1>S, <2>1, <3>1, <3>2
  <2>5. \A x : x \in Hands' <=> \E p \in Call : /\ p # q
                                   /\ \/ calls[p].at = "subscribed" /\ x = calls[p].sub
                                      \/ calls[p].at = "granted" /\ x = calls[p].grant
    <3>1. \A p \in Call : calls'[p].at \in {"subscribed", "granted"} => p # q
      BY <2>1
    <3> QED
      BY <1>C, <2>1, <3>1
  <2>6. CASE calls[q].at = "granted" /\ rows'[c].grant = calls[q].grant
    <3> DEFINE g == calls[q].grant
    <3>1. g \in Grant /\ g \in LiveThings /\ g \in Hands /\ g \notin adrift
      BY <1>a, <1>t, <1>r, <1>L, <1>C, <2>6 DEF CarriedIsCertain
    <3>2. \A x : x \in Hands' <=> x \in Hands /\ x # g
      <4>1. \A p \in Call : p # q => /\ calls[p].at = "subscribed" => g # calls[p].sub
                                     /\ calls[p].at = "granted" => g # calls[p].grant
        BY <1>t, <1>r, <2>6, <3>1
      <4> QED
        BY <1>C, <2>5, <2>6, <4>1
    <3>3. \A d \in Conn : \A x : x \in Keeps(d)' <=> IF d = c THEN x = g ELSE x \in Keeps(d)
      BY <1>K, <2>1, <2>2, <2>3, <2>6, <3>1
    <3>4. Trust!Found(g, c)
      BY <2>1, <2>2, <2>3, <2>4, <3>1, <3>2, <3>3 DEF Trust!Found, Trust!Entrusted, Hands
    <3> QED
      BY <3>1, <3>4 DEF Trust!Change, Trust!ThingStep
  <2>7. CASE calls[q].at = "redeeming" /\ rows'[c].grant = Null
    <3>1. \A x : x \in Hands' <=> x \in Hands
      BY <1>C, <2>5, <2>7
    <3>2. \A d \in Conn : \A x : x \in Keeps(d)' <=> x \in Keeps(d)
      BY <1>K, <2>1, <2>2, <2>3, <2>7
    <3>3. Trust!Open(c)
      BY <2>1, <2>2, <2>4, <3>1, <3>2 DEF Trust!Open, Hands
    <3> QED
      BY <3>3 DEF Trust!Change
  <2> QED
    BY <2>1, <2>6, <2>7
<1>8. ASSUME NEW q \in Call, NEW t \in Tenant,
             \/ \E f \in Config, b \in Base : BeginExchange(q, t, f, b)
             \/ \E st \in states : FinishConsent(q, st, t)
      PROVE  UNCHANGED Trust!custody
  <2>1. /\ UNCHANGED <<rows, drawn, subs, grants, halted, adrift>>
        /\ calls[q].at = "idle" /\ calls'[q].at \in {"exchanging", "redeeming"}
        /\ \A p \in Call : p # q => calls'[p] = calls[p]
    BY <1>8, BeginDoes
  <2>2. UNCHANGED <<LiveThings, EndedThings>>
    BY <2>1 DEF LiveThings, EndedThings
  <2>3. \A x : x \in Hands' <=> x \in Hands
    BY <1>C, <2>1
  <2>4. \A d \in Conn : \A x : x \in Keeps(d)' <=> x \in Keeps(d)
    BY <1>K, <2>1, <2>2
  <2>5. \A d \in Conn : StageOf(d)' = StageOf(d)
    <3>1. \A d \in Conn : Closing(d)' <=> Closing(d)
      BY <2>1 DEF Closing, Deleting
    <3> QED
      BY <1>S, <2>1, <3>1
  <2> QED
    BY <2>1, <2>2, <2>3, <2>4, <2>5 DEF Trust!custody, Hands
<1>9. ASSUME NEW q \in Call, NEW t \in Tenant, NEW c \in Conn, BeginDelete(q, t, c)
      PROVE  Trust!Change \/ UNCHANGED Trust!custody
  <2>1. /\ UNCHANGED <<rows, drawn, subs, grants, halted, adrift>>
        /\ rows[c] # Null /\ calls[q].at = "idle"
        /\ \A p \in Call : p # q => calls'[p] = calls[p]
        /\ calls'[q].at = "unsubscribing" /\ calls'[q].conn = c
        /\ calls'[q].sub = rows[c].sub /\ calls'[q].grant = Null
    BY <1>9, DeletionDoes
  <2>2. UNCHANGED <<LiveThings, EndedThings>>
    BY <2>1 DEF LiveThings, EndedThings
  <2>3. \A x : x \in Hands' <=> x \in Hands
    BY <1>C, <2>1
  <2>4. \A d \in Conn : \A x : x \in Keeps(d)' <=> x \in Keeps(d)
    BY <1>K, <2>1, <2>2
  <2>5. \A d \in Conn : Closing(d)' <=> Closing(d) \/ d = c
    BY <2>1 DEF Closing, Deleting
  <2>6. StageOf(c) \in {"open", "closing"}
        /\ \A d \in Conn : StageOf(d)' = IF d = c THEN "closing" ELSE StageOf(d)
    BY <1>a, <1>S, <2>1, <2>5 DEF RowsAreDrawn
  <2>7. CASE StageOf(c) = "open"
    <3>1. Trust!Close(c)
      BY <2>1, <2>2, <2>3, <2>4, <2>6, <2>7 DEF Trust!Close, Hands
    <3> QED
      BY <3>1 DEF Trust!Change
  <2>8. CASE StageOf(c) = "closing"
    BY <2>1, <2>2, <2>3, <2>4, <2>6, <2>8 DEF Trust!custody, Hands
  <2> QED
    BY <2>6, <2>7, <2>8
<1>10. ASSUME NEW q \in Call, Unsubscribe(q)
       PROVE  Trust!Change \/ UNCHANGED Trust!custody
  <2> DEFINE s == calls[q].sub
             c == calls[q].conn
  <2>1. /\ UNCHANGED <<rows, drawn, grants, halted>>
        /\ calls[q].at = "unsubscribing" /\ calls'[q].at = "revoking"
        /\ calls'[q].conn = c
        /\ \A p \in Call : p # q => calls'[p] = calls[p]
        /\ \A r \in Sub : r # s => subs'[r] = subs[r]
        /\ \/ /\ adrift' = adrift
              /\ \A r \in Sub : r = s => subs'[r].at = "ended"
           \/ subs' = subs /\ adrift' = adrift \cup ({s} \cap Sub)
    BY <1>10, UnsubscribeDoes
  <2>2. \A x : x \in Hands' <=> x \in Hands
    BY <1>C, <2>1
  <2>3. \A d \in Conn : StageOf(d)' = StageOf(d)
    <3>1. \A d \in Conn : Closing(d)' <=> Closing(d)
      BY <2>1 DEF Closing, Deleting
    <3> QED
      BY <1>S, <2>1, <3>1
  <2>4. CASE s \notin LiveThings
    <3>1. s \in Sub => subs[s].at = "ended"
      BY <1>a, <1>L, <2>1, <2>4 DEF DeletionsKnow, Deleting, TypeInv, LifeTypeOK
    <3>2. \A x : /\ x \in LiveThings' <=> x \in LiveThings
                 /\ x \in EndedThings' <=> x \in EndedThings
      BY <1>L, <1>E, <2>1, <3>1
    <3>3. \A x \in LiveThings : x \in adrift' <=> x \in adrift
      BY <2>1, <2>4
    <3>4. \A d \in Conn : \A x : x \in Keeps(d)' <=> x \in Keeps(d)
      BY <1>K, <2>1, <3>2, <3>3
    <3> QED
      BY <2>1, <2>2, <2>3, <3>2, <3>3, <3>4 DEF Trust!custody, Hands
  <2>5. CASE s \in LiveThings
    <3>1. s \in Sub /\ s \notin Grant /\ subs[s].at = "live" /\ s \notin Hands
          /\ c \in Conn /\ c \in drawn
      <4>1. s \in Sub /\ s \notin Grant
        BY <1>L, <1>t, <2>1, <2>5 DEF TypeInv, LifeTypeOK, CallKept
      <4>2. subs[s].at = "live"
        BY <1>L, <2>5, <4>1
      <4>3. s \notin Hands
        BY <1>a, <1>t, <1>C, <2>1, <4>1 DEF DeletionsKnow, Deleting
      <4> QED
        BY <1>a, <1>t, <2>1, <4>1, <4>2, <4>3 DEF DeletionsKnow, Deleting
    <3>2. \A d \in Conn : s \in Keeps(d) => d = c
      <4>1. s \notin adrift => rows[c] # Null /\ rows[c].sub = s
        BY <2>1, <3>1 DEF CustodyInv, UnsubscribesItsOwn
      <4> QED
        BY <1>a, <1>t, <1>K, <3>1, <4>1 DEF RowsAreOfAKind
    <3>3. s \notin adrift => s \in Keeps(c) /\ StageOf(c) = "closing"
      <4>1. s \notin adrift => rows[c] # Null /\ rows[c].sub = s
        BY <2>1, <3>1 DEF CustodyInv, UnsubscribesItsOwn
      <4>2. Closing(c)
        BY <2>1 DEF Closing, Deleting
      <4> QED
        BY <1>K, <1>S, <2>5, <3>1, <4>1, <4>2
    <3>4. CASE adrift' = adrift /\ \A r \in Sub : r = s => subs'[r].at = "ended"
      <4>1. \A x : /\ x \in LiveThings' <=> x \in LiveThings /\ x # s
                   /\ x \in EndedThings' <=> x \in EndedThings \/ x = s
        BY <1>L, <1>E, <2>1, <3>1, <3>4
      <4>2. \A d \in Conn : \A x : x \in Keeps(d)' <=> x \in Keeps(d) /\ x # s
        BY <1>K, <2>1, <3>4, <4>1
      <4>3. CASE s \in adrift
        <5>1. \A d \in Conn : \A x : x \in Keeps(d)' <=> x \in Keeps(d)
          BY <1>K, <4>2, <4>3
        <5>2. Trust!Reclaim(s)
          BY <2>2, <2>3, <2>5, <3>1, <3>4, <4>1, <4>3, <5>1 DEF Trust!Reclaim, Trust!Ends, Hands
        <5> QED
          BY <3>1, <5>2 DEF Trust!Change, Trust!ThingStep
      <4>4. CASE s \notin adrift
        <5>1. \A d \in Conn : \A x : x \in Keeps(d)' <=> x \in Keeps(d) /\ (d = c => x # s)
          BY <3>2, <4>2
        <5>2. Trust!Release(s, c)
          BY <2>2, <2>3, <3>1, <3>3, <3>4, <4>1, <4>4, <5>1 DEF Trust!Release, Trust!Ends, Hands
        <5> QED
          BY <3>1, <5>2 DEF Trust!Change, Trust!ThingStep
      <4> QED
        BY <4>3, <4>4
    <3>5. CASE subs' = subs /\ adrift' = adrift \cup ({s} \cap Sub)
      <4>1. UNCHANGED <<LiveThings, EndedThings>>
        BY <2>1, <3>5 DEF LiveThings, EndedThings
      <4>2. \A x : x \in adrift' <=> x \in adrift \/ x = s
        BY <3>1, <3>5
      <4>3. CASE s \in adrift
        <5>1. \A d \in Conn : \A x : x \in Keeps(d)' <=> x \in Keeps(d)
          BY <1>K, <2>1, <4>1, <4>2, <4>3
        <5> QED
          BY <2>2, <2>3, <4>1, <4>2, <4>3, <5>1 DEF Trust!custody, Hands
      <4>4. CASE s \notin adrift
        <5>1. \A d \in Conn : \A x : x \in Keeps(d)' <=> x \in Keeps(d) /\ (d = c => x # s)
          BY <1>K, <2>1, <3>2, <4>1, <4>2
        <5>2. Trust!Forfeit(s, c)
          BY <2>2, <2>3, <2>5, <3>1, <3>3, <4>1, <4>2, <4>4, <5>1 DEF Trust!Forfeit, Hands
        <5> QED
          BY <3>1, <5>2 DEF Trust!Change, Trust!ThingStep
      <4> QED
        BY <4>3, <4>4
    <3> QED
      BY <2>1, <3>4, <3>5
  <2> QED
    BY <2>4, <2>5
<1>11. ASSUME NEW q \in Call, Revoke(q)
       PROVE  Trust!Change \/ UNCHANGED Trust!custody
  <2> DEFINE g == calls[q].grant
             c == calls[q].conn
  <2>1. /\ UNCHANGED <<rows, drawn, subs, halted>>
        /\ calls[q].at = "revoking" /\ calls'[q].at = "deleting"
        /\ calls'[q].conn = c
        /\ \A p \in Call : p # q => calls'[p] = calls[p]
        /\ \A h \in Grant : h # g => grants'[h] = grants[h]
        /\ \/ /\ adrift' = adrift
              /\ \A h \in Grant : h = g => grants'[h] = "revoked"
           \/ grants' = grants /\ adrift' = adrift \cup ({g} \cap Grant)
    BY <1>11, RevokeDoes
  <2>2. \A x : x \in Hands' <=> x \in Hands
    BY <1>C, <2>1
  <2>3. \A d \in Conn : StageOf(d)' = StageOf(d)
    <3>1. \A d \in Conn : Closing(d)' <=> Closing(d)
      BY <2>1 DEF Closing, Deleting
    <3> QED
      BY <1>S, <2>1, <3>1
  <2>4. CASE g \notin LiveThings
    <3>1. g \in Grant => grants[g] = "revoked"
      BY <1>u, <1>L, <2>1, <2>4 DEF TypeInv, LifeTypeOK
    <3>2. \A x : /\ x \in LiveThings' <=> x \in LiveThings
                 /\ x \in EndedThings' <=> x \in EndedThings
      BY <1>L, <1>E, <2>1, <3>1
    <3>3. \A x \in LiveThings : x \in adrift' <=> x \in adrift
      BY <2>1, <2>4
    <3>4. \A d \in Conn : \A x : x \in Keeps(d)' <=> x \in Keeps(d)
      BY <1>K, <2>1, <3>2, <3>3
    <3> QED
      BY <2>1, <2>2, <2>3, <3>2, <3>3, <3>4 DEF Trust!custody, Hands
  <2>5. CASE g \in LiveThings
    <3>1. g \in Grant /\ g \notin Sub /\ grants[g] = "live" /\ g \notin Hands
          /\ c \in Conn /\ c \in drawn
      <4>1. g \in Grant /\ g \notin Sub
        BY <1>L, <1>t, <2>1, <2>5 DEF TypeInv, LifeTypeOK, CallKept
      <4>2. grants[g] = "live"
        BY <1>L, <2>5, <4>1
      <4>3. g \notin Hands
        BY <1>t, <1>r, <1>C, <2>1, <4>1
      <4> QED
        BY <1>a, <1>t, <2>1, <4>1, <4>2, <4>3 DEF DeletionsKnow, Deleting
    <3>2. \A d \in Conn : g \in Keeps(d) => d = c
      <4>1. \A d \in Conn : rows[d] # Null /\ rows[d].grant = g => d = c
        BY <2>1, <3>1 DEF GrantInv, RevokedIsItsOwn
      <4> QED
        BY <1>t, <1>K, <3>1, <4>1
    <3>3. g \notin adrift => g \in Keeps(c) /\ StageOf(c) = "closing"
      <4>1. g \notin adrift => rows[c] # Null /\ rows[c].grant = g
        BY <2>1, <3>1 DEF CustodyInv, RevokesItsOwn
      <4>2. Closing(c)
        BY <2>1 DEF Closing, Deleting
      <4> QED
        BY <1>K, <1>S, <2>5, <3>1, <4>1, <4>2
    <3>4. CASE adrift' = adrift /\ \A h \in Grant : h = g => grants'[h] = "revoked"
      <4>1. \A x : /\ x \in LiveThings' <=> x \in LiveThings /\ x # g
                   /\ x \in EndedThings' <=> x \in EndedThings \/ x = g
        BY <1>L, <1>E, <2>1, <3>1, <3>4
      <4>2. \A d \in Conn : \A x : x \in Keeps(d)' <=> x \in Keeps(d) /\ x # g
        BY <1>K, <2>1, <3>4, <4>1
      <4>3. CASE g \in adrift
        <5>1. \A d \in Conn : \A x : x \in Keeps(d)' <=> x \in Keeps(d)
          BY <1>K, <4>2, <4>3
        <5>2. Trust!Reclaim(g)
          BY <2>2, <2>3, <2>5, <3>1, <3>4, <4>1, <4>3, <5>1 DEF Trust!Reclaim, Trust!Ends, Hands
        <5> QED
          BY <3>1, <5>2 DEF Trust!Change, Trust!ThingStep
      <4>4. CASE g \notin adrift
        <5>1. \A d \in Conn : \A x : x \in Keeps(d)' <=> x \in Keeps(d) /\ (d = c => x # g)
          BY <3>2, <4>2
        <5>2. Trust!Release(g, c)
          BY <2>2, <2>3, <3>1, <3>3, <3>4, <4>1, <4>4, <5>1 DEF Trust!Release, Trust!Ends, Hands
        <5> QED
          BY <3>1, <5>2 DEF Trust!Change, Trust!ThingStep
      <4> QED
        BY <4>3, <4>4
    <3>5. CASE grants' = grants /\ adrift' = adrift \cup ({g} \cap Grant)
      <4>1. UNCHANGED <<LiveThings, EndedThings>>
        BY <2>1, <3>5 DEF LiveThings, EndedThings
      <4>2. \A x : x \in adrift' <=> x \in adrift \/ x = g
        BY <3>1, <3>5
      <4>3. CASE g \in adrift
        <5>1. \A d \in Conn : \A x : x \in Keeps(d)' <=> x \in Keeps(d)
          BY <1>K, <2>1, <4>1, <4>2, <4>3
        <5> QED
          BY <2>2, <2>3, <4>1, <4>2, <4>3, <5>1 DEF Trust!custody, Hands
      <4>4. CASE g \notin adrift
        <5>1. \A d \in Conn : \A x : x \in Keeps(d)' <=> x \in Keeps(d) /\ (d = c => x # g)
          BY <1>K, <2>1, <3>2, <4>1, <4>2
        <5>2. Trust!Forfeit(g, c)
          BY <2>2, <2>3, <2>5, <3>1, <3>3, <4>1, <4>2, <4>4, <5>1 DEF Trust!Forfeit, Hands
        <5> QED
          BY <3>1, <5>2 DEF Trust!Change, Trust!ThingStep
      <4> QED
        BY <4>3, <4>4
    <3> QED
      BY <2>1, <3>4, <3>5
  <2> QED
    BY <2>4, <2>5
<1>12. ASSUME NEW q \in Call, DeleteRow(q)
       PROVE  Trust!Change \/ UNCHANGED Trust!custody
  <2>0. calls[q].at = "deleting" /\ calls[q].conn \in Conn
    BY <1>12, <1>t DEF DeleteRow, Deleting
  <2> PICK c \in Conn : c = calls[q].conn
    BY <2>0
  <2>1. /\ UNCHANGED <<drawn, subs, grants>>
        /\ calls[q].at = "deleting" /\ calls'[q].at = "idle"
        /\ \A p \in Call : p # q => calls'[p] = calls[p]
        /\ \A d \in Conn : d # c => rows'[d] = rows[d]
        /\ \/ /\ rows[c] # Null /\ rows'[c] = Null
              /\ halted' = halted
              /\ adrift' = adrift \cup (({rows[c].sub} \ {calls[q].sub}) \cap Sub)
                                  \cup (({rows[c].grant} \ {calls[q].grant}) \cap Grant)
           \/ rows' = rows /\ adrift' = adrift /\ halted' = halted \cup {c}
    BY <1>12, DeleteDoes
  <2>2. c \in drawn /\ Closing(c)
    BY <1>a, <2>1 DEF DeletionsKnow, Deleting, Closing
  <2>3. UNCHANGED <<LiveThings, EndedThings>>
    BY <2>1 DEF LiveThings, EndedThings
  <2>4. \A x : x \in Hands' <=> x \in Hands
    BY <1>C, <2>1
  <2>5. \A d \in Conn : d # c => StageOf(d)' = StageOf(d)
    <3>1. \A d \in Conn : d # c => (Closing(d)' <=> Closing(d))
      BY <2>1 DEF Closing, Deleting
    <3> QED
      BY <1>S, <2>1, <3>1
  <2>6. CASE /\ rows[c] # Null /\ rows'[c] = Null
             /\ adrift' = adrift \cup (({rows[c].sub} \ {calls[q].sub}) \cap Sub)
                                 \cup (({rows[c].grant} \ {calls[q].grant}) \cap Grant)
    <3>1. StageOf(c) = "closing" /\ StageOf(c)' = "gone"
      BY <1>S, <2>1, <2>2, <2>6
    <3>2. \A x \in LiveThings : x \in adrift' <=> x \in adrift \/ x \in Keeps(c)
      <4>1. ASSUME NEW x \in LiveThings, x \in adrift', x \notin adrift
            PROVE  x \in Keeps(c)
        BY <1>K, <2>2, <2>6, <4>1
      <4>2. ASSUME NEW x \in Keeps(c)
            PROVE  x \in adrift'
        <5>1. x \in LiveThings /\ x \notin adrift /\ (x = rows[c].sub \/ x = rows[c].grant)
          BY <1>K, <2>2, <4>2
        <5>2. x = rows[c].sub => x \in Sub /\ x # calls[q].sub
          BY <1>t, <1>v, <1>L, <2>1, <2>2, <2>6, <5>1
        <5>3. x = rows[c].grant => x \in Grant /\ x # calls[q].grant
          BY <1>t, <1>v, <1>L, <2>1, <2>2, <2>6, <5>1
        <5> QED
          BY <2>6, <5>1, <5>2, <5>3
      <4> QED
        BY <2>6, <4>1, <4>2
    <3>3. \A d \in Conn : \A x : d # c /\ x \in Keeps(d) => x \notin Keeps(c)
      <4>1. ASSUME NEW d \in Conn, NEW x, x \in Keeps(d), x \in Keeps(c), x \in Sub
            PROVE  d = c
        <5>1. rows[d] # Null /\ rows[c] # Null /\ x = rows[d].sub /\ x = rows[c].sub
          BY <1>K, <1>t, <2>2, <4>1
        <5>2. x # Null
          BY <1>t, <4>1
        <5>3. \A e \in Conn : rows[e] # Null /\ rows[e].sub # Null => subs[rows[e].sub].for = e
          BY <1>a DEF RowsAreOfAKind
        <5>4. subs[x].for = d
          BY <5>1, <5>2, <5>3
        <5>5. subs[x].for = c
          BY <5>1, <5>2, <5>3
        <5> QED
          BY <5>4, <5>5
      <4>2. ASSUME NEW d \in Conn, NEW x, x \in Keeps(d), x \in Keeps(c), x \in Grant
            PROVE  d = c
        <5>1. rows[d] # Null /\ rows[c] # Null /\ x = rows[d].grant /\ x = rows[c].grant
          BY <1>K, <1>t, <2>2, <4>2
        <5> QED
          BY <1>t, <2>2, <4>2, <5>1 DEF GrantInv, OneRowPerGrant
      <4> QED
        BY <1>K, <1>L, <2>2, <4>1, <4>2
    <3>4. \A d \in Conn : \A x : x \in Keeps(d)' <=> d # c /\ x \in Keeps(d)
      BY <1>K, <2>1, <2>3, <2>6, <3>2, <3>3
    <3>5. [d \in Conn |-> StageOf(d)]' = [[d \in Conn |-> StageOf(d)] EXCEPT ![c] = "gone"]
      BY <2>5, <3>1
    <3>6. [d \in Conn |-> Keeps(d)]' = [[d \in Conn |-> Keeps(d)] EXCEPT ![c] = {}]
      <4>1. \A d \in Conn : Keeps(d)' = IF d = c THEN {} ELSE Keeps(d)
        BY <3>4
      <4> QED
        BY <4>1
    <3>7. (adrift \cap LiveThings)' = (adrift \cap LiveThings) \cup Keeps(c)
      BY <1>K, <2>3, <3>2
    <3>8. UNCHANGED <<LiveThings, EndedThings, Carried(Call) \cap LiveThings>>
      BY <2>3, <2>4 DEF Hands
    <3>9. Trust!Delete(c)
      BY <3>1, <3>5, <3>6, <3>7, <3>8 DEF Trust!Delete
    <3> QED
      BY <3>9 DEF Trust!Change
  <2>7. CASE rows' = rows /\ adrift' = adrift /\ halted' = halted \cup {c}
    <3>1. \A d \in Conn : StageOf(d)' = StageOf(d)
      <4>1. Closing(c)'
        BY <2>7 DEF Closing
      <4> QED
        BY <1>S, <2>1, <2>2, <2>5, <2>7, <4>1
    <3>2. \A d \in Conn : \A x : x \in Keeps(d)' <=> x \in Keeps(d)
      BY <1>K, <2>3, <2>7
    <3> QED
      BY <2>3, <2>4, <2>7, <3>1, <3>2 DEF Trust!custody, Hands
  <2> QED
    BY <2>1, <2>6, <2>7
<1>13. ASSUME NEW c \in Conn, NEW t \in Tenant, ReassignTenant(c, t)
       PROVE  UNCHANGED Trust!custody
  <2>1. /\ UNCHANGED <<drawn, subs, grants, calls, halted, adrift>>
        /\ \A d \in Conn : d # c => rows'[d] = rows[d]
        /\ rows[c] # Null /\ rows'[c] # Null
        /\ rows'[c].sub = rows[c].sub /\ rows'[c].grant = rows[c].grant
    BY <1>13, MoveDoes
  <2>2. UNCHANGED <<LiveThings, EndedThings>>
    BY <2>1 DEF LiveThings, EndedThings
  <2>3. \A x : x \in Hands' <=> x \in Hands
    BY <1>C, <2>1
  <2>4. \A d \in Conn : \A x : x \in Keeps(d)' <=> x \in Keeps(d)
    BY <1>K, <2>1, <2>2
  <2>5. \A d \in Conn : StageOf(d)' = StageOf(d)
    <3>1. \A d \in Conn : Closing(d)' <=> Closing(d)
      BY <2>1 DEF Closing, Deleting
    <3> QED
      BY <1>S, <2>1, <3>1
  <2> QED
    BY <2>1, <2>2, <2>3, <2>4, <2>5 DEF Trust!custody, Hands
<1>14. ASSUME NEW s \in Sub, Lapse(s)
       PROVE  Trust!Change
  <2>1. /\ UNCHANGED <<rows, drawn, grants, calls, halted, adrift>>
        /\ subs[s].at = "live" /\ subs'[s].at = "ended"
        /\ \A r \in Sub : r # s => subs'[r] = subs[r]
    BY <1>14, LapseDoes
  <2>2. \A x : /\ x \in LiveThings' <=> x \in LiveThings /\ x # s
               /\ x \in EndedThings' <=> x \in EndedThings \/ x = s
    BY <1>L, <1>E, <1>t, <2>1
  <2>3. s \in LiveThings
    BY <1>L, <2>1
  <2>4. \A x : x \in Hands' <=> x \in Hands
    BY <1>C, <2>1
  <2>5. \A d \in Conn : \A x : x \in Keeps(d)' <=> x \in Keeps(d) /\ x # s
    BY <1>K, <2>1, <2>2
  <2>6. \A d \in Conn : StageOf(d)' = StageOf(d)
    <3>1. \A d \in Conn : Closing(d)' <=> Closing(d)
      BY <2>1 DEF Closing, Deleting
    <3> QED
      BY <1>S, <2>1, <3>1
  <2>7. Trust!Lapse(s)
    BY <2>1, <2>2, <2>3, <2>4, <2>5, <2>6 DEF Trust!Lapse, Trust!Ends, Hands
  <2> QED
    BY <2>7 DEF Trust!Change, Trust!ThingStep
<1>15. ASSUME Restart
       PROVE  Trust!Change
  <2>1. /\ UNCHANGED <<rows, drawn, subs, grants>>
        /\ \A p \in Call : calls'[p].at = "idle"
        /\ \A x : x \in adrift' <=>
             \/ x \in adrift
             \/ \E q \in Call : \/ calls[q].at = "subscribed" /\ x = calls[q].sub
                                \/ calls[q].at = "granted" /\ x = calls[q].grant
        /\ \A d : d \in halted' <=>
             \/ d \in halted
             \/ \E q \in Call : calls[q].at \in Deleting /\ d = calls[q].conn
    BY <1>15, RestartDoes
  <2>2. UNCHANGED <<LiveThings, EndedThings>>
    BY <2>1 DEF LiveThings, EndedThings
  <2>3. \A x : x \notin Hands'
    BY <1>C, <2>1
  <2>4. \A x : x \in adrift' <=> x \in adrift \/ x \in Hands
    BY <1>C, <2>1
  <2>5. \A d \in Conn : \A x : x \in Keeps(d)' <=> x \in Keeps(d)
    <3>1. \A d \in Conn, x \in Hands : rows[d] # Null => rows[d].sub # x /\ rows[d].grant # x
      BY <1>t, <1>o, <1>r, <1>C
    <3> QED
      BY <1>K, <2>1, <2>2, <2>4, <3>1
  <2>6. \A d \in Conn : StageOf(d)' = StageOf(d)
    <3>1. \A d \in Conn : Closing(d)' <=> Closing(d)
      BY <2>1 DEF Closing, Deleting
    <3> QED
      BY <1>S, <2>1, <3>1
  <2>7. Trust!Drop(Hands \cap LiveThings)
    BY <2>2, <2>3, <2>4, <2>5, <2>6 DEF Trust!Drop, Hands
  <2> QED
    BY <2>7 DEF Trust!Change, Hands
<1> QED
  BY <1>1, <1>2, <1>3, <1>4, <1>5, <1>6, <1>7, <1>8, <1>9, <1>10, <1>11, <1>12, <1>13, <1>14,
     <1>15, StepsThatMatter DEF RemoteStep

-----------------------------------------------------------------------------
(* What is live is in one custody exactly: adrift, in the hands of a        *)
(* request, or a connector's, and of no two connectors.                     *)
InOneCustody ==
    /\ LiveThings \subseteq adrift \cup Carried(Call) \cup UNION {Keeps(c) : c \in Conn}
    /\ Carried(Call) \cap adrift = {}
    /\ \A c \in Conn : Keeps(c) \cap (adrift \cup Carried(Call)) = {}
    /\ \A c, d \in Conn : c # d => Keeps(c) \cap Keeps(d) = {}

(* The invariants account for every subscription and grant, once.           *)
LEMMA CustodiesAreApart ==
    TypeInv /\ PushInv /\ GrantInv /\ CustodyInv => InOneCustody
<1> SUFFICES ASSUME TypeInv, PushInv, GrantInv, CustodyInv
             PROVE  InOneCustody
  OBVIOUS
<1>1. \A x : x \in Carried(Call) <=>
        \E p \in Call : \/ calls[p].at = "subscribed" /\ x = calls[p].sub
                        \/ calls[p].at = "granted" /\ x = calls[p].grant
  BY DEF Carried
<1>2. \A d \in Conn : \A x : x \in Keeps(d) <=>
        /\ rows[d] # Null /\ (x = rows[d].sub \/ x = rows[d].grant)
        /\ x \in LiveThings /\ x \notin adrift
  BY DEF Keeps
<1>3. \A x : x \in LiveThings <=> \/ x \in Sub /\ subs[x].at = "live"
                                  \/ x \in Grant /\ grants[x] = "live"
  BY DEF LiveThings
<1>4. /\ \A q \in Call : /\ calls[q].at = "subscribed" =>
                              calls[q].sub \in Sub /\ calls[q].conn \in Conn
                         /\ calls[q].at = "granted" => calls[q].grant \in Grant
      /\ \A c \in Conn : rows[c] # Null =>
           rows[c].sub \in Sub \cup {Null} /\ rows[c].grant \in Grant \cup {Null}
      /\ Sub \cap Grant = {} /\ Null \notin Sub \cup Grant
  BY LifeAssumption DEF TypeInv, LifeTypeOK, CallsAreTyped, RowKept, Deleting
<1>5. \A c \in Conn : rows[c] # Null /\ rows[c].sub # Null => subs[rows[c].sub].for = c
  BY DEF CustodyInv, RowsAreOfAKind
<1>6. \A q \in Call : calls[q].at = "subscribed" =>
        /\ subs[calls[q].sub].for = calls[q].conn
        /\ rows[calls[q].conn] # Null => rows[calls[q].conn].sub = Null
  <2>1. AskedOnce /\ AnsweredForItsOwn
    BY DEF PushInv
  <2> QED
    BY <2>1 DEF AskedOnce, AnsweredForItsOwn, Pushing
<1>7. LiveThings \subseteq adrift \cup Carried(Call) \cup UNION {Keeps(c) : c \in Conn}
  <2> SUFFICES ASSUME NEW x \in LiveThings, x \notin adrift, x \notin Carried(Call)
               PROVE  \E c \in Conn : x \in Keeps(c)
    OBVIOUS
  <2>1. CASE x \in Sub
    <3>1. subs[x].at = "live"
      BY <1>3, <1>4, <2>1
    <3> QED
      BY <1>1, <1>2, <2>1, <3>1 DEF PushInv, SubscriptionsAreHeld
  <2>2. CASE x \in Grant
    <3>1. grants[x] = "live"
      BY <1>3, <1>4, <2>2
    <3> QED
      BY <1>1, <1>2, <2>2, <3>1 DEF GrantInv, GrantsAreHeld
  <2> QED
    BY <1>3, <2>1, <2>2
<1>8. Carried(Call) \cap adrift = {}
  BY <1>1 DEF CustodyInv, CarriedIsCertain
<1>9. ASSUME NEW c \in Conn, NEW x \in Keeps(c) PROVE x \notin adrift /\ x \notin Carried(Call)
  <2>1. \A p \in Call : calls[p].at = "subscribed" => x # calls[p].sub
    BY <1>2, <1>4, <1>5, <1>6, <1>9
  <2>2. \A p \in Call : calls[p].at = "granted" => x # calls[p].grant
    BY <1>2, <1>4, <1>9 DEF GrantInv, GrantedIsLive
  <2> QED
    BY <1>1, <1>2, <1>9, <2>1, <2>2
<1>10. ASSUME NEW c \in Conn, NEW d \in Conn, NEW x \in Keeps(c), x \in Keeps(d) PROVE c = d
  <2>1. CASE x \in Sub
    <3>1. x = rows[c].sub /\ x = rows[d].sub /\ x # Null
      BY <1>2, <1>4, <1>10, <2>1
    <3>2. rows[c] # Null /\ rows[d] # Null
      BY <1>2, <1>10
    <3>3. subs[x].for = c
      BY <1>5, <3>1, <3>2
    <3>4. subs[x].for = d
      BY <1>5, <3>1, <3>2
    <3> QED
      BY <3>3, <3>4
  <2>2. CASE x \in Grant
    <3>1. x = rows[c].grant /\ x = rows[d].grant /\ x # Null
      BY <1>2, <1>4, <1>10, <2>2
    <3> QED
      BY <1>2, <1>10, <3>1 DEF GrantInv, OneRowPerGrant
  <2> QED
    BY <1>2, <1>3, <1>10, <2>1, <2>2
<1> QED
  BY <1>7, <1>8, <1>9, <1>10 DEF InOneCustody

-----------------------------------------------------------------------------
(* Lifecycle keeps its types. *)
THEOREM LifeTypes == LifeSpec => []LifeTypeOK
<1>1. LifeSpec => []TypeInv
  BY LifeInitTypes, LifeStepTypes, PTL DEF LifeSpec
<1> QED
  BY <1>1, PTL DEF TypeInv

(* Whatever requests, notifications, operators and restarts do: as long as  *)
(* a tenant_id has had one tenant only, what is under it is that tenant's.  *)
THEOREM TenantsAreBounded == LifeSpec => []TenantBoundary
<1>1. LifeSpec => [](TypeInv /\ BoundaryInv)
  BY LifeInitTypes, LifeStepTypes, LifeInitBoundary, LifeStepBoundary, PTL DEF LifeSpec
<1> QED
  BY <1>1, PTL DEF BoundaryInv

(* No subscription at Microsoft and no grant at Google is lost but at the   *)
(* known points, and a row's grant works unless its deletion began.         *)
THEOREM NothingIsForgotten == LifeSpec => []RemoteStateIsAccounted
<1>1. LifeSpec => [](TypeInv /\ PushInv)
  BY LifeInitTypes, LifeStepTypes, LifeInitPush, LifeStepPush, PTL DEF LifeSpec
<1>2. PushInv => RowsAreDrawn /\ SubscriptionsAreHeld
  BY DEF PushInv
<1>3. LifeSpec => []GrantInv
  BY <1>1, <1>2, LifeInitGrants, LifeStepGrants, PTL DEF LifeSpec
<1>4. GrantInv => GrantsAreHeld /\ GrantsWork
  BY DEF GrantInv
<1> QED
  BY <1>1, <1>2, <1>3, <1>4, PTL DEF RemoteStateIsAccounted

(* What the reachable states have in common, for the two theorems below.    *)
LEMMA CustodyHolds == LifeSpec => [](TypeInv /\ PushInv /\ GrantInv /\ CustodyInv)
<1>1. LifeSpec => [](TypeInv /\ PushInv)
  BY LifeInitTypes, LifeStepTypes, LifeInitPush, LifeStepPush, PTL DEF LifeSpec
<1>2. PushInv => RowsAreDrawn
  BY DEF PushInv
<1>3. LifeSpec => []GrantInv
  BY <1>1, <1>2, LifeInitGrants, LifeStepGrants, PTL DEF LifeSpec
<1>4. LifeSpec => []CustodyInv
  BY <1>1, <1>3, LifeInitCustody, LifeStepCustody, PTL DEF LifeSpec
<1> QED
  BY <1>1, <1>3, <1>4, PTL

(* A live subscription or grant is in one custody at any time, never in two *)
(* rows, in a row and in a request's hands, or recorded and given up.       *)
THEOREM OneCustodianEach == LifeSpec => []InOneCustody
BY CustodyHolds, CustodiesAreApart, PTL

(* Subscriptions and grants are always in somebody's custody: each goes     *)
(* from the request that asked for it to one connector, which has it until  *)
(* its deletion begins, and what slipped away is nobody's from then on.     *)
THEOREM CustodyIsKept == LifeSpec => ImplementsCustody
BY CustodyHolds, CustodyBegins, LifeStepImplements, PTL
   DEF LifeSpec, ImplementsCustody, Trust!Spec
=============================================================================
