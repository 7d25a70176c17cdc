--------------------------------- MODULE Billing ---------------------------------
(***************************************************************************)
(* The plan a tenant is entitled to: the subscription at the payment       *)
(* provider, the webhooks it sends of each change, which are repeated,     *)
(* delayed, lost and reordered, the daily reconciliation that lists the    *)
(* provider's subscriptions, and the rows they are applied to.             *)
(*                                                                         *)
(* An event is applied in one batch: its id, which must be new, the        *)
(* subscription row, which an older event leaves as it is, and the plan of *)
(* tenant_usage, taken from that row.                                      *)
(*                                                                         *)
(* A subscription's plan is that of its price, which the provider's portal *)
(* changes.  The checkout also writes the plan it sold into the            *)
(* subscription, as a key that wins over the price and that the portal     *)
(* leaves as it is; a subscription made at the provider has none.          *)
(*                                                                         *)
(* Left out: trials, unpaid states (they keep the entitlement), periods,   *)
(* and failures of a single event of a reconciliation, which the next one  *)
(* makes good.                                                             *)
(***************************************************************************)
EXTENDS Naturals, Sequences

CONSTANTS
  MaxSubscriptions,  \* bounds: on the subscriptions the tenant buys
  MaxChanges         \* ... and on the changes of them

ASSUME BillingAssumption == MaxSubscriptions \in Nat /\ MaxChanges \in Nat

Plans == {"plus", "plus_storage"}

VARIABLES
  changes,        \* counts the changes, for the events' times and the bound
  subscriptions,  \* the provider's: the subscriptions of the tenant, the oldest first
  sent,           \* the events the provider has created
  applied,        \* billing_webhook_events
  row,            \* the tenant's row of subscriptions
  plan,           \* tenant_usage.plan
  reconciling     \* the events a reconciliation has yet to apply

provider == <<changes, subscriptions, sent>>
entitlement == <<applied, row, plan>>
billing == <<provider, entitlement, reconciling>>

NoRow == [sub |-> 0, plan |-> "plus", status |-> "none", canceling |-> FALSE, created |-> 0]
Done == [events |-> {}, read |-> FALSE]

BillingInit ==
  /\ changes = 0
  /\ subscriptions = <<>>
  /\ sent = {}
  /\ applied = {}
  /\ row = NoRow
  /\ plan = "free"
  /\ reconciling = Done

-------------------------------------------------------------------------------
(* The provider.  The events of changes have even times, listings the odd ones between. *)

\* The plan an event tells: metadata.plan_key, or else the price's.
PlanKey(s) == IF s.key # "none" THEN s.key ELSE s.plan

Event(id, sub, s, created) ==
  [id |-> id, sub |-> sub, plan |-> PlanKey(s), status |-> s.status,
   canceling |-> s.canceling, created |-> created]

EventId(n) == [kind |-> "webhook", number |-> n, status |-> "", canceling |-> FALSE]

Last == Len(subscriptions)

\* The event of a subscription in its new state.
Sends(s) ==
  /\ changes < MaxChanges /\ changes' = changes + 1
  /\ sent' = sent \cup {Event(EventId(changes'), Len(subscriptions'), s, 2 * changes')}
  /\ UNCHANGED <<entitlement, reconciling>>

Changes(s) == subscriptions' = [subscriptions EXCEPT ![Last] = s] /\ Sends(s)

Subscribe ==
  /\ Last < MaxSubscriptions
  /\ Last > 0 => subscriptions[Last].status = "canceled"
  /\ \E p \in Plans : \E key \in {p, "none"} :
       LET s == [plan |-> p, key |-> key, status |-> "active", canceling |-> FALSE]
       IN  subscriptions' = Append(subscriptions, s) /\ Sends(s)

\* An upgrade or a downgrade, in the portal.
ChangePlan ==
  /\ Last > 0 /\ subscriptions[Last].status = "active"
  /\ \E p \in Plans \ {subscriptions[Last].plan} :
       Changes([subscriptions[Last] EXCEPT !.plan = p])

\* setStripeSubscriptionCancellation, in the portal or by the route.
Cancel ==
  /\ Last > 0 /\ subscriptions[Last].status = "active"
  /\ Changes([subscriptions[Last] EXCEPT !.canceling = ~@])

End ==
  /\ Last > 0 /\ subscriptions[Last].status = "active"
  /\ Changes([subscriptions[Last] EXCEPT !.status = "canceled"])

\* A full refund or a dispute; the subscription goes on.
Refund ==
  /\ Last > 0 /\ subscriptions' = subscriptions
  /\ Sends([subscriptions[Last] EXCEPT !.status = "refunded"])

-------------------------------------------------------------------------------
(* applyBillingEvent. *)

\* Mutant of Newer: the times are not compared.
NewerAlways(e) == TRUE

Newer(e) == row = NoRow \/ e.created >= row.created

RowOf(e) ==
  [sub |-> e.sub, plan |-> e.plan, status |-> e.status, canceling |-> e.canceling,
   created |-> e.created]

\* entitlementPlan.
Entitles(r) ==
  IF r.status # "active" THEN "free" ELSE IF r.plan = "plus_storage" THEN "paid_storage" ELSE "paid"

Applies(e) ==
  IF e.id \in applied
  THEN UNCHANGED entitlement
  ELSE /\ applied' = applied \cup {e.id}
       /\ row' = IF Newer(e) THEN RowOf(e) ELSE row
       /\ plan' = Entitles(row')

\* A refund names a customer: it revokes the subscription that the row has.
Revocation(e) == [e EXCEPT !.sub = row.sub, !.plan = row.plan, !.canceling = FALSE]

Webhook(e) ==
  /\ e \in sent
  /\ IF e.status = "refunded"
     THEN row # NoRow /\ Applies(Revocation(e))
     ELSE Applies(e)
  /\ UNCHANGED <<provider, reconciling>>

-------------------------------------------------------------------------------
(* reconcileBillingEntitlements. *)

\* The id does not tell two times apart at which a subscription has the same state, of
\* which the plan is no part.
ReconcileId(i) ==
  [kind |-> "reconcile", number |-> i, status |-> subscriptions[i].status,
   canceling |-> subscriptions[i].canceling]

\* Mutant of Listed: the provider's default, which leaves out those that have ended.
ListedActive == {i \in 1 .. Last : subscriptions[i].status = "active"}

\* Every subscription, whatever its status.
Listed == 1 .. Last

\* All have the time at which the listing began.
List ==
  /\ reconciling = Done /\ Last > 0
  /\ reconciling' =
       [events |-> {Event(ReconcileId(i), i, subscriptions[i], 2 * changes + 1) : i \in Listed},
        read |-> FALSE]
  /\ UNCHANGED <<provider, entitlement>>

\* The provider lists the newest subscription first.
IsNext(e) == e \in reconciling.events /\ \A f \in reconciling.events : f.sub <= e.sub

\* shouldPreserveRevokedEntitlement.
Preserves(e) == row.status = "refunded" /\ e.status = "active" /\ e.sub = row.sub

Proceed(e) == reconciling' = [events |-> reconciling.events \ {e}, read |-> FALSE]

\* The row is read and the event skipped, or applied by a request of its own.
ReconcileReads(e) ==
  /\ IsNext(e) /\ ~reconciling.read
  /\ IF Preserves(e)
     THEN Proceed(e) ELSE reconciling' = [events |-> reconciling.events, read |-> TRUE]
  /\ UNCHANGED <<provider, entitlement>>

ReconcileApplies(e) ==
  /\ IsNext(e) /\ reconciling.read
  /\ Applies(e)
  /\ Proceed(e)
  /\ UNCHANGED provider

-------------------------------------------------------------------------------

Reconcile == List \/ \E e \in reconciling.events : ReconcileReads(e) \/ ReconcileApplies(e)

BillingNext ==
  \/ Subscribe \/ ChangePlan \/ Cancel \/ End \/ Refund
  \/ \E e \in sent : Webhook(e)
  \/ Reconcile

\* The reconciliation runs daily; no webhook need ever come.
BillingFairness == WF_billing(Reconcile)

-------------------------------------------------------------------------------

\* Repeated, late and reordered events leave the row at the newest of those that were
\* applied, and the plan is always the row's.
NewestEventStands ==
  /\ \A e \in sent : e.id \in applied => e.created <= row.created
  /\ plan = IF row = NoRow THEN "free" ELSE Entitles(row)

===============================================================================
