---------------------------- MODULE TenantUsageProofs ----------------------------
(***************************************************************************)
(* The order of billing events, the storage meter and the daily limit, for *)
(* every number of subscriptions, changes, requests and days.              *)
(*                                                                         *)
(* An applied webhook is known by its id only: the proof carries over to   *)
(* ids what the property says of events, by the numbers in the ids.  A     *)
(* batch's bytes are right as long as its guard holds.  A growing batch is *)
(* prepared while the day's rows leave room for one more, so that only the *)
(* other requests can be added to a full day.                              *)
(***************************************************************************)
EXTENDS MCTenantUsage, FiniteSetTheorems, TLAPS

SentInv ==
  /\ changes \in Nat
  /\ \A e \in sent :
       e.id.kind = "webhook" /\ e.id.number \in 1 .. changes /\ e.created = 2 * e.id.number

\* A webhook that was applied is one that was sent, and no newer than the row.
AppliedInv ==
  /\ row.created \in Nat
  /\ \A id \in applied :
       id.kind = "webhook" => id.number \in 1 .. changes /\ 2 * id.number <= row.created

ListingInv ==
  \A e \in reconciling.events : e.id.kind = "reconcile" /\ e.created \in Nat

PlanIsOfRow == plan = IF row = NoRow THEN "free" ELSE Entitles(row)

BillingInv == SentInv /\ AppliedInv /\ ListingInv /\ PlanIsOfRow

LEMMA InvStands == BillingInv => NewestEventStands
BY DEF BillingInv, SentInv, AppliedInv, PlanIsOfRow, NewestEventStands

LEMMA InitEstablishes == BillingInit => BillingInv
BY DEF BillingInit, BillingInv, SentInv, AppliedInv, ListingInv, PlanIsOfRow, NoRow, Done

\* A change at the provider: its event is newer than all.
LEMMA ChangeKeeps ==
  ASSUME BillingInv, NEW s, NEW n, changes < MaxChanges, changes' = changes + 1,
         sent' = sent \cup {Event(EventId(changes'), n, s, 2 * changes')},
         UNCHANGED <<entitlement, reconciling>>
  PROVE  BillingInv'
<1> DEFINE e == Event(EventId(changes'), n, s, 2 * changes')
<1>1. e.id.kind = "webhook" /\ e.id.number = changes' /\ e.created = 2 * changes'
  BY DEF Event, EventId
<1>2. SentInv'
  BY <1>1 DEF BillingInv, SentInv
<1>3. AppliedInv' /\ ListingInv' /\ PlanIsOfRow'
  BY DEF BillingInv, SentInv, AppliedInv, ListingInv, PlanIsOfRow, entitlement
<1> QED
  BY <1>2, <1>3 DEF BillingInv

LEMMA ProviderKeeps == BillingInv /\ (Subscribe \/ ChangePlan \/ Cancel \/ End \/ Refund) => BillingInv'
<1> SUFFICES ASSUME BillingInv, Subscribe \/ ChangePlan \/ Cancel \/ End \/ Refund PROVE BillingInv'
  OBVIOUS
<1>1. \E s : Sends(s)
  BY DEF Subscribe, ChangePlan, Cancel, End, Refund, Changes
<1>2. PICK s : Sends(s)
  BY <1>1
<1> QED
  BY <1>2, ChangeKeeps DEF Sends

\* An event is applied whose id, if it is a webhook's, carries its time.
LEMMA ApplyKeeps ==
  ASSUME BillingInv, NEW e, Applies(e), UNCHANGED provider,
         reconciling'.events \subseteq reconciling.events,
         e.created \in Nat,
         e.id.kind = "webhook" => e.id.number \in 1 .. changes /\ e.created = 2 * e.id.number
  PROVE  BillingInv'
<1>1. SentInv' /\ ListingInv'
  BY DEF BillingInv, SentInv, ListingInv, provider
<1>2. CASE e.id \in applied
  BY <1>1, <1>2 DEF Applies, BillingInv, AppliedInv, PlanIsOfRow, entitlement, provider
<1>3. CASE e.id \notin applied
  <2>1. /\ applied' = applied \cup {e.id}
        /\ row' = IF Newer(e) THEN RowOf(e) ELSE row
        /\ plan' = Entitles(row')
    BY <1>3 DEF Applies
  <2>2. row'.created \in Nat /\ row'.created >= row.created /\ row'.created >= e.created
    <3>1. CASE Newer(e)
      <4>1. row'.created = e.created
        BY <2>1, <3>1 DEF RowOf
      <4> QED
        BY <3>1, <4>1 DEF Newer, NoRow, BillingInv, AppliedInv
    <3>2. CASE ~Newer(e)
      BY <2>1, <3>2 DEF Newer, BillingInv, AppliedInv
    <3> QED
      BY <3>1, <3>2
  <2>3. AppliedInv'
    <3> SUFFICES ASSUME NEW id \in applied', id.kind = "webhook"
                 PROVE  id.number \in 1 .. changes /\ 2 * id.number <= row'.created
      BY <2>2 DEF AppliedInv, provider
    <3>1. CASE id \in applied
      <4>1. id.number \in 1 .. changes /\ 2 * id.number <= row.created /\ row.created \in Nat
        BY <3>1 DEF BillingInv, AppliedInv
      <4> QED
        BY <2>2, <4>1
    <3>2. CASE id = e.id
      BY <2>2, <3>2 DEF BillingInv, SentInv
    <3> QED
      BY <2>1, <3>1, <3>2
  <2>4. PlanIsOfRow'
    <3>1. CASE row' = NoRow
      BY <2>1, <3>1 DEF PlanIsOfRow, Entitles, NoRow
    <3> QED
      BY <2>1, <3>1 DEF PlanIsOfRow
  <2> QED
    BY <1>1, <2>3, <2>4 DEF BillingInv
<1> QED
  BY <1>2, <1>3

LEMMA WebhookKeeps == ASSUME BillingInv, NEW e, Webhook(e) PROVE BillingInv'
<1>1. e.id.kind = "webhook" /\ e.id.number \in 1 .. changes /\ e.created = 2 * e.id.number
  BY DEF Webhook, BillingInv, SentInv
<1>2. e.created \in Nat
  BY <1>1 DEF BillingInv, SentInv
<1>3. UNCHANGED provider /\ reconciling'.events \subseteq reconciling.events
  BY DEF Webhook
<1>4. CASE Applies(e)
  BY <1>1, <1>2, <1>3, <1>4, ApplyKeeps
<1>5. CASE Applies(Revocation(e))
  <2>1. Revocation(e).id = e.id /\ Revocation(e).created = e.created
    BY DEF Revocation
  <2> QED
    BY <1>1, <1>2, <1>3, <1>5, <2>1, ApplyKeeps
<1> QED
  BY <1>4, <1>5 DEF Webhook

LEMMA ReconcileKeeps == BillingInv /\ Reconcile => BillingInv'
<1> SUFFICES ASSUME BillingInv, Reconcile PROVE BillingInv'
  OBVIOUS
<1>1. CASE List
  <2>1. UNCHANGED provider /\ UNCHANGED entitlement
    BY <1>1 DEF List
  <2>2. \A e \in reconciling'.events : e.id.kind = "reconcile" /\ e.created = 2 * changes + 1
    BY <1>1 DEF List, Event, ReconcileId
  <2> QED
    BY <2>1, <2>2 DEF BillingInv, SentInv, AppliedInv, ListingInv, PlanIsOfRow, provider, entitlement
<1>2. ASSUME NEW e \in reconciling.events, ReconcileReads(e) PROVE BillingInv'
  <2>1. UNCHANGED <<provider, entitlement>> /\ reconciling'.events \subseteq reconciling.events
    BY <1>2 DEF ReconcileReads, Proceed
  <2> QED
    BY <2>1 DEF BillingInv, SentInv, AppliedInv, ListingInv, PlanIsOfRow, provider, entitlement
<1>3. ASSUME NEW e \in reconciling.events, ReconcileApplies(e) PROVE BillingInv'
  <2>1. Applies(e) /\ UNCHANGED provider /\ reconciling'.events \subseteq reconciling.events
    BY <1>3 DEF ReconcileApplies, Proceed
  <2>2. e.id.kind = "reconcile" /\ e.created \in Nat
    BY DEF BillingInv, ListingInv
  <2> QED
    BY <2>1, <2>2, ApplyKeeps
<1> QED
  BY <1>1, <1>2, <1>3 DEF Reconcile

LEMMA StepKeeps == BillingInv /\ [Next]_vars => BillingInv'
<1> SUFFICES ASSUME BillingInv, [Next]_vars PROVE BillingInv'
  OBVIOUS
<1>1. CASE BillingNext
  BY <1>1, ProviderKeeps, WebhookKeeps, ReconcileKeeps DEF BillingNext
<1>2. CASE UNCHANGED billing
  BY <1>2 DEF BillingInv, SentInv, AppliedInv, ListingInv, PlanIsOfRow, billing, provider, entitlement
<1>3. MeteringNext => UNCHANGED billing
  BY DEF MeteringNext, PrepareDevice, PrepareBrowser, PrepareUncounted, Prepared, Execute, Abandon, Midnight
<1> QED
  BY <1>1, <1>2, <1>3 DEF Next, vars

\* Whatever is lost, repeated or overtaken, the row is the newest of the events that were
\* applied and the plan is the row's: applyBillingEvent's comparison of times is enough.
THEOREM NewestEventAlwaysStands == Spec => []NewestEventStands
<1>1. Init => BillingInv
  BY InitEstablishes DEF Init
<1> QED
  BY <1>1, StepKeeps, InvStands, PTL DEF Spec

-------------------------------------------------------------------------------
(* The meter. *)

BatchType == [kind : Kinds, day : Nat, base : Int, to : Int, delta : Int]

MeterTypes ==
  /\ plan \in Tiers
  /\ {head, today, rows, storage, grown, allowed} \subseteq Nat
  /\ {size, drift, day} \subseteq Int
  /\ straddled \in BOOLEAN
  /\ worker \in [Workers -> BatchType]

\* A batch is of no later day and revision than the present ones; a device's has the bytes
\* that it will add to the file, while its guard holds, and another has none.
BatchInv ==
  \A w \in Workers :
    /\ worker[w].day <= today /\ worker[w].base <= head
    /\ worker[w].kind = "device" /\ worker[w].base = head
         => worker[w].delta = worker[w].to - size
    /\ worker[w].kind # "device" => worker[w].delta = 0

\* The batches of today that count and are to free no space.
Growing ==
  {w \in Workers : Counts(worker[w]) /\ worker[w].delta >= 0 /\ worker[w].day = today}

CapInv ==
  /\ day <= today
  /\ DailyRows[plan] <= allowed
  /\ ~straddled =>
       /\ grown <= RowsUsedToday
       /\ grown + Cardinality(Growing) < allowed + Cardinality(Workers)

MeterInv == MeterTypes /\ BatchInv /\ StorageIsMetered /\ CapInv

LEMMA LimitsAreNumbers == \A t \in Tiers : DailyRows[t] \in Nat /\ DailyRows[t] >= 1
BY UsageAssumption

LEMMA GrowingIsFinite ==
  /\ IsFiniteSet(Growing) /\ Cardinality(Growing) \in Nat
  /\ Cardinality(Workers) \in Nat /\ Cardinality(Growing) <= Cardinality(Workers)
BY WorkersAssumption, FS_Subset, FS_CardinalityType DEF Growing

LEMMA CapStands == MeterInv => DailyCapHolds
BY GrowingIsFinite DEF MeterInv, MeterTypes, CapInv, DailyCapHolds

LEMMA MeterInit == MCInit => MeterInv
<1> SUFFICES ASSUME MCInit PROVE MeterInv
  OBVIOUS
<1> USE DEF MCInit, Init, BillingInit
<1>1. plan \in Tiers /\ DailyRows[plan] \in Nat /\ DailyRows[plan] >= 1 /\ allowed = DailyRows[plan]
  BY LimitsAreNumbers DEF Tiers
<1>2. MeterTypes /\ BatchInv
  <2>1. NoBatch \in BatchType
    BY DEF NoBatch, BatchType, Kinds
  <2>2. worker \in [Workers -> BatchType]
    BY <2>1
  <2>3. BatchInv
    BY DEF BatchInv, NoBatch
  <2>4. {head, today, rows, storage, grown, allowed} \subseteq Nat
    BY <1>1
  <2>5. {size, drift, day} \subseteq Int
    OBVIOUS
  <2>6. straddled \in BOOLEAN
    BY Zenon
  <2> QED
    BY <1>1, <2>2, <2>3, <2>4, <2>5, <2>6 DEF MeterTypes
<1>3. Growing = {}
  BY DEF Growing, Counts, NoBatch
<1>4. CapInv
  BY <1>1, <1>3, GrowingIsFinite, FS_EmptySet DEF CapInv, RowsUsedToday
<1> QED
  BY <1>2, <1>4 DEF MeterInv, StorageIsMetered

LEMMA PlanIsTier == plan \in Tiers /\ BillingNext => plan' \in Tiers
<1> SUFFICES ASSUME plan \in Tiers, BillingNext PROVE plan' \in Tiers
  OBVIOUS
<1>1. \A r : Entitles(r) \in Tiers
  BY DEF Entitles, Tiers
<1>2. \A e : Applies(e) => plan' \in Tiers
  BY <1>1 DEF Applies, entitlement
<1> QED
  BY <1>2 DEF BillingNext, Subscribe, ChangePlan, Cancel, End, Refund, Changes, Sends, Webhook, Reconcile,
       List, ReconcileReads, ReconcileApplies, entitlement

\* A change of the plan raises what is allowed today, and leaves the meter alone.
LEMMA PlanKeeps ==
  ASSUME MeterInv, BillingNext, UNCHANGED metering, UNCHANGED <<drift, grown, straddled>>,
         allowed' = IF allowed < DailyRows[plan'] THEN DailyRows[plan'] ELSE allowed
  PROVE  MeterInv'
<1> USE DEF MeterInv, metering, graph, usage
<1>1. plan' \in Tiers /\ DailyRows[plan'] \in Nat
  BY PlanIsTier, LimitsAreNumbers DEF MeterTypes
<1>2. MeterTypes'
  BY <1>1 DEF MeterTypes
<1>3. BatchInv' /\ StorageIsMetered'
  BY DEF BatchInv, StorageIsMetered
<1>4. Growing' = Growing /\ RowsUsedToday' = RowsUsedToday
  BY DEF Growing, RowsUsedToday
<1>5. allowed' \in Nat /\ allowed <= allowed' /\ DailyRows[plan'] <= allowed'
  BY <1>1 DEF MeterTypes
<1>6. CapInv'
  BY <1>4, <1>5, GrowingIsFinite DEF CapInv, MeterTypes
<1> QED
  BY <1>2, <1>3, <1>6

\* A request prepares a batch: a growing one finds room in the day.
LEMMA PreparedKeeps ==
  ASSUME MeterInv, NEW w \in Workers, NEW b \in BatchType, Prepared(w, b), UNCHANGED history,
         b.day = today, b.base <= head,
         b.kind = "device" /\ b.base = head => b.delta = b.to - size,
         b.kind # "device" => b.delta = 0,
         Counts(b) /\ b.delta >= 0 => WithinDay
  PROVE  MeterInv'
<1>0. /\ worker[w] = NoBatch /\ worker' = [worker EXCEPT ![w] = b]
      /\ UNCHANGED <<plan, graph, usage, today, history>>
  BY DEF Prepared, billing, entitlement
<1> USE DEF MeterInv, graph, usage, history
<1>1. MeterTypes'
  BY <1>0 DEF MeterTypes
<1>2. BatchInv' /\ StorageIsMetered'
  BY <1>0 DEF BatchInv, StorageIsMetered, MeterTypes
<1>3. RowsUsedToday' = RowsUsedToday /\ RowsUsedToday \in Nat
  BY <1>0 DEF RowsUsedToday, MeterTypes
<1>4. CASE Counts(b) /\ b.delta >= 0
  <2>1. RowsUsedToday + 1 <= allowed
    BY <1>3, <1>4, LimitsAreNumbers DEF WithinDay, CapInv, MeterTypes
  <2>2. Growing' \subseteq Workers
    BY DEF Growing
  <2>3. Cardinality(Growing') \in Nat /\ Cardinality(Growing') <= Cardinality(Workers)
    BY <2>2, WorkersAssumption, FS_Subset, FS_CardinalityType
  <2> QED
    BY <1>0, <1>1, <1>2, <1>3, <2>1, <2>3, GrowingIsFinite DEF CapInv, MeterTypes
<1>5. CASE ~(Counts(b) /\ b.delta >= 0)
  <2>1. Growing' = Growing
    BY <1>0, <1>5 DEF Growing, Counts, NoBatch, MeterTypes
  <2> QED
    BY <1>0, <1>1, <1>2, <1>3, <2>1 DEF CapInv
<1> QED
  BY <1>4, <1>5

\* A request gives its batch up.
LEMMA EndKeeps ==
  ASSUME MeterInv, NEW w \in Workers, worker' = [worker EXCEPT ![w] = NoBatch],
         UNCHANGED <<plan, graph, usage, today, history>>
  PROVE  MeterInv'
<1> USE DEF MeterInv, graph, usage, history
<1>1. NoBatch \in BatchType
  BY DEF NoBatch, BatchType, Kinds
<1>2. MeterTypes'
  BY <1>1 DEF MeterTypes
<1>3. BatchInv' /\ StorageIsMetered'
  BY DEF BatchInv, StorageIsMetered, MeterTypes, NoBatch
<1>4. Growing' \subseteq Growing
  BY DEF Growing, Counts, MeterTypes, NoBatch
<1>5. Cardinality(Growing') \in Nat /\ Cardinality(Growing') <= Cardinality(Growing)
  BY <1>4, GrowingIsFinite, FS_Subset, FS_CardinalityType
<1>6. CapInv'
  BY <1>5, GrowingIsFinite DEF CapInv, MeterTypes, RowsUsedToday
<1> QED
  BY <1>2, <1>3, <1>6

LEMMA ExecuteKeepsMeter ==
  ASSUME MeterInv, NEW w \in Workers, Execute(w), HistoryOf(w)
  PROVE  /\ MeterTypes' /\ BatchInv' /\ StorageIsMetered'
         /\ day' <= today'
<1> DEFINE b == worker[w]
<1> USE DEF MeterInv
<1>1. b \in BatchType /\ b.day <= today /\ b.base <= head
  BY DEF MeterTypes, BatchInv
<1>2. worker' = [worker EXCEPT ![w] = NoBatch] /\ UNCHANGED <<billing, today, batches>>
  BY DEF Execute
<1>3. NoBatch \in BatchType /\ worker' \in [Workers -> BatchType]
  BY <1>2 DEF NoBatch, BatchType, Kinds, MeterTypes
<1>4. /\ b.base = head => head' = head + 1 /\ size' = b.to
      /\ b.base # head => head' = head /\ size' = size
  BY DEF Execute, Guarded, graph
<1>5. /\ Counts(b) => /\ storage' = IF storage + b.delta < 0 THEN 0 ELSE storage + b.delta
                      /\ rows' = IF day = b.day THEN rows + 1 ELSE 1
                      /\ day' = b.day
      /\ ~Counts(b) => UNCHANGED <<storage, rows, day>>
  BY DEF Execute, Metered, usage
<1>6. /\ drift' = drift + Voided(b) + Clamped(b) - Unseen(b)
      /\ grown' = IF Counts(b) /\ b.delta >= 0 THEN grown + 1 ELSE grown
      /\ straddled' = (straddled \/ (Counts(b) /\ b.day # today))
      /\ UNCHANGED allowed
  BY DEF HistoryOf
<1>7. head' \in Nat /\ size' \in Int /\ head <= head'
  BY <1>1, <1>4 DEF MeterTypes, BatchType
<1>8. storage' \in Nat /\ rows' \in Nat /\ day' \in Int /\ day' <= today'
  BY <1>1, <1>2, <1>5 DEF MeterTypes, BatchType, CapInv
<1>9. Voided(b) \in Int /\ Clamped(b) \in Int /\ Unseen(b) \in Int
  BY <1>1 DEF Voided, Clamped, Unseen, MeterTypes, BatchType
<1>10. drift' \in Int
  BY <1>6, <1>9 DEF MeterTypes
<1>11. grown' \in Nat /\ straddled' \in BOOLEAN /\ allowed' \in Nat /\ today' \in Nat
  BY <1>2, <1>6 DEF MeterTypes
<1>12. MeterTypes'
  BY <1>2, <1>3, <1>7, <1>8, <1>10, <1>11 DEF MeterTypes, billing, entitlement
<1>13. BatchInv'
  <2> SUFFICES ASSUME NEW v \in Workers
               PROVE  /\ worker'[v].day <= today' /\ worker'[v].base <= head'
                      /\ worker'[v].kind = "device" /\ worker'[v].base = head'
                           => worker'[v].delta = worker'[v].to - size'
                      /\ worker'[v].kind # "device" => worker'[v].delta = 0
    BY DEF BatchInv
  <2>1. CASE v = w
    BY <1>2, <1>7, <2>1 DEF NoBatch, MeterTypes
  <2>2. CASE v # w
    <3>1. worker'[v] = worker[v] /\ worker[v] \in BatchType /\ today' = today
      BY <1>2, <2>2 DEF MeterTypes
    <3>2. worker[v].base \in Int /\ worker[v].base <= head /\ worker[v].day <= today
      BY <3>1 DEF BatchType, BatchInv
    <3>3. worker[v].base = head' => head' = head /\ size' = size
      BY <1>1, <1>4, <1>7, <3>2 DEF MeterTypes
    <3> QED
      BY <1>7, <3>1, <3>2, <3>3 DEF BatchInv, MeterTypes
  <2> QED
    BY <2>1, <2>2
<1>14. StorageIsMetered'
  <2>1. /\ b.kind = "device" /\ b.base = head => b.delta = b.to - size
        /\ b.kind # "device" => b.delta = 0
        /\ b.to \in Int /\ b.delta \in Int /\ {size, storage, drift} \subseteq Int
    BY <1>1 DEF BatchInv, MeterTypes, BatchType
  <2>2. storage' - storage = b.delta + Clamped(b)
    <3>1. CASE Counts(b)
      BY <1>5, <2>1, <3>1 DEF Clamped
    <3>2. CASE ~Counts(b)
      <4>1. b.delta = 0 /\ storage' = storage /\ ~(storage < 0)
        BY <1>5, <2>1, <3>2 DEF Counts, MeterTypes
      <4> QED
        BY <2>1, <4>1 DEF Clamped
    <3> QED
      BY <3>1, <3>2
  <2>3. size' - size = b.delta + Unseen(b) - Voided(b)
    BY <1>4, <2>1 DEF Unseen, Voided
  <2>4. storage' = storage + b.delta + Clamped(b)
    BY <1>8, <1>9, <2>1, <2>2
  <2>5. size' = size + b.delta + Unseen(b) - Voided(b)
    BY <1>7, <1>9, <2>1, <2>3
  <2>6. storage = size + drift
    BY DEF StorageIsMetered
  <2>7. storage' = size' + drift'
    BY <1>6, <1>9, <2>1, <2>4, <2>5, <2>6
  <2> QED
    BY <2>7 DEF StorageIsMetered
<1> QED
  BY <1>8, <1>12, <1>13, <1>14

\* A batch of today that grows the file moves from those under way to those that count.
LEMMA ExecuteKeepsCap ==
  ASSUME MeterInv, NEW w \in Workers, Execute(w), HistoryOf(w), ~straddled'
  PROVE  /\ grown' <= RowsUsedToday'
         /\ grown' + Cardinality(Growing') < allowed' + Cardinality(Workers)
<1> DEFINE b == worker[w]
<1> USE DEF MeterInv
<1>1. b \in BatchType
  BY DEF MeterTypes
<1>2. worker' = [worker EXCEPT ![w] = NoBatch] /\ today' = today
  BY DEF Execute
<1>3. ~straddled /\ (Counts(b) => b.day = today) /\ allowed' = allowed
  BY DEF HistoryOf
<1>4. grown <= RowsUsedToday /\ grown + Cardinality(Growing) < allowed + Cardinality(Workers)
  BY <1>3 DEF CapInv
<1>5. CASE Counts(b)
  <2>1. RowsUsedToday' = RowsUsedToday + 1
    BY <1>2, <1>3, <1>5 DEF Execute, Metered, RowsUsedToday, MeterTypes
  <2>2. RowsUsedToday \in Nat
    BY DEF RowsUsedToday, MeterTypes
  <2>3. CASE b.delta >= 0
    <3>1. grown' = grown + 1
      BY <1>5, <2>3 DEF HistoryOf
    <3>2. w \in Growing /\ Growing' = Growing \ {w}
      BY <1>2, <1>3, <1>5, <2>3 DEF Growing, Counts, NoBatch, MeterTypes
    <3>3. Cardinality(Growing') = Cardinality(Growing) - 1
      BY <3>2, GrowingIsFinite, FS_RemoveElement
    <3> QED
      BY <1>3, <1>4, <2>1, <2>2, <3>1, <3>3, GrowingIsFinite DEF MeterTypes
  <2>4. CASE ~(b.delta >= 0)
    <3>1. grown' = grown
      BY <2>4 DEF HistoryOf
    <3>2. Growing' = Growing
      BY <1>2, <2>4 DEF Growing, Counts, NoBatch, MeterTypes
    <3> QED
      BY <1>3, <1>4, <2>1, <2>2, <3>1, <3>2 DEF MeterTypes
  <2> QED
    BY <2>3, <2>4
<1>6. CASE ~Counts(b)
  <2>1. grown' = grown /\ RowsUsedToday' = RowsUsedToday
    BY <1>2, <1>6 DEF HistoryOf, Execute, usage, RowsUsedToday
  <2>2. Growing' = Growing
    BY <1>2, <1>6 DEF Growing, Counts, NoBatch, MeterTypes
  <2> QED
    BY <1>3, <1>4, <2>1, <2>2
<1> QED
  BY <1>5, <1>6

LEMMA ExecuteKeeps ==
  ASSUME MeterInv, NEW w \in Workers, Execute(w), HistoryOf(w)
  PROVE  MeterInv'
<1>1. DailyRows[plan'] <= allowed'
  BY DEF MeterInv, CapInv, Execute, HistoryOf, billing, entitlement
<1> QED
  BY <1>1, ExecuteKeepsMeter, ExecuteKeepsCap DEF MeterInv, CapInv

LEMMA MidnightKeeps ==
  ASSUME MeterInv, Midnight, grown' = 0, allowed' = DailyRows[plan], straddled' = FALSE,
         UNCHANGED drift
  PROVE  MeterInv'
<1> USE DEF MeterInv, Midnight, graph, usage, billing, entitlement
<1>1. DailyRows[plan] \in Nat /\ DailyRows[plan] >= 1 /\ plan' = plan
  BY LimitsAreNumbers DEF MeterTypes
<1>2. straddled' \in BOOLEAN
  BY Zenon
<1>3. MeterTypes'
  BY <1>1, <1>2 DEF MeterTypes
<1>4. BatchInv' /\ StorageIsMetered'
  BY DEF BatchInv, StorageIsMetered, MeterTypes, BatchType
<1>5. Growing' = {}
  BY DEF Growing, BatchInv, MeterTypes, BatchType
<1>6. RowsUsedToday' \in Nat
  BY <1>3 DEF RowsUsedToday, MeterTypes
<1>7. day' <= today'
  BY DEF CapInv, MeterTypes
<1>8. CapInv'
  BY <1>1, <1>5, <1>6, <1>7, GrowingIsFinite, FS_EmptySet DEF CapInv
<1> QED
  BY <1>3, <1>4, <1>8

LEMMA MeterStep == MeterInv /\ [MCNext]_mcvars => MeterInv'
<1> SUFFICES ASSUME MeterInv, [MCNext]_mcvars PROVE MeterInv'
  OBVIOUS
<1>1. CASE UNCHANGED mcvars
  BY <1>1 DEF mcvars, vars, billing, entitlement, metering, graph, usage, history, MeterInv, MeterTypes,
       BatchInv, StorageIsMetered, CapInv, Growing, RowsUsedToday
<1>2. CASE BillingNext /\ UNCHANGED metering /\ UNCHANGED <<drift, grown, straddled>>
           /\ allowed' = IF allowed < DailyRows[plan'] THEN DailyRows[plan'] ELSE allowed
  BY <1>2, PlanKeeps
<1>3. ASSUME NEW w \in Workers, Execute(w), HistoryOf(w) PROVE MeterInv'
  BY <1>3, ExecuteKeeps
<1>4. ASSUME NEW w \in Workers, PrepareDevice(w), UNCHANGED history PROVE MeterInv'
  <2>1. PICK to \in 0 .. MaxSize, base \in {head - 1, head} :
          /\ to < size \/ WithinDay
          /\ Prepared(w, Batch("device", base, to, Delta(to)))
    BY <1>4 DEF PrepareDevice
  <2> DEFINE b == Batch("device", base, to, Delta(to))
  <2>2. b.kind = "device" /\ b.day = today /\ b.base = base /\ b.to = to /\ b.delta = to - size
    BY DEF Batch, Delta
  <2>3. b \in BatchType /\ b.base <= head
    BY <2>2, UsageAssumption DEF Batch, Delta, BatchType, Kinds, MeterInv, MeterTypes
  <2>4. b.delta >= 0 => WithinDay
    <3>1. to - size >= 0 => ~(to < size)
      BY UsageAssumption DEF MeterInv, MeterTypes
    <3> QED
      BY <2>1, <2>2, <3>1, Zenon
  <2> HIDE DEF b
  <2>5. Prepared(w, b)
    BY <2>1 DEF b
  <2> QED
    BY <1>4, <2>2, <2>3, <2>4, <2>5, PreparedKeeps
<1>5. ASSUME NEW w \in Workers, PrepareBrowser(w) \/ PrepareUncounted(w), UNCHANGED history
      PROVE  MeterInv'
  <2>1. PICK kind \in {"browser", "uncounted"}, to \in 0 .. MaxSize, base \in {head - 1, head} :
          /\ kind = "browser" => WithinDay
          /\ Prepared(w, Batch(kind, base, to, 0))
    BY <1>5 DEF PrepareBrowser, PrepareUncounted
  <2> DEFINE b == Batch(kind, base, to, 0)
  <2>2. b.kind = kind /\ b.day = today /\ b.base = base /\ b.delta = 0
    BY DEF Batch
  <2>3. b \in BatchType /\ b.base <= head
    BY <2>2, UsageAssumption DEF Batch, BatchType, Kinds, MeterInv, MeterTypes
  <2>4. Counts(b) => WithinDay
    BY <2>1, <2>2 DEF Counts
  <2> HIDE DEF b
  <2>5. Prepared(w, b)
    BY <2>1 DEF b
  <2> QED
    BY <1>5, <2>2, <2>3, <2>4, <2>5, PreparedKeeps
<1>6. ASSUME NEW w \in Workers, Abandon(w), UNCHANGED history PROVE MeterInv'
  BY <1>6, EndKeeps DEF Abandon, billing, entitlement
<1>7. CASE Midnight /\ grown' = 0 /\ allowed' = DailyRows[plan] /\ straddled' = FALSE
           /\ UNCHANGED drift
  BY <1>7, MidnightKeeps
<1> QED
  BY <1>1, <1>2, <1>3, <1>4, <1>5, <1>6, <1>7 DEF MCNext, WithHistory

\* The inductive invariant of the meter holds in every reachable state.
THEOREM MeterHolds == MCSpec => []MeterInv
BY MeterInit, MeterStep, PTL DEF MCSpec

\* The meter that is added to in the batch itself has the size of the files, up to the
\* bytes of a device's batch whose guard fails, those of browser saves and unmetered
\* batches, and those that the clamp at zero keeps.
THEOREM StorageStaysMetered == MCSpec => []StorageIsMetered
BY MeterHolds, PTL DEF MeterInv

\* The limit that is read before the batch holds the day's growing batches down, to the
\* requests that were under way when it was reached.
THEOREM DailyCapAlwaysHolds == MCSpec => []DailyCapHolds
BY MeterHolds, CapStands, PTL

===============================================================================
