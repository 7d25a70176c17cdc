------------------------------ MODULE MCTenantUsage ------------------------------
(***************************************************************************)
(* TLC instance of TenantUsage with history variables.                     *)
(***************************************************************************)
EXTENDS TenantUsage, Integers, FiniteSets

CONSTANT BatchesWith    \* bound: on the batches, by the number of changes

ASSUME WorkersAssumption == IsFiniteSet(Workers)

MCDailyRows == [t \in Tiers |-> IF t = "free" THEN 1 ELSE 2]
MCStorageBytes == [t \in Tiers |-> IF t = "paid_storage" THEN 2 ELSE 1]

MCBatchesWith == [c \in 0 .. 3 |-> IF c < 2 THEN 3 ELSE 3 - c]

VARIABLES
  drift,      \* bytes by which batches of the known kinds have skewed the storage meter
  grown,      \* batches of today that count and free no space
  allowed,    \* the highest daily limit of the plans that the tenant has had today
  straddled   \* a batch of an earlier day has been executed today

history == <<drift, grown, allowed, straddled>>
mcvars == <<vars, history>>

MCInit ==
  Init /\ drift = 0 /\ grown = 0 /\ allowed = DailyRows["free"] /\ straddled = FALSE

\* The bytes that a batch is metered with although its guard voids it,
Voided(b) == IF b.base # head THEN b.delta ELSE 0

\* those that it writes but that are not counted,
Unseen(b) == IF b.kind # "device" /\ b.base = head THEN b.to - size ELSE 0

\* and those that are not taken off because the meter stays at zero.
Clamped(b) == IF storage + b.delta < 0 THEN -(storage + b.delta) ELSE 0

HistoryOf(w) ==
  LET b == worker[w] IN
  /\ drift' = drift + Voided(b) + Clamped(b) - Unseen(b)
  /\ grown' = IF Counts(b) /\ b.delta >= 0 THEN grown + 1 ELSE grown
  /\ straddled' = (straddled \/ (Counts(b) /\ b.day # today))
  /\ UNCHANGED allowed

WithHistory ==
  \/ /\ BillingNext /\ UNCHANGED metering
     /\ allowed' = IF allowed < DailyRows[plan'] THEN DailyRows[plan'] ELSE allowed
     /\ UNCHANGED <<drift, grown, straddled>>
  \/ \E w \in Workers : Execute(w) /\ HistoryOf(w)
  \/ /\ \E w \in Workers :
          PrepareDevice(w) \/ PrepareBrowser(w) \/ PrepareUncounted(w) \/ Abandon(w)
     /\ UNCHANGED history
  \/ /\ Midnight
     /\ grown' = 0 /\ allowed' = DailyRows[plan] /\ straddled' = FALSE /\ UNCHANGED drift

MCNext == WithHistory /\ batches' <= BatchesWith[changes']

MCSpec == MCInit /\ [][MCNext]_mcvars /\ BillingFairness

\* The storage meter is the size of the files, through replacements, deletions, refused
\* and overlapping batches, but for exactly these bytes: those of a device's batch that its
\* guard voids, those that a save in the browser or an unmetered batch writes, and those
\* that a meter at zero cannot take off.
StorageIsMetered == storage = size + drift

\* The batches of a day that count for a tenant and free no space exceed its plan's limit
\* by no more than the other requests that were under way, whatever the plan changes to,
\* unless a batch that was prepared before midnight resets the day's counter.
DailyCapHolds == straddled \/ grown < allowed + Cardinality(Workers)

Refunded == \E e \in sent : e.status = "refunded"

Due(s) == Entitles([s EXCEPT !.plan = PlanKey(s)])

\* The webhook of a change of plan is not applied.
ChangeOfPlanLost ==
  \E e, f \in sent : e.created = f.created + 2 /\ e.plan # f.plan /\ e.id \notin applied

\* A tenant with one subscription and no refund gets the plan that its subscription tells,
\* by the checkout's key or else by its price, in the end, if no webhook comes or if they
\* come late: the reconciliation repairs it.  It does not repair a change of plan, which
\* leaves the listing's id as it was.
EntitlementConverges ==
  <>[](Last # 1 \/ Refunded \/ ChangeOfPlanLost \/ plan = Due(subscriptions[1]))

===============================================================================
