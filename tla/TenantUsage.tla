------------------------------- MODULE TenantUsage -------------------------------
(***************************************************************************)
(* Metering and quotas of one tenant, on top of Billing: the worker that   *)
(* proxies the tenant's batches reads the tenant's usage and plan, refuses *)
(* a batch that exceeds a limit, and adds the batch's rows and bytes to    *)
(* the usage in the batch itself.  Workers overlap, a batch's own guard    *)
(* may find that the graph has moved on, and a day ends.                   *)
(*                                                                         *)
(* A batch here writes or deletes one file of one codebase and counts as   *)
(* one row.  The tenant is the codebase's owner.  A device's batch counts  *)
(* for the owner with the bytes it adds; one from the dashboard or the     *)
(* browser editor counts for who makes it, with no bytes.                  *)
(*                                                                         *)
(* Left out: the number of codebases, warnings, the service owner's pause  *)
(* of a tenant, which may refuse a batch at any time, and the batches that *)
(* are not metered (reads, the service's own).                             *)
(***************************************************************************)
EXTENDS Billing, Integers

CONSTANTS
  Workers,       \* the requests that may be under way at once
  MaxSize,       \* of the file
  DailyRows,     \* the limits of a plan, as functions on the plans
  StorageBytes,
  MaxBatches,    \* bounds
  MaxDay

Tiers == {"free", "paid", "paid_storage"}

ASSUME UsageAssumption ==
  /\ {MaxSize, MaxBatches, MaxDay} \subseteq Nat
  /\ DailyRows \in [Tiers -> Nat \ {0}] /\ StorageBytes \in [Tiers -> Nat \ {0}]

VARIABLES
  size,     \* of the file of the codebase; 0 when it does not exist
  head,     \* the codebase's revision
  storage,  \* tenant_usage.storage_bytes
  rows,     \* ... rows_written_today
  day,      \* ... write_day
  today,
  worker,   \* the batch each request has prepared
  batches   \* counts the batches, for the bound

usage == <<storage, rows, day>>
graph == <<size, head>>
metering == <<graph, usage, today, worker, batches>>
vars == <<billing, metering>>

\* How a batch counts for the tenant: with its bytes, without them, or not at all.
Kinds == {"device", "browser", "uncounted"}

\* A batch, with the day it is metered for.
Batch(kind, base, to, delta) ==
  [kind |-> kind, day |-> today, base |-> base, to |-> to, delta |-> delta]

Counts(b) == b.kind # "uncounted"

NoBatch == [kind |-> "uncounted", day |-> 0, base |-> 0, to |-> 0, delta |-> 0]

Init ==
  /\ BillingInit
  /\ size = 0 /\ head = 0
  /\ storage = 0 /\ rows = 0 /\ day = 0
  /\ today = 1
  /\ worker = [w \in Workers |-> NoBatch]
  /\ batches = 0

RowsUsedToday == IF day = today THEN rows ELSE 0

\* Mutant of WithinDay: the rows of this batch are not counted in.
WithinDayBefore == RowsUsedToday <= DailyRows[plan]

\* evaluateWriteQuota, the daily limit and the storage limit.
WithinDay == RowsUsedToday + 1 <= DailyRows[plan]
WithinStorage(delta) == delta > 0 => storage + delta <= StorageBytes[plan]

\* Mutant of Delta: a file that is replaced is not credited.
DeltaGross(to) == to

\* guardedStorageDelta of a device's batch, with the size the file has when the batch is
\* prepared.
Delta(to) == to - size

Prepared(w, b) ==
  /\ worker[w] = NoBatch /\ batches < MaxBatches
  /\ batches' = batches + 1
  /\ worker' = [worker EXCEPT ![w] = b]
  /\ UNCHANGED <<billing, graph, usage, today>>

\* prepareTenantMetering of a session's batch.  One that frees space passes the daily
\* limit.  The batch is for the revision that its client has read, which may be an old
\* one; the worker's own reads are taken together.
PrepareDevice(w) ==
  \E to \in 0 .. MaxSize, base \in {head - 1, head} :
    /\ base >= 0
    /\ to < size \/ WithinDay
    /\ WithinStorage(Delta(to))
    /\ Prepared(w, Batch("device", base, to, Delta(to)))

\* ... of a server actor's, the tenant: no statement of it is a guarded file mutation, so
\* that its bytes are zero.  What the tenant saves in somebody else's codebase counts the
\* same, and here is like a batch that its guard voids.
PrepareBrowser(w) ==
  /\ WithinDay
  /\ \E to \in 0 .. MaxSize, base \in {head - 1, head} :
       Prepared(w, Batch("browser", base, to, 0))

\* A member's save in the browser counts for the member; a failure of the metering itself
\* lets any batch pass without it.
PrepareUncounted(w) ==
  \E to \in 0 .. MaxSize : Prepared(w, Batch("uncounted", head, to, 0))

\* The statements of the batch are void when the head is not the one they are for; the
\* meter's is not.
Guarded(b) ==
  IF b.base = head THEN head' = head + 1 /\ size' = b.to ELSE UNCHANGED graph

\* buildMeterUpsertStatement.
Metered(b) ==
  /\ storage' = IF storage + b.delta < 0 THEN 0 ELSE storage + b.delta
  /\ rows' = IF day = b.day THEN rows + 1 ELSE 1
  /\ day' = b.day

Execute(w) ==
  /\ worker[w] # NoBatch
  /\ Guarded(worker[w])
  /\ IF Counts(worker[w]) THEN Metered(worker[w]) ELSE UNCHANGED usage
  /\ worker' = [worker EXCEPT ![w] = NoBatch]
  /\ UNCHANGED <<billing, today, batches>>

\* The worker stops, or D1 refuses the batch, which has no effect.
Abandon(w) ==
  /\ worker[w] # NoBatch
  /\ worker' = [worker EXCEPT ![w] = NoBatch]
  /\ UNCHANGED <<billing, graph, usage, today, batches>>

Midnight ==
  /\ today < MaxDay /\ today' = today + 1
  /\ UNCHANGED <<billing, graph, usage, worker, batches>>

MeteringNext ==
  \/ \E w \in Workers :
       \/ PrepareDevice(w) \/ PrepareBrowser(w) \/ PrepareUncounted(w)
       \/ Execute(w) \/ Abandon(w)
  \/ Midnight

Next == (BillingNext /\ UNCHANGED metering) \/ MeteringNext

Spec == Init /\ [][Next]_vars /\ BillingFairness

===============================================================================
