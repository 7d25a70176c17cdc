# A verification of HopIt

HopIt keeps workspace folders on several devices, a cloud file graph and a browser
editor in step without commits or branches the user has to think about: an *agent*
watches a folder, journals what changed and commits it to the *cloud graph*; other
devices and the browser commit to the same graph; the agent refreshes the folder when
the graph moved on.  Around it are proposals that land on Main through a merge queue,
hosted jobs, device logins, push notifications, a local cache that evicts files, and
the metering of tenants.  This directory holds TLA+ modules of the parts where that can
go wrong, TLC configurations that check them on small instances, and proofs checked by
TLAPS of what matters most.

Paths below are relative to the repository's root; `graph.js` is
`packages/backend-d1/src/graph.js`, `sync.js` is
`packages/agent/src/commands/sync.js`, and the other names are files of
`packages/agent/src` unless the table of the system says otherwise.

## 1. The system

| Component | State it keeps | Operations | Talks to | What is hard, and what makes it correct |
|---|---|---|---|---|
| **Cloud graph** (`backend-d1`: `graph.js`, `helpers/graph.js`, `history.js`) | rows `codebases` (the head: revision, selected state, Main), `files`, `file_versions` | read the graph, commit one entry or a chunk, browser edit with retries, whole-graph write, snapshots | agents, browsers, maintainers, through SQL batches | Two-query reads, commits computed from the client's copy, compare-and-swap, unguarded whole-graph writes. The history must always reproduce the files, revisions must name one change, a pinned past must not move. |
| **Agent sync** (`commands/sync.js`, `reconnect.js`, `save-clobber.js`, `graph-cache.js`, `workspace-index.js`, `workspace-manifest.js`, `status-state.js`, `journal.js`, `commands/hydrate.js`, `commands/conflicts.js`) | the folder, `journal.ndjson`, `events.ndjson`, the cached graph, the manifest in the workspace index, the writer ledger, open divergences | sync (online, offline), startup reconciliation, journal recovery, hydration, refresh, resolution of conflicts | the folder, the cloud graph | Crashes between journal, commit and acknowledgement; lost answers; stale copies; syncs and refreshes that overlap each other and the user. No edit lost, nothing replayed over a newer version, nothing acknowledged that is not in the history. |
| **Local cache** (`commands/hydrate.js`, `workspace-index.js`, the auto-prune of `watch.js`) | which files of the folder are hydrated, in the workspace index | prune, scheduled prune, dehydrate, hydrate a file | the folder, sync, cloud graph | An evicted file and one the user deleted look alike on the disk; every command and every sync reads the index when it starts and writes it when it ends. An eviction must never become a deletion, nor remove the only copy. |
| **Blob storage** (`blob-stores/`, `commands/storage.js`) | objects named by the hash of what they hold | put, get, collect garbage | sync, cloud graph | A body is put before the commit that names it, and the collection looks at graph and bucket at different times. The history must keep its objects. |
| **Workspace lock** (`workspace-lock.js`) | `.hopit-agent/lock.json` | acquire, take over from a dead holder, release | other processes on the host | Several file-system calls with processes and deaths in between. One agent per folder; a dead holder does not keep it. |
| **Schedulers** (`watch.js`) | queues and timers in memory | coalesce reports into syncs, periodic scan, trigger and cool down refreshes, periodic look at the head | watcher, sync, refresh | Reports during a drain, timers against each other, dropped events. Every change is synced, none is held past the cap, no queued refresh is forgotten. |
| **Remote push** (`remote-push.js`, `cloudflare/d1/push-hub.js`, `api-worker.js`) | the hub's last envelope, the client's cursor and queue, sockets | notify, publish, connect, receive, reconnect, decide and refresh | cloud graph, refresh | Lost, late, reordered and repeated envelopes; sockets that break; refreshes beside the pull scheduler's. The workspace reaches the head. |
| **Proposals, merge queue** (`commands/propose.js`, `backend-d1`: `proposals-store.js`, `collaboration.js`) | proposal rows with a pinned revision, decisions | propose, review, CI gate, land | cloud graph, hosted actions | Checks in requests before the write, a death between landing and marking, two landers. Only what was approved lands, what is marked merged has landed, and a run never goes around with a proposal that cannot land. |
| **Hosted actions** (`backend-d1/src/actions.js`, `packages/actions-runner`) | `action_jobs` | enqueue, claim, run, complete, cancel, requeue | merge queue | Two runners on one job, lost answers, a runner that dies. One outcome for each job. |
| **Device authorization** (`backend-d1/src/device-authorizations.js`, `sessions.js`) | a row for each request, a row for each selected project, agent sessions | create, approve, poll, expire, revoke | sessions, web app | An approval in six requests with an undo, two tabs, repeated polls. The tokens handed to a terminal work. |
| **Quota and billing** (`backend-d1/src/billing.js`, `cloudflare/d1/quota.js`, `api-worker.js`) | `tenant_usage`, `subscriptions`, `billing_webhook_events` | meter a batch, apply a webhook, reconcile | payment provider, every SQL batch | Late, repeated, lost and reordered events; limits checked before the batch that counts. The plan follows the newest event, the meter the files. |
| Members and sessions, D1 proxy worker | their tables; none | sessions and decisions are modelled where they matter above; forward SQL | backend | Otherwise one guarded statement each; a batch is atomic. |
| Divergences, episodes, releases, keys | their tables | single-row operations, derived views | backend | One guarded statement each. |
| CLI, import/export/restore/mirror, service and installer, desktop app, web app, scripts | files, settings | one-shot commands, pages | the components above | I/O and presentation. |

`PROJECT.json` lists every one of them with its status, and under `hazards` each place
of the code where an order, a crash or a stale value matters, with the properties that
cover it.

## 2. The modules

```
GraphRevisions          files, revisions, batches, history rows  (no state)
  GraphStore            the promise: one sequential store
    CloudGraph          two-query reads, compare-and-swap commits, browser retries
      GraphRewrite      + the whole-graph writes of reviews, merges, recorded conflicts
    AgentSync           one agent, its folder and what it persists
    BlobStorage         objects beside the graph, garbage collection
      LocalCache        eviction and hydration beside syncs
WorkspaceLock           the lock file
WatchScheduler          the timers and queues of a watching agent
JobQueue                the promise of the job table
ActionJobs              its requests and runners; implements JobQueue
MergeQueue              proposals, reviews, CI outcomes, landings
DeviceAuthorization     one device code, tabs that approve it, the terminal
RemotePush              notification, hub, client, and the refreshes of push and pull
Billing                 subscriptions, webhooks, reconciliation
  TenantUsage           batches of workers, limits, the meter, midnight
```

`MC*.tla` instantiate them for TLC, adding history variables where a property is about
what happened before; `*Proofs.tla` hold the theorems.

### GraphRevisions and GraphStore

`GraphRevisions` is the vocabulary: a file is a revision and a content, a batch a
function from paths to new contents (`NoFile` deletes), and the entries of a batch take
the revisions that follow the current one, in any order (`Applied`,
`applyJournalEntryToCloud`).  `VersionRows` are the rows of `file_versions` a batch
appends: none for an entry that does not change the content.  `GraphStore` is the
abstract specification: a batch is applied in a single step to the files as they are.
Each of its paths has one edit in it, with one exception: the deletion of a file that is
not there may come several times, each of which takes a revision and leaves no row
(`Repeats`).  `CloudGraph`'s clients never use it; the recovery of a journal does.

### CloudGraph

The database is `head`, `files` and `versions`.  A client has a `phase` (nothing read,
the head read, all read) and a copy `graph`.

| Action | Code |
|---|---|
| `OpenFile`, `SaveFile`, `RetrySave`, `RefuseSave` | `readTextFile`, `mutateTextFile`: the edit carries the revision that was shown; a lost swap is tried again from a fresh read, up to the number of attempts |
| `ReadHead`, `ReadFiles` | the two queries of `readOptionalGraph` |
| `CommitBatch` | `commitJournalEntry`, `commitJournalEntryChunk`: all rows computed from the copy, the head update guarded by the row that was read, every other statement by its effect |
| `AgentStops` | the swap changed no row and the call throws, or the client goes away |

The guard of the SQL compares revision, selected state and Main; `HeadRow` has these.
A batch of statements is atomic, as it is in D1.

### GraphRewrite

`writeGraph` is not one batch: `WriteHead`, `WriteFile` for each file, `DeleteOthers`,
`WriteVersion` for each row, and `EndRewrite`, which is its return or the death of its
process between two queries.  It starts from a copy, current or not, that one of these
edited; the head is upserted without a guard.

| Action | Code |
|---|---|
| `OpenReview` | `openChangeSetReview` |
| `Merge` | `mergeChangeSet`: Main moves to the change set's revision, or, when Main has moved since the change set began, the conflict is recorded |
| `UpdateCodebase` | `updateCodebase`, `claimCodebaseOwner`, which move the revision and Main |
| `RecordConflict`, `Return` | `recoverJournal`: an entry was refused, by its base or by the swap; the conflict is recorded on the copy, with which the recovery goes on |

### AgentSync

What an agent persists: `disk`, `journal` (with the outcome of each entry, which the
code derives from the event file), `cache`, `manifest` and `settled` (the workspace
index), `ledger`, `diverged`.  What it only holds in memory: `mode`, `notice`, `sync`,
`refresh`; `AgentDies` forgets these at any point.

| Actions | Code |
|---|---|
| `Notice`, `SyncRead`, `SyncReadCached`, `SyncPlan`, `SyncCommit`, `SyncAcknowledge`, `SyncSettle`, `SyncFails` | `performSyncOnce`: read the graph (or the cached one), scan, plan, journal, commit, acknowledge, write ledger and index; it may throw after each |
| `Start`, `Recover`, `RecoverAcknowledge` | `reconcileUnwatchedChanges`, `recoverJournal` with the reconnect buckets |
| `HydrateRead`, `HydrateFinish` | `hydrateWorkspace` |
| `RefreshRead`, `RefreshCheck`, `RefreshScan`, `WriteDisk`, `RefreshFinish`, `RefreshStops` | `remoteRefreshDecision`, `refreshWorkspace`, `materializeCloudToWorkspace` |
| `ResolveKeepCloud`, `ResolveKeepLocal` | `hop conflicts resolve` |
| `Edit`, `OtherDevice` | the user, and every other client of the graph |

The steps between two awaits of a sync and of a refresh interleave freely.  What the
agent commits is meant to be `GraphStore`'s batches (`SyncImplementsStore`).  For syncs
and resolutions that is plain; a recovery replays every open entry, of which one path may
have several.

### BlobStorage and LocalCache

`BlobStorage` adds to the store the contents that have an object, which of the objects
are within the retention window, and the collection under way.  `LocalCache` adds the
folder, the index (`hydrated` paths, whether the folder is fully hydrated, and the
manifest) and, in memory, a sync, an eviction and the hydration of a file.

| Actions | Code |
|---|---|
| `Put`; `GcReadGraph`, `GcReadVersions`, `GcList`, `GcDelete`, `GcEnds`; `Ages` | `putBlob`; `storageGc`: three reads, then a deletion at a time; an object outgrows the window |
| `PruneStart`, `PruneScan`, `Remove`, `EvictFinish`, `EvictStops` | `pruneWorkspaceCache` and `createAutoPruneScheduler`: choose among the clean files, remove them one by one, write the index; it may throw after each |
| `DehydrateStart` | `dehydrateWorkspace`, then as above |
| `HydrateRead`, `HydrateWrite`, `HydrateBlocked`, `HydrateFinish`, `HydrateStops` | `hydrateFile`, `materializeHydrationPaths` |
| `Report`, `SyncRead`, `SyncScan`, `SyncPlan`, `SyncUpload`, `SyncCommit`, `SyncSettle`, `SyncFails` | `performSyncOnce`, with the deletions it may derive from the index (`deletableCloudPathsForWorkspace`) |
| `AgentDies`, `Start`, `Edit` | a crash; `reconcileUnwatchedChanges`, `recoverJournal`, `hydrateWorkspace`; the user |

### WorkspaceLock and WatchScheduler

`WorkspaceLock` has one action for each file-system call of `acquireWorkspaceLock` and
`release`; a file between its creation and its record is a state of its own.
`WatchScheduler` counts timers down in ticks: `Schedule`, `Flush`, `Take`, `AfterDrain`
are `createWatchSyncScheduler`, `Trigger`, `PullStarts`, `PullRests` and the outcomes of
a run `createRemoteRefreshScheduler`, `WatcherReports` and `ScanReports` the sources of
events.  `change` is a ghost: whether the folder has a change that no sync has scanned,
and whether it was reported.

### JobQueue and ActionJobs

`JobQueue` is the abstract specification: a job is absent, waiting, taken by a runner,
done with an outcome by the runner that took it, or cancelled (`Add`, `TakeUp`,
`Finish`, `Withdraw`, `Again`).  `ActionJobs` has the rows and, for each runner, the
request it is about to make.

| Actions | Code |
|---|---|
| `Enqueue` | `createActionJob`, `enqueueCiJobForProposal` |
| `Select`, `Claim`, `Reread`, `ClaimFails` | `claimNextActionJob`: the oldest queued row, the guarded update, the row again; a lost swap takes another turn |
| `Execute` | the runner's `executeJob`, which a timeout ends |
| `Check`, `Refused`, `Write`, `Answer`, `ReportFails`, `CycleFails` | `completeActionJob`, a check and an unguarded update, and the runner's second report of a failure |
| `Die` | the runner dies, wherever it is |
| `Cancel`, `Requeue` | `applyServiceAdminAction` of the worker |

### MergeQueue

`graph` has the revision, Main and the change set, `snapshots` the files that the version
history tells as of each revision and `recorded` the revisions it has rows of, `proposals`
the rows with their pin and state, `decisions` the reviews; a command is a process with
what it holds from its earlier requests.  `Requesters` are the commands that somebody
other than the owner gives, `Shared` the paths these may see: the comparison of a landing
leaves the others out (`Seen`, the filter of `compareRevisions` in `graph.js:225-236`).

| Actions | Code |
|---|---|
| `Save`, `UpdateCodebase` | a commit of an agent, which may take an earlier edit back; `updateCodebase`, which moves the revision and Main and leaves the change set's revision and the history as they are |
| `ProposeReads`, `FindOpen`, `Upsert`, `ProposeEnqueues` | `proposeChangeSet`, `upsertProposal`, `enqueueCiJobForProposal` |
| `ApproveReads`, `Approve`; `DecideReads`, `Decide` | `approveProposal`, also from `--merge`; `createReviewDecision` |
| `ListReady`, `NothingReady`, `LandReads`, `LandReadsRow`, `LandReviewed`, `LandPasses`, `LandWaits`, `MarkStale` | `runMergeQueue`, `landOneProposal`: graph, row, decisions, CI, overlap, each in a request of its own |
| `AdvanceMain`, `MarkMerged` | `advanceMainToRevision` with its whole-graph write; the row is marked afterwards |
| `Hosted`, `Dies` | the outcome of a CI job; a command dies between two requests |

### DeviceAuthorization

`row` is the authorization (status, who claimed it, the projects and their tokens),
`sessions` the agent sessions; a tab has the request it is about to make.

| Actions | Code |
|---|---|
| `Approve`, `Claim`, `Confirm`, `RegisterReads`, `RegisterWrites`, `StoreTokens`, `Finish`, `Reread` | `approveDeviceAuthorization` with `registerAgentSession`, request by request |
| `Fails`, `Refused`, `ClearTokens`, `Undo`, `Dies` | its `catch`, which clears the tokens and puts the row back; the death of the request |
| `PollRow`, `PollTokens`, `PollLost` | `pollDeviceAuthorization` and the terminal |
| `RevokeSession`, `ExpireByOwner`, `Deadline` | sessions revoked by the user, the console, the expiry |

### RemotePush

| Actions | Code |
|---|---|
| `Commit`, `Notify`, `NotifyFails` | a commit or a change of the selected state; `notifyPushHubAfterMutation`, which reads the head anew |
| `Publish`, `CatchesUp` | the hub's publish, and its answer to a cursor |
| `Connect`, `Opened`, `Polled`, `Receive`, `Handle`, `Drop`, `Closed` | the client's loop around a socket |
| `Decide`, `RefreshReads`, `RefreshWrites`, `DecisionFails` | `runRemotePushDecision` |
| `PullDecides`, `PullWrites` | the refresh of the pull scheduler, whose timers are WatchScheduler's |
| `Edit`, `Settle`, `Restart` | a change that makes the agent busy, its sync, a restart of the agent |

### Billing and TenantUsage

| Actions | Code |
|---|---|
| `Subscribe`, `ChangePlan`, `Cancel`, `End`, `Refund` | the payment provider with its portal, as the code reads it (external); `PlanKey`: the key that the checkout wrote into the subscription, or else the price's plan |
| `Webhook` | `applyBillingEvent`: a batch of the event's id, the subscription row and the plan |
| `List`, `ReconcileReads`, `ReconcileApplies` | `reconcileBillingEntitlements`: list, read the usage row, apply, in three requests |
| `PrepareDevice` | `prepareTenantMetering` of a device's batch, with the limits; `guardedStorageDelta` reads the size the file has |
| `PrepareBrowser` | ... of a batch that the tenant makes from the dashboard or the browser editor: without bytes, which `guardedStorageDelta` only counts in a session's guarded file mutations |
| `PrepareUncounted` | ... of one that does not count for the tenant: a member's save in the browser, which counts for the member, and any batch when the metering itself fails |
| `Execute`, `Abandon` | the batch with the meter in it; a batch that is not executed |
| `Midnight` | a new day |


## 3. What is checked

| Run | Question | Instance |
|---|---|---|
| `cloud_graph` | Do interleaved two-query reads and guarded commits keep the history equal to the files, revisions unique, the past fixed, saves on the version the user saw, and implement `GraphStore`? | 2 agents, 1 browser, 2 paths, 2 contents, revisions to 3, 2 attempts |
| `graph_rewrite` | What can whole-graph writes damage, from whatever copies they start, with whatever commits they race and wherever they die? Only the paths of which the writer had missed a change. | 2 agents, one of them a maintainer, 2 paths, 1 content, revisions to 2, 2 whole-graph writes |
| `agent_sync` | Do manifest and journal say no more than the history, do replays follow their base, do refreshes keep edits, does a start lose no more than edits behind an open entry, and is all the agent commits a sequence of batches of `GraphStore`? | 2 paths, 2 contents, revisions to 4, 2 journal entries, 3 edits here or elsewhere, 4 of edits and failures together |
| `workspace_lock` | One agent per folder while nobody died, and also after deaths unless two takeovers of the same holder race; is the folder usable again and again? | 3 processes |
| `watch_scheduler` | Is every change taken by a sync, within the cap; is `isIdle` right; is no queued refresh forgotten; is a moved head followed? | window 2, cap 3, cooldown 2 |
| `action_jobs` | Does the job table implement `JobQueue`, does a completion's check still hold at its write, and is a queued job served? | 2 jobs, 1 requeue of each, 2 runners |
| `merge_queue` | Has what is marked merged landed, do only approved pins land, and does a run take no proposal up again? | 2 commands at a time, of members who see one of 2 paths, 1 content, revisions to 3, 2 proposals, 1 decision; 4 commands and new revisions together |
| `device_authorization` | Do the tokens a terminal is handed work, do they come from one whole approval, and does a claim that failed go back? | 3 tabs of 2 accounts, 2 projects, 2 approvals |
| `remote_push` | Is a listening agent at rest at the head, is what it drops as old really held, and does it reach the head? | 2 revisions, 1 rotation of the selected state, 2 drops, 1 restart, 1 edit |
| `tenant_usage` | Does the storage on the meter differ from the size of the files by exactly the known bytes, does the daily limit hold, is the plan that of the newest event and, in the end, the one the subscription tells? | 2 workers, files of size 1, 2 days, 2 subscriptions, 3 changes of them; 3 batches beside up to 1 change, 1 beside 2, none beside 3 |
| `local_cache` | Does an evicted file stay in the cloud, does pruning keep edits, does the history keep its objects? | 2 paths, 2 contents, revisions to 4, 3 events of which one of a kind |
| `cache_pruned` | Do pruned files stay in the cloud, without exception? (They do not.) | as above, 1 event |

*Bounds.*  They end behaviours; none of them stands for a limit of the code.  Three
revisions let a commit fall before, inside and after another client's read, and an edit
be overtaken twice.  Two paths are needed for torn reads, for batches of two, for
partial refreshes and for overlapping proposals; two contents for an edit and its
opposite.  In `agent_sync` the edits are shared by the user and the other devices, and
deaths and throws share four events with them: a failure for each edit, or one failure
and three edits.  Three processes are needed for two takeovers of a dead third, three
tabs for two of one account beside one of another.  Two runners and a requeue make a job
be taken twice; two landers and a third command make a pin change under a landing, or
repeat one, and three revisions take an edit back.  In `merge_queue` an import has every
file, and an empty codebase one step less.  Two drops and a restart cover a notification
lost before and after the client was up.  Two batches overlap and a third crosses
midnight; two subscriptions are needed for events that overtake each other and for a
customer who comes back.  Batches and the provider's changes only meet in the plan, so
that long histories of both together are left out. In `graph_rewrite` two whole-graph
writes overlap each other and the commits of two agents; a browser is one more client
with a copy, and left to the proof.  In `local_cache` the three events are shared by
evictions, hydrations, collections, deaths and edits of the user, one of each kind, and
collections are not combined with evictions and hydrations, which they share no state
with.  The timers of the scheduler are smaller than the code's but keep their order (the
window below the cap), and unequal.

*Symmetry and constraints.*  Paths, contents and clients are symmetric where the run has
no liveness property and the instance treats them alike.  `graph_rewrite` does not go on
from a state in which every path is disputed, where its property says nothing, nor
beyond its number of whole-graph writes.  `merge_queue` does not go on from a
state where a landing wrote a graph behind the head, since what that does to the files is
`graph_rewrite`'s question; two landings at once, of which one writes Main or the change
set back, are in the run.  The proofs have neither constraint.

*Deadlock.*  Every model but `WatchScheduler` comes to rest at its bounds (no revision,
no journal entry, no living process left), so the check is off there; `WatchScheduler`
has no bound that stops it and is checked for it.

*Mutants.*  Each property is paired with a mutated definition of the code, kept beside
the original (`SwapUnguarded` for a head update without its guard, `GcListAnyAge` for a
collection without the retention window, `ReviewedSometime` for a landing that takes any
approving review instead of the latest, and so on), under which TLC finds it violated.

### What the violated run shows

`pruneWorkspaceCache` removes the files one by one and writes the workspace index after
the last of them (`commands/hydrate.js:627`).  Until then the index says they are
hydrated, and a sync that starts in between finds them gone: it commits their deletion.
The watcher reports the removals, so that such a sync is due in every pruning; the same
follows when the process dies before it writes the index.  `docs/progress.md:782`
promises that "the next sync does not treat them as cloud deletes".  `EvictionIsNoDeletion`,
which holds, tells what else makes an eviction a deletion: a start or a hydration of the
same file that overlaps it, and the hydration of another file that takes the folder for
complete by an older graph (`commands/hydrate.js:369`).

### Known divergences

Properties above carry conditions.  Where a condition is there because the code does
less than a comment or a document says, it is one of these.

* **Cloud graph.**  A whole-graph write from an outdated copy takes the codebase back
  behind a confirmed commit (`graph.js:129`);
  `docs/proposal-data-model-design.md:171-173` counts on a compare-and-swap it does not
  have.
* **Agent sync.**  A sync bases its entries on the graph it has just read, not on the
  version the workspace had, and so replaces a version of another device (`sync.js:565`;
  `docs/personal-production.md:983` rules out two devices for now).  An edit planned
  offline is only classified at the next start; the first sync that reaches the cloud
  commits it over another device's version, and commits paths whose divergence is open
  (`sync.js:509`, against the comment at `sync.js:844`).  A file edited again while the
  agent is down, behind an open entry, is overwritten by the hydration of the start
  (`watch.js:103`).
* **Workspace lock.**  Two takeovers of one dead holder both succeed
  (`workspace-lock.js:132`); a holder that dies between creating and writing the file
  keeps the folder (line 112).
* **Local cache.**  Besides the run above: `dehydrate --force` removes files that no
  sync has taken; partially hydrated workspaces are never refreshed; a collection of
  garbage that read the graph before a commit may delete an object the commit counts on,
  if the upload found it there and it was old
  (`docs/ws7c-object-backed-diff-history-design.md:137`).
* **Proposals.**  The CI gate asks for the latest job of the proposal, whatever its pin:
  a proposal that is pinned anew, whose enqueueing fails, lands on the green job of its
  earlier pin ("nothing merges un-checked even if this call fails",
  `commands/propose.js:73`).  Two rows for one change set arise when two commands search
  before either inserts ("never fork a second one", `proposals-store.js:16`).
* **Main.**  Renaming a codebase or claiming it takes Main to the head (`graph.js:862-863`,
  `members.js:71-72`), and with it what nobody has proposed or reviewed, where "Main is an
  accepted snapshot and must only move through the explicit merge flow"
  (`graph.js:306-307`) and one code path "ever writes `cloud.main.revision`"
  (`sync.js:1263-1264`).  The revision it makes has no history rows: until the next save
  a comparison with it counts as expired, so that proposals pinned before go stale; and
  one pinned after it has an older pin than base, so that its landing takes Main a
  revision back, to the same files.  Main also goes back when a late proposal is landed
  whose files Main once had and has left again: overlaps are those of files, not of
  edits.  The comparison of a landing leaves out the paths that the user of the command
  may not see (`propose.js:230-247`, `graph.js:225-236`): a member's landing takes back
  what Main has gained in private files, in all of them while the change set is
  private, where the comment says "safe before clever" (`propose.js:250`).  Two landings at
  once both compare with the Main they have read, and the later write puts Main, or the
  change set, back; the serial landing "with no explicit lock" (`propose.js:142-147`) is
  that of one command.  What Main holds after a landing is therefore no property here.
* **Device authorization.**  An approval that fails after its row was approved clears the
  tokens of the projects without looking at the row
  (`device-authorizations.js:276-281`), so that the terminal may get fewer than were
  approved; a claim is by account, so that two tabs of one share it; a retry with
  another project at the same place is refused.
* **Remote push.**  A socket that closes between its open event and the registration of
  the close listener leaves the client waiting for good (`remote-push.js:183-256`,
  against `docs/progress.md:1466`); a notification that is late overwrites a newer
  envelope of the hub; the refreshes of push and pull have no common lock and may cross.
  The periodic pull repairs all of these but the silence of push itself.
* **Quota and billing.**  The reconciliation applies the listed subscriptions of a
  customer newest first with one time for all, and `>=` lets the older one win
  (`billing.js:68`, against `docs/phase-3-multi-tenant-design.md:809`); a refund that is
  older than the reconciliation's stamp is ignored, and one between its read and its
  write is undone.  A batch whose guard fails is metered all the same ("it cannot skew",
  same document, line 982), and one that straddles midnight resets the day's counter.  The
  comment on the storage meter (`cloudflare/d1/quota.js:16-19`) says that a re-save adds its
  size again, that exact deltas are not taken, and that the tally is "reconciled nightly":
  the code takes the difference to the size it has just read
  (`api-worker.js:404-427`), and nothing in it reconciles the tally.  What is saved in the
  dashboard or the browser editor is metered without its bytes and for who saves it, not
  for the owner (`api-worker.js:409-410` and 463), so that the owner's limit does
  not bind it.
* **Changes of plan.**  The key that the checkout writes into a subscription
  (`src/lib/stripe-billing.ts:76-83`) wins over its price (line 134), so that a change
  made in the provider's portal, which "Manage plan" opens
  (`src/components/pricing-page.tsx:187-191`) and `docs/progress.md:2065` configures for
  upgrades and downgrades, never reaches the entitlement.  For a subscription without a
  key the webhook carries it; if that is lost, the reconciliation takes the listing for
  one it has applied, because its id has the status, the period and the cancellation but
  not the plan (`stripe-billing.ts:218-225`, `billing.js:129`), until one of these
  changes. `EntitlementConverges` says what holds: the plan the subscription tells by
  key or price, unless the webhook of a change of plan is lost.

## 4. Abstractions

* A content stands for its hash, size and kind, and where objects matter, for the object
  of that name (unencrypted, as for a hash of what it holds).  Members, visibility,
  scopes and hidden paths are left out, but for what a landing may compare (`MergeQueue`).
* `AgentSync` reads the graph in one step.  A copy torn between the two queries can never be
  committed (`CopyIsCurrentOrRefused`); a refresh may still materialize one, and
  the next look at the head finds it was not the last revision.
* The entries of one plan are journaled in one step and committed as one batch.  A
  single entry and a chunk behave alike up to that; plans of more than one chunk commit
  like consecutive plans.
* A recovery reads and commits in one step.  A commit of another device in between makes
  the swap refuse it, which ends as the refusals that are modelled: the start throws, or
  is blocked.  The conflict flag that a single refused entry leaves on the head is
  `GraphRewrite`'s `RecordConflict`.
* A resolution of a conflict is one step.  `BuildsOn`, the relation "the new text
  contains the old", is empty in the runs, which makes the clobber check strictest.
* Left out of `AgentSync`: the guard against deleting more than 100 files, event-file
  rotation, the review state of the change set.  Partially hydrated workspaces are
  `LocalCache`'s, a refresh from a push is `RemotePush`'s.
* `LocalCache`: one device; a journal entry lives from its plan to its commit; the files
  the policy spares (pinned, recent, within the budget) are any subset of the clean
  ones; the parallel reads of a pruning, and the checks of the journal and of the graph
  by a dehydration, are one step each; one eviction at a time; a start is one step, and so
  are the look for an object and its upload.  `BlobStorage`: the retention window is
  longer than an upload with its commit and than the reads of the collection.
* `WorkspaceLock`: one host, pids are not reused.
* `WatchScheduler`: no `close()`; a tick waits for timers that are due.
* `ActionJobs`: what a job does is its outcome; the cap on the turns of a claim is left
  out, since a claim that ends is repeated by the next poll.
* `MergeQueue`: `FindOpen` takes any open row where the code takes the one updated last;
  of a proposal's CI jobs there is the outcome of the latest; a
  save is of one file; a rename is one step, whose races are `GraphRewrite`'s.
* `DeviceAuthorization`: one code, already created; a project is its place in the list.
* `RemotePush`: the workspace is the revision it was refreshed to; the hub keeps its
  envelope, the periodic look of the pull scheduler comes round without its timers.
* `Billing`: a tenant is one customer; the webhook's lookup of the tenant and its batch
  are one step; trials, unpaid states and periods are left out.  `TenantUsage`: what a
  worker reads before a batch is read together; a batch is of one file and counts one row; a
  tenant's own saves in somebody else's codebase count for it and are like a batch that its
  guard voids.  The pause of a tenant is left out; it refuses a batch, as a limit does.

*Fairness.*  Weak fairness says that a process that runs goes on to its next call, and
that a timer or an interval comes round; every liveness property lists what may fail.

| Module | Assumed | Because |
|---|---|---|
| `WorkspaceLock` | `WF` of `Start`, `Acquire`, `Unlink` | a process that runs goes on; the packaged service has `KeepAlive` (`scripts/package-hop.mjs:442`), so that a refused or stopped agent is started again |
| `WatchScheduler` | `WF` of `Tick`, `Flush`, `PullStarts`, `ScanReports`, `Reconcile`, `Drain`, `Pull`; `SF` of `PullRefreshes` | timers expire, awaited calls end, and the cloud's answer is not wrong every time, without which a decided run may be skipped for ever. None for the watcher: it may drop every event. Saves may go on for ever |
| `ActionJobs` | `WF` of each runner's steps, `SF` of `Claim` | a runner polls in a loop; of the polls that find a job queued not all are overtaken or fail |
| `DeviceAuthorization` | `WF` of `Poll` and of each tab's steps | the terminal polls at an interval, a request under way ends; a tab's death is always possible |
| `RemotePush` | `WF` of `Connect`, `Working`, `Settle`, `PullDecides`, `PullWrites` | the client reconnects with a backoff, a busy agent syncs, the reconciliation of the pull scheduler comes round. None for the push messages |
| `Billing` | `WF` of `Reconcile` | the daily cron; no webhook need come |

## 5. What is proved

The proofs are for any finite set of paths and any clients, processes, runners, commands
and bounds; the assumptions are the named `ASSUME`s of the modules (bounds are naturals,
special values are none of the ordinary ones, paths and workers are finite).  Each goes
by an inductive invariant that is stronger than what it shows.

* **CloudGraphProofs**, whose first lemmas are on the batches of `GraphRevisions`.  `Inv`:
  types, a browser only reads to submit, no copy is ahead of the store
  (`CopiesNotAhead`), a copy with the current head has the current files, revisions are
  unique and the history tells the files.  `CopyIsCurrentOrRefused` is not inductive
  alone: between the two queries a commit must be known to move the head *past* every
  copy, so that a torn copy never matches again.  The key lemma `SwapIsAtomic` says
  that a swap that takes effect is `GraphStore`'s `Apply` on the current files; from it
  follow `InvHolds`, its parts as theorems, `PastImmutable`, `NoBlindSaves`, and that
  `CloudGraph` implements `GraphStore` (`Refinement`).
  Of the whole-graph writes, `RewriteTypeCorrect` says that what commits and rewrites
  compute from torn or outdated copies fits the tables.  `ConfinedInv` is about what they
  can damage: for each client it has the paths of which the client missed a change since
  it began to read, and the *disputed* paths, those over which somebody wrote who had
  missed their last change.  Of a path it missed nothing of, a client's copy has the
  file that is stored, and a whole-graph write has it too and nothing to add to the history
  (`CopySees`, `CallSees`); and unless that path is disputed, no file or row of it is
  beyond the revision that the client holds, so that a head which goes back stays in front
  of it.  Hence every path that is not disputed keeps its file, its history tells it, and
  no two of its revisions are the same (`DamageConfined`), whichever copies the writes
  start from, however many overlap and wherever they die.
* **AgentSyncProofs**, on the store lemmas of the former (`StoreInv`, `StoreMoves`).
  `SyncInv` says what an agent knows of the store: every copy it holds or has persisted
  is told by the history at the revisions it names (`CopiesTold`), a sync only plans
  offline when it is offline, the plan under way is of the current graph or will be
  refused (`PlanIsCurrentOrRefused`), changes each of its paths (`PlanChangesPaths`), and
  what a step has committed or acknowledged is recorded (`CommittedIsRecorded`).
  `ManifestCorrect` and `AcknowledgementsCorrect` follow for any number of paths,
  entries, edits and failures.  The refinement (`SyncRefinement`) needs that a recovery
  is one batch of the store, although several open entries of a path may be replayed
  together.  After the first of them, the next one's base must be the revision that one
  has just made, or no file if it was a deletion.  No journaled base is ahead of the
  head when it counts as causally earlier than one on the current file, and an open
  entry without a base is not a deletion (`OpenAdditionsWrite`); so a path whose last
  entry is on the current file ("only-local") is replayed once (`LocalOnce`).  Where the
  cloud has the last entry's content already ("auto-resolved") all are rebased onto the
  current file, so that a second one is only accepted if all are deletions of a missing
  file (`ResolvedOften`, `ReplayIsBatch`).  That a recovery's deletions leave no gap in
  what the history records needs `NeverStored`: what the agent knows of a path without
  a history comes from an addition that waits in the journal.  An earlier form of the
  property said that a replay has one edit of each path; the proof failed on two open
  deletions of one missing file, which are accepted together.  The instance was too
  small to have both, and is larger now.
  On top of it, `CoverInv` is about what may be overwritten.  From its check to its last
  file a refresh only overwrites what the manifest or the graph has, both told by the
  history, or paths it withholds; at a start every drift is in the journal, until a
  recovery records it or sets its path apart.  Both need `OneAtATime`: while an agent
  starts, no sync or refresh of its watcher is under way (`RefreshAlwaysKeepsEdits`,
  `StartAlwaysKeepsEdits`).
* **WatchProofs**, on the process that watches a folder.  The lock: `LockInv` adds to the
  types that, while nobody has died, no process is about to remove a file and whoever got
  past the exclusive create owns the file there is; `LiveExclusionHolds` follows.
  `TakeoverInv` is for deaths: as long as nobody removed a file that had changed since it
  was judged, every living holder owns the file, and who was judged is dead and stays so
  (`TakeoverAlwaysExcludes`).  The schedulers: `WatchInv` adds to the types that a
  reported change is in the queue or in the sync that is about to scan; `IdleHolds` and
  `TriggerHolds` follow for all delays, with the cap on or off.  `HeldInv` ties the time a
  report has waited to the timer that will end it (`CapHolds`, which assumes that there
  is a cap).
* **HostedProofs**.  Of the action jobs, `JobsInv`: types, a runner past its poll has a
  job (`HandsFull`), a job that runs or is done has a runner (`TakenIsClaimed`), and the
  check of a completion still holds at its write.  With it every step of the requests is
  a step of `JobQueue` or a stutter (`Refinement`): although the completion is not
  guarded, only the runner that claimed a job takes it out of the running state, because
  the owner's actions do not apply to running jobs. Of the merge queue, `MergeInv`:
  types; a command about to mark a row has landed its pin, and so have the rows marked
  (`MergedAlwaysWasLanded`).  `ApprovalInv`: a proposal that was reviewed has a latest
  decision, a row that is approved was so by its latest review at its pin or by its own
  command, and what a landing holds once it has passed the reviews was approved when it
  read them, which later decisions do not undo (`OnlyApprovedPinsAlwaysLand`).
  `TakenInv`: a proposal is in the queue once (`QueueOnce`); what a run has taken up has
  left the queue, unless the run is still about it or somebody has approved it since;
  and every way a run goes on from a proposal takes it off the queue
  (`NoneIsEverTakenUpAgain`).
* **RemotePushProofs**.  `PushInv`: what the client, the hub and the decisions know was
  committed, a refresh reads after it was decided on, and the revision up to which
  envelopes are dropped was materialized, unless two refreshes cross
  (`AppliedIsAlwaysHeld`).  `RestInv`: of the head there is a hint that is due, on its way
  or in the client's queue, or a connection to be made that will ask for it, or a refresh
  has read the head or will, unless one of the excepted losses happened; a hint of the
  head that would be dropped as seen has done its work already, because each commit
  makes one envelope and only its copies share its id (`UpToDateAlwaysAtRest`).
* **DeviceAuthorizationProofs**.  `DeviceInv`: a claimed row has one approval that works
  on it, its owner's (`OneClaim`); what that has registered are the current tokens of
  its account's sessions (`HeldFit`); the child rows are empty until it stores them, and
  fit when it marks the row (`StoredInv`).  It holds until another tab of the same
  account takes the claim for its own, which is the case that `HandedTokensWork`
  excepts (`HandedTokensAlwaysWork`).
  `WholeInv` counts: when the row is about to be marked, the
  child rows are exactly what the approval has registered, one for each project, and only
  a failed approval clears them afterwards (`HandedIsAlwaysWhole`).
* **TenantUsageProofs**.  `BillingInv`: what was sent and applied are the provider's
  events, a reconciliation's list is no newer than its time, the plan is the row's
  (`NewestEventAlwaysStands`).  `MeterInv`: a device's batch has the bytes that it will
  add as long as its guard holds, and other batches have none (`BatchInv`), the meter
  differs from the files by exactly the bytes that voided, uncounted and clamped batches
  have put between them, and today's growing batches, with those prepared, stay within
  the highest limit of the day and the number of workers (`CapInv`):
  `StorageStaysMetered`, `DailyCapAlwaysHolds`.

* **LocalCacheProofs**, with `BlobStorage`.  `HistoryInv`: what the history needs, and
  what a sync has put, has its object, but for those a collection has overtaken; a
  collection has marked whatever was needed when it read the versions; and what it may
  still delete wrongly is only what a sync found there instead of uploading it
  (`HistoryAlwaysKeepsObjects`).  `PruneInv`: every copy of the graph or of the manifest
  has contents that were recorded, and what a pruning is about to remove is gone, recorded
  or was touched by the user since (`PruneAlwaysKeepsEdits`).  `EvictionInv`: an evicted
  file is listed neither by the index, nor by the one the sync under way goes by, nor by
  the one an eviction is about to amend, unless it is the running eviction's; and no scan
  or hydration under way will list it again (`EvictionIsNeverDeletion`).
  The proof found that the exceptions of `EvictionIsNoDeletion` were too few: a hydration
  of a file that read the graph before another path was added takes the folder for
  complete (`commands/hydrate.js:369`), and if that other path was evicted meanwhile the
  next sync deletes it.  The instance only meets this with more events than the run has;
  the property excepts it now.  The assumption `RoomForInit` says that the bound on
  revisions leaves room for the files there are at first.

The type invariants of the modules with a proof (`TypeOK`, `LockTypeOK`, `WatchTypeOK`,
`RewriteTypeOK`, `JobsTypeOK`, `SyncTypeOK`, `CacheTypeOK`) are proved, and not run.

Every invariant and action property that a passing run checks, and the three refinements,
are stated by a theorem.  Only model-checked: the liveness properties
(`FolderStaysUsable`, `EveryChangeIsTaken`, `HeadIsFollowed`, `QueuedIsServed`,
`ApprovingEnds`, `HeadIsReached`, `EntitlementConverges`).  Liveness under fairness and
`ENABLED` are out of the prover's reach, as are induction over data and recursive
operators; the modules use none of the latter.

## 6. Not modelled, and what comes next

Modelled in part, and what is missing:

* Cloud graph: `initialize` and `deleteCodebase`, divergence records, releases, episodes.
* Agent sync: the rotation of the event file, after which acknowledged entries count as
  open; `status-state.js:490`, a start that stays blocked; the writer ledger's overlap
  with a refresh (`sync.js:676`), about which the code promises nothing.
* Schedulers: `close()` of a watching agent, which releases the lock while a drain may
  run (`watch.js:293`; to be composed with `WorkspaceLock`); the startup before the
  watcher exists (`watch.js:197`).
* Local cache: `dehydrate --force`, refreshes of partial workspaces, budgets.
* Device authorization: creation and its limits.  Members: roles, invitations, comments.
* D1 proxy: SQL parsing and scoping.

Next, in this order: `hop mirror`, whose death between a push and the write of its state
repeats commits; the rotation of keys beside commits (`keys.js`); `close()` with
`WorkspaceLock`; the rotation of the event file.

Not planned: cryptography, command-line and file I/O, import, export and restore, the
installer, the desktop shell and the pages of the web app.  A good part of the
repository's lines are these: rendering, argument parsing, formatting, stateless filters
over rows, SQL text.  They keep no state between two steps of their own, and a state
machine of them would have one step.  `PROJECT.json` gives the reason for each
component.
