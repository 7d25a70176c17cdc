------------------------------- MODULE LocalCache -------------------------------
(***************************************************************************)
(* The folder of one workspace as a cache of the cloud: file bodies are    *)
(* evicted from it, by the scheduled pruning of a watching agent and by    *)
(* the commands `hop workspace prune` and `dehydrate`, and hydrated again. *)
(* What says whether a file that is not there was evicted or was deleted   *)
(* by the user is the workspace index, and each of these, as well as each  *)
(* sync, reads it when it starts and writes it when it ends.               *)
(*                                                                         *)
(* There is one device; its syncs are those of AgentSync with less detail: *)
(* journal entries live from the plan to the commit.                       *)
(***************************************************************************)
EXTENDS BlobStorage

\* Each path was committed once before a behaviour begins.
ASSUME RoomForInit == Cardinality(Paths) <= MaxRevision

VARIABLES
  disk,     \* the folder: the content of each path
  index,    \* the codebase's entry of workspaces.json
  mode,     \* whether an agent watches the folder
  notice,   \* a change the watcher has yet to report, or a queued sync
  sync,     \* the sync under way
  evict,    \* the eviction under way
  hydrate   \* the hydration of a single file under way

local == <<disk, index, mode, notice, sync, evict, hydrate>>
vars == <<store, blobs, local>>

Visible(fs) == {p \in Paths : fs[p] # NoFile}

\* workspaceIndexEntryFromCloud with contentManifestFromCloud: the manifest has the rows
\* of the graph it is written from, for the hydrated paths.
IndexOf(fs, state, hydrated) ==
  [state |-> state, hydrated |-> hydrated,
   manifest |-> [p \in Paths |-> IF p \in hydrated THEN fs[p] ELSE NoFile]]

NoDisk == [p \in Paths |-> NoFile]

NoSync == [step |-> "idle", graph |-> NoFiles, at |-> 0,
           index |-> IndexOf(NoFiles, "materialized", {}),
           scan |-> NoDisk, batch |-> <<>>, todo |-> {}]
NoEvict == [step |-> "idle", kind |-> "prune", graph |-> NoFiles,
            index |-> IndexOf(NoFiles, "materialized", {}), todo |-> {}, removed |-> {}]
NoHydrate == [step |-> "idle", graph |-> NoFiles, path |-> NoFile]

\* A materialized workspace: every path was committed once, and the folder has it.
Init ==
  /\ \E batch \in [Paths -> Contents], order \in Orders(Paths) :
       /\ head = Advanced(EmptyHead, Cardinality(Paths))
       /\ files = Applied(NoFiles, 0, batch, order)
       /\ versions = VersionRows(NoFiles, 0, batch, order)
       /\ objects = {batch[p] : p \in Paths}
       /\ disk = batch
  /\ recent = objects
  /\ gc = NoGc
  /\ index = IndexOf(files, "materialized", Paths)
  /\ mode = "watching"
  /\ notice = "none"
  /\ sync = NoSync
  /\ evict = NoEvict
  /\ hydrate = NoHydrate

Present(folder) == {p \in Paths : folder[p] # NoFile}

-------------------------------------------------------------------------------
(* The user, and the watcher. *)

Noticed == IF mode = "watching" /\ notice = "none" THEN "raised" ELSE notice

Edit(p, content) ==
  /\ disk[p] # content
  /\ disk' = [disk EXCEPT ![p] = content]
  /\ notice' = Noticed
  /\ UNCHANGED <<store, blobs, index, mode, sync, evict, hydrate>>

Report ==
  /\ notice = "raised"
  /\ notice' = "queued"
  /\ UNCHANGED <<store, blobs, disk, index, mode, sync, evict, hydrate>>

-------------------------------------------------------------------------------
(* performSyncOnce. *)

SyncRead ==
  /\ mode = "watching" /\ notice = "queued" /\ sync.step = "idle"
  /\ notice' = "none"
  /\ sync' = [NoSync EXCEPT !.step = "read", !.graph = files, !.at = head.revision]
  /\ UNCHANGED <<store, blobs, disk, index, mode, evict, hydrate>>

\* deletableCloudPathsForWorkspace.
Deletable(ix, fs) ==
  IF ix.state = "materialized" THEN Visible(fs) ELSE ix.hydrated \cap Visible(fs)

\* The plan: the files that differ from the graph, and those that the index has as
\* hydrated and the disk does not have.
Batch(fs, scan, ix) ==
  LET S == {p \in Present(scan) : scan[p] # ContentOf(fs[p])}
             \cup (Deletable(ix, fs) \ Present(scan))
  IN  [p \in S |-> scan[p]]

SyncScan ==
  /\ sync.step = "read"
  /\ sync' = [sync EXCEPT !.step = "scanned", !.scan = disk]
  /\ UNCHANGED <<store, blobs, disk, index, mode, notice, evict, hydrate>>

\* Reads the index, plans and journals.
SyncPlan ==
  /\ sync.step = "scanned"
  /\ LET batch == Batch(sync.graph, sync.scan, index)
     IN  /\ head.revision + Cardinality(DOMAIN batch) <= MaxRevision
         /\ sync' = [sync EXCEPT
              !.step = IF DOMAIN batch = {} THEN "committed" ELSE "planned",
              !.index = index, !.batch = batch,
              !.todo = {p \in DOMAIN batch : batch[p] # NoFile}]
  /\ UNCHANGED <<store, blobs, disk, index, mode, notice, evict, hydrate>>

\* The paths with an unresolved journal entry.
Unresolved == IF sync.step = "planned" THEN DOMAIN sync.batch ELSE {}

\* prepareEntryForBlobStorage, entry by entry, before the batch is committed.
SyncUpload ==
  /\ sync.step = "planned"
  /\ \E p \in sync.todo :
       /\ Put(sync.batch[p])
       /\ sync' = [sync EXCEPT !.todo = @ \ {p}]
  /\ UNCHANGED <<store, gc, disk, index, mode, notice, evict, hydrate>>

\* The guarded batch, and its acknowledgement.
SyncCommit ==
  /\ sync.step = "planned" /\ sync.todo = {}
  /\ sync.at = head.revision
  /\ \E order \in Orders(DOMAIN sync.batch) : Apply(sync.batch, order)
  /\ sync' = [sync EXCEPT !.step = "committed", !.graph = files']
  /\ UNCHANGED <<blobs, disk, index, mode, notice, evict, hydrate>>

\* workspaceIndexHydrationStateForSync.
StateForSync(ix) == IF ix.state = "materialized" THEN "materialized" ELSE "partial"

\* Mutant of HydratedAfterSync: every file of the cloud counts as hydrated.
HydratedAfterSyncAll(ix, scan, fs) == Visible(fs) \cup scan

\* hydratedPathsAfterSync.
HydratedAfterSync(ix, scan, fs) ==
  (IF ix.state = "materialized" THEN Visible(fs) ELSE ix.hydrated) \cup scan

\* The index is written from what was read when the plan was made.
SyncSettle ==
  /\ sync.step = "committed"
  /\ index' = IndexOf(sync.graph, StateForSync(sync.index),
                      HydratedAfterSync(sync.index, Present(sync.scan), sync.graph))
  /\ sync' = NoSync
  /\ UNCHANGED <<store, blobs, disk, mode, notice, evict, hydrate>>

\* A request or a file operation fails while no journal entry is open.
SyncFails ==
  /\ sync.step \in {"read", "scanned", "committed"}
  /\ sync' = NoSync
  /\ UNCHANGED <<store, blobs, disk, index, mode, notice, evict, hydrate>>

-------------------------------------------------------------------------------
(* pruneWorkspaceCache and dehydrateWorkspace. *)

\* hydrationStateForHydratedPaths.
HydrationState(hydrated, visible) ==
  IF hydrated = {} THEN "metadata-only"
  ELSE IF hydrated = visible THEN "materialized"
  ELSE "partial"

\* The scheduled pruning of the watching agent starts when no sync runs or is queued and
\* no entry is open; `hop workspace prune` whenever the user calls it.
PruneStart(kind) ==
  /\ evict.step = "idle"
  /\ kind = "scheduled" => mode = "watching" /\ notice # "queued" /\ sync.step = "idle"
  /\ evict' = [NoEvict EXCEPT !.step = "read", !.kind = kind, !.graph = files]
  /\ UNCHANGED <<store, blobs, disk, index, mode, notice, sync, hydrate>>

\* Mutant of Clean: the folder is not compared with the manifest.
CleanUnchecked(p) == disk[p] # NoFile /\ index.manifest[p] # NoFile

\* A hydrated file that is as the cloud acknowledged it.
Clean(p) == disk[p] # NoFile /\ disk[p] = ContentOf(index.manifest[p])

\* Which of the clean files are pinned or were active lately is left open.
PruneScan ==
  /\ evict.step = "read"
  /\ \E S \in SUBSET {p \in Visible(evict.graph) \ Unresolved : Clean(p)} :
       evict' = IF S = {} THEN NoEvict
                ELSE [evict EXCEPT !.step = "removing", !.index = index, !.todo = S]
  /\ UNCHANGED <<store, blobs, disk, index, mode, notice, sync, hydrate>>

\* readJournalSafety, and the files of the graph whatever the folder has for them.
DehydrateStart ==
  /\ evict.step = "idle"
  /\ Unresolved = {}
  /\ evict' = [NoEvict EXCEPT !.step = "removing", !.kind = "dehydrate", !.graph = files,
                              !.todo = Visible(files)]
  /\ UNCHANGED <<store, blobs, disk, index, mode, notice, sync, hydrate>>

\* fs.rm of one file.
Remove(p) ==
  /\ evict.step = "removing" /\ p \in evict.todo
  /\ disk' = [disk EXCEPT ![p] = NoFile]
  /\ notice' = IF disk[p] = NoFile THEN notice ELSE Noticed
  /\ evict' = [evict EXCEPT !.todo = @ \ {p}, !.removed = @ \cup {p}]
  /\ UNCHANGED <<store, blobs, index, mode, sync, hydrate>>

\* hydratedPathsAfterPrune.
HydratedAfterPrune(ix, fs, removed) ==
  (IF ix.state = "materialized" THEN Visible(fs) ELSE ix.hydrated) \ removed

\* The index is written once all files are gone, from what was read before.
EvictFinish ==
  /\ evict.step = "removing" /\ evict.todo = {}
  /\ LET hydrated == IF evict.kind = "dehydrate" THEN {}
                     ELSE HydratedAfterPrune(evict.index, evict.graph, evict.removed)
     IN  index' = IndexOf(evict.graph, HydrationState(hydrated, Visible(evict.graph)), hydrated)
  /\ evict' = NoEvict
  /\ UNCHANGED <<store, blobs, disk, mode, notice, sync, hydrate>>

\* A file cannot be removed, a request fails, or the command is killed.
EvictStops ==
  /\ evict.step # "idle"
  /\ evict' = NoEvict
  /\ UNCHANGED <<store, blobs, disk, index, mode, notice, sync, hydrate>>

-------------------------------------------------------------------------------
(* materializeHydrationPaths for one path: hop workspace hydrate-file. *)

\* A path that is on the disk and whose manifest row is the graph's is skipped.
HydrateRead(p) ==
  /\ hydrate.step = "idle" /\ files[p] # NoFile
  /\ hydrate' = [step |-> IF disk[p] # NoFile /\ ContentOf(index.manifest[p]) = files[p].content
                          THEN "finish" ELSE "fetch",
                 graph |-> files, path |-> p]
  /\ UNCHANGED <<store, blobs, disk, index, mode, notice, sync, evict>>

\* getBlob, and the file is written over what the folder has.
HydrateWrite ==
  /\ hydrate.step = "fetch"
  /\ hydrate.graph[hydrate.path].content \in objects
  /\ disk' = [disk EXCEPT ![hydrate.path] = hydrate.graph[hydrate.path].content]
  /\ notice' = Noticed
  /\ hydrate' = [hydrate EXCEPT !.step = "hydrated"]
  /\ UNCHANGED <<store, blobs, index, mode, sync, evict>>

\* The object is missing, or the request fails: the path is blocked.
HydrateBlocked ==
  /\ hydrate.step = "fetch"
  /\ hydrate' = [hydrate EXCEPT !.step = "finish"]
  /\ UNCHANGED <<store, blobs, disk, index, mode, notice, sync, evict>>

\* hydratedPathUnion reads the index once more before it is written.
HydrateFinish ==
  /\ hydrate.step \in {"hydrated", "finish"}
  /\ LET hydrated == index.hydrated \cup
                       (IF hydrate.step = "hydrated" THEN {hydrate.path} ELSE {})
     IN  index' = IndexOf(hydrate.graph, HydrationState(hydrated, Visible(hydrate.graph)), hydrated)
  /\ hydrate' = NoHydrate
  /\ UNCHANGED <<store, blobs, disk, mode, notice, sync, evict>>

\* The command is killed.
HydrateStops ==
  /\ hydrate.step # "idle"
  /\ hydrate' = NoHydrate
  /\ UNCHANGED <<store, blobs, disk, index, mode, notice, sync, evict>>

-------------------------------------------------------------------------------
(* The agent's process. *)

\* It ends, with a scheduled pruning; commands go on.  An end while journal entries are
\* open, and the recovery after it, are in AgentSync.
AgentDies ==
  /\ mode = "watching" /\ Unresolved = {}
  /\ mode' = "down"
  /\ notice' = "none"
  /\ sync' = NoSync
  /\ evict' = IF evict.kind = "scheduled" THEN NoEvict ELSE evict
  /\ UNCHANGED <<store, blobs, disk, index, hydrate>>

\* What drifted from the manifest while nobody watched: reconcileUnwatchedChanges.
Drift == {p \in Paths : disk[p] # ContentOf(index.manifest[p])}

\* classifyReconnectEntries: overtaken in the cloud, by another content.
Diverged ==
  {p \in Drift : /\ RevisionOf(index.manifest[p]) # RevisionOf(files[p])
                 /\ disk[p] # ContentOf(files[p])}

\* The start of a watching agent: the drift is journaled and committed, the index is
\* written, and a workspace that is materialized is hydrated in full.
Start ==
  /\ mode = "down"
  /\ LET replayed == Drift \ Diverged
         batch == [p \in replayed |-> disk[p]]
         put == {disk[p] : p \in replayed \cap Present(disk)}
         recovered == IF replayed = {} THEN index
                      ELSE IndexOf(files', StateForSync(index),
                                   HydratedAfterSync(index, Present(disk), files'))
         hydrated == Visible(files') \ Diverged
     IN  /\ IF replayed = {} THEN UNCHANGED store
            ELSE \E order \in Orders(replayed) : Apply(batch, order)
         /\ objects' = objects \cup put
         /\ recent' = recent \cup (put \ objects)
         /\ IF recovered.state = "materialized"
              THEN /\ \A p \in hydrated :
                        disk[p] # files'[p].content => files'[p].content \in objects'
                   /\ disk' = [p \in Paths |->
                                 IF p \in hydrated THEN files'[p].content ELSE disk[p]]
                   /\ index' = IndexOf(files', "materialized", hydrated)
              ELSE index' = recovered /\ UNCHANGED disk
  /\ mode' = "watching"
  /\ UNCHANGED <<gc, notice, sync, evict, hydrate>>

-------------------------------------------------------------------------------

InFlight == {sync.batch[p] : p \in Unresolved}

\* The window is longer than an upload and its commit, and than the reads of a collection.
Ages ==
  /\ gc.step \notin {"graph", "versions"}
  /\ \E content \in recent \ InFlight : recent' = recent \ {content}
  /\ UNCHANGED <<store, objects, gc>>

Sync == Report \/ SyncRead \/ SyncScan \/ SyncPlan \/ SyncUpload \/ SyncCommit \/ SyncSettle

EvictBegins ==
  (\E kind \in {"scheduled", "prune"} : PruneStart(kind)) \/ DehydrateStart

Evict == PruneScan \/ (\E p \in Paths : Remove(p)) \/ EvictFinish

Hydrate == HydrateWrite \/ HydrateBlocked \/ HydrateFinish

Fails == SyncFails \/ EvictStops \/ HydrateStops \/ AgentDies

Next ==
  \/ \E p \in Paths, content \in Contents \cup {NoFile} : Edit(p, content)
  \/ \E p \in Paths : HydrateRead(p)
  \/ Sync \/ EvictBegins \/ Evict \/ Hydrate \/ Fails \/ Start
  \/ (Collect \/ Ages) /\ UNCHANGED local

Spec == Init /\ [][Next]_vars

===============================================================================
