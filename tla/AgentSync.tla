------------------------------- MODULE AgentSync -------------------------------
(***************************************************************************)
(* One agent keeping a workspace folder and the cloud graph in step, while *)
(* the user edits the folder, other devices commit, the network fails and  *)
(* the agent dies.                                                         *)
(*                                                                         *)
(* The agent persists, next to the workspace, a journal of the edits it    *)
(* planned and their outcome, the last graph it read, the manifest of what *)
(* it last materialized, and a ledger of the files a refresh wrote.  While *)
(* it watches, a sync and a refresh run concurrently: each is a sequence   *)
(* of awaited calls, and a sync may start while a refresh is under way.    *)
(* When it starts it turns what changed while it was down into journal     *)
(* entries, replays the open entries, and hydrates the folder.             *)
(*                                                                         *)
(* A graph is read in one step: CloudGraph shows that a copy torn between  *)
(* its two queries is refused by every commit.                             *)
(***************************************************************************)
EXTENDS GraphStore, Sequences, SequencesExt

CONSTANTS
  BuildsOn,    \* the pairs of contents <<new, old>> where the new text contains the old
  MaxJournal,  \* bound: entries of the journal
  NoGraph      \* no snapshot of the graph is cached

ASSUME BuildsOnContents == BuildsOn \subseteq Contents \X Contents
ASSUME MaxJournalNat == MaxJournal \in Nat

NoRead == [head |-> EmptyHead, files |-> NoFiles]

ASSUME NoGraphDistinct == NoGraph \notin Graph

\* A journal entry and its recoveryStatus.  The position in the journal is its id,
\* a deletion has the content NoFile, a null revision is NoFile.
Entry ==
  [path : Paths, content : Contents \cup {NoFile},
   base : (1 .. MaxRevision) \cup {NoFile}, target : (0 .. MaxRevision) \cup {NoFile},
   status : {"pending", "failed", "acknowledged", "superseded"}]

\* What the ledger knows of a path: the revision of the last local save, and the
\* file a refresh wrote since (pendingRefresh).
Writer == [saved : (1 .. MaxRevision) \cup {NoFile}, refreshed : File \cup {NoFile}]
NoWriter == [saved |-> NoFile, refreshed |-> NoFile]

VARIABLES
  disk,      \* the workspace folder: the content of each path
  journal,   \* journal.ndjson, with the outcomes of events.ndjson
  cache,     \* graph-cache.json
  manifest,  \* the content manifest of the workspace index
  settled,   \* its lastMaterializedRevision
  ledger,    \* writer-ledger.json
  diverged,  \* the paths with an open divergence
  mode,      \* what the agent process is doing
  notice,    \* a change of the folder the watcher has yet to report, or a queued sync
  sync,      \* the sync, or the journal recovery, under way
  refresh    \* the refresh, or the hydration, under way

index == <<manifest, settled>>
agent == <<disk, journal, cache, index, ledger, diverged, mode, notice, sync, refresh>>
svars == <<store, agent>>

NoSync == [step |-> "idle", offline |-> FALSE, graph |-> NoRead, ids |-> <<>>,
           clobbered |-> {}, ledger |-> [p \in Paths |-> NoWriter]]

NoRefresh == [step |-> "idle", graph |-> NoRead, withheld |-> {}, todo |-> {}, changed |-> {}]

SyncState ==
  [step : {"idle", "read", "planned", "committed", "acknowledged"}, offline : BOOLEAN,
   graph : Graph, ids : Seq(1 .. MaxJournal), clobbered : SUBSET Paths, ledger : [Paths -> Writer]]

RefreshState ==
  [step : {"idle", "read", "checked", "writing"}, graph : Graph, withheld : SUBSET Paths,
   todo : SUBSET Paths, changed : SUBSET Paths]

\* The types of the variables.
SyncTypeOK ==
  /\ disk \in [Paths -> Contents \cup {NoFile}]
  /\ journal \in Seq(Entry) /\ Len(journal) <= MaxJournal
  /\ cache \in Graph \cup {NoGraph}
  /\ manifest \in Files
  /\ settled \in 0 .. MaxRevision
  /\ ledger \in [Paths -> Writer]
  /\ diverged \subseteq Paths
  /\ mode \in {"down", "recovering", "blocked", "hydrating", "watching"}
  /\ notice \in {"none", "raised", "queued"}
  /\ sync \in SyncState
  /\ \A k \in DOMAIN sync.ids : sync.ids[k] \in DOMAIN journal
  /\ refresh \in RefreshState

\* A materialized workspace of a codebase without files, the agent not running.
SyncInit ==
  /\ StoreInit
  /\ disk = [p \in Paths |-> NoFile]
  /\ journal = <<>>
  /\ cache = NoGraph
  /\ manifest = NoFiles
  /\ settled = 0
  /\ ledger = [p \in Paths |-> NoWriter]
  /\ diverged = {}
  /\ mode = "down"
  /\ notice = "none"
  /\ sync = NoSync
  /\ refresh = NoRefresh

-------------------------------------------------------------------------------
(* Committing journal entries, by a sync and by a recovery. *)

Cloud == [head |-> head, files |-> files]

\* The file a path has in a copy of the graph after the first k entries.
FileAfter(g, es, p, k) ==
  LET hits == {j \in 1 .. k : es[j].path = p}
      last == CHOOSE j \in hits : \A i \in hits : i <= j
  IN  IF hits = {} THEN g.files[p]
      ELSE IF es[last].content = NoFile THEN NoFile
      ELSE [revision |-> g.head.revision + last, content |-> es[last].content]

GraphAfter(g, es) ==
  [head |-> Advanced(g.head, Len(es)), files |-> [p \in Paths |-> FileAfter(g, es, p, Len(es))]]

\* assertEntryBaseRevision, assertEntrySelectedStateRevision, entry by entry.
Accepts(g, es) ==
  \A k \in DOMAIN es :
    /\ es[k].base = RevisionOf(FileAfter(g, es, es[k].path, k - 1))
    /\ es[k].target \in {NoFile, g.head.revision + k - 1}

\* Mutant of Commit: the head update does not compare the row with the one read.
CommitUnguarded(g, es) ==
  /\ Writable(g.head) /\ g.head.revision + Len(es) <= MaxRevision
  /\ Accepts(g, es)
  /\ head' = GraphAfter(g, es).head
  /\ files' = GraphAfter(g, es).files
  /\ versions' = versions \cup
       {[path |-> es[k].path, at |-> g.head.revision + k, content |-> es[k].content] :
          k \in {j \in DOMAIN es :
                   es[j].content # ContentOf(FileAfter(g, es, es[j].path, j - 1))}}

\* The guarded batch took effect.
Commit(g, es) ==
  /\ g.head = head
  /\ Writable(g.head) /\ g.head.revision + Len(es) <= MaxRevision
  /\ Accepts(g, es)
  /\ head' = GraphAfter(g, es).head
  /\ files' = GraphAfter(g, es).files
  /\ versions' = versions \cup
       {[path |-> es[k].path, at |-> g.head.revision + k, content |-> es[k].content] :
          k \in {j \in DOMAIN es :
                   es[j].content # ContentOf(FileAfter(g, es, es[j].path, j - 1))}}

Open == {i \in DOMAIN journal : journal[i].status \in {"pending", "failed"}}

Marked(ids, status) ==
  [i \in DOMAIN journal |-> IF i \in ids THEN [journal[i] EXCEPT !.status = status]
                                         ELSE journal[i]]

\* Mutant of Indexed: the manifest takes the contents from the folder.
IndexedFromDisk(fs, revision) ==
  /\ manifest' = [p \in Paths |-> IF fs[p] = NoFile \/ disk[p] = NoFile THEN fs[p]
                                   ELSE [fs[p] EXCEPT !.content = disk[p]]]
  /\ settled' = revision

\* upsertWorkspaceIndexFromCloud.
Indexed(fs, revision) == manifest' = fs /\ settled' = revision

IdSet(ids) == {ids[k] : k \in DOMAIN ids}

-------------------------------------------------------------------------------
(* The user and the other devices. *)

\* A change of the folder raises an event of the watcher, while there is one.
Noticed == IF mode = "watching" /\ notice = "none" THEN "raised" ELSE notice

Edit(p, content) ==
  /\ disk[p] # content
  /\ disk' = [disk EXCEPT ![p] = content]
  /\ notice' = Noticed
  /\ UNCHANGED <<store, journal, cache, index, ledger, diverged, mode, sync, refresh>>

\* Another device commits a change of one file.
OtherDevice(p, content) ==
  /\ content # ContentOf(files[p])
  /\ Apply([q \in {p} |-> content], [q \in {p} |-> 1])
  /\ UNCHANGED agent

\* The agent process ends: what it was doing is gone, what it persisted stays.
AgentDies ==
  /\ mode # "down"
  /\ mode' = "down"
  /\ notice' = "none"
  /\ sync' = NoSync
  /\ refresh' = NoRefresh
  /\ UNCHANGED <<store, disk, journal, cache, index, ledger, diverged>>

-------------------------------------------------------------------------------
(* performSyncOnce. *)

\* Entries of a sync or of a recovery in the order they are committed.
Entries(ids) == [k \in DOMAIN ids |-> journal[ids[k]]]

\* The watcher, the poller or the scan reports the change; the scheduler queues a sync.
Notice ==
  /\ notice = "raised"
  /\ notice' = "queued"
  /\ UNCHANGED <<store, disk, journal, cache, index, ledger, diverged, mode, sync, refresh>>

\* The scheduler's drain takes the queue; syncs run one after the other.
Drain == mode = "watching" /\ sync.step = "idle" /\ notice = "queued" /\ notice' = "none"

SyncRead ==
  /\ Drain
  /\ sync' = [NoSync EXCEPT !.step = "read", !.graph = Cloud]
  /\ cache' = Cloud
  /\ UNCHANGED <<store, disk, journal, index, ledger, diverged, mode, refresh>>

\* The cloud is unreachable: the sync plans against the cached snapshot.
SyncReadCached ==
  /\ Drain
  /\ cache # NoGraph
  /\ sync' = [NoSync EXCEPT !.step = "read", !.graph = cache, !.offline = TRUE]
  /\ UNCHANGED <<store, disk, journal, cache, index, ledger, diverged, mode, refresh>>

Changed(g) == {p \in Paths : disk[p] # ContentOf(g.files[p])}

\* classifySaveAgainstRefresh: the save neither is nor contains what a refresh put
\* there since the last local save.
Clobbers(g) ==
  {p \in Changed(g) :
     /\ disk[p] # NoFile
     /\ ledger[p].refreshed # NoFile
     /\ ledger[p].refreshed.revision # ledger[p].saved
     /\ ledger[p].refreshed.content # disk[p]
     /\ <<disk[p], ContentOf(g.files[p])>> \notin BuildsOn}

\* The plan, in some order of its paths: every path where the folder differs from the
\* graph, except the clobbers.  Offline the entries carry no target revision.
Planned(g, order, offline) ==
  [k \in DOMAIN order |->
     [path |-> order[k], content |-> disk[order[k]], base |-> RevisionOf(g.files[order[k]]),
      target |-> IF offline THEN NoFile ELSE g.head.revision + k - 1,
      status |-> "pending"]]

\* The ids the entries of a plan get as they are appended to the journal.
PlannedIds(es) == [k \in DOMAIN es |-> Len(journal) + k]

\* Scans the folder, plans, and journals the plan before anything is committed.
SyncPlan ==
  /\ sync.step = "read"
  /\ LET S == Changed(sync.graph) \ Clobbers(sync.graph)
     IN  /\ Len(journal) + Cardinality(S) <= MaxJournal
         /\ sync.graph.head.revision + Cardinality(S) <= MaxRevision
         /\ \E order \in SetToSeqs(S) :
              LET es == Planned(sync.graph, order, sync.offline)
              IN  /\ journal' = journal \o es
                  /\ IF sync.offline
                       THEN /\ cache' = IF S = {} THEN cache ELSE GraphAfter(sync.graph, es)
                            /\ diverged' = diverged \cup Clobbers(sync.graph)
                            /\ sync' = NoSync
                       ELSE /\ sync' = [sync EXCEPT
                                 !.step = IF S = {} THEN "acknowledged" ELSE "planned",
                                 !.ids = PlannedIds(es),
                                 !.clobbered = Clobbers(sync.graph),
                                 !.ledger = ledger]
                            /\ UNCHANGED <<cache, diverged>>
  /\ UNCHANGED <<store, disk, index, ledger, mode, notice, refresh>>

SyncCommit ==
  /\ mode = "watching" /\ sync.step = "planned"
  /\ Commit(sync.graph, Entries(sync.ids))
  /\ sync' = [sync EXCEPT !.step = "committed", !.graph = GraphAfter(@, Entries(sync.ids))]
  /\ UNCHANGED <<disk, journal, cache, index, ledger, diverged, mode, notice, refresh>>

\* Mutant of SyncAcknowledge: it does not wait for the answer of the commit.
SyncAcknowledgeEarly ==
  /\ mode = "watching" /\ sync.step \in {"planned", "committed"}
  /\ journal' = Marked(IdSet(sync.ids), "acknowledged")
  /\ sync' = [sync EXCEPT !.step = "acknowledged"]
  /\ UNCHANGED <<store, disk, cache, index, ledger, diverged, mode, notice, refresh>>

SyncAcknowledge ==
  /\ mode = "watching" /\ sync.step = "committed"
  /\ journal' = Marked(IdSet(sync.ids), "acknowledged")
  /\ sync' = [sync EXCEPT !.step = "acknowledged"]
  /\ UNCHANGED <<store, disk, cache, index, ledger, diverged, mode, notice, refresh>>

\* The ledger is written back as it was read when the plan was made.
SyncSettle ==
  /\ sync.step = "acknowledged"
  /\ LET saved == {journal[i].path : i \in IdSet(sync.ids)}
     IN  ledger' = IF saved = {} THEN ledger
                   ELSE [p \in Paths |->
                          IF p \notin saved THEN sync.ledger[p]
                          ELSE [saved |-> RevisionOf(sync.graph.files[p]), refreshed |-> NoFile]]
  /\ diverged' = diverged \cup sync.clobbered
  /\ Indexed(sync.graph.files, sync.graph.head.revision)
  /\ sync' = NoSync
  /\ UNCHANGED <<store, disk, journal, cache, mode, notice, refresh>>

\* The sync throws: the swap was lost, the request failed, or its answer was lost
\* after it took effect.  What it journaled stays pending and nothing retries it.
SyncFails ==
  /\ mode = "watching" /\ sync.step # "idle"
  /\ sync' = NoSync
  /\ UNCHANGED <<store, disk, journal, cache, index, ledger, diverged, mode, notice, refresh>>

-------------------------------------------------------------------------------
(* Starting: reconcileUnwatchedChanges, recoverJournal, hydrateWorkspace. *)

\* Mutant of Start: any entry of a path counts, settled ones too.
StartBehindAny ==
  /\ mode = "down"
  /\ LET known == [head |-> EmptyHead, files |-> manifest]
         S == Changed(known) \ {journal[i].path : i \in DOMAIN journal}
     IN  /\ Len(journal) + Cardinality(S) <= MaxJournal
         /\ \E order \in SetToSeqs(S) : journal' = journal \o Planned(known, order, TRUE)
  /\ mode' = "recovering"
  /\ UNCHANGED <<store, disk, cache, index, ledger, diverged, notice, sync, refresh>>

\* Every path that drifted from the manifest and has no open entry gets one, based
\* on the revision the manifest has.
Start ==
  /\ mode = "down"
  /\ LET known == [head |-> EmptyHead, files |-> manifest]
         S == Changed(known) \ {journal[i].path : i \in Open}
     IN  /\ Len(journal) + Cardinality(S) <= MaxJournal
         /\ \E order \in SetToSeqs(S) : journal' = journal \o Planned(known, order, TRUE)
  /\ mode' = "recovering"
  /\ UNCHANGED <<store, disk, cache, index, ledger, diverged, notice, sync, refresh>>

\* sortEntriesByCausality: by base revision, null last, else in journal order.
CausallyBefore(i, j) ==
  LET a == journal[i].base
      b == journal[j].base
  IN  IF a # NoFile /\ b # NoFile /\ a # b THEN a < b
      ELSE IF a = b THEN i < j
      ELSE b = NoFile

\* The causally last open entry of a path.
LastOpen(p) ==
  {i \in Open : /\ journal[i].path = p
                /\ \A j \in Open \ {i} : journal[j].path = p => CausallyBefore(j, i)}

\* Mutant of Bucket: an overtaken edit is rebased whatever the cloud has.
BucketRebased(p) ==
  IF \E i \in LastOpen(p) : journal[i].base = RevisionOf(files[p]) THEN "only-local"
  ELSE "auto-resolved"

\* classifyReconnectEntries: the causally last open entry of a path decides.
Bucket(p) ==
  IF \E i \in LastOpen(p) : journal[i].base = RevisionOf(files[p]) THEN "only-local"
  ELSE IF \E i \in LastOpen(p) : journal[i].content = ContentOf(files[p]) THEN "auto-resolved"
  ELSE "diverged"

\* reconcileEntryForReplay.
Reconciled(e) ==
  IF Bucket(e.path) # "auto-resolved" THEN e
  ELSE [e EXCEPT !.base = RevisionOf(files[e.path]),
                 !.target = IF @ = NoFile THEN NoFile ELSE head.revision]

\* prepareRecovery: the content to replay must still be found, in the cloud or on disk.
Recoverable(e) == e.content \in {NoFile, ContentOf(files[e.path]), disk[e.path]}

\* partitionEntriesForReconnect: the paths set apart, the entries left to replay, and
\* those of them whose content was found.
Apart == {journal[i].path : i \in {j \in Open : Bucket(journal[j].path) = "diverged"}}
Candidates == {i \in Open : journal[i].path \notin Apart}
Ready == {i \in Candidates : Recoverable(journal[i])}

\* The orders the entries are replayed in (there is one).
InCausalOrder(ids) == \A j, k \in DOMAIN ids : j < k => CausallyBefore(ids[j], ids[k])

Replay(ids) == [k \in DOMAIN ids |-> Reconciled(journal[ids[k]])]

\* The part of recoverJournal up to the answer of its commit.  A single entry that is
\* refused is marked failed; a batch that is refused makes the startup throw.  The
\* conflict flag that the refusal leaves on the head is GraphRewrite's RecordConflict.
Recover ==
  /\ mode = "recovering" /\ sync = NoSync
  /\ \E ids \in SetToSeqs(Ready) :
       LET es == Replay(ids)
           single == Cardinality(Candidates) = 1
           refused == ~Accepts(Cloud, es)
       IN  /\ InCausalOrder(ids)
           /\ head.revision + Len(es) <= MaxRevision
           /\ diverged' = diverged \cup Apart
           /\ refresh' = [NoRefresh EXCEPT !.withheld = Apart]
           /\ journal' = Marked(Candidates \ (IF single /\ refused THEN {} ELSE Ready), "failed")
           /\ mode' = IF refused /\ ~single THEN "down"
                      ELSE IF refused \/ Ready # Candidates THEN "blocked"
                      ELSE IF Ready = {} THEN "hydrating"
                      ELSE "recovering"
           /\ IF refused \/ Ready = {} THEN UNCHANGED <<store, sync>>
              ELSE /\ Commit(Cloud, es)
                   /\ sync' = [NoSync EXCEPT !.step = "committed", !.ids = ids,
                                             !.graph = GraphAfter(Cloud, es)]
  /\ UNCHANGED <<disk, cache, index, ledger, notice>>

\* The rest of it: the acknowledgements, and the workspace index if nothing failed.
RecoverAcknowledge ==
  /\ mode \in {"recovering", "blocked"} /\ sync.step = "committed"
  /\ journal' = Marked(IdSet(sync.ids), "acknowledged")
  /\ IF mode = "blocked" THEN UNCHANGED <<index, mode>>
     ELSE Indexed(sync.graph.files, sync.graph.head.revision) /\ mode' = "hydrating"
  /\ sync' = NoSync
  /\ UNCHANGED <<store, disk, cache, ledger, diverged, notice, refresh>>

\* hydrateWorkspace reads the graph and the folder; the files that differ from the
\* graph or the manifest are written again, except on the paths that just diverged.
HydrateRead ==
  /\ mode = "hydrating" /\ refresh.step = "idle"
  /\ refresh' = [refresh EXCEPT
       !.step = "writing", !.graph = Cloud,
       !.todo = {p \in Paths \ refresh.withheld :
                   /\ files[p] # NoFile
                   /\ \/ disk[p] # files[p].content
                      \/ manifest[p] # NoFile /\ manifest[p].content # files[p].content}]
  /\ UNCHANGED <<store, disk, journal, cache, index, ledger, diverged, mode, notice, sync>>

Materialized == [p \in Paths |-> IF p \in refresh.withheld THEN NoFile ELSE refresh.graph.files[p]]

HydrateFinish ==
  /\ mode = "hydrating" /\ refresh.step = "writing" /\ refresh.todo = {}
  /\ Indexed(Materialized, refresh.graph.head.revision)
  /\ mode' = "watching"
  /\ refresh' = NoRefresh
  /\ UNCHANGED <<store, disk, journal, cache, ledger, diverged, notice, sync>>

-------------------------------------------------------------------------------
(* refreshWorkspace, from the remote-pull scheduler. *)

\* remoteRefreshDecision: no sync runs or is queued, no entry is open, and the head is
\* not the one that was materialized last.  Nothing holds a sync off afterwards.
RefreshRead ==
  /\ mode = "watching" /\ refresh.step = "idle"
  /\ sync.step = "idle" /\ notice # "queued"
  /\ Open = {} /\ settled # head.revision
  /\ refresh' = [NoRefresh EXCEPT !.step = "read", !.graph = Cloud]
  /\ UNCHANGED <<store, disk, journal, cache, index, ledger, diverged, mode, notice, sync>>

\* Mutant of Withheld: a refresh takes every file.
NothingWithheld(g) == {}

\* withheldRefreshPaths: the paths with local drift that the graph does not explain.
Withheld(g) == {p \in Changed(g) : disk[p] # ContentOf(manifest[p])}

RefreshCheck ==
  /\ refresh.step = "read"
  /\ Open = {}
  /\ refresh' = [refresh EXCEPT !.step = "checked", !.withheld = Withheld(refresh.graph)]
  /\ UNCHANGED <<store, disk, journal, cache, index, ledger, diverged, mode, notice, sync>>

\* materializeCloudToWorkspace scans the folder again.  assertRefreshDeletionSafe: a
\* graph without files never empties the folder.
RefreshScan ==
  /\ refresh.step = "checked"
  /\ LET todo == Changed(refresh.graph) \ refresh.withheld
     IN  /\ refresh.graph.files = NoFiles => \A p \in todo : disk[p] = NoFile
         /\ refresh' = [refresh EXCEPT !.step = "writing", !.todo = todo]
  /\ UNCHANGED <<store, disk, journal, cache, index, ledger, diverged, mode, notice, sync>>

\* One file is written, or deleted once the writes are done (also by hydration).
WriteDisk(p) ==
  /\ refresh.step = "writing" /\ p \in refresh.todo
  /\ refresh.graph.files[p] = NoFile => \A q \in refresh.todo : refresh.graph.files[q] = NoFile
  /\ disk' = [disk EXCEPT ![p] = ContentOf(refresh.graph.files[p])]
  /\ notice' = Noticed
  /\ refresh' = [refresh EXCEPT !.todo = @ \ {p}, !.changed = @ \cup {p}]
  /\ UNCHANGED <<store, journal, cache, index, ledger, diverged, mode, sync>>

RefreshFinish ==
  /\ mode = "watching" /\ refresh.step = "writing" /\ refresh.todo = {}
  /\ ledger' = [p \in Paths |->
       IF p \notin refresh.changed THEN ledger[p]
       ELSE IF refresh.graph.files[p] = NoFile THEN NoWriter
       ELSE [ledger[p] EXCEPT !.refreshed = refresh.graph.files[p]]]
  /\ Indexed(Materialized,
             IF refresh.withheld = {} THEN refresh.graph.head.revision ELSE settled)
  /\ refresh' = NoRefresh
  /\ UNCHANGED <<store, disk, journal, cache, diverged, mode, notice, sync>>

\* The refresh is blocked, or a request of it fails: it stops where it is.
RefreshStops ==
  /\ mode = "watching" /\ refresh.step # "idle"
  /\ refresh' = NoRefresh
  /\ UNCHANGED <<store, disk, journal, cache, index, ledger, diverged, mode, notice, sync>>

-------------------------------------------------------------------------------
(* hop conflicts resolve, a process of its own; taken as one step. *)

Superseded(p) ==
  Marked({i \in DOMAIN journal : journal[i].path = p /\ journal[i].status = "pending"},
         "superseded")

ResolveKeepCloud(p) ==
  /\ p \in diverged
  /\ disk' = [disk EXCEPT ![p] = ContentOf(files[p])]
  /\ notice' = Noticed
  /\ journal' = Superseded(p)
  /\ diverged' = diverged \ {p}
  /\ UNCHANGED <<store, cache, index, ledger, mode, sync, refresh>>

\* A new entry with the disk's content, based on the head that was just read.
ResolveKeepLocal(p) ==
  /\ p \in diverged
  /\ Len(journal) < MaxJournal
  /\ LET e == [path |-> p, content |-> disk[p], base |-> RevisionOf(files[p]),
               target |-> head.revision, status |-> "acknowledged"]
     IN  Commit(Cloud, <<e>>) /\ journal' = Append(Superseded(p), e)
  /\ diverged' = diverged \ {p}
  /\ UNCHANGED <<disk, cache, index, ledger, mode, notice, sync, refresh>>

-------------------------------------------------------------------------------

Outside ==
  \/ \E p \in Paths, content \in Contents \cup {NoFile} :
       Edit(p, content) \/ OtherDevice(p, content)
  \/ \E p \in Paths : ResolveKeepCloud(p) \/ ResolveKeepLocal(p)

Sync ==
  Notice \/ SyncRead \/ SyncReadCached \/ SyncPlan \/ SyncCommit \/ SyncAcknowledge \/ SyncSettle
  \/ SyncFails

Startup == Start \/ Recover \/ RecoverAcknowledge \/ HydrateRead \/ HydrateFinish

Refresh ==
  \/ RefreshRead \/ RefreshCheck \/ RefreshScan \/ RefreshFinish \/ RefreshStops
  \/ \E p \in Paths : WriteDisk(p)

SyncNext == Outside \/ Sync \/ Startup \/ Refresh \/ AgentDies

SyncSpec == SyncInit /\ [][SyncNext]_svars

-------------------------------------------------------------------------------
(* Properties. *)

\* The history knows a content of a path.
Recorded(p, content) == \E row \in versions : row.path = p /\ row.content = content

\* The manifest names revisions that exist and say what it says: what changed while
\* the agent was down is based on a version another device can look up, whatever
\* syncs, refreshes and crashes came before.
ManifestTellsHistory ==
  \A p \in Paths :
    manifest[p] # NoFile =>
      \E row \in versions :
        /\ row.path = p /\ row.content = manifest[p].content
        /\ IsLatest(row, versions, manifest[p].revision)

\* An edit is acknowledged only after the history has it: a crash, a lost answer or a
\* refused batch never leaves the journal saying more than the cloud does.
AcknowledgedIsRecorded ==
  \A i \in DOMAIN journal :
    journal[i].status = "acknowledged" => Recorded(journal[i].path, journal[i].content)

\* Replaying the journal changes a file only from the version an open entry is based
\* on: an edit that was already committed, or was overtaken, is never applied again.
ReplayKeepsNewerVersions ==
  [][(mode = "recovering" /\ sync = NoSync /\ sync' # NoSync) =>
       \A p \in Paths :
         ContentOf(files'[p]) # ContentOf(files[p]) =>
           \E i \in Open : journal[i].path = p /\ journal[i].base = RevisionOf(files[p])]_svars

\* What the agent commits, in syncs, recoveries and resolutions, is one batch of the
\* store at a time, computed from its current files.  In particular a replayed journal,
\* which may have several open entries of a path, commits at most one edit of it, or
\* deletions of a file that is gone already.
SyncImplementsStore == StoreSpec

===============================================================================
