------------------------------ MODULE MCLocalCache ------------------------------
(***************************************************************************)
(* TLC instance of LocalCache, with history variables.                     *)
(***************************************************************************)
EXTENDS LocalCache, FiniteSetsExt, TLC

CONSTANTS
  MaxEvents,  \* bound: edits, evictions, hydrations, failures and collections together
  MaxOfAKind  \* bound: any one of these

VARIABLES
  count,      \* how often each of these has happened
  evicted,    \* paths that are not on the disk because they were evicted
  exposed,    \* those of them whose eviction was cut short or overlapped a sync
  touched,    \* paths that were edited after the running eviction scanned the folder
  late,       \* contents that were committed after the running collection read the versions
  reused,     \* contents whose object was found by an upload, and not written
  overtaken   \* contents a collection deleted although a sync counted on their object

history == <<count, evicted, exposed, touched, late, reused, overtaken>>
mcvars == <<vars, history>>

MCInit ==
  /\ Init
  /\ count = [edits |-> 0, evictions |-> 0, hydrations |-> 0, failures |-> 0, gcs |-> 0]
  /\ evicted = {} /\ exposed = {} /\ touched = {}
  /\ late = {} /\ reused = {} /\ overtaken = {}

\* Collections touch no folder: a behaviour has them (and objects that age), or evictions
\* and hydrations.
Counts(what) ==
  /\ count[what] < MaxOfAKind
  /\ what = "gcs" => count.evictions + count.hydrations = 0
  /\ what \in {"evictions", "hydrations"} => count.gcs = 0
  /\ MapThenSumSet(LAMBDA kind : count[kind], DOMAIN count) < MaxEvents
  /\ count' = [count EXCEPT ![what] = @ + 1]

MCStep ==
  \/ /\ \E p \in Paths, content \in Contents \cup {NoFile} : Edit(p, content)
     /\ Counts("edits")
  \/ EvictBegins /\ Counts("evictions")
  \/ (\E p \in Paths : HydrateRead(p)) /\ Counts("hydrations")
  \/ Fails /\ Counts("failures")
  \/ GcReadGraph /\ UNCHANGED local /\ Counts("gcs")
  \/ (GcReadVersions \/ GcList \/ GcDelete \/ GcEnds) /\ UNCHANGED <<local, count>>
  \/ Ages /\ count.evictions + count.hydrations = 0 /\ UNCHANGED <<local, count>>
  \/ (Sync \/ Evict \/ Hydrate \/ Start) /\ UNCHANGED count

\* What the history has: a reader of any version needs its object.
Recorded == {row.content : row \in versions} \ {NoFile}

Gone == {p \in Paths : disk'[p] = NoFile}

\* A sync that plans, a start, or the failure of the eviction, while evicted paths are
\* still in the index; a sync that planned before the eviction wrote the index and is
\* going to write it again; an eviction of what the sync under way found deleted, or of
\* the file that a command hydrates; and a hydration that writes the index from a graph
\* that has not yet the evicted path, and may take the folder for complete.
Exposed ==
  {p \in evict.removed :
     \/ SyncPlan
     \/ Start
     \/ evict' = NoEvict /\ (EvictStops \/ AgentDies)
     \/ EvictFinish /\ sync.step \in {"scanned", "planned", "committed"}}
  \cup {p \in evict'.removed :
          \/ sync.step \in {"scanned", "planned"} /\ sync.scan[p] = NoFile
          \/ hydrate.step # "idle" /\ hydrate.path = p}
  \cup {p \in evicted \ Visible(hydrate.graph) : HydrateFinish}

\* What the running sync, or a start, takes for granted in the bucket.
Uploaded == {sync.batch[p] : p \in Unresolved \ sync.todo} \ {NoFile}

Found ==
  objects \cap (IF SyncUpload THEN {sync.batch[p] : p \in sync.todo \ sync'.todo}
                ELSE IF Start THEN {disk[p] : p \in Paths}
                ELSE {})

MCNext ==
  /\ MCStep
  /\ evicted' = (evicted \cup {p \in evict'.removed \ evict.removed : disk[p] # NoFile}) \cap Gone
  /\ exposed' = (exposed \cup Exposed) \cap Gone
  /\ touched' = IF evict'.step # "removing" THEN {}
                ELSE touched \cup {p \in Paths : disk'[p] \notin {disk[p], NoFile}}
  /\ late' = IF gc'.step \in {"idle", "graph"} THEN {} ELSE late \cup (Recorded' \ Recorded)
  /\ reused' = IF sync'.step = "idle" /\ gc'.step = "idle" THEN {} ELSE reused \cup Found
  /\ overtaken' = overtaken \cup
       {c \in (objects \ objects') \cap (late \cup Uploaded) : gc.window => c \in reused}

MCSpec == MCInit /\ [][MCNext]_mcvars

Symmetry == Permutations(Paths) \cup Permutations(Contents)

\* "Pruned files stay in the cloud graph and are removed from local manifests/hydrated path
\* state so the next sync does not treat them as cloud deletes."
PrunedStaysInCloud ==
  [][\A p \in Paths :
       (files[p] # NoFile /\ files'[p] = NoFile /\ evict.kind # "dehydrate")
         => p \notin evicted]_mcvars

\* An evicted file stays in the cloud, whatever syncs, starts, hydrations and other evictions
\* follow, unless its eviction failed before it wrote the index, or overlapped a sync, a
\* start or its hydration, or a hydration that had read a graph without the file wrote
\* that the folder is complete.
EvictionIsNoDeletion ==
  [][\A p \in Paths :
       (files[p] # NoFile /\ files'[p] = NoFile) => p \notin evicted \ exposed']_mcvars

\* Pruning removes no content that the cloud has not acknowledged, whatever syncs run
\* beside it, unless the user wrote the file after the scan.
PruneKeepsEdits ==
  [][\A p \in evict.todo \ evict'.todo :
       \/ disk[p] = NoFile \/ evict.kind = "dehydrate" \/ p \in touched
       \/ disk[p] \in Recorded]_mcvars

\* "Storage GC is retention-aware and cannot delete live history": it deletes no object that
\* a version refers to, unless a sync found or wrote the object before and committed after
\* the collection read the versions; within a retention window only one it found.
HistoryKeepsObjects == Recorded \ objects \subseteq overtaken

===============================================================================
