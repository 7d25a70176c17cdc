---------------------------- MODULE LocalCacheProofs ----------------------------
(***************************************************************************)
(* Proofs about LocalCache, for every set of paths and contents and every  *)
(* bound: type correctness; that a collection deletes no object the        *)
(* history needs but those that a sync counted on meanwhile; that pruning  *)
(* removes no content the cloud has not; and that an eviction is not taken *)
(* for a deletion.                                                         *)
(***************************************************************************)
EXTENDS MCLocalCache, FiniteSetTheorems, TLAPS

-------------------------------------------------------------------------------
(* Types. *)

Disks == [Paths -> Contents \cup {NoFile}]

Indexes ==
  [state : {"materialized", "partial", "metadata-only"}, hydrated : SUBSET Paths,
   manifest : Files]

\* A batch that may be empty.
Plans == UNION {[S -> Contents \cup {NoFile}] : S \in SUBSET Paths}

Syncs ==
  [step : {"idle", "read", "scanned", "planned", "committed"}, graph : Files,
   at : 0 .. MaxRevision, index : Indexes, scan : Disks, batch : Plans, todo : SUBSET Paths]

Evictions ==
  [step : {"idle", "read", "removing"}, kind : {"prune", "scheduled", "dehydrate"},
   graph : Files, index : Indexes, todo : SUBSET Paths, removed : SUBSET Paths]

Hydrations ==
  [step : {"idle", "fetch", "hydrated", "finish"}, graph : Files, path : Paths \cup {NoFile}]

Collections ==
  [step : {"idle", "graph", "versions", "deleting"}, window : BOOLEAN,
   kept : SUBSET Contents, doomed : SUBSET Contents]

CloudTypeOK ==
  /\ head \in HeadRow /\ files \in Files /\ versions \in SUBSET Version
  /\ objects \in SUBSET Contents /\ recent \in SUBSET Contents /\ gc \in Collections

FolderTypeOK ==
  /\ disk \in Disks /\ index \in Indexes
  /\ mode \in {"watching", "down"} /\ notice \in {"none", "raised", "queued"}

SyncTypeOK ==
  /\ sync \in Syncs
  /\ sync.todo \subseteq {p \in DOMAIN sync.batch : sync.batch[p] # NoFile}

HydrateTypeOK ==
  /\ hydrate \in Hydrations
  /\ hydrate.step # "idle" => hydrate.path \in Paths
  /\ hydrate.step \in {"fetch", "hydrated"} => hydrate.graph[hydrate.path] # NoFile

CacheTypeOK ==
  CloudTypeOK /\ FolderTypeOK /\ SyncTypeOK /\ evict \in Evictions /\ HydrateTypeOK

LEMMA FileIsNoFile == \A f \in File : f # NoFile
  BY NoFileDistinct

LEMMA ContentIsNoFile == \A c \in Contents : c # NoFile
  BY NoFileDistinct

LEMMA ContentOfType ==
  ASSUME NEW fs \in Files, NEW p \in Paths
  PROVE  /\ ContentOf(fs[p]) \in Contents \cup {NoFile}
         /\ fs[p] # NoFile => fs[p] \in File /\ fs[p].content \in Contents
                                /\ ContentOf(fs[p]) = fs[p].content
  BY DEF Files, File, ContentOf

LEMMA NoFilesType == NoFiles \in Files /\ NoDisk \in Disks /\ Visible(NoFiles) = {}
  BY DEF NoFiles, Files, NoDisk, Disks, Visible

LEMMA IndexOfType ==
  ASSUME NEW fs \in Files, NEW state \in {"materialized", "partial", "metadata-only"},
         NEW hydrated \in SUBSET Paths
  PROVE  IndexOf(fs, state, hydrated) \in Indexes
  BY DEF IndexOf, Indexes, Files

LEMMA NoneTypes == NoSync \in Syncs /\ NoEvict \in Evictions /\ NoHydrate \in Hydrations
  <1>1. IndexOf(NoFiles, "materialized", {}) \in Indexes
    BY NoFilesType, IndexOfType
  <1>2. <<>> \in Plans
    <2>1. <<>> \in [{} -> Contents \cup {NoFile}]
      OBVIOUS
    <2>2. {} \in SUBSET Paths
      OBVIOUS
    <2> QED
      BY <2>1, <2>2 DEF Plans
  <1>3. 0 \in 0 .. MaxRevision
    BY MaxRevisionNat
  <1> QED
    BY <1>1, <1>2, <1>3, NoFilesType
    DEF NoSync, NoEvict, NoHydrate, Syncs, Evictions, Hydrations

\* A plan is a function from some of the paths.
LEMMA PlanFacts ==
  ASSUME NEW plan \in Plans
  PROVE  /\ DOMAIN plan \in SUBSET Paths
         /\ plan \in [DOMAIN plan -> Contents \cup {NoFile}]
         /\ IsFiniteSet(DOMAIN plan)
         /\ Cardinality(DOMAIN plan) \in Nat
  <1>1. PICK S \in SUBSET Paths : plan \in [S -> Contents \cup {NoFile}]
    BY DEF Plans
  <1>2. DOMAIN plan = S
    BY <1>1
  <1>3. IsFiniteSet(S)
    BY <1>1, PathsFinite, FS_Subset
  <1> QED
    BY <1>1, <1>2, <1>3, FS_CardinalityType

LEMMA PlanType ==
  ASSUME NEW S \in SUBSET Paths, NEW folder \in Disks
  PROVE  /\ [p \in S |-> folder[p]] \in Plans
         /\ DOMAIN [p \in S |-> folder[p]] = S
  BY DEF Plans, Disks

-------------------------------------------------------------------------------
(* What one committed batch does to the files and the history. *)

LEMMA AppliedFacts ==
  ASSUME NEW fs \in Files, NEW r \in Nat, NEW plan \in Plans,
         NEW order \in Orders(DOMAIN plan),
         r + Cardinality(DOMAIN plan) <= MaxRevision
  PROVE  /\ Applied(fs, r, plan, order) \in Files
         /\ \A p \in Paths \ DOMAIN plan : Applied(fs, r, plan, order)[p] = fs[p]
         /\ \A p \in DOMAIN plan :
              /\ plan[p] = NoFile => Applied(fs, r, plan, order)[p] = NoFile
              /\ plan[p] # NoFile =>
                   /\ Applied(fs, r, plan, order)[p] # NoFile
                   /\ Applied(fs, r, plan, order)[p].content = plan[p]
         /\ VersionRows(fs, r, plan, order) \in SUBSET Version
  <1> DEFINE n == Cardinality(DOMAIN plan)
             made(p) == [revision |-> r + order[p], content |-> plan[p]]
  <1>1. /\ DOMAIN plan \in SUBSET Paths /\ n \in Nat
        /\ \A p \in DOMAIN plan : plan[p] \in Contents \cup {NoFile}
    BY PlanFacts
  <1>2. \A p \in DOMAIN plan : order[p] \in 1 .. n
    BY DEF Orders, Numberings
  <1>3. \A p \in DOMAIN plan : r + order[p] \in 1 .. MaxRevision
    BY <1>1, <1>2, MaxRevisionNat
  <1>4. \A p \in DOMAIN plan : plan[p] # NoFile => made(p) \in File
    BY <1>1, <1>3 DEF File
  <1>5. \A p \in DOMAIN plan : plan[p] # NoFile => made(p) # NoFile
    BY <1>4, FileIsNoFile
  <1>6. Applied(fs, r, plan, order) \in Files
    BY <1>4 DEF Applied, Files
  <1>7. VersionRows(fs, r, plan, order) \in SUBSET Version
    BY <1>1, <1>3, MaxRevisionNat DEF VersionRows, Version
  <1>8. \A p \in Paths : Applied(fs, r, plan, order)[p] =
          IF p \notin DOMAIN plan THEN fs[p] ELSE IF plan[p] = NoFile THEN NoFile ELSE made(p)
    BY DEF Applied
  <1>9. \A p \in DOMAIN plan : made(p).content = plan[p]
    OBVIOUS
  <1> HIDE DEF made
  <1> QED
    BY <1>1, <1>5, <1>6, <1>7, <1>8, <1>9

\* The contents of the history, as a function of its rows.
Told(rows) == {row.content : row \in rows} \ {NoFile}

LEMMA RecordedIsTold == Recorded = Told(versions) /\ Retained = Recorded
  BY DEF Recorded, Told, Retained

LEMMA ToldGrows ==
  ASSUME NEW rows, NEW more
  PROVE  /\ Told(rows \cup more) = Told(rows) \cup Told(more)
         /\ Told(rows) \subseteq Told(rows \cup more)
  BY DEF Told

LEMMA ToldType ==
  ASSUME NEW rows \in SUBSET Version
  PROVE  Told(rows) \in SUBSET Contents
  BY DEF Told, Version

\* A batch tells the contents it writes, but those that were there.
LEMMA RowsTell ==
  ASSUME NEW fs \in Files, NEW r \in Nat, NEW plan \in Plans,
         NEW order \in Orders(DOMAIN plan)
  PROVE  /\ Told(VersionRows(fs, r, plan, order)) \subseteq
              {plan[p] : p \in DOMAIN plan} \ {NoFile}
         /\ \A p \in DOMAIN plan :
              plan[p] # NoFile =>
                \/ plan[p] = ContentOf(fs[p])
                \/ plan[p] \in Told(VersionRows(fs, r, plan, order))
  <1> DEFINE row(p) == [path |-> p, at |-> r + order[p], content |-> plan[p]]
  <1>1. VersionRows(fs, r, plan, order) =
          {row(p) : p \in {q \in DOMAIN plan : plan[q] # ContentOf(fs[q])}}
    BY DEF VersionRows
  <1>2. \A p \in DOMAIN plan : row(p).content = plan[p]
    OBVIOUS
  <1> HIDE DEF row
  <1> QED
    BY <1>1, <1>2 DEF Told

\* The step of a batch on the store.
LEMMA ApplyFacts ==
  ASSUME CacheTypeOK, NEW plan \in Plans, NEW order \in Orders(DOMAIN plan),
         Apply(plan, order)
  PROVE  /\ head' \in HeadRow /\ files' \in Files /\ versions' \in SUBSET Version
         /\ \A p \in Paths \ DOMAIN plan : files'[p] = files[p]
         /\ \A p \in DOMAIN plan :
              /\ plan[p] = NoFile => files'[p] = NoFile
              /\ plan[p] # NoFile =>
                   /\ files'[p] # NoFile
                   /\ files'[p].content = plan[p]
                   /\ plan[p] = ContentOf(files[p]) \/ plan[p] \in Recorded'
         /\ Recorded \subseteq Recorded'
         /\ Recorded' \subseteq Recorded \cup ({plan[p] : p \in DOMAIN plan} \ {NoFile})
  <1> DEFINE n == Cardinality(DOMAIN plan)
             r == head.revision
             rows == VersionRows(files, r, plan, order)
  <1>1. n \in Nat /\ files \in Files /\ versions \in SUBSET Version /\ head \in HeadRow
    BY PlanFacts DEF CacheTypeOK, CloudTypeOK
  <1>2. r \in Nat /\ r + n <= MaxRevision /\ head' = Advanced(head, n)
    BY <1>1 DEF Apply, Takes, HeadRow
  <1>3. files' = Applied(files, r, plan, order) /\ versions' = versions \cup rows
    BY DEF Apply, Changes
  <1>4. head' \in HeadRow
    <2>1. r + n \in 0 .. MaxRevision
      BY <1>1, <1>2, MaxRevisionNat
    <2> QED
      BY <1>1, <1>2, <2>1 DEF Advanced, HeadRow
  <1>5. /\ Applied(files, r, plan, order) \in Files
        /\ \A p \in Paths \ DOMAIN plan : Applied(files, r, plan, order)[p] = files[p]
        /\ \A p \in DOMAIN plan :
             /\ plan[p] = NoFile => Applied(files, r, plan, order)[p] = NoFile
             /\ plan[p] # NoFile =>
                  /\ Applied(files, r, plan, order)[p] # NoFile
                  /\ Applied(files, r, plan, order)[p].content = plan[p]
        /\ rows \in SUBSET Version
    BY <1>1, <1>2, AppliedFacts
  <1>6. Recorded = Told(versions) /\ Recorded' = Told(versions')
    BY RecordedIsTold DEF Recorded, Told
  <1>7. Told(versions') = Told(versions) \cup Told(rows)
    BY <1>3, ToldGrows
  <1>8. /\ Told(rows) \subseteq {plan[p] : p \in DOMAIN plan} \ {NoFile}
        /\ \A p \in DOMAIN plan :
             plan[p] # NoFile => plan[p] = ContentOf(files[p]) \/ plan[p] \in Told(rows)
    BY <1>1, <1>2, RowsTell
  <1> HIDE DEF rows, n, r
  <1> QED
    BY <1>1, <1>3, <1>4, <1>5, <1>6, <1>7, <1>8

-------------------------------------------------------------------------------
(* What a step may change. *)

Edits == \E p \in Paths, content \in Contents \cup {NoFile} : Edit(p, content)
Removes == \E p \in Paths : Remove(p)
EvictStarts == \E kind \in {"scheduled", "prune"} : PruneStart(kind)
HydrateReads == \E p \in Paths : HydrateRead(p)

LEMMA CloudFrame ==
  ASSUME MCNext
  PROVE  \/ UNCHANGED <<store, blobs>>
         \/ SyncUpload \/ SyncCommit \/ Start
         \/ (Collect \/ Ages) /\ UNCHANGED local
  <1> USE DEF MCNext, MCStep, Sync, EvictBegins, Evict, Hydrate, Fails, Collect
  <1>1. CASE \E p \in Paths, content \in Contents \cup {NoFile} : Edit(p, content)
    BY <1>1 DEF Edit
  <1>2. CASE Sync
    BY <1>2 DEF Report, SyncRead, SyncScan, SyncPlan, SyncSettle
  <1>3. CASE EvictBegins \/ Evict
    BY <1>3 DEF PruneStart, DehydrateStart, PruneScan, Remove, EvictFinish
  <1>4. CASE Hydrate \/ \E p \in Paths : HydrateRead(p)
    BY <1>4 DEF HydrateRead, HydrateWrite, HydrateBlocked, HydrateFinish
  <1>5. CASE Fails
    BY <1>5 DEF SyncFails, EvictStops, HydrateStops, AgentDies
  <1> QED
    BY <1>1, <1>2, <1>3, <1>4, <1>5

LEMMA FolderFrame ==
  ASSUME MCNext
  PROVE  /\ UNCHANGED disk \/ Edits \/ Removes \/ HydrateWrite \/ Start
         /\ UNCHANGED index \/ SyncSettle \/ EvictFinish \/ HydrateFinish \/ Start
         /\ UNCHANGED mode \/ AgentDies \/ Start
         /\ UNCHANGED notice \/ notice' \in {"none", "raised", "queued"}
  <1> USE DEF MCNext, MCStep, Sync, EvictBegins, Evict, Hydrate, Fails, Collect, local
  <1>1. CASE \E p \in Paths, content \in Contents \cup {NoFile} : Edit(p, content)
    BY <1>1 DEF Edit, Edits, Noticed
  <1>2. CASE Sync
    BY <1>2 DEF Report, SyncRead, SyncScan, SyncPlan, SyncUpload, SyncCommit, SyncSettle
  <1>3. CASE EvictBegins \/ Evict
    BY <1>3 DEF PruneStart, DehydrateStart, PruneScan, Remove, Removes, EvictFinish, Noticed
  <1>4. CASE Hydrate \/ \E p \in Paths : HydrateRead(p)
    BY <1>4 DEF HydrateRead, HydrateWrite, HydrateBlocked, HydrateFinish, Noticed
  <1>5. CASE Fails
    BY <1>5 DEF SyncFails, EvictStops, HydrateStops, AgentDies
  <1>6. CASE Start
    BY <1>6 DEF Start
  <1>7. CASE UNCHANGED local
    BY <1>7
  <1> QED
    BY <1>1, <1>2, <1>3, <1>4, <1>5, <1>6, <1>7

LEMMA SyncFrame ==
  ASSUME MCNext
  PROVE  \/ UNCHANGED sync
         \/ SyncRead \/ SyncScan \/ SyncPlan \/ SyncUpload \/ SyncCommit
         \/ sync' = NoSync /\ UNCHANGED <<store, blobs, disk>>
              /\ (SyncSettle \/ SyncFails \/ AgentDies)
  <1> USE DEF MCNext, MCStep, Sync, EvictBegins, Evict, Hydrate, Fails, Collect, local
  <1>1. CASE \E p \in Paths, content \in Contents \cup {NoFile} : Edit(p, content)
    BY <1>1 DEF Edit
  <1>2. CASE Sync
    BY <1>2 DEF Report, SyncSettle
  <1>3. CASE EvictBegins \/ Evict
    BY <1>3 DEF PruneStart, DehydrateStart, PruneScan, Remove, EvictFinish
  <1>4. CASE Hydrate \/ \E p \in Paths : HydrateRead(p)
    BY <1>4 DEF HydrateRead, HydrateWrite, HydrateBlocked, HydrateFinish
  <1>5. CASE Fails
    BY <1>5 DEF SyncFails, EvictStops, HydrateStops, AgentDies
  <1>6. CASE Start
    BY <1>6 DEF Start
  <1>7. CASE UNCHANGED local
    BY <1>7
  <1> QED
    BY <1>1, <1>2, <1>3, <1>4, <1>5, <1>6, <1>7

LEMMA EvictFrame ==
  ASSUME MCNext
  PROVE  \/ UNCHANGED evict
         \/ EvictStarts \/ DehydrateStart \/ PruneScan \/ Removes \/ EvictFinish
         \/ evict' = NoEvict /\ (EvictStops \/ AgentDies)
  <1> USE DEF MCNext, MCStep, Sync, EvictBegins, Evict, Hydrate, Fails, Collect, local
  <1>1. CASE \E p \in Paths, content \in Contents \cup {NoFile} : Edit(p, content)
    BY <1>1 DEF Edit
  <1>2. CASE Sync
    BY <1>2 DEF Report, SyncRead, SyncScan, SyncPlan, SyncUpload, SyncCommit, SyncSettle
  <1>3. CASE EvictBegins \/ Evict
    BY <1>3 DEF EvictStarts, Removes
  <1>4. CASE Hydrate \/ \E p \in Paths : HydrateRead(p)
    BY <1>4 DEF HydrateRead, HydrateWrite, HydrateBlocked, HydrateFinish
  <1>5. CASE Fails
    BY <1>5 DEF SyncFails, EvictStops, HydrateStops, AgentDies
  <1>6. CASE Start
    BY <1>6 DEF Start
  <1>7. CASE UNCHANGED local
    BY <1>7
  <1> QED
    BY <1>1, <1>2, <1>3, <1>4, <1>5, <1>6, <1>7

LEMMA HydrateFrame ==
  ASSUME MCNext
  PROVE  \/ UNCHANGED hydrate
         \/ HydrateReads \/ HydrateWrite
         \/ HydrateBlocked
         \/ hydrate' = NoHydrate /\ (HydrateFinish \/ HydrateStops)
  <1> USE DEF MCNext, MCStep, Sync, EvictBegins, Evict, Hydrate, Fails, Collect, local
  <1>1. CASE \E p \in Paths, content \in Contents \cup {NoFile} : Edit(p, content)
    BY <1>1 DEF Edit
  <1>2. CASE Sync
    BY <1>2 DEF Report, SyncRead, SyncScan, SyncPlan, SyncUpload, SyncCommit, SyncSettle
  <1>3. CASE EvictBegins \/ Evict
    BY <1>3 DEF PruneStart, DehydrateStart, PruneScan, Remove, EvictFinish
  <1>4. CASE Hydrate \/ \E p \in Paths : HydrateRead(p)
    BY <1>4 DEF HydrateReads, HydrateFinish
  <1>5. CASE Fails
    BY <1>5 DEF SyncFails, EvictStops, HydrateStops, AgentDies
  <1>6. CASE Start
    BY <1>6 DEF Start
  <1>7. CASE UNCHANGED local
    BY <1>7
  <1> QED
    BY <1>1, <1>2, <1>3, <1>4, <1>5, <1>6, <1>7

-------------------------------------------------------------------------------
(* Steps that need more than their definition: the plan of a sync, its commit, and the  *)
(* start of a watching agent.                                                            *)

LEMMA BatchFactsOfSync ==
  ASSUME CacheTypeOK
  PROVE  /\ Batch(sync.graph, sync.scan, index) \in Plans
         /\ \A p \in DOMAIN Batch(sync.graph, sync.scan, index) :
              /\ p \in Paths
              /\ Batch(sync.graph, sync.scan, index)[p] = sync.scan[p]
              /\ sync.scan[p] = NoFile => p \in Deletable(index, sync.graph)
  <1> DEFINE S == {p \in Present(sync.scan) : sync.scan[p] # ContentOf(sync.graph[p])}
                    \cup (Deletable(index, sync.graph) \ Present(sync.scan))
  <1>1. sync.scan \in Disks /\ index \in Indexes
    BY DEF CacheTypeOK, FolderTypeOK, SyncTypeOK, Syncs
  <1>2. S \in SUBSET Paths
    BY <1>1 DEF Present, Deletable, Visible, Indexes
  <1>3. \A p \in S : sync.scan[p] = NoFile => p \in Deletable(index, sync.graph)
    BY DEF Present
  <1>4. Batch(sync.graph, sync.scan, index) = [p \in S |-> sync.scan[p]]
    BY DEF Batch
  <1> HIDE DEF S
  <1> QED
    BY <1>1, <1>2, <1>3, <1>4, PlanType

LEMMA SyncCommitFacts ==
  ASSUME CacheTypeOK, SyncCommit
  PROVE  /\ sync.batch \in Plans
         /\ head' \in HeadRow /\ files' \in Files /\ versions' \in SUBSET Version
         /\ \A p \in Paths \ DOMAIN sync.batch : files'[p] = files[p]
         /\ \A p \in DOMAIN sync.batch :
              /\ sync.batch[p] = NoFile => files'[p] = NoFile
              /\ sync.batch[p] # NoFile =>
                   /\ files'[p] # NoFile
                   /\ files'[p].content = sync.batch[p]
                   /\ sync.batch[p] = ContentOf(files[p]) \/ sync.batch[p] \in Recorded'
         /\ Recorded \subseteq Recorded'
         /\ Recorded' \subseteq Recorded \cup
              ({sync.batch[p] : p \in DOMAIN sync.batch} \ {NoFile})
  <1>1. sync.batch \in Plans
    BY DEF CacheTypeOK, SyncTypeOK, Syncs
  <1>2. PICK order \in Orders(DOMAIN sync.batch) : Apply(sync.batch, order)
    BY DEF SyncCommit
  <1>3. PICK plan \in Plans : plan = sync.batch
    BY <1>1
  <1>4. order \in Orders(DOMAIN plan) /\ Apply(plan, order)
    BY <1>2, <1>3
  <1> QED
    BY <1>3, <1>4, ApplyFacts

\* What a start commits, and puts into the bucket before.
Replayed == Drift \ Diverged
Puts == {disk[p] : p \in Replayed \cap Present(disk)}

LEMMA StartCommits ==
  ASSUME CacheTypeOK, Start
  PROVE  /\ head' \in HeadRow /\ files' \in Files /\ versions' \in SUBSET Version
         /\ \A p \in Paths \ Replayed : files'[p] = files[p]
         /\ \A p \in Replayed :
              /\ disk[p] = NoFile => files'[p] = NoFile
              /\ disk[p] # NoFile =>
                   /\ files'[p] # NoFile
                   /\ files'[p].content = disk[p]
                   /\ disk[p] = ContentOf(files[p]) \/ disk[p] \in Recorded'
         /\ Recorded \subseteq Recorded'
         /\ Recorded' \subseteq Recorded \cup Puts
         /\ Replayed = {} => UNCHANGED store
         /\ Puts \in SUBSET Contents
         /\ objects' = objects \cup Puts
         /\ recent' = recent \cup (Puts \ objects)
  <1>1. disk \in Disks /\ Replayed \in SUBSET Paths
    BY DEF CacheTypeOK, FolderTypeOK, Replayed, Drift
  <1>2. Puts \in SUBSET Contents
    BY <1>1 DEF Puts, Present, Disks
  <1>3. objects' = objects \cup Puts /\ recent' = recent \cup (Puts \ objects)
    BY DEF Start, Puts, Replayed
  <1>4. CASE Replayed = {}
    <2>1. UNCHANGED store
      BY <1>4 DEF Start, Replayed
    <2>2. Recorded' = Recorded
      BY <2>1 DEF store, Recorded
    <2> QED
      BY <1>2, <1>3, <1>4, <2>1, <2>2 DEF store, CacheTypeOK, CloudTypeOK
  <1>5. CASE Replayed # {}
    <2> DEFINE plan == [p \in Replayed |-> disk[p]]
    <2>1. plan \in Plans /\ DOMAIN plan = Replayed /\ \A p \in Replayed : plan[p] = disk[p]
      BY <1>1, PlanType
    <2>2. PICK order \in Orders(Replayed) : Apply(plan, order)
      BY <1>5 DEF Start, Replayed
    <2>3. {plan[p] : p \in Replayed} \ {NoFile} = Puts
      BY <1>1, <2>1 DEF Puts, Present
    <2> HIDE DEF plan
    <2>4. order \in Orders(DOMAIN plan)
      BY <2>1, <2>2
    <2>5. /\ head' \in HeadRow /\ files' \in Files /\ versions' \in SUBSET Version
          /\ \A p \in Paths \ DOMAIN plan : files'[p] = files[p]
          /\ \A p \in DOMAIN plan :
               /\ plan[p] = NoFile => files'[p] = NoFile
               /\ plan[p] # NoFile =>
                    /\ files'[p] # NoFile
                    /\ files'[p].content = plan[p]
                    /\ plan[p] = ContentOf(files[p]) \/ plan[p] \in Recorded'
          /\ Recorded \subseteq Recorded'
          /\ Recorded' \subseteq Recorded \cup ({plan[p] : p \in DOMAIN plan} \ {NoFile})
      BY <2>1, <2>2, <2>4, ApplyFacts
    <2> QED
      BY <1>2, <1>3, <1>5, <2>1, <2>3, <2>5
  <1> QED
    BY <1>4, <1>5

\* The folder and the index after a start.
LEMMA StartMaterializes ==
  ASSUME CacheTypeOK, Start
  PROVE  \/ /\ index.state # "materialized" /\ UNCHANGED disk
            /\ \/ UNCHANGED <<store, index>>
               \/ index' = IndexOf(files', "partial", index.hydrated \cup Present(disk))
         \/ /\ index.state = "materialized"
            /\ index' = IndexOf(files', "materialized", Visible(files') \ Diverged)
            /\ disk' = [p \in Paths |-> IF p \in Visible(files') \ Diverged
                                        THEN files'[p].content ELSE disk[p]]
  <1> DEFINE recovered == IF Replayed = {} THEN index
                          ELSE IndexOf(files', StateForSync(index),
                                       HydratedAfterSync(index, Present(disk), files'))
             hydrated == Visible(files') \ Diverged
  <1>1. IF recovered.state = "materialized"
          THEN /\ disk' = [p \in Paths |-> IF p \in hydrated THEN files'[p].content ELSE disk[p]]
               /\ index' = IndexOf(files', "materialized", hydrated)
          ELSE index' = recovered /\ UNCHANGED disk
    BY DEF Start, Replayed
  <1>2. recovered.state = "materialized" <=> index.state = "materialized"
    BY DEF IndexOf, StateForSync
  <1>3. Replayed = {} => UNCHANGED store
    BY StartCommits
  <1>4. (Replayed # {} /\ index.state # "materialized") =>
          recovered = IndexOf(files', "partial", index.hydrated \cup Present(disk))
    BY DEF StateForSync, HydratedAfterSync
  <1>5. Replayed = {} => recovered = index
    OBVIOUS
  <1> HIDE DEF recovered, hydrated
  <1>6. CASE index.state = "materialized"
    BY <1>1, <1>2, <1>6 DEF hydrated
  <1>7. CASE index.state # "materialized"
    BY <1>1, <1>2, <1>3, <1>4, <1>5, <1>7
  <1> QED
    BY <1>6, <1>7

-------------------------------------------------------------------------------
(* Every state has its types. *)

LEMMA CacheTypeInit ==
  ASSUME Init
  PROVE  CacheTypeOK
  <1>1. PICK batch \in [Paths -> Contents], order \in Orders(Paths) :
          /\ head = Advanced(EmptyHead, Cardinality(Paths))
          /\ files = Applied(NoFiles, 0, batch, order)
          /\ versions = VersionRows(NoFiles, 0, batch, order)
          /\ objects = {batch[p] : p \in Paths}
          /\ disk = batch
    BY DEF Init
  <1>2. batch \in Plans /\ DOMAIN batch = Paths /\ order \in Orders(DOMAIN batch)
    BY DEF Plans
  <1>3. Cardinality(Paths) \in Nat /\ 0 + Cardinality(Paths) <= MaxRevision
    BY PathsFinite, FS_CardinalityType, RoomForInit
  <1>4. files \in Files /\ versions \in SUBSET Version
    BY <1>1, <1>2, <1>3, NoFilesType, AppliedFacts
  <1>5. head \in HeadRow
    <2>1. PICK n \in Nat : n = Cardinality(Paths)
      BY <1>3
    <2>2. 0 + n \in 0 .. MaxRevision /\ 0 \in 0 .. MaxRevision
      BY <1>3, <2>1, MaxRevisionNat
    <2>3. EmptyHead \in HeadRow /\ EmptyHead.revision = 0
      BY <2>2 DEF EmptyHead, HeadRow, ReviewStates
    <2>4. head = [EmptyHead EXCEPT !.revision = 0 + n]
      BY <1>1, <2>1, <2>3 DEF Advanced
    <2> QED
      BY <2>2, <2>3, <2>4 DEF HeadRow
  <1>6. CloudTypeOK
    BY <1>1, <1>4, <1>5 DEF CloudTypeOK, Init, NoGc, Collections
  <1>7. index \in Indexes
    BY <1>4, IndexOfType DEF Init
  <1>8. FolderTypeOK
    BY <1>1, <1>7 DEF FolderTypeOK, Init, Disks
  <1>9. SyncTypeOK
    BY NoneTypes DEF Init, SyncTypeOK, NoSync
  <1>10. evict \in Evictions /\ HydrateTypeOK
    BY NoneTypes DEF Init, HydrateTypeOK, NoHydrate
  <1> QED
    BY <1>6, <1>8, <1>9, <1>10 DEF CacheTypeOK

LEMMA CloudTypeNext ==
  ASSUME CacheTypeOK, MCNext
  PROVE  CloudTypeOK'
  <1> USE DEF CacheTypeOK, CloudTypeOK
  <1>1. CASE UNCHANGED <<store, blobs>>
    BY <1>1 DEF store, blobs
  <1>2. CASE SyncUpload
    <2>1. PICK p \in sync.todo : Put(sync.batch[p])
      BY <1>2 DEF SyncUpload
    <2>2. sync.batch[p] \in Contents
      BY PlanFacts DEF SyncTypeOK, Syncs
    <2> QED
      BY <1>2, <2>1, <2>2 DEF SyncUpload, Put, store
  <1>3. CASE SyncCommit
    BY <1>3, SyncCommitFacts DEF SyncCommit, blobs
  <1>4. CASE Start
    <2>1. UNCHANGED gc
      BY <1>4 DEF Start
    <2> QED
      BY <1>4, <2>1, StartCommits
  <1>5. CASE Collect
    <2> USE DEF Collections, store
    <2>1. CASE GcReadGraph
      <3>1. Reachable \in SUBSET Contents
        BY ContentOfType DEF Reachable
      <3> QED
        BY <2>1, <3>1 DEF GcReadGraph, NoGc
    <2>2. CASE GcReadVersions
      <3>1. Retained \in SUBSET Contents
        BY RecordedIsTold, ToldType
      <3> QED
        BY <2>2, <3>1 DEF GcReadVersions
    <2>3. CASE GcList
      BY <2>3 DEF GcList
    <2>4. CASE GcDelete
      BY <2>4 DEF GcDelete
    <2>5. CASE GcEnds
      BY <2>5 DEF GcEnds, NoGc
    <2> QED
      BY <1>5, <2>1, <2>2, <2>3, <2>4, <2>5 DEF Collect
  <1>6. CASE Ages
    BY <1>6 DEF Ages, store
  <1> QED
    BY <1>1, <1>2, <1>3, <1>4, <1>5, <1>6, CloudFrame

LEMMA FolderTypeNext ==
  ASSUME CacheTypeOK, MCNext
  PROVE  FolderTypeOK'
  <1> USE DEF CacheTypeOK, FolderTypeOK
  <1>0. CloudTypeOK'
    BY CloudTypeNext
  <1>1. disk' \in Disks
    <2>1. CASE UNCHANGED disk
      BY <2>1
    <2>2. CASE Edits \/ Removes
      BY <2>2 DEF Edits, Removes, Edit, Remove, Disks
    <2>3. CASE HydrateWrite
      <3>1. hydrate.path \in Paths /\ hydrate.graph \in Files
              /\ hydrate.graph[hydrate.path] # NoFile
        BY <2>3 DEF HydrateWrite, HydrateTypeOK, Hydrations
      <3>2. hydrate.graph[hydrate.path].content \in Contents
        BY <3>1, ContentOfType
      <3> QED
        BY <2>3, <3>1, <3>2 DEF HydrateWrite, Disks
    <2>4. CASE Start
      <3>1. \A p \in Visible(files') : files'[p].content \in Contents
        BY <2>4, StartCommits, ContentOfType DEF Visible
      <3> QED
        BY <2>4, <3>1, StartMaterializes DEF Disks
    <2> QED
      BY <2>1, <2>2, <2>3, <2>4, FolderFrame
  <1>2. index' \in Indexes
    <2>0. /\ index.hydrated \in SUBSET Paths
          /\ index.state \in {"materialized", "partial", "metadata-only"}
      BY DEF Indexes
    <2>1. CASE UNCHANGED index
      BY <2>1
    <2>2. CASE SyncSettle
      <3>1. sync.graph \in Files /\ sync.index \in Indexes /\ sync.scan \in Disks
        BY DEF SyncTypeOK, Syncs
      <3>2. HydratedAfterSync(sync.index, Present(sync.scan), sync.graph) \in SUBSET Paths
        BY <3>1 DEF HydratedAfterSync, Visible, Present, Indexes
      <3>3. StateForSync(sync.index) \in {"materialized", "partial", "metadata-only"}
        BY DEF StateForSync
      <3> QED
        BY <2>2, <3>1, <3>2, <3>3, IndexOfType DEF SyncSettle
    <2>3. CASE EvictFinish
      <3> DEFINE hydrated == IF evict.kind = "dehydrate" THEN {}
                             ELSE HydratedAfterPrune(evict.index, evict.graph, evict.removed)
      <3>1. evict.graph \in Files /\ evict.index \in Indexes
        BY DEF Evictions
      <3>2. hydrated \in SUBSET Paths
        BY <3>1 DEF HydratedAfterPrune, Visible, Indexes
      <3>3. HydrationState(hydrated, Visible(evict.graph)) \in
              {"materialized", "partial", "metadata-only"}
        BY DEF HydrationState
      <3>4. index' = IndexOf(evict.graph, HydrationState(hydrated, Visible(evict.graph)), hydrated)
        BY <2>3 DEF EvictFinish
      <3> HIDE DEF hydrated
      <3> QED
        BY <3>1, <3>2, <3>3, <3>4, IndexOfType
    <2>4. CASE HydrateFinish
      <3> DEFINE hydrated == index.hydrated \cup
                               (IF hydrate.step = "hydrated" THEN {hydrate.path} ELSE {})
      <3>1. hydrate.graph \in Files
        BY DEF HydrateTypeOK, Hydrations
      <3>2. hydrated \in SUBSET Paths
        BY <2>0 DEF HydrateTypeOK
      <3>3. HydrationState(hydrated, Visible(hydrate.graph)) \in
              {"materialized", "partial", "metadata-only"}
        BY DEF HydrationState
      <3>4. index' =
              IndexOf(hydrate.graph, HydrationState(hydrated, Visible(hydrate.graph)), hydrated)
        BY <2>4 DEF HydrateFinish
      <3> HIDE DEF hydrated
      <3> QED
        BY <3>1, <3>2, <3>3, <3>4, IndexOfType
    <2>5. CASE Start
      <3>1. files' \in Files
        BY <2>5, StartCommits
      <3>2. index.hydrated \cup Present(disk) \in SUBSET Paths
              /\ Visible(files') \ Diverged \in SUBSET Paths
        BY <2>0 DEF Present, Visible
      <3> QED
        BY <2>5, <3>1, <3>2, StartMaterializes, IndexOfType
    <2> QED
      BY <2>1, <2>2, <2>3, <2>4, <2>5, FolderFrame
  <1>3. mode' \in {"watching", "down"}
    BY FolderFrame DEF AgentDies, Start
  <1>4. notice' \in {"none", "raised", "queued"}
    BY FolderFrame
  <1> QED
    BY <1>1, <1>2, <1>3, <1>4

LEMMA SyncTypeNext ==
  ASSUME CacheTypeOK, MCNext
  PROVE  SyncTypeOK'
  <1> USE DEF CacheTypeOK, SyncTypeOK
  <1>1. CASE UNCHANGED sync
    BY <1>1
  <1>2. CASE SyncRead
    <2>1. files \in Files /\ head.revision \in 0 .. MaxRevision /\ NoSync \in Syncs
      BY NoneTypes DEF CloudTypeOK, HeadRow
    <2>2. sync' = [NoSync EXCEPT !.step = "read", !.graph = files, !.at = head.revision]
      BY <1>2 DEF SyncRead
    <2>3. sync' \in Syncs /\ sync'.todo = NoSync.todo
      BY <2>1, <2>2 DEF Syncs
    <2>4. NoSync.todo = {}
      BY DEF NoSync
    <2> QED
      BY <2>3, <2>4
  <1>3. CASE SyncScan
    BY <1>3 DEF SyncScan, Syncs, FolderTypeOK
  <1>4. CASE SyncPlan
    <2> DEFINE plan == Batch(sync.graph, sync.scan, index)
               step == IF DOMAIN plan = {} THEN "committed" ELSE "planned"
               todo == {p \in DOMAIN plan : plan[p] # NoFile}
    <2>1. sync' = [sync EXCEPT !.step = step, !.index = index, !.batch = plan, !.todo = todo]
      BY <1>4 DEF SyncPlan
    <2>2. plan \in Plans /\ todo \in SUBSET Paths /\ index \in Indexes
      BY BatchFactsOfSync DEF FolderTypeOK
    <2>3. todo \subseteq {p \in DOMAIN plan : plan[p] # NoFile}
      OBVIOUS
    <2>4. step \in {"committed", "planned"}
      OBVIOUS
    <2> HIDE DEF plan, step, todo
    <2>5. sync' \in Syncs /\ sync'.batch = plan /\ sync'.todo = todo
      BY <2>1, <2>2, <2>4 DEF Syncs
    <2> QED
      BY <2>3, <2>5
  <1>5. CASE SyncUpload
    BY <1>5 DEF SyncUpload, Syncs
  <1>6. CASE SyncCommit
    <2>1. files' \in Files
      BY <1>6, SyncCommitFacts
    <2>2. sync' = [sync EXCEPT !.step = "committed", !.graph = files']
      BY <1>6 DEF SyncCommit
    <2> QED
      BY <2>1, <2>2 DEF Syncs
  <1>7. CASE sync' = NoSync
    <2>1. NoSync.todo = {}
      BY DEF NoSync
    <2> QED
      BY <1>7, <2>1, NoneTypes
  <1> QED
    BY <1>1, <1>2, <1>3, <1>4, <1>5, <1>6, <1>7, SyncFrame

LEMMA EvictTypeNext ==
  ASSUME CacheTypeOK, MCNext
  PROVE  evict' \in Evictions
  <1> USE DEF CacheTypeOK
  <1>0. /\ files \in Files /\ Visible(files) \in SUBSET Paths
        /\ index \in Indexes /\ NoEvict \in Evictions
    BY NoneTypes DEF CloudTypeOK, FolderTypeOK, Visible
  <1>1. CASE UNCHANGED evict
    BY <1>1
  <1>2. CASE EvictStarts
    <2>1. PICK k \in {"scheduled", "prune"} : PruneStart(k)
      BY <1>2 DEF EvictStarts
    <2>2. evict' = [NoEvict EXCEPT !.step = "read", !.kind = k, !.graph = files]
      BY <2>1 DEF PruneStart
    <2>3. k \in {"prune", "scheduled", "dehydrate"}
      OBVIOUS
    <2> QED
      BY <1>0, <2>2, <2>3 DEF Evictions
  <1>3. CASE DehydrateStart
    BY <1>0, <1>3 DEF DehydrateStart, Evictions
  <1>4. CASE PruneScan
    <2>1. PICK S \in SUBSET {p \in Visible(evict.graph) \ Unresolved : Clean(p)} :
            evict' = IF S = {} THEN NoEvict
                     ELSE [evict EXCEPT !.step = "removing", !.index = index, !.todo = S]
      BY <1>4 DEF PruneScan
    <2>2. S \in SUBSET Paths
      BY <2>1 DEF Visible
    <2> QED
      BY <1>0, <2>1, <2>2 DEF Evictions
  <1>5. CASE Removes
    <2>1. PICK p \in Paths : Remove(p)
      BY <1>5 DEF Removes
    <2>2. evict' = [evict EXCEPT !.todo = evict.todo \ {p}, !.removed = evict.removed \cup {p}]
      BY <2>1 DEF Remove
    <2>3. evict.todo \ {p} \in SUBSET Paths /\ evict.removed \cup {p} \in SUBSET Paths
      BY DEF Evictions
    <2> QED
      BY <2>2, <2>3 DEF Evictions
  <1>6. CASE EvictFinish \/ evict' = NoEvict
    BY <1>0, <1>6 DEF EvictFinish
  <1> QED
    BY <1>1, <1>2, <1>3, <1>4, <1>5, <1>6, EvictFrame

LEMMA HydrateTypeNext ==
  ASSUME CacheTypeOK, MCNext
  PROVE  HydrateTypeOK'
  <1> USE DEF CacheTypeOK, HydrateTypeOK
  <1>1. CASE UNCHANGED hydrate
    BY <1>1
  <1>2. CASE HydrateReads
    <2>1. PICK p \in Paths : HydrateRead(p)
      BY <1>2 DEF HydrateReads
    <2>2. PICK step \in {"fetch", "finish"} :
            hydrate' = [step |-> step, graph |-> files, path |-> p]
      BY <2>1 DEF HydrateRead
    <2>3. files \in Files /\ files[p] # NoFile
      BY <2>1 DEF HydrateRead, CloudTypeOK
    <2> QED
      BY <2>2, <2>3 DEF Hydrations
  <1>3. CASE HydrateWrite
    BY <1>3 DEF HydrateWrite, Hydrations
  <1>4. CASE HydrateBlocked
    BY <1>4 DEF HydrateBlocked, Hydrations
  <1>5. CASE hydrate' = NoHydrate
    BY <1>5, NoneTypes DEF NoHydrate
  <1> QED
    BY <1>1, <1>2, <1>3, <1>4, <1>5, HydrateFrame

LEMMA CacheTypeStutter ==
  ASSUME CacheTypeOK, UNCHANGED mcvars
  PROVE  CacheTypeOK'
  BY DEF CacheTypeOK, CloudTypeOK, FolderTypeOK, SyncTypeOK, HydrateTypeOK,
         mcvars, vars, store, blobs, local

\* All components of the state, and of the copies that the operations of the folder work
\* on, have their types: a hydration that writes has a file to write.
THEOREM CacheTypeCorrect == MCSpec => []CacheTypeOK
  <1>1. MCInit => CacheTypeOK
    BY CacheTypeInit DEF MCInit
  <1>2. CacheTypeOK /\ MCNext => CacheTypeOK'
    BY CloudTypeNext, FolderTypeNext, SyncTypeNext, EvictTypeNext, HydrateTypeNext
    DEF CacheTypeOK
  <1>3. CacheTypeOK /\ UNCHANGED mcvars => CacheTypeOK'
    BY CacheTypeStutter
  <1> QED
    BY <1>1, <1>2, <1>3, PTL DEF MCSpec

-------------------------------------------------------------------------------
(* What a collection may delete. *)

\* What the history needs, and what the sync under way has put or found, has its object,
\* but for what a collection overtook.  A collection has marked what the history needed
\* when it read the versions, and what came since was counted on by a sync: within a
\* retention window an object that the sync wrote is recent, so that only those it found
\* can be among the doomed.
HistoryInv ==
  /\ Recorded \subseteq objects \cup overtaken
  /\ Uploaded \subseteq objects \cup overtaken
  /\ (Uploaded \ reused) \cap objects \subseteq recent
  /\ gc.step \in {"idle", "graph"} => late = {}
  /\ gc.step \in {"versions", "deleting"} => Recorded \subseteq gc.kept \cup late
  /\ gc.step = "versions" => (late \ reused) \cap objects \subseteq recent
  /\ gc.step = "deleting" =>
       /\ gc.doomed \subseteq objects
       /\ gc.doomed \cap gc.kept = {}
       /\ gc.window => gc.doomed \cap (late \cup Uploaded) \subseteq reused

\* The contents a sync counts on are those of its plan that it has put.
LEMMA UploadedNext ==
  ASSUME CacheTypeOK, MCNext
  PROVE  /\ SyncUpload \/ SyncCommit \/ Uploaded' \subseteq Uploaded
         /\ sync'.step # "planned" => Uploaded' = {}
  <1>1. ASSUME sync'.step # "planned" PROVE Uploaded' = {}
    BY <1>1 DEF Uploaded, Unresolved
  <1>2. CASE UNCHANGED sync
    BY <1>2 DEF Uploaded, Unresolved
  <1>3. CASE SyncRead \/ SyncScan
    BY <1>1, <1>3 DEF SyncRead, SyncScan, CacheTypeOK, SyncTypeOK, Syncs, NoSync
  <1>4. CASE SyncPlan
    <2> DEFINE plan == Batch(sync.graph, sync.scan, index)
    <2>1. sync'.batch = plan /\ sync'.todo = {p \in DOMAIN plan : plan[p] # NoFile}
      BY <1>4 DEF SyncPlan, CacheTypeOK, SyncTypeOK, Syncs
    <2> HIDE DEF plan
    <2>2. Uploaded' \subseteq {plan[p] : p \in DOMAIN plan \ sync'.todo} \ {NoFile}
      BY <2>1 DEF Uploaded, Unresolved
    <2> QED
      BY <2>1, <2>2
  <1>5. CASE sync' = NoSync
    BY <1>1, <1>5 DEF NoSync
  <1> QED
    BY <1>1, <1>2, <1>3, <1>4, <1>5, SyncFrame

LEMMA SyncUploadFacts ==
  ASSUME CacheTypeOK, SyncUpload
  PROVE  \E content \in Contents :
           /\ objects' = objects \cup {content}
           /\ recent' = IF content \in objects THEN recent ELSE recent \cup {content}
           /\ Uploaded' = Uploaded \cup {content}
           /\ Found = objects \cap {content}
           /\ sync'.step = "planned" /\ UNCHANGED <<store, gc>>
  <1> USE DEF CacheTypeOK, SyncTypeOK
  <1>1. PICK p \in sync.todo : Put(sync.batch[p]) /\ sync' = [sync EXCEPT !.todo = @ \ {p}]
    BY DEF SyncUpload
  <1>2. /\ sync'.todo = sync.todo \ {p} /\ sync'.batch = sync.batch /\ sync'.step = sync.step
        /\ sync.step = "planned"
    BY <1>1 DEF SyncUpload, Syncs
  <1>3. p \in DOMAIN sync.batch /\ sync.batch[p] # NoFile
    BY <1>1
  <1>4. sync.batch[p] \in Contents
    BY <1>3, PlanFacts DEF Syncs
  <1>5. Uploaded = {sync.batch[q] : q \in DOMAIN sync.batch \ sync.todo} \ {NoFile}
    BY <1>2 DEF Uploaded, Unresolved
  <1>6. Uploaded' = {sync.batch[q] : q \in DOMAIN sync.batch \ (sync.todo \ {p})} \ {NoFile}
    BY <1>2 DEF Uploaded, Unresolved
  <1>7. Uploaded' = Uploaded \cup {sync.batch[p]}
    BY <1>3, <1>5, <1>6
  <1>8. sync.todo \ sync'.todo = {p}
    BY <1>1, <1>2
  <1>9. Found = objects \cap {sync.batch[p]}
    BY <1>8 DEF Found
  <1>10. UNCHANGED <<store, gc>>
    BY DEF SyncUpload
  <1> QED
    BY <1>1, <1>2, <1>4, <1>7, <1>9, <1>10 DEF Put

LEMMA HistoryVariables ==
  ASSUME MCNext
  PROVE  /\ gc'.step \in {"idle", "graph"} => late' = {}
         /\ gc'.step \notin {"idle", "graph"} => late' = late \cup (Recorded' \ Recorded)
         /\ sync'.step = "planned" \/ gc'.step # "idle" => reused' = reused \cup Found
         /\ overtaken \subseteq overtaken'
         /\ \A c \in (objects \ objects') \cap (late \cup Uploaded) :
              (gc.window => c \in reused) => c \in overtaken'
  BY DEF MCNext

LEMMA HistoryInit ==
  ASSUME MCInit
  PROVE  HistoryInv
  <1>1. PICK batch \in [Paths -> Contents], order \in Orders(Paths) :
          /\ versions = VersionRows(NoFiles, 0, batch, order)
          /\ objects = {batch[p] : p \in Paths}
    BY DEF MCInit, Init
  <1>2. batch \in Plans /\ DOMAIN batch = Paths /\ order \in Orders(DOMAIN batch)
    BY DEF Plans
  <1>3. Recorded \subseteq objects
    BY <1>1, <1>2, NoFilesType, RowsTell, RecordedIsTold
  <1>4. Uploaded = {}
    BY DEF MCInit, Init, NoSync, Uploaded, Unresolved
  <1>5. late = {} /\ gc.step = "idle"
    BY DEF MCInit, Init, NoGc
  <1> QED
    BY <1>3, <1>4, <1>5 DEF HistoryInv

LEMMA HistoryNext ==
  ASSUME CacheTypeOK, HistoryInv, MCNext
  PROVE  HistoryInv'
  <1> USE DEF HistoryInv
  <1>1. CASE SyncUpload
    <2>1. PICK content \in Contents :
            /\ objects' = objects \cup {content}
            /\ recent' = IF content \in objects THEN recent ELSE recent \cup {content}
            /\ Uploaded' = Uploaded \cup {content}
            /\ Found = objects \cap {content}
            /\ sync'.step = "planned" /\ UNCHANGED <<store, gc>>
      BY <1>1, SyncUploadFacts
    <2>2. Recorded' = Recorded
      BY <2>1 DEF store, Recorded
    <2>3. late' = late /\ reused' = reused \cup Found /\ overtaken \subseteq overtaken'
      BY <2>1, <2>2, HistoryVariables
    <2> QED
      BY <2>1, <2>2, <2>3
  <1>2. CASE SyncCommit
    <2>1. UNCHANGED blobs /\ sync'.step = "committed" /\ sync.todo = {} /\ sync.step = "planned"
      BY <1>2 DEF SyncCommit, CacheTypeOK, SyncTypeOK, Syncs
    <2>2. Uploaded' = {}
      BY <2>1, UploadedNext
    <2>3. Recorded \subseteq Recorded' /\ Recorded' \subseteq Recorded \cup Uploaded
      BY <1>2, <2>1, SyncCommitFacts DEF Uploaded, Unresolved
    <2>4. late' \subseteq late \cup (Recorded' \ Recorded)
      BY HistoryVariables
    <2>5. gc.step # "idle" => reused \subseteq reused'
      BY <2>1, HistoryVariables DEF blobs
    <2> QED
      BY <2>1, <2>2, <2>3, <2>4, <2>5, HistoryVariables DEF blobs
  <1>3. CASE Start
    <2>1. /\ Recorded \subseteq Recorded' /\ Recorded' \subseteq Recorded \cup Puts
          /\ objects' = objects \cup Puts
          /\ recent' = recent \cup (Puts \ objects)
      BY <1>3, StartCommits
    <2>2. UNCHANGED <<gc, sync>>
      BY <1>3 DEF Start
    <2>3. Uploaded' = Uploaded
      BY <2>2 DEF Uploaded, Unresolved
    <2>4. Puts \cap objects \subseteq Found
      BY <1>3 DEF Found, Puts, Replayed, Drift, Start, SyncUpload
    <2>5. late' \subseteq late \cup (Recorded' \ Recorded)
      BY HistoryVariables
    <2>6. gc.step # "idle" => reused \cup Found \subseteq reused'
      BY <2>2, HistoryVariables
    <2>7. Uploaded # {} => reused \subseteq reused'
      BY <2>2, HistoryVariables DEF Uploaded, Unresolved
    <2> QED
      BY <2>1, <2>2, <2>3, <2>4, <2>5, <2>6, <2>7, HistoryVariables
  <1>4. ASSUME UNCHANGED store, Uploaded' \subseteq Uploaded
        PROVE  /\ Recorded' = Recorded
               /\ late' \subseteq late
               /\ gc'.step # "idle" => reused \subseteq reused'
               /\ Uploaded' # {} => reused \subseteq reused'
    <2>1. Recorded' = Recorded
      BY <1>4 DEF store, Recorded
    <2>2. Uploaded' # {} => sync'.step = "planned"
      BY UploadedNext
    <2> QED
      BY <2>1, <2>2, HistoryVariables
  <1>5. CASE UNCHANGED <<store, blobs>> /\ Uploaded' \subseteq Uploaded
    <2>1. gc'.step \notin {"idle", "graph"} => late' = late
      BY <1>4, <1>5, HistoryVariables
    <2> QED
      BY <1>4, <1>5, <2>1, HistoryVariables DEF blobs
  <1>6. CASE (Collect \/ Ages) /\ UNCHANGED local
    <2>1. Uploaded' = Uploaded /\ UNCHANGED store
      BY <1>6 DEF local, Uploaded, Unresolved, Collect, Ages, GcReadGraph, GcReadVersions,
                  GcList, GcDelete, GcEnds
    <2>2. /\ Recorded' = Recorded
          /\ late' \subseteq late
          /\ gc'.step # "idle" => reused \subseteq reused'
          /\ Uploaded' # {} => reused \subseteq reused'
      BY <1>4, <2>1
    <2> USE DEF CacheTypeOK, CloudTypeOK, Collections
    <2>3. CASE GcReadGraph
      BY <2>1, <2>2, <2>3, HistoryVariables DEF GcReadGraph, NoGc
    <2>4. CASE GcReadVersions
      BY <2>1, <2>2, <2>4, HistoryVariables, RecordedIsTold DEF GcReadVersions
    <2>5. CASE GcList
      BY <2>1, <2>2, <2>5, HistoryVariables DEF GcList
    <2>6. CASE GcDelete
      <3>1. PICK c \in gc.doomed :
              /\ gc' = [gc EXCEPT !.doomed = @ \ {c}]
              /\ objects' = objects \ {c}
              /\ recent' = recent \ {c}
        BY <2>6 DEF GcDelete
      <3>2. /\ gc.step = "deleting" /\ gc'.step = "deleting"
            /\ gc'.kept = gc.kept /\ gc'.window = gc.window /\ gc'.doomed = gc.doomed \ {c}
        BY <2>6, <3>1 DEF GcDelete
      <3>3. c \in Recorded \cup Uploaded => c \in overtaken'
        BY <3>1, <3>2, HistoryVariables
      <3>4. late' = late
        BY <2>2, <3>2, HistoryVariables
      <3> QED
        BY <2>1, <2>2, <3>1, <3>2, <3>3, <3>4, HistoryVariables
    <2>7. CASE GcEnds
      BY <2>1, <2>2, <2>7, HistoryVariables DEF GcEnds, NoGc
    <2>8. CASE Ages
      <3>1. PICK c \in recent \ InFlight : recent' = recent \ {c}
        BY <2>8 DEF Ages
      <3>2. c \notin Uploaded
        BY <3>1 DEF Uploaded, InFlight
      <3>3. gc.step \notin {"graph", "versions"} /\ UNCHANGED <<objects, gc>>
        BY <2>8 DEF Ages
      <3>4. gc.step = "deleting" => late' = late
        BY <2>2, <3>3, HistoryVariables
      <3> QED
        BY <2>1, <2>2, <3>1, <3>2, <3>3, <3>4, HistoryVariables
    <2> QED
      BY <1>6, <2>3, <2>4, <2>5, <2>6, <2>7, <2>8 DEF Collect
  <1> QED
    BY <1>1, <1>2, <1>3, <1>5, <1>6, CloudFrame, UploadedNext

LEMMA HistoryStutter ==
  ASSUME HistoryInv, UNCHANGED mcvars
  PROVE  HistoryInv'
  BY DEF HistoryInv, Recorded, Uploaded, Unresolved, mcvars, vars, store, blobs, local, history

\* "Storage GC is retention-aware and cannot delete live history": HistoryKeepsObjects, for
\* any number of collections beside any syncs and starts.
THEOREM HistoryAlwaysKeepsObjects == MCSpec => []HistoryKeepsObjects
  <1>1. MCInit => HistoryInv
    BY HistoryInit
  <1>2. CacheTypeOK /\ HistoryInv /\ [MCNext]_mcvars => HistoryInv'
    BY HistoryNext, HistoryStutter
  <1>3. HistoryInv => HistoryKeepsObjects
    BY DEF HistoryInv, HistoryKeepsObjects
  <1> QED
    BY <1>1, <1>2, <1>3, CacheTypeCorrect, PTL DEF MCSpec

-------------------------------------------------------------------------------
(* What pruning may remove. *)

AllRecorded(fs) == \A p \in Paths : fs[p] # NoFile => fs[p].content \in Recorded

\* The files, each copy of the graph and the manifest have contents that the history has,
\* and so has what a pruning is about to remove: what it found clean, or what a hydration
\* or a start wrote since, unless the user did.
PruneInv ==
  /\ AllRecorded(files) /\ AllRecorded(index.manifest)
  /\ AllRecorded(sync.graph) /\ AllRecorded(evict.graph) /\ AllRecorded(hydrate.graph)
  /\ evict.step # "removing" => evict.todo = {}
  /\ \A p \in evict.todo :
       disk[p] = NoFile \/ evict.kind = "dehydrate" \/ p \in touched \/ disk[p] \in Recorded

LEMMA RecordedNext ==
  ASSUME CacheTypeOK, AllRecorded(files), MCNext
  PROVE  Recorded \subseteq Recorded' /\ AllRecorded(files)'
  <1>1. CASE UNCHANGED store
    BY <1>1 DEF store, Recorded, AllRecorded
  <1>2. CASE SyncCommit
    <2>1. Recorded \subseteq Recorded'
      BY <1>2, SyncCommitFacts
    <2>2. ASSUME NEW p \in Paths, files'[p] # NoFile
          PROVE  files'[p].content \in Recorded'
      <3>1. CASE p \notin DOMAIN sync.batch
        BY <1>2, <2>1, <2>2, <3>1, SyncCommitFacts DEF AllRecorded
      <3>2. CASE p \in DOMAIN sync.batch
        <4>1. /\ sync.batch[p] # NoFile /\ files'[p].content = sync.batch[p]
              /\ sync.batch[p] = ContentOf(files[p]) \/ sync.batch[p] \in Recorded'
          BY <1>2, <2>2, <3>2, SyncCommitFacts
        <4> QED
          BY <2>1, <4>1 DEF AllRecorded, ContentOf
      <3> QED
        BY <3>1, <3>2
    <2> QED
      BY <2>1, <2>2 DEF AllRecorded
  <1>3. CASE Start
    <2>1. Recorded \subseteq Recorded'
      BY <1>3, StartCommits
    <2>2. ASSUME NEW p \in Paths, files'[p] # NoFile
          PROVE  files'[p].content \in Recorded'
      <3>1. CASE p \notin Replayed
        BY <1>3, <2>1, <2>2, <3>1, StartCommits DEF AllRecorded
      <3>2. CASE p \in Replayed
        <4>1. /\ disk[p] # NoFile /\ files'[p].content = disk[p]
              /\ disk[p] = ContentOf(files[p]) \/ disk[p] \in Recorded'
          BY <1>3, <2>2, <3>2, StartCommits
        <4> QED
          BY <2>1, <4>1 DEF AllRecorded, ContentOf
      <3> QED
        BY <3>1, <3>2
    <2> QED
      BY <2>1, <2>2 DEF AllRecorded
  <1>4. SyncUpload \/ Collect \/ Ages => UNCHANGED store
    BY DEF SyncUpload, Collect, Ages, GcReadGraph, GcReadVersions, GcList, GcDelete, GcEnds
  <1> QED
    BY <1>1, <1>2, <1>3, <1>4, CloudFrame

LEMMA RecordedOfIndex ==
  ASSUME NEW fs \in Files, AllRecorded(fs), NEW state, NEW hydrated
  PROVE  AllRecorded(IndexOf(fs, state, hydrated).manifest)
  BY DEF AllRecorded, IndexOf

LEMMA NoneRecorded ==
  /\ AllRecorded(NoSync.graph) /\ AllRecorded(NoEvict.graph) /\ AllRecorded(NoHydrate.graph)
  BY DEF AllRecorded, NoSync, NoEvict, NoHydrate, NoFiles

LEMMA PruneInit ==
  ASSUME MCInit
  PROVE  PruneInv
  <1>1. PICK batch \in [Paths -> Contents], order \in Orders(Paths) :
          /\ files = Applied(NoFiles, 0, batch, order)
          /\ versions = VersionRows(NoFiles, 0, batch, order)
    BY DEF MCInit, Init
  <1>2. batch \in Plans /\ DOMAIN batch = Paths /\ order \in Orders(DOMAIN batch)
    BY DEF Plans
  <1>3. \A p \in Paths : batch[p] # NoFile /\ batch[p] # ContentOf(NoFiles[p])
    BY ContentIsNoFile DEF NoFiles, ContentOf
  <1>4. \A p \in Paths : batch[p] \in Recorded
    BY <1>1, <1>2, <1>3, NoFilesType, RowsTell, RecordedIsTold
  <1>5. \A p \in Paths : files[p].content = batch[p]
    BY <1>1, <1>2, <1>3 DEF Applied
  <1>6. AllRecorded(files)
    BY <1>4, <1>5 DEF AllRecorded
  <1>7. files \in Files
    BY CacheTypeInit DEF MCInit, CacheTypeOK, CloudTypeOK
  <1>8. AllRecorded(index.manifest)
    BY <1>6, <1>7, RecordedOfIndex DEF MCInit, Init
  <1>9. sync = NoSync /\ evict = NoEvict /\ hydrate = NoHydrate
    BY DEF MCInit, Init
  <1>10. NoEvict.todo = {}
    BY DEF NoEvict
  <1> QED
    BY <1>6, <1>8, <1>9, <1>10, NoneRecorded DEF PruneInv

LEMMA CopiesNext ==
  ASSUME CacheTypeOK, PruneInv, MCNext
  PROVE  /\ AllRecorded(index.manifest)' /\ AllRecorded(sync.graph)'
         /\ AllRecorded(evict.graph)' /\ AllRecorded(hydrate.graph)'
  <1> USE DEF PruneInv
  <1>1. Recorded \subseteq Recorded' /\ AllRecorded(files)'
    BY RecordedNext
  <1>2. ASSUME NEW fs, AllRecorded(fs)
        PROVE  \A p \in Paths : fs[p] # NoFile => fs[p].content \in Recorded'
    BY <1>1, <1>2 DEF AllRecorded
  <1>3. AllRecorded(sync.graph)'
    <2>1. CASE UNCHANGED sync \/ sync'.graph = sync.graph
      BY <1>2, <2>1 DEF AllRecorded
    <2>2. CASE sync'.graph = files
      BY <1>2, <2>2 DEF AllRecorded
    <2>3. CASE sync'.graph = files'
      BY <1>1, <2>3 DEF AllRecorded
    <2>4. CASE sync' = NoSync
      BY <1>2, <2>4, NoneRecorded DEF AllRecorded
    <2>5. sync \in Syncs /\ NoSync \in Syncs
      BY NoneTypes DEF CacheTypeOK, SyncTypeOK
    <2>6. SyncRead => sync'.graph = files
      BY <2>5 DEF SyncRead, Syncs
    <2>7. SyncScan \/ SyncPlan \/ SyncUpload => sync'.graph = sync.graph
      BY <2>5 DEF SyncScan, SyncPlan, SyncUpload, Syncs
    <2>8. SyncCommit => sync'.graph = files'
      BY <2>5 DEF SyncCommit, Syncs
    <2> QED
      BY <2>1, <2>2, <2>3, <2>4, <2>6, <2>7, <2>8, SyncFrame
  <1>4. AllRecorded(evict.graph)'
    <2>1. CASE UNCHANGED evict \/ evict'.graph = evict.graph
      BY <1>2, <2>1 DEF AllRecorded
    <2>2. CASE evict'.graph = files
      BY <1>2, <2>2 DEF AllRecorded
    <2>3. CASE evict' = NoEvict
      BY <1>2, <2>3, NoneRecorded DEF AllRecorded
    <2>4. evict \in Evictions /\ NoEvict \in Evictions
      BY NoneTypes DEF CacheTypeOK
    <2>5. EvictStarts \/ DehydrateStart => evict'.graph = files
      BY <2>4 DEF EvictStarts, PruneStart, DehydrateStart, Evictions
    <2>6. PruneScan => evict' = NoEvict \/ evict'.graph = evict.graph
      BY <2>4 DEF PruneScan, Evictions
    <2>7. Removes => evict'.graph = evict.graph
      BY <2>4 DEF Removes, Remove, Evictions
    <2>8. EvictFinish => evict' = NoEvict
      BY DEF EvictFinish
    <2> QED
      BY <2>1, <2>2, <2>3, <2>5, <2>6, <2>7, <2>8, EvictFrame
  <1>5. AllRecorded(hydrate.graph)'
    <2>1. CASE UNCHANGED hydrate \/ hydrate'.graph = hydrate.graph
      BY <1>2, <2>1 DEF AllRecorded
    <2>2. CASE hydrate'.graph = files
      BY <1>2, <2>2 DEF AllRecorded
    <2>3. CASE hydrate' = NoHydrate
      BY <1>2, <2>3, NoneRecorded DEF AllRecorded
    <2>4. HydrateReads => hydrate'.graph = files
      BY DEF HydrateReads, HydrateRead
    <2>5. HydrateWrite \/ HydrateBlocked => hydrate'.graph = hydrate.graph
      BY DEF HydrateWrite, HydrateBlocked, CacheTypeOK, HydrateTypeOK, Hydrations
    <2> QED
      BY <2>1, <2>2, <2>3, <2>4, <2>5, HydrateFrame
  <1>6. AllRecorded(index.manifest)'
    <2>1. ASSUME NEW fs, AllRecorded(fs), NEW state, NEW hydrated,
                 index' = IndexOf(fs, state, hydrated)
          PROVE  AllRecorded(index.manifest)'
      BY <1>2, <2>1 DEF AllRecorded, IndexOf
    <2>2. CASE UNCHANGED index
      BY <1>2, <2>2 DEF AllRecorded
    <2>3. CASE SyncSettle
      BY <2>1, <2>3 DEF SyncSettle
    <2>4. CASE EvictFinish
      BY <2>1, <2>4 DEF EvictFinish
    <2>5. CASE HydrateFinish
      BY <2>1, <2>5 DEF HydrateFinish
    <2>6. CASE Start
      <3>1. UNCHANGED index \/ \E state, hydrated : index' = IndexOf(files', state, hydrated)
        BY <2>6, StartMaterializes
      <3> QED
        BY <1>1, <2>2, <3>1 DEF AllRecorded, IndexOf
    <2> QED
      BY <2>2, <2>3, <2>4, <2>5, <2>6, FolderFrame
  <1> QED
    BY <1>3, <1>4, <1>5, <1>6

\* What a step puts into the folder is recorded, or the user's.
LEMMA WritesNext ==
  ASSUME CacheTypeOK, PruneInv, MCNext, NEW p \in Paths
  PROVE  \/ disk'[p] \in {disk[p], NoFile}
         \/ disk'[p] \in Recorded'
         \/ UNCHANGED evict /\ (evict.step = "removing" => p \in touched')
  <1>0. Recorded \subseteq Recorded' /\ AllRecorded(files)'
    BY RecordedNext DEF PruneInv
  <1>1. CASE UNCHANGED disk
    BY <1>1
  <1>2. CASE Edits
    <2>1. UNCHANGED evict
      BY <1>2 DEF Edits, Edit
    <2>2. (evict'.step = "removing" /\ disk'[p] \notin {disk[p], NoFile}) => p \in touched'
      BY DEF MCNext
    <2> QED
      BY <2>1, <2>2
  <1>3. CASE Removes
    BY <1>3 DEF Removes, Remove, CacheTypeOK, FolderTypeOK, Disks
  <1>4. CASE HydrateWrite
    <2>1. hydrate.path \in Paths /\ hydrate.graph[hydrate.path] # NoFile
      BY <1>4 DEF HydrateWrite, CacheTypeOK, HydrateTypeOK
    <2>2. hydrate.graph[hydrate.path].content \in Recorded'
      BY <1>0, <2>1 DEF PruneInv, AllRecorded
    <2> QED
      BY <1>4, <2>2 DEF HydrateWrite, CacheTypeOK, FolderTypeOK, Disks
  <1>5. CASE Start
    <2>1. disk'[p] = disk[p] \/ (files'[p] # NoFile /\ disk'[p] = files'[p].content)
      BY <1>5, StartMaterializes DEF Visible
    <2> QED
      BY <1>0, <2>1 DEF AllRecorded
  <1> QED
    BY <1>1, <1>2, <1>3, <1>4, <1>5, FolderFrame

LEMMA PruneNext ==
  ASSUME CacheTypeOK, PruneInv, MCNext
  PROVE  PruneInv'
  <1> DEFINE Safe(p) ==
        disk[p] = NoFile \/ evict.kind = "dehydrate" \/ p \in touched \/ disk[p] \in Recorded
  <1>0. Recorded \subseteq Recorded'
    BY RecordedNext DEF PruneInv
  <1>1. evict'.step # "removing" => evict'.todo = {}
    <2>1. evict \in Evictions /\ NoEvict.todo = {} /\ NoEvict \in Evictions
      BY NoneTypes DEF CacheTypeOK, NoEvict
    <2>2. EvictStarts => evict'.todo = {}
      BY <2>1 DEF EvictStarts, PruneStart, Evictions
    <2>3. DehydrateStart \/ Removes => evict'.step = "removing"
      BY <2>1 DEF DehydrateStart, Removes, Remove, Evictions
    <2>4. PruneScan => evict' = NoEvict \/ evict'.step = "removing"
      BY <2>1 DEF PruneScan, Evictions
    <2>5. EvictFinish => evict' = NoEvict
      BY DEF EvictFinish
    <2> QED
      BY <2>1, <2>2, <2>3, <2>4, <2>5, EvictFrame DEF PruneInv
  <1>2. ASSUME NEW p \in evict'.todo
        PROVE  Safe(p)'
    <2>0. evict'.step = "removing" /\ p \in Paths
      BY <1>1, <1>2, EvictTypeNext DEF Evictions
    <2>1. touched \subseteq touched'
      BY <2>0 DEF MCNext
    <2>2. ASSUME p \in evict.todo, evict'.kind = evict.kind
          PROVE  Safe(p)'
      <3>1. Safe(p)
        BY <2>2 DEF PruneInv
      <3>2. evict.step = "removing"
        BY <2>2 DEF PruneInv
      <3> QED
        BY <1>0, <2>0, <2>1, <2>2, <3>1, <3>2, WritesNext
    <2>3. CASE UNCHANGED evict
      BY <1>2, <2>2, <2>3
    <2>4. CASE DehydrateStart
      BY <2>4 DEF DehydrateStart, NoEvict
    <2>5. CASE PruneScan
      <3>1. p \in Paths /\ Clean(p) /\ UNCHANGED disk
        BY <1>2, <2>5 DEF PruneScan, NoEvict, CacheTypeOK, Evictions, Visible
      <3>2. disk[p] \in Recorded
        BY <3>1 DEF Clean, ContentOf, PruneInv, AllRecorded
      <3> QED
        BY <1>0, <3>1, <3>2
    <2>6. CASE Removes
      <3>1. p \in evict.todo /\ evict'.kind = evict.kind
        BY <1>2, <2>6 DEF Removes, Remove, CacheTypeOK, Evictions
      <3> QED
        BY <2>2, <3>1
    <2>7. CASE EvictStarts
      BY <1>2, <2>7 DEF EvictStarts, PruneStart, NoEvict
    <2>8. CASE EvictFinish \/ evict' = NoEvict
      BY <1>2, <2>8 DEF EvictFinish, NoEvict
    <2> QED
      BY <2>3, <2>4, <2>5, <2>6, <2>7, <2>8, EvictFrame
  <1> QED
    BY <1>1, <1>2, RecordedNext, CopiesNext DEF PruneInv

LEMMA PruneStutter ==
  ASSUME PruneInv, UNCHANGED mcvars
  PROVE  PruneInv'
  BY DEF PruneInv, AllRecorded, Recorded, mcvars, vars, store, blobs, local, history

LEMMA PruneHolds == MCSpec => []PruneInv
  <1>1. MCInit => PruneInv
    BY PruneInit
  <1>2. CacheTypeOK /\ PruneInv /\ [MCNext]_mcvars => PruneInv'
    BY PruneNext, PruneStutter
  <1> QED
    BY <1>1, <1>2, CacheTypeCorrect, PTL DEF MCSpec

\* Pruning removes no content the cloud has not: PruneKeepsEdits, whatever syncs, starts
\* and hydrations run beside it.
THEOREM PruneAlwaysKeepsEdits == MCSpec => PruneKeepsEdits
  <1> DEFINE Kept ==
        \A p \in evict.todo \ evict'.todo :
          \/ disk[p] = NoFile \/ evict.kind = "dehydrate" \/ p \in touched
          \/ disk[p] \in Recorded
  <1>1. PruneInv => Kept
    BY DEF PruneInv
  <1>2. PruneInv => [Kept]_mcvars
    BY <1>1
  <1> HIDE DEF Kept
  <1>3. MCSpec => [][Kept]_mcvars
    BY <1>2, PruneHolds, PTL
  <1> QED
    BY <1>3 DEF PruneKeepsEdits, Kept

-------------------------------------------------------------------------------
(* What an eviction may cost. *)

\* A path that was evicted by the rules, and one of them that the cloud has.
Away(p) == p \in evicted \ exposed
Hidden(p) == Away(p) /\ files[p] # NoFile

\* An index by which a file that is not in the folder was deleted there.
Lists(ix, p) == p \in ix.hydrated \/ ix.state = "materialized"

\* A file that was evicted is listed neither by the index, nor by the one the sync under
\* way goes by, nor by the one an eviction under way is going to amend, unless it is the
\* running eviction that removed it; and neither that sync's scan nor the hydration
\* under way is going to list it again.
EvictionInv ==
  /\ \A p \in Paths \ index.hydrated : index.manifest[p] = NoFile
  /\ evict.removed \cup evict.todo \subseteq Visible(evict.graph)
  /\ evict.step # "removing" => evict.removed \cup evict.todo = {}
  /\ sync.step = "planned" =>
       \A p \in DOMAIN sync.batch :
         /\ sync.batch[p] = sync.scan[p]
         /\ sync.scan[p] = NoFile => p \in Deletable(sync.index, sync.graph)
  /\ hydrate.step = "hydrated" => ~Away(hydrate.path)
  /\ \A p \in Paths : p \in evicted => disk[p] = NoFile
  /\ \A p \in Paths \ evict.removed :
       /\ sync.step \in {"scanned", "planned", "committed"} /\ Away(p) => sync.scan[p] = NoFile
       /\ Hidden(p) =>
            /\ ~Lists(index, p)
            /\ sync.step \in {"planned", "committed"} => ~Lists(sync.index, p)
            /\ evict.step # "idle" => evict.graph[p] # NoFile
            /\ evict.step = "removing" /\ evict.kind # "dehydrate" => ~Lists(evict.index, p)

LEMMA EvictionInit ==
  ASSUME MCInit
  PROVE  EvictionInv
  <1>1. evicted = {} /\ sync = NoSync /\ evict = NoEvict /\ hydrate = NoHydrate
    BY DEF MCInit, Init
  <1>2. index.hydrated = Paths
    BY DEF MCInit, Init, IndexOf
  <1> QED
    BY <1>1, <1>2 DEF EvictionInv, Away, Hidden, NoSync, NoEvict, NoHydrate

\* A path that is away after a step was away before, or the running eviction removed it;
\* and the step exposes it in no way.
LEMMA AwayNext ==
  ASSUME MCNext, NEW p \in Paths, Away(p)'
  PROVE  /\ disk'[p] = NoFile
         /\ Away(p) \/ p \in evict'.removed
         /\ p \in evict.removed =>
              /\ ~SyncPlan /\ ~Start
              /\ ~(evict' = NoEvict /\ (EvictStops \/ AgentDies))
              /\ ~(EvictFinish /\ sync.step \in {"scanned", "planned", "committed"})
         /\ p \in evict'.removed =>
              /\ ~(sync.step \in {"scanned", "planned"} /\ sync.scan[p] = NoFile)
              /\ ~(hydrate.step # "idle" /\ hydrate.path = p)
         /\ HydrateFinish /\ Away(p) => p \in Visible(hydrate.graph)
  <1>1. /\ evicted' = (evicted \cup {q \in evict'.removed \ evict.removed : disk[q] # NoFile})
                        \cap Gone
        /\ exposed' = (exposed \cup Exposed) \cap Gone
    BY DEF MCNext
  <1>2. p \in evicted' /\ p \notin exposed'
    BY DEF Away
  <1>3. p \in Gone /\ p \notin exposed /\ p \notin Exposed
    BY <1>1, <1>2
  <1>4. disk'[p] = NoFile
    BY <1>3 DEF Gone
  <1>5. Away(p) \/ p \in evict'.removed
    BY <1>1, <1>2, <1>3 DEF Away
  <1> QED
    BY <1>3, <1>4, <1>5 DEF Exposed, Away

\* What the running eviction removed stays in its record until it writes the index, and
\* then no sync is past its scan.
LEMMA RemovedNext ==
  ASSUME CacheTypeOK, EvictionInv, MCNext, NEW p \in Paths, Away(p)', p \in evict.removed
  PROVE  \/ p \in evict'.removed
         \/ EvictFinish /\ sync.step \notin {"scanned", "planned", "committed"}
  <1>1. CASE UNCHANGED evict
    BY <1>1
  <1>2. EvictStarts \/ DehydrateStart \/ PruneScan => evict.step # "removing"
    BY DEF EvictStarts, PruneStart, DehydrateStart, PruneScan
  <1>3. CASE Removes
    BY <1>3 DEF Removes, Remove, CacheTypeOK, Evictions
  <1> QED
    BY <1>1, <1>2, <1>3, EvictFrame, AwayNext DEF EvictionInv

LEMMA AwayKept ==
  ASSUME CacheTypeOK, EvictionInv, MCNext, NEW p \in Paths, Away(p)', p \notin evict'.removed
  PROVE  /\ Away(p)
         /\ \/ p \notin evict.removed
            \/ EvictFinish /\ sync.step \notin {"scanned", "planned", "committed"}
  BY AwayNext, RemovedNext

\* A file that was evicted is not committed again but by the sync that found it before.
LEMMA HiddenKept ==
  ASSUME CacheTypeOK, EvictionInv, MCNext, NEW p \in Paths, Hidden(p)', p \notin evict'.removed
  PROVE  Hidden(p)
  <1>1. Away(p)' /\ Away(p) /\ files'[p] # NoFile
    BY AwayKept DEF Hidden
  <1>2. CASE UNCHANGED store
    BY <1>1, <1>2 DEF store, Hidden
  <1>3. CASE SyncCommit
    <2>1. UNCHANGED evict /\ sync.step = "planned"
      BY <1>3 DEF SyncCommit
    <2>2. sync.scan[p] = NoFile
      BY <1>1, <2>1 DEF EvictionInv
    <2>3. p \in DOMAIN sync.batch => files'[p] = NoFile
      BY <1>3, <2>1, <2>2, SyncCommitFacts DEF EvictionInv
    <2>4. p \notin DOMAIN sync.batch => files'[p] = files[p]
      BY <1>3, SyncCommitFacts
    <2> QED
      BY <1>1, <2>3, <2>4 DEF Hidden
  <1>4. CASE Start
    <2>1. disk[p] = NoFile
      BY <1>1 DEF EvictionInv, Away
    <2>2. p \notin Replayed
      BY <1>1, <1>4, <2>1, StartCommits
    <2> QED
      BY <1>1, <1>4, <2>2, StartCommits DEF Hidden
  <1>5. SyncUpload \/ Collect \/ Ages => UNCHANGED store
    BY DEF SyncUpload, Collect, Ages, GcReadGraph, GcReadVersions, GcList, GcDelete, GcEnds
  <1> QED
    BY <1>2, <1>3, <1>4, <1>5, CloudFrame

LEMMA StateOfAll ==
  ASSUME NEW hydrated, NEW visible, HydrationState(hydrated, visible) = "materialized"
  PROVE  hydrated = visible
  BY DEF HydrationState

LEMMA ListedByIndex ==
  ASSUME CacheTypeOK, EvictionInv, MCNext, NEW p \in Paths, Hidden(p)', p \notin evict'.removed
  PROVE  ~Lists(index, p)'
  <1>0. Hidden(p) /\ Away(p)' /\ disk'[p] = NoFile /\ disk[p] = NoFile
    BY HiddenKept, AwayNext DEF Hidden, Away, EvictionInv
  <1>1. CASE EvictFinish
    <2> DEFINE hydrated == IF evict.kind = "dehydrate" THEN {}
                           ELSE HydratedAfterPrune(evict.index, evict.graph, evict.removed)
    <2>1. index' = IndexOf(evict.graph, HydrationState(hydrated, Visible(evict.graph)), hydrated)
      BY <1>1 DEF EvictFinish
    <2>2. evict.step = "removing"
      BY <1>1 DEF EvictFinish
    <2>3. p \in Visible(evict.graph)
      BY <1>0, <2>2 DEF EvictionInv, Visible
    <2>4. p \notin hydrated
      BY <1>0, <2>2 DEF EvictionInv, HydratedAfterPrune, Lists
    <2> HIDE DEF hydrated
    <2>5. HydrationState(hydrated, Visible(evict.graph)) # "materialized"
      BY <2>3, <2>4, StateOfAll
    <2> QED
      BY <2>1, <2>4, <2>5 DEF IndexOf, Lists
  <1>2. CASE UNCHANGED index /\ ~EvictFinish
    <2>1. p \notin evict.removed
      BY <1>0, <1>2, AwayKept
    <2> QED
      BY <1>0, <1>2, <2>1 DEF EvictionInv, Lists
  <1>3. CASE SyncSettle
    <2>1. p \notin evict.removed /\ sync.step = "committed"
      BY <1>3 DEF SyncSettle
    <2>2. ~Lists(sync.index, p) /\ sync.scan[p] = NoFile
      BY <1>0, <2>1 DEF EvictionInv, Hidden
    <2>3. StateForSync(sync.index) # "materialized"
      BY <2>2 DEF StateForSync, Lists
    <2>4. p \notin HydratedAfterSync(sync.index, Present(sync.scan), sync.graph)
      BY <2>2 DEF HydratedAfterSync, Lists, Present
    <2> QED
      BY <1>3, <2>3, <2>4 DEF SyncSettle, IndexOf, Lists
  <1>4. CASE HydrateFinish
    <2> DEFINE hydrated == index.hydrated \cup
                             (IF hydrate.step = "hydrated" THEN {hydrate.path} ELSE {})
    <2>1. p \notin evict.removed
      BY <1>4 DEF HydrateFinish
    <2>2. p \notin index.hydrated
      BY <1>0, <2>1 DEF EvictionInv, Lists
    <2>3. p \notin hydrated
      BY <1>0, <2>2 DEF EvictionInv, Hidden
    <2>4. p \in Visible(hydrate.graph)
      BY <1>0, <1>4, AwayNext DEF Hidden
    <2>5. index' =
            IndexOf(hydrate.graph, HydrationState(hydrated, Visible(hydrate.graph)), hydrated)
      BY <1>4 DEF HydrateFinish
    <2> HIDE DEF hydrated
    <2>6. HydrationState(hydrated, Visible(hydrate.graph)) # "materialized"
      BY <2>3, <2>4, StateOfAll
    <2> QED
      BY <2>3, <2>5, <2>6 DEF IndexOf, Lists
  <1>5. CASE Start
    <2>1. p \notin evict.removed
      BY <1>5 DEF Start
    <2>2. ~Lists(index, p)
      BY <1>0, <2>1 DEF EvictionInv
    <2>3. \/ UNCHANGED index
          \/ index' = IndexOf(files', "partial", index.hydrated \cup Present(disk))
      BY <1>5, <2>2, StartMaterializes DEF Lists
    <2> QED
      BY <1>0, <2>2, <2>3 DEF IndexOf, Lists, Present
  <1> QED
    BY <1>1, <1>2, <1>3, <1>4, <1>5, FolderFrame

LEMMA ListedBySync ==
  ASSUME CacheTypeOK, EvictionInv, MCNext, NEW p \in Paths, Hidden(p)', p \notin evict'.removed,
         sync'.step \in {"planned", "committed"}
  PROVE  ~Lists(sync.index, p)'
  <1>0. Hidden(p) /\ Away(p)'
    BY HiddenKept DEF Hidden
  <1> USE DEF CacheTypeOK, SyncTypeOK, Syncs
  <1>1. CASE UNCHANGED sync
    <2>1. p \notin evict.removed
      BY <1>0, <1>1, AwayKept
    <2> QED
      BY <1>0, <1>1, <2>1 DEF EvictionInv, Lists
  <1>2. CASE SyncPlan
    <2>1. p \notin evict.removed /\ sync'.index = index
      BY <1>2 DEF SyncPlan
    <2> QED
      BY <1>0, <2>1 DEF EvictionInv, Lists
  <1>3. CASE SyncUpload \/ SyncCommit
    <2>1. p \notin evict.removed /\ sync'.index = sync.index /\ sync.step = "planned"
      BY <1>3 DEF SyncUpload, SyncCommit
    <2> QED
      BY <1>0, <2>1 DEF EvictionInv, Lists
  <1>4. CASE SyncRead \/ SyncScan \/ sync' = NoSync
    <2>1. sync'.step \in {"read", "scanned", "idle"}
      BY <1>4, NoneTypes DEF SyncRead, SyncScan, NoSync
    <2> QED
      BY <2>1
  <1> QED
    BY <1>1, <1>2, <1>3, <1>4, SyncFrame

LEMMA FoundByScan ==
  ASSUME CacheTypeOK, EvictionInv, MCNext, NEW p \in Paths, Away(p)', p \notin evict'.removed,
         sync'.step \in {"scanned", "planned", "committed"}
  PROVE  sync'.scan[p] = NoFile
  <1>0. Away(p) /\ disk'[p] = NoFile
    BY AwayKept, AwayNext
  <1> USE DEF CacheTypeOK, SyncTypeOK, Syncs
  <1>1. CASE UNCHANGED sync
    <2>1. p \notin evict.removed
      BY <1>0, <1>1, AwayKept
    <2> QED
      BY <1>0, <1>1, <2>1 DEF EvictionInv
  <1>2. CASE SyncScan
    BY <1>0, <1>2 DEF SyncScan
  <1>3. CASE SyncPlan \/ SyncUpload \/ SyncCommit
    <2>1. p \notin evict.removed /\ sync'.scan = sync.scan /\ sync.step \in {"scanned", "planned"}
      BY <1>3 DEF SyncPlan, SyncUpload, SyncCommit
    <2> QED
      BY <1>0, <2>1 DEF EvictionInv
  <1>4. CASE SyncRead \/ sync' = NoSync
    <2>1. sync'.step \in {"read", "idle"}
      BY <1>4, NoneTypes DEF SyncRead, NoSync
    <2> QED
      BY <2>1
  <1> QED
    BY <1>1, <1>2, <1>3, <1>4, SyncFrame

LEMMA ListedByEviction ==
  ASSUME CacheTypeOK, EvictionInv, MCNext, NEW p \in Paths, Hidden(p)', p \notin evict'.removed
  PROVE  /\ evict'.step # "idle" => evict'.graph[p] # NoFile
         /\ evict'.step = "removing" /\ evict'.kind # "dehydrate" => ~Lists(evict.index, p)'
  <1>0. Hidden(p) /\ NoEvict \in Evictions
    BY HiddenKept, NoneTypes
  <1> USE DEF CacheTypeOK, Evictions
  <1>1. CASE UNCHANGED evict
    BY <1>0, <1>1 DEF EvictionInv, Lists
  <1>2. CASE EvictStarts
    <2>1. evict'.graph = files /\ evict'.step = "read"
      BY <1>0, <1>2 DEF EvictStarts, PruneStart
    <2> QED
      BY <1>0, <2>1 DEF Hidden
  <1>3. CASE DehydrateStart
    <2>1. evict'.graph = files /\ evict'.kind = "dehydrate"
      BY <1>0, <1>3 DEF DehydrateStart
    <2> QED
      BY <1>0, <2>1 DEF Hidden
  <1>4. CASE PruneScan
    <2>1. p \notin evict.removed /\ evict.step = "read"
      BY <1>4 DEF PruneScan, EvictionInv
    <2>2. \/ evict' = NoEvict
          \/ evict'.graph = evict.graph /\ evict'.index = index
      BY <1>4 DEF PruneScan
    <2> QED
      BY <1>0, <2>1, <2>2 DEF EvictionInv, Lists, NoEvict
  <1>5. CASE Removes
    <2>1. /\ evict'.graph = evict.graph /\ evict'.index = evict.index /\ evict'.kind = evict.kind
          /\ evict.step = "removing" /\ evict.removed \subseteq evict'.removed
      BY <1>5 DEF Removes, Remove
    <2> QED
      BY <1>0, <2>1 DEF EvictionInv, Lists
  <1>6. CASE EvictFinish \/ evict' = NoEvict
    BY <1>6 DEF EvictFinish, NoEvict
  <1> QED
    BY <1>1, <1>2, <1>3, <1>4, <1>5, <1>6, EvictFrame

LEMMA EvictionRecordNext ==
  ASSUME CacheTypeOK, EvictionInv, MCNext
  PROVE  /\ evict'.removed \cup evict'.todo \subseteq Visible(evict'.graph)
         /\ evict'.step # "removing" => evict'.removed \cup evict'.todo = {}
  <1> USE DEF CacheTypeOK, Evictions, EvictionInv
  <1>0. NoEvict \in Evictions /\ NoEvict.removed \cup NoEvict.todo = {}
    BY NoneTypes DEF NoEvict
  <1>1. CASE UNCHANGED evict
    BY <1>1
  <1>2. CASE EvictStarts
    <2>1. evict'.removed \cup evict'.todo = {}
      BY <1>0, <1>2 DEF EvictStarts, PruneStart
    <2> QED
      BY <2>1
  <1>3. CASE DehydrateStart
    <2>1. /\ evict'.removed = {} /\ evict'.todo = Visible(files) /\ evict'.graph = files
          /\ evict'.step = "removing"
      BY <1>0, <1>3 DEF DehydrateStart
    <2> QED
      BY <2>1
  <1>4. CASE PruneScan
    <2>1. PICK S \in SUBSET {p \in Visible(evict.graph) \ Unresolved : Clean(p)} :
            evict' = IF S = {} THEN NoEvict
                     ELSE [evict EXCEPT !.step = "removing", !.index = index, !.todo = S]
      BY <1>4 DEF PruneScan
    <2>2. S \subseteq Visible(evict.graph)
      BY <2>1
    <2>3. \/ evict' = NoEvict
          \/ /\ evict'.removed = evict.removed /\ evict'.todo = S /\ evict'.graph = evict.graph
             /\ evict'.step = "removing"
      BY <2>1
    <2> QED
      BY <1>0, <2>2, <2>3
  <1>5. CASE Removes
    <2>1. PICK p \in Paths : Remove(p)
      BY <1>5 DEF Removes
    <2>2. /\ p \in evict.todo /\ evict'.graph = evict.graph /\ evict'.step = "removing"
          /\ evict'.todo = evict.todo \ {p} /\ evict'.removed = evict.removed \cup {p}
      BY <2>1 DEF Remove
    <2> QED
      BY <2>2
  <1>6. CASE EvictFinish \/ evict' = NoEvict
    BY <1>0, <1>6 DEF EvictFinish
  <1> QED
    BY <1>1, <1>2, <1>3, <1>4, <1>5, <1>6, EvictFrame

LEMMA PlannedNext ==
  ASSUME CacheTypeOK, EvictionInv, MCNext, sync'.step = "planned", NEW p \in DOMAIN sync'.batch
  PROVE  /\ sync'.batch[p] = sync'.scan[p]
         /\ sync'.scan[p] = NoFile => p \in Deletable(sync'.index, sync'.graph)
  <1> USE DEF CacheTypeOK, SyncTypeOK, Syncs
  <1>1. CASE UNCHANGED sync
    BY <1>1 DEF EvictionInv
  <1>2. CASE SyncPlan
    <2>1. /\ sync'.batch = Batch(sync.graph, sync.scan, index) /\ sync'.index = index
          /\ sync'.scan = sync.scan /\ sync'.graph = sync.graph
      BY <1>2 DEF SyncPlan
    <2> QED
      BY <2>1, BatchFactsOfSync
  <1>3. CASE SyncUpload
    <2>1. /\ sync'.batch = sync.batch /\ sync'.index = sync.index /\ sync.step = "planned"
          /\ sync'.scan = sync.scan /\ sync'.graph = sync.graph
      BY <1>3 DEF SyncUpload
    <2> QED
      BY <2>1 DEF EvictionInv
  <1>4. SyncRead \/ SyncScan \/ SyncCommit \/ sync' = NoSync => sync'.step # "planned"
    BY NoneTypes DEF SyncRead, SyncScan, SyncCommit, NoSync
  <1> QED
    BY <1>1, <1>2, <1>3, <1>4, SyncFrame

LEMMA HydratedNext ==
  ASSUME CacheTypeOK, EvictionInv, MCNext, hydrate'.step = "hydrated"
  PROVE  ~Away(hydrate.path)'
  <1> USE DEF CacheTypeOK, HydrateTypeOK, Hydrations
  <1>1. CASE UNCHANGED hydrate
    <2>1. PICK p \in Paths : p = hydrate.path /\ p = hydrate'.path
      BY <1>1
    <2>2. ~Away(p)
      BY <1>1, <2>1 DEF EvictionInv
    <2>3. ~Away(p)'
      BY <1>1, <2>1, <2>2, AwayNext
    <2> QED
      BY <2>1, <2>3 DEF Away
  <1>2. CASE HydrateWrite
    <2>1. PICK p \in Paths : p = hydrate.path /\ p = hydrate'.path
      BY <1>2 DEF HydrateWrite
    <2>2. hydrate.graph[p].content \in Contents
      BY <1>2, <2>1, ContentOfType DEF HydrateWrite
    <2>3. disk'[p] # NoFile
      BY <1>2, <2>1, <2>2, ContentIsNoFile DEF HydrateWrite, FolderTypeOK, Disks
    <2>4. ~Away(p)'
      BY <2>3, AwayNext
    <2> QED
      BY <2>1, <2>4 DEF Away
  <1>3. HydrateReads \/ HydrateBlocked \/ hydrate' = NoHydrate => hydrate'.step # "hydrated"
    BY DEF HydrateReads, HydrateRead, HydrateBlocked, NoHydrate
  <1> QED
    BY <1>1, <1>2, <1>3, HydrateFrame

LEMMA ManifestNext ==
  ASSUME CacheTypeOK, EvictionInv, MCNext
  PROVE  \A p \in Paths \ index'.hydrated : index'.manifest[p] = NoFile
  <1>1. ASSUME NEW fs, NEW state, NEW hydrated, index' = IndexOf(fs, state, hydrated)
        PROVE  \A p \in Paths \ index'.hydrated : index'.manifest[p] = NoFile
    BY <1>1 DEF IndexOf
  <1>2. CASE UNCHANGED index
    BY <1>2 DEF EvictionInv
  <1>3. CASE SyncSettle
    BY <1>1, <1>3 DEF SyncSettle
  <1>4. CASE EvictFinish
    BY <1>1, <1>4 DEF EvictFinish
  <1>5. CASE HydrateFinish
    BY <1>1, <1>5 DEF HydrateFinish
  <1>6. CASE Start
    BY <1>1, <1>2, <1>6, StartMaterializes
  <1> QED
    BY <1>2, <1>3, <1>4, <1>5, <1>6, FolderFrame

LEMMA EvictionNext ==
  ASSUME CacheTypeOK, EvictionInv, MCNext
  PROVE  EvictionInv'
  <1>1. \A p \in Paths : p \in evicted' => disk'[p] = NoFile
    BY DEF MCNext, Gone
  <1>2. ASSUME NEW p \in Paths, p \notin evict'.removed
        PROVE  /\ (sync'.step \in {"scanned", "planned", "committed"} /\ Away(p)') =>
                    sync'.scan[p] = NoFile
               /\ Hidden(p)' =>
                    /\ ~Lists(index, p)'
                    /\ sync'.step \in {"planned", "committed"} => ~Lists(sync.index, p)'
                    /\ evict'.step # "idle" => evict'.graph[p] # NoFile
                    /\ (evict'.step = "removing" /\ evict'.kind # "dehydrate") =>
                         ~Lists(evict.index, p)'
    BY <1>2, FoundByScan, ListedByIndex, ListedBySync, ListedByEviction
  <1>3. /\ evict'.removed \cup evict'.todo \subseteq Visible(evict.graph)'
        /\ evict'.step # "removing" => evict'.removed \cup evict'.todo = {}
    BY EvictionRecordNext DEF Visible
  <1>4. sync'.step = "planned" =>
          \A p \in DOMAIN sync'.batch :
            /\ sync'.batch[p] = sync'.scan[p]
            /\ sync'.scan[p] = NoFile => p \in Deletable(sync.index, sync.graph)'
    BY PlannedNext DEF Deletable, Visible
  <1>5. hydrate'.step = "hydrated" => ~Away(hydrate.path)'
    BY HydratedNext
  <1>6. \A p \in Paths \ index'.hydrated : index'.manifest[p] = NoFile
    BY ManifestNext
  <1> QED
    BY <1>1, <1>2, <1>3, <1>4, <1>5, <1>6 DEF EvictionInv

LEMMA EvictionStutter ==
  ASSUME EvictionInv, UNCHANGED mcvars
  PROVE  EvictionInv'
  BY DEF EvictionInv, Away, Hidden, Lists, Deletable, Visible, mcvars, vars, store, blobs,
         local, history

LEMMA EvictionHolds == MCSpec => []EvictionInv
  <1>1. MCInit => EvictionInv
    BY EvictionInit
  <1>2. CacheTypeOK /\ EvictionInv /\ [MCNext]_mcvars => EvictionInv'
    BY EvictionNext, EvictionStutter
  <1> QED
    BY <1>1, <1>2, CacheTypeCorrect, PTL DEF MCSpec

\* A step that deletes a file in the cloud deletes none that was evicted by the rules.
LEMMA EvictionKept ==
  ASSUME CacheTypeOK, EvictionInv, MCNext, NEW p \in Paths, files[p] # NoFile,
         files'[p] = NoFile
  PROVE  p \notin evicted \ exposed'
  <1> SUFFICES ASSUME p \in evicted, p \notin exposed'
               PROVE  FALSE
    OBVIOUS
  <1>1. disk[p] = NoFile
    BY DEF EvictionInv
  <1>2. disk'[p] = NoFile => p \notin exposed /\ p \notin Exposed
    BY DEF MCNext, Gone
  <1>3. CASE SyncCommit
    <2>1. UNCHANGED <<disk, evict>> /\ sync.step = "planned"
      BY <1>3 DEF SyncCommit
    <2>2. Hidden(p) /\ p \notin Exposed
      BY <1>1, <1>2, <2>1 DEF Hidden, Away
    <2>3. sync.scan[p] = NoFile /\ p \in Deletable(sync.index, sync.graph)
      BY <1>3, <2>1, SyncCommitFacts DEF EvictionInv
    <2>4. p \notin evict.removed
      BY <2>1, <2>2, <2>3 DEF Exposed
    <2>5. ~Lists(sync.index, p)
      BY <2>1, <2>2, <2>4 DEF EvictionInv
    <2> QED
      BY <2>3, <2>5 DEF Deletable, Lists
  <1>4. CASE Start
    <2>1. p \in Replayed
      BY <1>4, StartCommits
    <2>2. disk'[p] = NoFile
      BY <1>1, <1>4, StartMaterializes DEF Visible
    <2>3. Hidden(p) /\ p \notin evict.removed
      BY <1>2, <1>4, <2>2 DEF Hidden, Away, Exposed
    <2>4. p \in index.hydrated
      BY <1>1, <2>1 DEF Replayed, Drift, ContentOf, EvictionInv
    <2> QED
      BY <2>3, <2>4 DEF EvictionInv, Lists
  <1>5. CASE UNCHANGED store
    BY <1>5 DEF store
  <1>6. SyncUpload \/ Collect \/ Ages => UNCHANGED store
    BY DEF SyncUpload, Collect, Ages, GcReadGraph, GcReadVersions, GcList, GcDelete, GcEnds
  <1> QED
    BY <1>3, <1>4, <1>5, <1>6, CloudFrame

\* An evicted file stays in the cloud: EvictionIsNoDeletion, whatever syncs, starts,
\* hydrations and other evictions follow.
THEOREM EvictionIsNeverDeletion == MCSpec => EvictionIsNoDeletion
  <1> DEFINE Kept ==
        \A p \in Paths :
          (files[p] # NoFile /\ files'[p] = NoFile) => p \notin evicted \ exposed'
  <1>1. CacheTypeOK /\ EvictionInv /\ MCNext => Kept
    BY EvictionKept
  <1>2. UNCHANGED mcvars => Kept
    BY DEF mcvars, vars, store
  <1>3. CacheTypeOK /\ EvictionInv /\ [MCNext]_mcvars => [Kept]_mcvars
    BY <1>1, <1>2
  <1> HIDE DEF Kept
  <1>4. MCSpec => [][Kept]_mcvars
    BY <1>3, CacheTypeCorrect, EvictionHolds, PTL DEF MCSpec
  <1> QED
    BY <1>4 DEF EvictionIsNoDeletion, Kept

===============================================================================
