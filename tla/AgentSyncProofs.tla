---------------------------- MODULE AgentSyncProofs ----------------------------
(***************************************************************************)
(* Proofs about AgentSync, for every set of paths and contents and every   *)
(* bound: type correctness, that the manifest and the acknowledgements say *)
(* no more than the history, that a replay only follows its base, that     *)
(* what the agent commits implements GraphStore, and that what it writes   *)
(* into the folder overwrites no edit that is nowhere else.                *)
(*                                                                         *)
(* They rest on what the entries of one commit do to the graph: they are   *)
(* one batch of the store, because no path comes twice among them, except  *)
(* in deletions of a file that is gone already.                            *)
(***************************************************************************)
EXTENDS MCAgentSync, CloudGraphProofs, SequenceTheorems

-------------------------------------------------------------------------------
(* Bounded sets of numbers. *)

LEMMA SmallestExists ==
  ASSUME NEW S \in SUBSET Nat, S # {}
  PROVE  \E m \in S : \A i \in S : m <= i
  <1>1. PICK m \in S : \A i \in S : <<i, m>> \notin OpToRel(<, Nat)
    BY NatLessThanWellFounded, WFMin
  <1>2. \A i \in S : ~(i < m)
    BY <1>1 DEF OpToRel
  <1> QED
    BY <1>2

LEMMA LargestExists ==
  ASSUME NEW n \in Nat, NEW S \in SUBSET (1 .. n), S # {}
  PROVE  \E m \in S : \A i \in S : i <= m
  <1> DEFINE T == {n - i : i \in S}
  <1>0. \A i \in S : n - i \in Nat
    OBVIOUS
  <1>1. T \in SUBSET Nat /\ T # {}
    BY <1>0
  <1>2. PICK t \in T : \A i \in T : t <= i
    BY <1>1, SmallestExists
  <1>3. PICK m \in S : t = n - m
    BY <1>2
  <1>4. \A i \in S : n - m <= n - i
    BY <1>2, <1>3
  <1> QED
    BY <1>4

-------------------------------------------------------------------------------
(* The entries of one commit. *)

\* The last of the first k entries that is about a path.
LastOf(es, p, k) == {m \in 1 .. k : es[m].path = p /\ \A j \in 1 .. k : es[j].path = p => j <= m}

LEMMA LastOfExists ==
  ASSUME NEW es, NEW p, NEW k \in Nat, NEW j \in 1 .. k, es[j].path = p
  PROVE  LastOf(es, p, k) # {}
  <1> DEFINE hits == {i \in 1 .. k : es[i].path = p}
  <1>1. hits \in SUBSET (1 .. k) /\ hits # {}
    OBVIOUS
  <1>2. PICK m \in hits : \A i \in hits : i <= m
    BY <1>1, LargestExists
  <1> QED
    BY <1>2 DEF LastOf

\* What FileAfter returns: the copy's file while no entry is about the path, and then
\* what the last entry about it makes of it.
LEMMA FileAfterNone ==
  ASSUME NEW g, NEW es, NEW p, NEW k \in Nat, \A j \in 1 .. k : es[j].path # p
  PROVE  FileAfter(g, es, p, k) = g.files[p]
  BY DEF FileAfter

LEMMA FileAfterLast ==
  ASSUME NEW g, NEW es, NEW p, NEW k \in Nat, NEW m \in LastOf(es, p, k)
  PROVE  FileAfter(g, es, p, k) =
           IF es[m].content = NoFile THEN NoFile
           ELSE [revision |-> g.head.revision + m, content |-> es[m].content]
  <1> DEFINE hits == {j \in 1 .. k : es[j].path = p}
             last == CHOOSE j \in hits : \A i \in hits : i <= j
  <1>1. m \in hits /\ \A i \in hits : i <= m
    BY DEF LastOf
  <1>2. last \in hits /\ \A i \in hits : i <= last
    BY <1>1
  <1>3. last = m
    BY <1>1, <1>2
  <1> HIDE DEF last
  <1>4. hits # {}
    BY <1>1
  <1> QED
    BY <1>3, <1>4 DEF FileAfter, last

LEMMA EntryFacts ==
  ASSUME NEW es \in Seq(Entry)
  PROVE  /\ Len(es) \in Nat /\ DOMAIN es = 1 .. Len(es)
         /\ \A k \in 1 .. Len(es) :
              /\ es[k] \in Entry
              /\ es[k].path \in Paths
              /\ es[k].content \in Contents \cup {NoFile}
              /\ es[k].base \in (1 .. MaxRevision) \cup {NoFile}
  <1>1. Len(es) \in Nat /\ DOMAIN es = 1 .. Len(es) /\ \A k \in 1 .. Len(es) : es[k] \in Entry
    BY LenProperties, ElementOfSeq
  <1> QED
    BY <1>1 DEF Entry

\* A copy of the graph after some entries is a graph.
LEMMA FileAfterType ==
  ASSUME NEW g \in Graph, NEW es \in Seq(Entry), g.head.revision + Len(es) <= MaxRevision,
         NEW p \in Paths, NEW k \in 0 .. Len(es)
  PROVE  FileAfter(g, es, p, k) \in File \cup {NoFile}
  <1>1. k \in Nat /\ Len(es) \in Nat /\ g.head.revision \in Nat /\ g.files \in Files
    BY EntryFacts DEF Graph, HeadRow
  <1>2. CASE \A j \in 1 .. k : es[j].path # p
    BY <1>1, <1>2, FileAfterNone DEF Files
  <1>3. CASE \E j \in 1 .. k : es[j].path = p
    <2>1. PICK m \in LastOf(es, p, k) : TRUE
      BY <1>1, <1>3, LastOfExists
    <2>2. m \in 1 .. Len(es)
      BY <1>1, <2>1 DEF LastOf
    <2>3. g.head.revision + m \in 1 .. MaxRevision
      BY <1>1, <2>2, MaxRevisionNat
    <2>4. es[m].content # NoFile =>
            [revision |-> g.head.revision + m, content |-> es[m].content] \in File
      BY <2>2, <2>3, EntryFacts DEF File
    <2> QED
      BY <1>1, <2>1, <2>4, FileAfterLast
  <1> QED
    BY <1>2, <1>3

LEMMA GraphAfterType ==
  ASSUME NEW g \in Graph, NEW es \in Seq(Entry), g.head.revision + Len(es) <= MaxRevision
  PROVE  GraphAfter(g, es) \in Graph
  <1>1. g.head \in HeadRow /\ g.head.revision + Len(es) \in 0 .. MaxRevision
    BY EntryFacts, MaxRevisionNat DEF Graph, HeadRow
  <1>2. Advanced(g.head, Len(es)) \in HeadRow
    BY <1>1 DEF Advanced, HeadRow
  <1>3. \A p \in Paths : FileAfter(g, es, p, Len(es)) \in File \cup {NoFile}
    BY EntryFacts, FileAfterType
  <1> QED
    BY <1>2, <1>3 DEF GraphAfter, Graph, Files

\* No path comes twice among the entries, except in deletions of a file that is not
\* there.
OneEach(es) ==
  \A j, k \in DOMAIN es :
    (j # k /\ es[j].path = es[k].path) => (es[j].content = NoFile /\ files[es[k].path] = NoFile)

\* The entries as a batch of the store.
EntryOf(es, p) == CHOOSE k \in DOMAIN es : es[k].path = p
PathsOf(es) == {es[k].path : k \in DOMAIN es}
BatchOf(es) == [p \in PathsOf(es) |-> es[EntryOf(es, p)].content]
OrderOf(es) == [p \in PathsOf(es) |-> EntryOf(es, p)]

LEMMA EntryOfPath ==
  ASSUME NEW es, NEW p \in PathsOf(es)
  PROVE  EntryOf(es, p) \in DOMAIN es /\ es[EntryOf(es, p)].path = p
  BY DEF EntryOf, PathsOf

LEMMA BatchOfEntries ==
  ASSUME NEW es \in Seq(Entry), es # <<>>, OneEach(es)
  PROVE  /\ Len(es) \in Nat \ {0}
         /\ BatchOf(es) \in Batches /\ DOMAIN BatchOf(es) = PathsOf(es)
         /\ OrderOf(es) \in Numberings(PathsOf(es), Len(es))
         /\ \A k \in DOMAIN es : es[k].path \in PathsOf(es) /\ BatchOf(es)[es[k].path] = es[k].content
  <1>1. Len(es) \in Nat \ {0} /\ DOMAIN es = 1 .. Len(es)
    BY EmptySeq, EntryFacts
  <1>2. PathsOf(es) \subseteq Paths /\ PathsOf(es) # {}
    BY <1>1, EntryFacts DEF PathsOf
  <1>3. \A p \in PathsOf(es) : es[EntryOf(es, p)].content \in Contents \cup {NoFile}
    BY <1>1, EntryOfPath, EntryFacts
  <1>4. BatchOf(es) \in Batches /\ DOMAIN BatchOf(es) = PathsOf(es)
    BY <1>2, <1>3 DEF BatchOf, Batches
  <1>5. OrderOf(es) \in [PathsOf(es) -> 1 .. Len(es)]
    BY <1>1, EntryOfPath DEF OrderOf
  <1>6. \A p, q \in PathsOf(es) : OrderOf(es)[p] = OrderOf(es)[q] => p = q
    BY EntryOfPath DEF OrderOf
  <1>7. ASSUME NEW k \in DOMAIN es
        PROVE  es[k].path \in PathsOf(es) /\ BatchOf(es)[es[k].path] = es[k].content
    <2>1. es[k].path \in PathsOf(es)
      BY DEF PathsOf
    <2>2. PICK j \in DOMAIN es : j = EntryOf(es, es[k].path) /\ es[j].path = es[k].path
      BY <2>1, EntryOfPath
    <2>3. es[j].content = es[k].content
      BY <2>2 DEF OneEach
    <2> QED
      BY <2>1, <2>2, <2>3 DEF BatchOf
  <1> QED
    BY <1>1, <1>4, <1>5, <1>6, <1>7 DEF Numberings

\* What the entries make of the files is what their batch makes of them.
LEMMA FilesAfterEntries ==
  ASSUME StoreInv, NEW es \in Seq(Entry), es # <<>>, OneEach(es), NEW p \in Paths
  PROVE  FileAfter(Cloud, es, p, Len(es)) = Applied(files, head.revision, BatchOf(es), OrderOf(es))[p]
  <1>1. Len(es) \in Nat /\ DOMAIN es = 1 .. Len(es)
    BY EntryFacts
  <1>2. Cloud.files = files /\ Cloud.head = head
    BY DEF Cloud
  <1>3. CASE p \notin PathsOf(es)
    <2>1. \A j \in 1 .. Len(es) : es[j].path # p
      BY <1>1, <1>3 DEF PathsOf
    <2>2. FileAfter(Cloud, es, p, Len(es)) = files[p]
      BY <1>1, <1>2, <2>1, FileAfterNone
    <2> QED
      BY <1>3, <2>2, BatchOfEntries DEF Applied
  <1>4. CASE p \in PathsOf(es)
    <2>1. PICK k \in DOMAIN es : k = EntryOf(es, p) /\ es[k].path = p
      BY <1>4, EntryOfPath
    <2>2. PICK m \in LastOf(es, p, Len(es)) : TRUE
      BY <1>1, <2>1, LastOfExists
    <2>3. m \in DOMAIN es /\ es[m].path = p
      BY <1>1, <2>2 DEF LastOf
    <2>4. FileAfter(Cloud, es, p, Len(es)) =
            IF es[m].content = NoFile THEN NoFile
            ELSE [revision |-> head.revision + m, content |-> es[m].content]
      BY <1>1, <1>2, <2>2, FileAfterLast
    <2>5. Applied(files, head.revision, BatchOf(es), OrderOf(es))[p] =
            IF es[k].content = NoFile THEN NoFile
            ELSE [revision |-> head.revision + k, content |-> es[k].content]
      <3>1. BatchOf(es)[p] = es[k].content /\ OrderOf(es)[p] = k
        BY <1>4, <2>1 DEF BatchOf, OrderOf
      <3> QED
        BY <1>4, <3>1, BatchOfEntries DEF Applied
    <2>6. m = k \/ (es[m].content = NoFile /\ es[k].content = NoFile)
      BY <2>1, <2>3 DEF OneEach
    <2> QED
      BY <2>4, <2>5, <2>6
  <1> QED
    BY <1>3, <1>4

\* The rows the entries add are those of their batch.
LEMMA RowsOfEntries ==
  ASSUME StoreInv, NEW es \in Seq(Entry), es # <<>>, OneEach(es)
  PROVE  {[path |-> es[k].path, at |-> head.revision + k, content |-> es[k].content] :
            k \in {j \in DOMAIN es :
                     es[j].content # ContentOf(FileAfter(Cloud, es, es[j].path, j - 1))}}
         = VersionRows(files, head.revision, BatchOf(es), OrderOf(es))
  <1> DEFINE Row(k) == [path |-> es[k].path, at |-> head.revision + k, content |-> es[k].content]
             changing == {j \in DOMAIN es :
                            es[j].content # ContentOf(FileAfter(Cloud, es, es[j].path, j - 1))}
             changed == {q \in PathsOf(es) : BatchOf(es)[q] # ContentOf(files[q])}
  <1>1. Len(es) \in Nat /\ DOMAIN es = 1 .. Len(es)
    BY EntryFacts
  <1>2. Cloud.files = files /\ Cloud.head = head
    BY DEF Cloud
  <1>3. ASSUME NEW k \in DOMAIN es, \A j \in DOMAIN es : es[j].path = es[k].path => j = k
        PROVE  /\ FileAfter(Cloud, es, es[k].path, k - 1) = files[es[k].path]
               /\ EntryOf(es, es[k].path) = k
    <2>1. \A j \in 1 .. k - 1 : es[j].path # es[k].path
      BY <1>1, <1>3
    <2>2. k - 1 \in Nat
      BY <1>1
    <2>3. FileAfter(Cloud, es, es[k].path, k - 1) = files[es[k].path]
      BY <1>2, <2>1, <2>2, FileAfterNone
    <2>4. es[k].path \in PathsOf(es)
      BY DEF PathsOf
    <2> QED
      BY <1>3, <2>3, <2>4, EntryOfPath
  <1>4. ASSUME NEW k \in DOMAIN es, NEW i \in DOMAIN es, i # k, es[i].path = es[k].path
        PROVE  /\ es[k].content = NoFile
               /\ files[es[k].path] = NoFile
               /\ FileAfter(Cloud, es, es[k].path, k - 1) = NoFile
    <2>1. es[k].content = NoFile /\ files[es[k].path] = NoFile
      BY <1>4 DEF OneEach
    <2>2. k - 1 \in Nat /\ k \in 1 .. Len(es)
      BY <1>1
    <2>3. CASE \A j \in 1 .. k - 1 : es[j].path # es[k].path
      BY <1>2, <2>1, <2>2, <2>3, FileAfterNone
    <2>4. CASE \E j \in 1 .. k - 1 : es[j].path = es[k].path
      <3>1. PICK m \in LastOf(es, es[k].path, k - 1) : TRUE
        BY <2>2, <2>4, LastOfExists
      <3>2. m \in DOMAIN es /\ es[m].path = es[k].path /\ m # k
        BY <1>1, <2>2, <3>1 DEF LastOf
      <3>3. es[m].content = NoFile
        BY <3>2 DEF OneEach
      <3> QED
        BY <2>1, <2>2, <3>1, <3>3, FileAfterLast
    <2> QED
      BY <2>1, <2>3, <2>4
  <1>5. ASSUME NEW k \in changing
        PROVE  /\ es[k].path \in changed
               /\ EntryOf(es, es[k].path) = k
    <2>1. \A j \in DOMAIN es : es[j].path = es[k].path => j = k
      BY <1>4 DEF ContentOf
    <2>2. BatchOf(es)[es[k].path] = es[k].content /\ es[k].path \in PathsOf(es)
      BY BatchOfEntries
    <2> QED
      BY <1>3, <2>1, <2>2
  <1>6. ASSUME NEW q \in changed
        PROVE  /\ EntryOf(es, q) \in changing
               /\ es[EntryOf(es, q)].path = q
    <2>1. PICK k \in DOMAIN es : k = EntryOf(es, q) /\ es[k].path = q
      BY EntryOfPath
    <2>2. es[k].content # ContentOf(files[q])
      BY <2>1 DEF BatchOf
    <2>3. \A j \in DOMAIN es : es[j].path = es[k].path => j = k
      BY <1>4, <2>1, <2>2 DEF ContentOf
    <2> QED
      BY <1>3, <2>1, <2>2, <2>3
  <1>7. VersionRows(files, head.revision, BatchOf(es), OrderOf(es)) =
          {[path |-> q, at |-> head.revision + OrderOf(es)[q], content |-> BatchOf(es)[q]] : q \in changed}
    BY BatchOfEntries DEF VersionRows
  <1>8. \A q \in changed :
          [path |-> q, at |-> head.revision + OrderOf(es)[q], content |-> BatchOf(es)[q]]
            = Row(EntryOf(es, q))
    BY <1>6 DEF OrderOf, BatchOf
  <1> HIDE DEF Row, changing, changed
  <1>9. {Row(k) : k \in changing} = {Row(EntryOf(es, q)) : q \in changed}
    BY <1>5, <1>6
  <1>10. {Row(k) : k \in changing} =
           {[path |-> q, at |-> head.revision + OrderOf(es)[q], content |-> BatchOf(es)[q]] : q \in changed}
    BY <1>8, <1>9
  <1> QED
    BY <1>7, <1>10 DEF Row, changing

\* A commit is one step of the store, on the files as they are.
LEMMA CommitIsBatch ==
  ASSUME StoreInv, NEW es \in Seq(Entry), es # <<>>, OneEach(es), Commit(Cloud, es)
  PROVE  /\ Takes(Len(es)) /\ Changes(BatchOf(es), OrderOf(es))
         /\ GraphAfter(Cloud, es) = [head |-> head', files |-> files']
  <1>1. Cloud.files = files /\ Cloud.head = head
    BY DEF Cloud
  <1>2. Takes(Len(es))
    BY <1>1 DEF Commit, GraphAfter, Takes
  <1>3. files' = Applied(files, head.revision, BatchOf(es), OrderOf(es))
    BY <1>1, FilesAfterEntries DEF Commit, GraphAfter, Applied
  <1>4. versions' = versions \cup VersionRows(files, head.revision, BatchOf(es), OrderOf(es))
    BY <1>1, RowsOfEntries DEF Commit
  <1> QED
    BY <1>1, <1>2, <1>3, <1>4 DEF Commit, Changes, GraphAfter

LEMMA CommitIsStep ==
  ASSUME StoreInv, NEW es \in Seq(Entry), es # <<>>, OneEach(es), Commit(Cloud, es)
  PROVE  StoreNext
  <1> DEFINE n == Len(es)
             f == [k \in 1 .. n |-> es[k].path]
  <1>1. n \in Nat \ {0} /\ DOMAIN es = 1 .. n
    BY BatchOfEntries, EntryFacts
  <1>2. f \in Surjection(1 .. n, PathsOf(es))
    BY <1>1 DEF Surjection, PathsOf
  <1>3. IsFiniteSet(1 .. n) /\ Cardinality(1 .. n) = n
    BY <1>1, FS_Interval
  <1>4. Cardinality(PathsOf(es)) <= n /\ (Cardinality(PathsOf(es)) = n <=> f \in Injection(1 .. n, PathsOf(es)))
    BY <1>2, <1>3, FS_Surjection
  <1>5. Cardinality(PathsOf(es)) < n => Repeats(BatchOf(es))
    <2> SUFFICES ASSUME Cardinality(PathsOf(es)) < n PROVE Repeats(BatchOf(es))
      OBVIOUS
    <2>1. f \notin Injection(1 .. n, PathsOf(es))
      BY <1>1, <1>4
    <2>2. PICK j \in 1 .. n : \E k \in 1 .. n : j # k /\ es[j].path = es[k].path
      BY <1>1, <1>2, <2>1 DEF Injection, IsInjective, Surjection
    <2>3. es[j].content = NoFile /\ files[es[j].path] = NoFile
      BY <1>1, <2>2 DEF OneEach
    <2> QED
      BY <1>1, <2>3, BatchOfEntries DEF Repeats
  <1>6. n \in 1 .. MaxRevision
    BY <1>1, MaxRevisionNat, CommitIsBatch DEF Takes, StoreInv, HeadRow
  <1> QED
    BY <1>4, <1>5, <1>6, CommitIsBatch, BatchOfEntries DEF StoreNext

-------------------------------------------------------------------------------
(* The history behind the files. *)

\* A row of the history says what a file of a path is at its revision.
Tells(row, rows, p, f) ==
  row.path = p /\ row.content = f.content /\ IsLatest(row, rows, f.revision)

\* The history tells a copy of the files.
ToldBy(fs, rows, revision) ==
  \A p \in Paths : fs[p] # NoFile =>
    /\ fs[p].revision <= revision
    /\ \E row \in rows : Tells(row, rows, p, fs[p])

\* No row of a file is later than the file.
NewestIn(fs, rows) ==
  \A p \in Paths : fs[p] # NoFile => \A row \in rows : row.path = p => row.at <= fs[p].revision

\* A path that has a history and no file was deleted.
DeletionsIn(fs, rows) ==
  \A p \in Paths : fs[p] = NoFile =>
    \/ \A row \in rows : row.path # p
    \/ \E row \in rows : row.path = p /\ row.content = NoFile

StoreTells ==
  /\ ToldBy(files, versions, head.revision)
  /\ NewestIn(files, versions)
  /\ DeletionsIn(files, versions)

\* Nothing that the history tells is changed by the rows that come later.
LEMMA ToldLater ==
  ASSUME NEW fs \in Files, NEW rows \in SUBSET Version, NEW r \in Nat, NEW s \in Nat, r <= s,
         NEW more, \A row \in more : row.at \in Nat /\ row.at > r,
         ToldBy(fs, rows, r)
  PROVE  ToldBy(fs, rows \cup more, s)
  <1> SUFFICES ASSUME NEW p \in Paths, fs[p] # NoFile
               PROVE  /\ fs[p].revision <= s
                      /\ \E row \in rows \cup more : Tells(row, rows \cup more, p, fs[p])
    BY DEF ToldBy
  <1>1. fs[p].revision \in Nat /\ fs[p].revision <= r
    BY DEF ToldBy, Files, File
  <1>2. PICK row \in rows : Tells(row, rows, p, fs[p])
    BY DEF ToldBy
  <1>3. \A other \in more : ~(other.at <= fs[p].revision)
    BY <1>1
  <1>4. Tells(row, rows \cup more, p, fs[p])
    BY <1>2, <1>3 DEF Tells, IsLatest
  <1> QED
    BY <1>1, <1>4

\* The one row a batch adds for a path whose content it changes.
LEMMA RowOfChange ==
  ASSUME NEW fs \in Files, NEW r \in 0 .. MaxRevision,
         NEW batch \in Batches, NEW n \in Nat \ {0}, NEW order \in Numberings(DOMAIN batch, n),
         r + n <= MaxRevision, NEW p \in DOMAIN batch
  PROVE  /\ batch[p] # ContentOf(fs[p]) =>
              \E row \in VersionRows(fs, r, batch, order) :
                /\ row.path = p /\ row.at = r + order[p] /\ row.content = batch[p]
                /\ \A other \in VersionRows(fs, r, batch, order) : other.path = p => other = row
         /\ batch[p] = ContentOf(fs[p]) =>
              \A row \in VersionRows(fs, r, batch, order) : row.path # p
  <1> DEFINE mine == [path |-> p, at |-> r + order[p], content |-> batch[p]]
  <1>1. \A other \in VersionRows(fs, r, batch, order) : other.path = p => other = mine
    BY DEF VersionRows
  <1>2. batch[p] # ContentOf(fs[p]) => mine \in VersionRows(fs, r, batch, order)
    BY DEF VersionRows
  <1>3. batch[p] = ContentOf(fs[p]) => \A row \in VersionRows(fs, r, batch, order) : row.path # p
    BY DEF VersionRows
  <1> QED
    BY <1>1, <1>2, <1>3

\* What the files of a path are after a batch.
LEMMA AppliedFile ==
  ASSUME NEW fs \in Files, NEW r \in 0 .. MaxRevision,
         NEW batch \in Batches, NEW n \in Nat \ {0}, NEW order \in Numberings(DOMAIN batch, n),
         r + n <= MaxRevision, NEW p \in DOMAIN batch, batch[p] # NoFile
  PROVE  /\ Applied(fs, r, batch, order)[p] # NoFile
         /\ Applied(fs, r, batch, order)[p].revision = r + order[p]
         /\ Applied(fs, r, batch, order)[p].content = batch[p]
         /\ r + order[p] \in Nat /\ r + order[p] > r /\ r + order[p] <= r + n
  <1>1. p \in Paths /\ batch[p] \in Contents /\ order[p] \in 1 .. n
    BY BatchFacts, OrderFacts
  <1>2. Applied(fs, r, batch, order)[p] = [revision |-> r + order[p], content |-> batch[p]]
    BY <1>1 DEF Applied
  <1>3. r + order[p] \in 1 .. MaxRevision
    BY <1>1, MaxRevisionNat
  <1>4. Applied(fs, r, batch, order)[p] \in File
    BY <1>1, <1>2, <1>3 DEF File
  <1> QED
    BY <1>1, <1>2, <1>3, <1>4, NoFileDistinct

LEMMA NoFileHasNoContent ==
  ASSUME NEW fs \in Files, NEW p \in Paths
  PROVE  /\ ContentOf(fs[p]) = NoFile <=> fs[p] = NoFile
         /\ RevisionOf(fs[p]) = NoFile <=> fs[p] = NoFile
         /\ fs[p] # NoFile => /\ ContentOf(fs[p]) = fs[p].content /\ RevisionOf(fs[p]) = fs[p].revision
                              /\ fs[p].revision \in 1 .. MaxRevision
  <1>1. fs[p] \in File \cup {NoFile}
    BY DEF Files
  <1> QED
    BY <1>1, NoFileDistinct, MaxRevisionNat DEF File, ContentOf, RevisionOf

\* A batch carries the history behind the files on.
LEMMA BatchKeepsTelling ==
  ASSUME NEW fs \in Files, NEW rows \in SUBSET Version, NEW r \in 0 .. MaxRevision,
         NEW batch \in Batches, NEW n \in Nat \ {0}, NEW order \in Numberings(DOMAIN batch, n),
         r + n <= MaxRevision,
         OneChangeEach(fs, rows, r),
         ToldBy(fs, rows, r), NewestIn(fs, rows), DeletionsIn(fs, rows)
  PROVE  /\ ToldBy(Applied(fs, r, batch, order), rows \cup VersionRows(fs, r, batch, order), r + n)
         /\ NewestIn(Applied(fs, r, batch, order), rows \cup VersionRows(fs, r, batch, order))
         /\ DeletionsIn(Applied(fs, r, batch, order), rows \cup VersionRows(fs, r, batch, order))
  <1> DEFINE gs == Applied(fs, r, batch, order)
             new == VersionRows(fs, r, batch, order)
             all == rows \cup new
  <1>1. \A row \in rows : row.at \in Nat /\ row.at <= r
    BY DEF OneChangeEach, Version
  <1>2. \A row \in new : row.at \in Nat /\ row.at > r /\ row.at <= r + n
    BY VersionRowsType DEF Version
  <1>3. r \in Nat /\ r + n \in Nat /\ r <= r + n /\ gs \in Files
    BY AppliedType, MaxRevisionNat
  <1>4. ToldBy(fs, all, r + n)
    BY <1>2, <1>3, ToldLater
  <1>5. ASSUME NEW p \in Paths
        PROVE  /\ gs[p] # NoFile =>
                    /\ gs[p].revision <= r + n
                    /\ \E row \in all : Tells(row, all, p, gs[p])
                    /\ \A row \in all : row.path = p => row.at <= gs[p].revision
               /\ gs[p] = NoFile =>
                    \/ \A row \in all : row.path # p
                    \/ \E row \in all : row.path = p /\ row.content = NoFile
    <2>1. CASE p \notin DOMAIN batch
      <3>1. gs[p] = fs[p]
        BY <2>1 DEF Applied
      <3>2. \A row \in new : row.path # p
        BY <2>1 DEF VersionRows
      <3> HIDE DEF gs, new
      <3> QED
        BY <3>1, <3>2, <1>4 DEF ToldBy, NewestIn, DeletionsIn
    <2>2. CASE p \in DOMAIN batch /\ batch[p] = NoFile
      <3>1. gs[p] = NoFile
        BY <2>2 DEF Applied
      <3>2. CASE fs[p] = NoFile
        <4>1. \A row \in new : row.path # p
          BY <2>2, <3>2, RowOfChange DEF ContentOf
        <4> HIDE DEF gs, new
        <4> QED
          BY <3>1, <3>2, <4>1 DEF DeletionsIn
      <3>3. CASE fs[p] # NoFile
        <4>1. batch[p] # ContentOf(fs[p])
          BY <2>2, <3>3, NoFileHasNoContent
        <4>2. PICK row \in new : row.path = p /\ row.content = NoFile
          BY <2>2, <4>1, RowOfChange
        <4> HIDE DEF gs, new
        <4> QED
          BY <3>1, <4>2
      <3> QED
        BY <3>2, <3>3
    <2>3. CASE p \in DOMAIN batch /\ batch[p] # NoFile
      <3>1. /\ gs[p] # NoFile /\ gs[p].revision = r + order[p] /\ gs[p].content = batch[p]
            /\ gs[p].revision \in Nat /\ gs[p].revision > r /\ gs[p].revision <= r + n
        BY <2>3, AppliedFile
      <3>2. CASE batch[p] # ContentOf(fs[p])
        <4>1. PICK row \in new : /\ row.path = p /\ row.at = r + order[p] /\ row.content = batch[p]
                                 /\ \A other \in new : other.path = p => other = row
          BY <2>3, <3>2, RowOfChange
        <4> HIDE DEF gs, new
        <4>2. \A other \in all : other.path = p => other.at <= gs[p].revision
          BY <1>1, <3>1, <4>1
        <4>3. Tells(row, all, p, gs[p])
          BY <3>1, <4>1, <4>2 DEF Tells, IsLatest
        <4> QED
          BY <3>1, <4>2, <4>3
      <3>3. CASE batch[p] = ContentOf(fs[p])
        <4>1. fs[p] # NoFile /\ fs[p].content = batch[p] /\ fs[p].revision \in Nat
          BY <2>3, <3>3, NoFileHasNoContent
        <4>2. \A row \in new : row.path # p
          BY <2>3, <3>3, RowOfChange
        <4> HIDE DEF gs, new
        <4>3. PICK row \in rows : Tells(row, rows, p, fs[p])
          BY <4>1 DEF ToldBy
        <4>4. fs[p].revision <= r
          BY <4>1 DEF ToldBy
        <4>5. \A other \in all : other.path = p => other.at \in Nat /\ other.at <= fs[p].revision
          BY <1>1, <4>1, <4>2 DEF NewestIn
        <4>6. \A other \in all : other.path = p => other.at <= gs[p].revision
          BY <1>3, <3>1, <4>1, <4>4, <4>5
        <4>7. Tells(row, all, p, gs[p])
          <5>1. row \in all /\ row.path = p /\ row.content = gs[p].content
            BY <3>1, <4>1, <4>3 DEF Tells, IsLatest
          <5>2. \A other \in all : other.path = p => other \in rows /\ other.at <= row.at
            BY <4>2, <4>3, <4>5 DEF Tells, IsLatest
          <5> QED
            BY <4>6, <5>1, <5>2 DEF Tells, IsLatest
        <4> QED
          BY <3>1, <4>6, <4>7
      <3> QED
        BY <3>2, <3>3
    <2> QED
      BY <2>1, <2>2, <2>3
  <1> HIDE DEF gs, new, all
  <1>6. ToldBy(gs, all, r + n) /\ NewestIn(gs, all) /\ DeletionsIn(gs, all)
    BY <1>5 DEF ToldBy, NewestIn, DeletionsIn
  <1> QED
    BY <1>6 DEF gs, new, all

-------------------------------------------------------------------------------
(* Orderings, and the journal. *)

LEMMA OrderingFacts ==
  ASSUME NEW S, IsFiniteSet(S), NEW o \in SetToSeqs(S)
  PROVE  /\ Cardinality(S) \in Nat /\ DOMAIN o = 1 .. Cardinality(S)
         /\ \A k \in DOMAIN o : o[k] \in S
         /\ \A j, k \in DOMAIN o : j # k => o[j] # o[k]
         /\ \A x \in S : \E k \in DOMAIN o : o[k] = x
  <1> DEFINE n == Cardinality(S)
  <1>1. n \in Nat
    BY FS_CardinalityType
  <1>2. o \in [1 .. n -> S] /\ \A j, k \in 1 .. n : j # k => o[j] # o[k]
    BY DEF SetToSeqs
  <1>3. o \in Injection(1 .. n, S)
    BY <1>2 DEF Injection, IsInjective
  <1>4. IsFiniteSet(1 .. n) /\ Cardinality(1 .. n) = n
    BY <1>1, FS_Interval
  <1>5. o \in Surjection(1 .. n, S)
    BY <1>3, <1>4, FS_Injection
  <1> QED
    BY <1>1, <1>2, <1>5 DEF Surjection

LEMMA SequenceOf ==
  ASSUME NEW S, NEW n \in Nat, NEW s, s \in [1 .. n -> S]
  PROVE  s \in Seq(S) /\ Len(s) = n /\ DOMAIN s = 1 .. n
  <1>1. s \in Seq(S)
    BY SeqDef
  <1>2. Len(s) \in Nat /\ DOMAIN s = 1 .. Len(s)
    BY <1>1, LenProperties
  <1> QED
    BY <1>1, <1>2

LEMMA JournalFacts ==
  ASSUME SyncTypeOK
  PROVE  /\ Len(journal) \in Nat /\ Len(journal) <= MaxJournal /\ DOMAIN journal = 1 .. Len(journal)
         /\ \A i \in DOMAIN journal :
              /\ journal[i] \in Entry
              /\ journal[i].path \in Paths
              /\ journal[i].content \in Contents \cup {NoFile}
              /\ journal[i].base \in (1 .. MaxRevision) \cup {NoFile}
  BY EntryFacts DEF SyncTypeOK

\* What the journal says of an edit is never taken back.
JournalGoesOn ==
  \A i \in DOMAIN journal :
    /\ i \in DOMAIN journal'
    /\ journal'[i].path = journal[i].path
    /\ journal'[i].content = journal[i].content
    /\ journal'[i].base = journal[i].base

LEMMA MarkedType ==
  ASSUME SyncTypeOK, NEW ids,
         NEW status \in {"pending", "failed", "acknowledged", "superseded"}
  PROVE  /\ Marked(ids, status) \in Seq(Entry) /\ Len(Marked(ids, status)) = Len(journal)
         /\ DOMAIN Marked(ids, status) = DOMAIN journal
         /\ \A i \in DOMAIN journal :
              /\ Marked(ids, status)[i].path = journal[i].path
              /\ Marked(ids, status)[i].content = journal[i].content
              /\ Marked(ids, status)[i].base = journal[i].base
              /\ i \in ids => Marked(ids, status)[i].status = status
              /\ i \notin ids => Marked(ids, status)[i] = journal[i]
  <1> DEFINE m == Marked(ids, status)
  <1>1. Len(journal) \in Nat /\ DOMAIN journal = 1 .. Len(journal) /\ \A i \in DOMAIN journal : journal[i] \in Entry
    BY JournalFacts
  <1>2. \A i \in DOMAIN journal :
          /\ [journal[i] EXCEPT !.status = status] \in Entry
          /\ [journal[i] EXCEPT !.status = status].status = status
          /\ [journal[i] EXCEPT !.status = status].path = journal[i].path
          /\ [journal[i] EXCEPT !.status = status].content = journal[i].content
          /\ [journal[i] EXCEPT !.status = status].base = journal[i].base
    BY <1>1 DEF Entry
  <1>3. m \in [1 .. Len(journal) -> Entry]
    BY <1>1, <1>2 DEF Marked
  <1>4. m \in Seq(Entry) /\ Len(m) = Len(journal) /\ DOMAIN m = DOMAIN journal
    BY <1>1, <1>3, SequenceOf
  <1>5. \A i \in DOMAIN journal :
          m[i] = IF i \in ids THEN [journal[i] EXCEPT !.status = status] ELSE journal[i]
    BY DEF Marked
  <1> QED
    BY <1>2, <1>4, <1>5

LEMMA MarkedFacts ==
  ASSUME SyncTypeOK, NEW ids,
         NEW status \in {"pending", "failed", "acknowledged", "superseded"},
         journal' = Marked(ids, status)
  PROVE  /\ journal' \in Seq(Entry) /\ Len(journal') = Len(journal) /\ DOMAIN journal' = DOMAIN journal
         /\ JournalGoesOn
         /\ \A i \in DOMAIN journal : i \in ids => journal'[i].status = status
         /\ \A i \in DOMAIN journal : i \notin ids => journal'[i] = journal[i]
  BY MarkedType DEF JournalGoesOn

LEMMA AppendedFacts ==
  ASSUME SyncTypeOK, NEW es \in Seq(Entry), Len(journal) + Len(es) <= MaxJournal,
         journal' = journal \o es
  PROVE  /\ journal' \in Seq(Entry) /\ Len(journal') = Len(journal) + Len(es)
         /\ Len(journal') <= MaxJournal /\ DOMAIN journal' = 1 .. Len(journal')
         /\ JournalGoesOn
         /\ \A i \in DOMAIN journal : journal'[i] = journal[i]
         /\ \A k \in DOMAIN es : Len(journal) + k \in DOMAIN journal' /\ journal'[Len(journal) + k] = es[k]
         /\ \A i \in DOMAIN journal' \ DOMAIN journal :
              \E k \in DOMAIN es : i = Len(journal) + k /\ journal'[i] = es[k]
  <1>1. /\ journal \in Seq(Entry) /\ Len(journal) \in Nat /\ DOMAIN journal = 1 .. Len(journal)
        /\ Len(es) \in Nat /\ DOMAIN es = 1 .. Len(es)
    BY JournalFacts, EntryFacts DEF SyncTypeOK
  <1>2. /\ journal' \in Seq(Entry) /\ Len(journal') = Len(journal) + Len(es)
        /\ \A i \in 1 .. Len(journal) + Len(es) :
             journal'[i] = IF i <= Len(journal) THEN journal[i] ELSE es[i - Len(journal)]
    BY <1>1, ConcatProperties
  <1>3. DOMAIN journal' = 1 .. Len(journal) + Len(es)
    BY <1>2, LenProperties
  <1>4. \A i \in DOMAIN journal : i \in DOMAIN journal' /\ journal'[i] = journal[i]
    BY <1>1, <1>2, <1>3
  <1>5. \A k \in DOMAIN es : Len(journal) + k \in DOMAIN journal' /\ journal'[Len(journal) + k] = es[k]
    BY <1>1, <1>2, <1>3
  <1>6. ASSUME NEW i \in DOMAIN journal' \ DOMAIN journal
        PROVE  \E k \in DOMAIN es : i = Len(journal) + k /\ journal'[i] = es[k]
    <2>1. i - Len(journal) \in DOMAIN es /\ i = Len(journal) + (i - Len(journal))
      BY <1>1, <1>2, <1>3
    <2> QED
      BY <2>1, <1>5
  <1> QED
    BY <1>2, <1>3, <1>4, <1>5, <1>6 DEF JournalGoesOn

\* The plan of a sync or of a start is a sequence of pending entries for different
\* paths, each a change of what the copy has.
LEMMA PlannedFacts ==
  ASSUME SyncTypeOK, NEW g \in Graph, NEW S \in SUBSET Changed(g), NEW order \in SetToSeqs(S),
         NEW offline \in BOOLEAN,
         offline \/ g.head.revision + Cardinality(S) <= MaxRevision
  PROVE  /\ Planned(g, order, offline) \in Seq(Entry)
         /\ Len(Planned(g, order, offline)) = Cardinality(S)
         /\ Cardinality(S) \in Nat /\ (S # {} => Cardinality(S) # 0)
         /\ DOMAIN Planned(g, order, offline) = 1 .. Cardinality(S)
         /\ \A k \in DOMAIN Planned(g, order, offline) :
              LET e == Planned(g, order, offline)[k]
              IN  /\ e.path \in S /\ e.status = "pending"
                  /\ e.content # ContentOf(g.files[e.path])
                  /\ e.base = RevisionOf(g.files[e.path])
         /\ \A j, k \in DOMAIN Planned(g, order, offline) :
              Planned(g, order, offline)[j].path = Planned(g, order, offline)[k].path => j = k
  <1> DEFINE es == Planned(g, order, offline)
             n == Cardinality(S)
  <1>1. S \subseteq Paths /\ \A p \in S : disk[p] # ContentOf(g.files[p])
    BY DEF Changed
  <1>2. IsFiniteSet(S)
    BY <1>1, PathsFinite, FS_Subset
  <1>3. n \in Nat /\ (S # {} => n # 0)
    BY <1>2, FS_CardinalityType, FS_EmptySet
  <1>4. /\ DOMAIN order = 1 .. n /\ \A k \in DOMAIN order : order[k] \in S
        /\ \A j, k \in DOMAIN order : j # k => order[j] # order[k]
    BY <1>2, OrderingFacts
  <1>5. ASSUME NEW k \in 1 .. n
        PROVE  /\ es[k] \in Entry
               /\ es[k].path = order[k] /\ es[k].path \in S /\ es[k].status = "pending"
               /\ es[k].content # ContentOf(g.files[es[k].path])
               /\ es[k].base = RevisionOf(g.files[es[k].path])
    <2>1. order[k] \in S /\ order[k] \in Paths
      BY <1>1, <1>4
    <2>2. es[k] = [path |-> order[k], content |-> disk[order[k]],
                   base |-> RevisionOf(g.files[order[k]]),
                   target |-> IF offline THEN NoFile ELSE g.head.revision + k - 1,
                   status |-> "pending"]
      BY <1>4 DEF Planned
    <2>3. disk[order[k]] \in Contents \cup {NoFile}
      BY <2>1 DEF SyncTypeOK
    <2>4. RevisionOf(g.files[order[k]]) \in (1 .. MaxRevision) \cup {NoFile}
      BY <2>1, NoFileHasNoContent DEF Graph
    <2>5. g.head.revision \in 0 .. MaxRevision
      BY DEF Graph, HeadRow
    <2>6. (IF offline THEN NoFile ELSE g.head.revision + k - 1) \in (0 .. MaxRevision) \cup {NoFile}
      BY <1>3, <2>5, MaxRevisionNat
    <2>7. es[k] \in Entry
      BY <2>1, <2>2, <2>3, <2>4, <2>6 DEF Entry
    <2> QED
      BY <1>1, <2>1, <2>2, <2>7
  <1>6. es \in [1 .. n -> Entry]
    BY <1>4, <1>5 DEF Planned
  <1>7. es \in Seq(Entry) /\ Len(es) = n /\ DOMAIN es = 1 .. n
    BY <1>3, <1>6, SequenceOf
  <1>8. \A j, k \in DOMAIN es : es[j].path = es[k].path => j = k
    BY <1>4, <1>5, <1>7
  <1> HIDE DEF es
  <1> QED
    BY <1>3, <1>5, <1>7, <1>8 DEF es

-------------------------------------------------------------------------------
(* Types. *)

LEMMA StateTypes ==
  ASSUME StoreInv
  PROVE  /\ Cloud \in Graph /\ NoRead \in Graph
         /\ NoWriter \in Writer
         /\ NoSync \in SyncState /\ NoSync.ids = <<>> /\ DOMAIN NoSync.ids = {}
         /\ NoRefresh \in RefreshState
  <1>1. Cloud \in Graph
    BY DEF Cloud, Graph, StoreInv
  <1>2. NoRead \in Graph
    BY MaxRevisionNat DEF NoRead, Graph, EmptyHead, HeadRow, ReviewStates, NoFiles, Files
  <1>3. NoWriter \in Writer
    BY DEF NoWriter, Writer
  <1>4. <<>> \in Seq(1 .. MaxJournal)
    BY EmptySeq
  <1>5. NoSync \in SyncState /\ NoSync.ids = <<>> /\ DOMAIN NoSync.ids = {}
    BY <1>2, <1>3, <1>4 DEF NoSync, SyncState
  <1>6. NoRefresh \in RefreshState
    BY <1>2 DEF NoRefresh, RefreshState
  <1> QED
    BY <1>1, <1>2, <1>3, <1>5, <1>6

\* The entries of a sync's or a recovery's ids.
LEMMA EntriesType ==
  ASSUME SyncTypeOK, NEW ids \in Seq(1 .. MaxJournal),
         \A k \in DOMAIN ids : ids[k] \in DOMAIN journal
  PROVE  /\ Len(ids) \in Nat /\ DOMAIN ids = 1 .. Len(ids)
         /\ Entries(ids) \in Seq(Entry) /\ Len(Entries(ids)) = Len(ids)
         /\ DOMAIN Entries(ids) = DOMAIN ids
         /\ \A k \in DOMAIN ids : Entries(ids)[k] = journal[ids[k]]
  <1>1. Len(ids) \in Nat /\ DOMAIN ids = 1 .. Len(ids)
    BY LenProperties
  <1>2. Entries(ids) \in [1 .. Len(ids) -> Entry]
    BY <1>1, JournalFacts DEF Entries
  <1>3. Entries(ids) \in Seq(Entry) /\ Len(Entries(ids)) = Len(ids) /\ DOMAIN Entries(ids) = 1 .. Len(ids)
    BY <1>1, <1>2, SequenceOf
  <1> QED
    BY <1>1, <1>3 DEF Entries

LEMMA OpenFacts ==
  ASSUME SyncTypeOK
  PROVE  /\ Open \subseteq DOMAIN journal /\ Candidates \subseteq Open /\ Ready \subseteq Candidates
         /\ Apart \subseteq Paths
         /\ IsFiniteSet(Ready)
  <1>1. Open \subseteq DOMAIN journal /\ Candidates \subseteq Open /\ Ready \subseteq Candidates
    BY DEF Open, Candidates, Ready
  <1>2. Apart \subseteq Paths
    BY <1>1, JournalFacts DEF Apart
  <1>3. IsFiniteSet(1 .. Len(journal))
    <2>1. 1 \in Int /\ Len(journal) \in Int
      BY JournalFacts
    <2> QED
      BY <2>1, FS_Interval
  <1>4. IsFiniteSet(Ready)
    BY <1>1, <1>3, JournalFacts, FS_Subset
  <1> QED
    BY <1>1, <1>2, <1>4

\* What a recovery replays.
LEMMA ReplayFacts ==
  ASSUME StoreInv, SyncTypeOK, NEW ids \in SetToSeqs(Ready)
  PROVE  /\ ids \in Seq(1 .. MaxJournal) /\ Len(ids) \in Nat /\ DOMAIN ids = 1 .. Len(ids)
         /\ \A k \in DOMAIN ids : ids[k] \in Ready /\ ids[k] \in DOMAIN journal
         /\ \A j, k \in DOMAIN ids : j # k => ids[j] # ids[k]
         /\ \A i \in Ready : \E k \in DOMAIN ids : ids[k] = i
         /\ Replay(ids) \in Seq(Entry) /\ Len(Replay(ids)) = Len(ids) /\ DOMAIN Replay(ids) = DOMAIN ids
         /\ \A k \in DOMAIN ids :
              /\ Replay(ids)[k] = Reconciled(journal[ids[k]])
              /\ Replay(ids)[k].path = journal[ids[k]].path
              /\ Replay(ids)[k].content = journal[ids[k]].content
         /\ Ready # {} => Replay(ids) # <<>>
  <1>1. IsFiniteSet(Ready) /\ Ready \subseteq DOMAIN journal /\ Ready \subseteq 1 .. MaxJournal
    BY OpenFacts, JournalFacts, MaxJournalNat
  <1>2. /\ Cardinality(Ready) \in Nat /\ DOMAIN ids = 1 .. Cardinality(Ready)
        /\ \A k \in DOMAIN ids : ids[k] \in Ready
        /\ \A j, k \in DOMAIN ids : j # k => ids[j] # ids[k]
        /\ \A i \in Ready : \E k \in DOMAIN ids : ids[k] = i
    BY <1>1, OrderingFacts
  <1>3. ids \in [1 .. Cardinality(Ready) -> 1 .. MaxJournal]
    BY <1>1 DEF SetToSeqs
  <1>4. ids \in Seq(1 .. MaxJournal) /\ Len(ids) = Cardinality(Ready)
    BY <1>2, <1>3, SequenceOf
  <1>5. ASSUME NEW e \in Entry
        PROVE  Reconciled(e) \in Entry /\ Reconciled(e).path = e.path /\ Reconciled(e).content = e.content
    <2>1. RevisionOf(files[e.path]) \in (1 .. MaxRevision) \cup {NoFile} /\ head.revision \in 0 .. MaxRevision
      BY NoFileHasNoContent DEF StoreInv, Entry, HeadRow
    <2> QED
      BY <2>1 DEF Reconciled, Entry
  <1>6. Replay(ids) \in [1 .. Len(ids) -> Entry]
    BY <1>1, <1>2, <1>4, <1>5, JournalFacts DEF Replay
  <1>7. Replay(ids) \in Seq(Entry) /\ Len(Replay(ids)) = Len(ids) /\ DOMAIN Replay(ids) = 1 .. Len(ids)
    BY <1>2, <1>4, <1>6, SequenceOf
  <1>8. \A k \in DOMAIN ids :
          /\ Replay(ids)[k] = Reconciled(journal[ids[k]])
          /\ Replay(ids)[k].path = journal[ids[k]].path
          /\ Replay(ids)[k].content = journal[ids[k]].content
    BY <1>1, <1>2, <1>5, JournalFacts DEF Replay
  <1>9. Ready # {} => Len(Replay(ids)) # 0
    BY <1>2, <1>4, <1>7
  <1>10. Ready # {} => Replay(ids) # <<>>
    BY <1>9, EmptySeq
  <1> QED
    BY <1>1, <1>2, <1>4, <1>7, <1>8, <1>10

LEMMA InitTypes == SyncInit => SyncTypeOK
  <1> SUFFICES ASSUME SyncInit PROVE SyncTypeOK
    OBVIOUS
  <1>1. StoreInv
    BY InitStoreInv DEF SyncInit
  <1>2. NoFiles \in Files
    BY DEF NoFiles, Files
  <1>3. journal \in Seq(Entry) /\ Len(journal) = 0
    BY EmptySeq DEF SyncInit
  <1> QED
    BY <1>1, <1>2, <1>3, StateTypes, MaxJournalNat, MaxRevisionNat DEF SyncInit, SyncTypeOK

\* The user, the watcher and the failures.
LEMMA OutsideTypes ==
  ASSUME StoreInv, SyncTypeOK,
         \/ \E p \in Paths, content \in Contents \cup {NoFile} :
              Edit(p, content) \/ OtherDevice(p, content)
         \/ \E p \in Paths : ResolveKeepCloud(p) \/ ResolveKeepLocal(p)
         \/ Notice \/ SyncFails \/ AgentDies
  PROVE  SyncTypeOK'
  <1> USE StateTypes
  <1>1. ASSUME NEW p \in Paths, NEW content \in Contents \cup {NoFile}, Edit(p, content)
        PROVE  SyncTypeOK'
    BY <1>1 DEF Edit, Noticed, SyncTypeOK, index
  <1>2. ASSUME NEW p \in Paths, NEW content \in Contents \cup {NoFile}, OtherDevice(p, content)
        PROVE  SyncTypeOK'
    BY <1>2 DEF OtherDevice, agent, index, SyncTypeOK
  <1>3. ASSUME NEW p \in Paths, ResolveKeepCloud(p)
        PROVE  SyncTypeOK'
    <2>1. journal' \in Seq(Entry) /\ Len(journal') = Len(journal) /\ DOMAIN journal' = DOMAIN journal
      BY <1>3, MarkedFacts DEF ResolveKeepCloud, Superseded
    <2>2. ContentOf(files[p]) \in Contents \cup {NoFile}
      BY NoFileHasNoContent DEF StoreInv, Files, File
    <2> QED
      BY <1>3, <2>1, <2>2 DEF ResolveKeepCloud, Noticed, SyncTypeOK, index
  <1>4. ASSUME NEW p \in Paths, ResolveKeepLocal(p)
        PROVE  SyncTypeOK'
    <2> DEFINE e == [path |-> p, content |-> disk[p], base |-> RevisionOf(files[p]),
                     target |-> head.revision, status |-> "acknowledged"]
               marked == Superseded(p)
    <2>1. e \in Entry
      BY NoFileHasNoContent DEF Entry, SyncTypeOK, StoreInv, HeadRow
    <2>2. marked \in Seq(Entry) /\ Len(marked) = Len(journal)
      BY MarkedType DEF Superseded
    <2>3. journal' = Append(marked, e) /\ Len(journal) < MaxJournal
      BY <1>4 DEF ResolveKeepLocal
    <2> HIDE DEF marked, e
    <2>4. journal' \in Seq(Entry) /\ Len(journal') = Len(journal) + 1
      BY <2>1, <2>2, <2>3, AppendProperties
    <2>5. Len(journal') <= MaxJournal /\ DOMAIN journal \subseteq DOMAIN journal'
      BY <2>3, <2>4, JournalFacts, LenProperties, MaxJournalNat
    <2> QED
      BY <1>4, <2>4, <2>5 DEF ResolveKeepLocal, SyncTypeOK, index
  <1>5. CASE Notice
    BY <1>5 DEF Notice, SyncTypeOK, index
  <1>6. CASE SyncFails
    BY <1>6 DEF SyncFails, SyncTypeOK, index
  <1>7. CASE AgentDies
    BY <1>7 DEF AgentDies, SyncTypeOK, index
  <1> QED
    BY <1>1, <1>2, <1>3, <1>4, <1>5, <1>6, <1>7

\* The sync.
LEMMA SyncTypes ==
  ASSUME StoreInv, SyncTypeOK,
         \/ SyncRead \/ SyncReadCached \/ SyncPlan \/ SyncCommit \/ SyncAcknowledge \/ SyncSettle
  PROVE  SyncTypeOK'
  <1> USE StateTypes
  <1>0. sync \in SyncState
    BY DEF SyncTypeOK
  <1>1. CASE SyncRead
    <2>1. sync' = [NoSync EXCEPT !.step = "read", !.graph = Cloud] /\ cache' = Cloud
      BY <1>1 DEF SyncRead
    <2>2. sync' \in SyncState /\ DOMAIN sync'.ids = {}
      BY <2>1 DEF SyncState
    <2> QED
      BY <1>1, <2>1, <2>2 DEF SyncRead, Drain, SyncTypeOK, index
  <1>2. CASE SyncReadCached
    <2>1. /\ sync' = [NoSync EXCEPT !.step = "read", !.graph = cache, !.offline = TRUE]
          /\ cache \in Graph
      BY <1>2 DEF SyncReadCached, SyncTypeOK
    <2>2. sync' \in SyncState /\ DOMAIN sync'.ids = {}
      BY <2>1 DEF SyncState
    <2> QED
      BY <1>2, <2>2 DEF SyncReadCached, Drain, SyncTypeOK, index
  <1>3. CASE SyncPlan
    <2> DEFINE S == Changed(sync.graph) \ Clobbers(sync.graph)
    <2>1. sync.graph \in Graph /\ sync.offline \in BOOLEAN
      BY <1>0 DEF SyncState
    <2>2. /\ Len(journal) + Cardinality(S) <= MaxJournal
          /\ sync.graph.head.revision + Cardinality(S) <= MaxRevision
      BY <1>3 DEF SyncPlan
    <2>3. PICK order \in SetToSeqs(S) :
            LET es == Planned(sync.graph, order, sync.offline)
            IN  /\ journal' = journal \o es
                /\ IF sync.offline
                     THEN /\ cache' = IF S = {} THEN cache ELSE GraphAfter(sync.graph, es)
                          /\ diverged' = diverged \cup Clobbers(sync.graph)
                          /\ sync' = NoSync
                     ELSE /\ sync' = [sync EXCEPT
                               !.step = IF S = {} THEN "acknowledged" ELSE "planned",
                               !.ids = PlannedIds(es),
                               !.clobbered = Clobbers(sync.graph),
                               !.ledger = ledger]
                          /\ UNCHANGED <<cache, diverged>>
      BY <1>3 DEF SyncPlan
    <2> DEFINE es == Planned(sync.graph, order, sync.offline)
    <2>4. S \in SUBSET Changed(sync.graph) /\ Clobbers(sync.graph) \subseteq Paths
      BY DEF Clobbers, Changed
    <2> HIDE DEF S
    <2>5. es \in Seq(Entry) /\ Len(es) = Cardinality(S) /\ DOMAIN es = 1 .. Cardinality(S) /\ Cardinality(S) \in Nat
      BY <2>1, <2>2, <2>4, PlannedFacts
    <2> HIDE DEF es
    <2>6. /\ journal' \in Seq(Entry) /\ Len(journal') = Len(journal) + Len(es)
          /\ Len(journal') <= MaxJournal /\ DOMAIN journal' = 1 .. Len(journal')
      BY <2>2, <2>3, <2>5, AppendedFacts DEF es
    <2>7. sync.offline => GraphAfter(sync.graph, es) \in Graph
      BY <2>1, <2>2, <2>5, GraphAfterType
    <2>8. PlannedIds(es) \in [1 .. Len(es) -> 1 .. MaxJournal]
      BY <2>5, <2>6, JournalFacts, MaxJournalNat DEF PlannedIds
    <2>9. PlannedIds(es) \in Seq(1 .. MaxJournal) /\ DOMAIN PlannedIds(es) = 1 .. Len(es)
      BY <2>5, <2>8, SequenceOf
    <2>10. \A k \in DOMAIN PlannedIds(es) : PlannedIds(es)[k] \in DOMAIN journal'
      BY <2>5, <2>6, <2>9, JournalFacts DEF PlannedIds
    <2>11. UNCHANGED <<store, disk, index, ledger, mode, notice, refresh>>
      BY <1>3 DEF SyncPlan
    <2>12. CASE sync.offline
      <3>1. cache' \in Graph \cup {NoGraph} /\ diverged' \subseteq Paths /\ sync' = NoSync
        BY <2>3, <2>4, <2>7, <2>12 DEF es, SyncTypeOK
      <3> QED
        BY <2>6, <2>11, <3>1 DEF SyncTypeOK, index
    <2>13. CASE ~sync.offline
      <3>1. sync' = [sync EXCEPT !.step = IF S = {} THEN "acknowledged" ELSE "planned",
                                 !.ids = PlannedIds(es), !.clobbered = Clobbers(sync.graph),
                                 !.ledger = ledger]
            /\ UNCHANGED <<cache, diverged>>
        BY <2>3, <2>13 DEF es
      <3>2. sync' \in SyncState /\ sync'.ids = PlannedIds(es)
        BY <1>0, <2>4, <2>9, <3>1 DEF SyncState, SyncTypeOK
      <3> QED
        BY <2>6, <2>10, <2>11, <3>1, <3>2 DEF SyncTypeOK, index
    <2> QED
      BY <2>12, <2>13
  <1>4. CASE SyncCommit
    <2>1. sync.graph \in Graph /\ sync.ids \in Seq(1 .. MaxJournal)
      BY <1>0 DEF SyncState
    <2>2. Entries(sync.ids) \in Seq(Entry)
      BY <2>1, EntriesType DEF SyncTypeOK
    <2>3. sync.graph.head.revision + Len(Entries(sync.ids)) <= MaxRevision
      BY <1>4 DEF SyncCommit, Commit
    <2>4. GraphAfter(sync.graph, Entries(sync.ids)) \in Graph
      BY <2>1, <2>2, <2>3, GraphAfterType
    <2>5. sync' = [sync EXCEPT !.step = "committed", !.graph = GraphAfter(sync.graph, Entries(sync.ids))]
      BY <1>4 DEF SyncCommit
    <2>6. sync' \in SyncState /\ sync'.ids = sync.ids
      BY <1>0, <2>4, <2>5 DEF SyncState
    <2> QED
      BY <1>4, <2>6 DEF SyncCommit, SyncTypeOK, index
  <1>5. CASE SyncAcknowledge
    <2>1. journal' \in Seq(Entry) /\ Len(journal') = Len(journal) /\ DOMAIN journal' = DOMAIN journal
      BY <1>5, MarkedFacts DEF SyncAcknowledge
    <2>2. sync' \in SyncState /\ sync'.ids = sync.ids
      BY <1>0, <1>5 DEF SyncAcknowledge, SyncState
    <2> QED
      BY <1>5, <2>1, <2>2 DEF SyncAcknowledge, SyncTypeOK, index
  <1>6. CASE SyncSettle
    <2>1. sync.graph.files \in Files /\ sync.graph.head.revision \in 0 .. MaxRevision
          /\ sync.ledger \in [Paths -> Writer] /\ sync.clobbered \subseteq Paths
      BY <1>0 DEF SyncState, Graph, HeadRow
    <2>2. \A p \in Paths : [saved |-> RevisionOf(sync.graph.files[p]), refreshed |-> NoFile] \in Writer
      BY <2>1, NoFileHasNoContent DEF Writer
    <2>3. ledger' \in [Paths -> Writer]
      BY <1>6, <2>1, <2>2 DEF SyncSettle, SyncTypeOK
    <2>4. manifest' \in Files /\ settled' \in 0 .. MaxRevision
      BY <1>6, <2>1 DEF SyncSettle, Indexed
    <2>5. diverged' \subseteq Paths
      BY <1>6, <2>1 DEF SyncSettle, SyncTypeOK
    <2>6. sync' = NoSync /\ UNCHANGED <<store, disk, journal, cache, mode, notice, refresh>>
      BY <1>6 DEF SyncSettle
    <2> QED
      BY <2>3, <2>4, <2>5, <2>6 DEF SyncTypeOK
  <1> QED
    BY <1>1, <1>2, <1>3, <1>4, <1>5, <1>6

\* The plan of a start, against the manifest.
Known == [head |-> EmptyHead, files |-> manifest]
Drifted == Changed(Known) \ {journal[i].path : i \in Open}

LEMMA StartFacts ==
  ASSUME StoreInv, SyncTypeOK, Start
  PROVE  \E es \in Seq(Entry) :
           /\ journal' = journal \o es /\ Len(journal) + Len(es) <= MaxJournal
           /\ \A k \in DOMAIN es :
                /\ es[k].path \in Drifted /\ es[k].status = "pending"
                /\ es[k].content # ContentOf(manifest[es[k].path])
                /\ es[k].base = RevisionOf(manifest[es[k].path])
  <1>1. Known \in Graph /\ Known.files = manifest
    BY StateTypes DEF Known, NoRead, Graph, SyncTypeOK
  <1>2. PICK order \in SetToSeqs(Drifted) : journal' = journal \o Planned(Known, order, TRUE)
    BY DEF Start, Known, Drifted
  <1>3. Len(journal) + Cardinality(Drifted) <= MaxJournal
    BY DEF Start, Known, Drifted
  <1>4. Drifted \in SUBSET Changed(Known)
    BY DEF Drifted
  <1> HIDE DEF Drifted, Known
  <1>5. PICK offline \in BOOLEAN :
          /\ offline \/ Known.head.revision + Cardinality(Drifted) <= MaxRevision
          /\ journal' = journal \o Planned(Known, order, offline)
    BY <1>2
  <1> DEFINE es == Planned(Known, order, offline)
  <1>6. es \in Seq(Entry) /\ Len(es) = Cardinality(Drifted)
    BY <1>1, <1>4, <1>5, PlannedFacts
  <1>7. \A k \in DOMAIN es : /\ es[k].path \in Drifted /\ es[k].status = "pending"
                             /\ es[k].content # ContentOf(Known.files[es[k].path])
                             /\ es[k].base = RevisionOf(Known.files[es[k].path])
    BY <1>1, <1>4, <1>5, PlannedFacts
  <1> HIDE DEF es
  <1> QED
    BY <1>1, <1>3, <1>5, <1>6, <1>7 DEF es

\* A start.
LEMMA StartupTypes ==
  ASSUME StoreInv, SyncTypeOK,
         Start \/ Recover \/ RecoverAcknowledge \/ HydrateRead \/ HydrateFinish
  PROVE  SyncTypeOK'
  <1> USE StateTypes
  <1>1. sync \in SyncState /\ refresh \in RefreshState
    BY DEF SyncTypeOK
  <1>2. CASE Start
    <2>1. PICK es \in Seq(Entry) : journal' = journal \o es /\ Len(journal) + Len(es) <= MaxJournal
      BY <1>2, StartFacts
    <2>2. /\ journal' \in Seq(Entry) /\ Len(journal') <= MaxJournal
          /\ DOMAIN journal \subseteq DOMAIN journal'
      BY <2>1, AppendedFacts DEF JournalGoesOn
    <2> QED
      BY <1>2, <2>2 DEF Start, SyncTypeOK, index
  <1>3. CASE Recover
    <2>1. PICK ids \in SetToSeqs(Ready) :
            LET es == Replay(ids)
                single == Cardinality(Candidates) = 1
                refused == ~Accepts(Cloud, es)
            IN  /\ diverged' = diverged \cup Apart
                /\ refresh' = [NoRefresh EXCEPT !.withheld = Apart]
                /\ journal' = Marked(Candidates \ (IF single /\ refused THEN {} ELSE Ready), "failed")
                /\ mode' = IF refused /\ ~single THEN "down"
                           ELSE IF refused \/ Ready # Candidates THEN "blocked"
                           ELSE IF Ready = {} THEN "hydrating"
                           ELSE "recovering"
                /\ IF refused \/ Ready = {} THEN UNCHANGED <<store, sync>>
                   ELSE /\ Commit(Cloud, es)
                        /\ sync' = [NoSync EXCEPT !.step = "committed", !.ids = ids,
                                                  !.graph = GraphAfter(Cloud, es)]
      BY <1>3 DEF Recover
    <2> DEFINE es == Replay(ids)
    <2>2. journal' \in Seq(Entry) /\ Len(journal') = Len(journal) /\ DOMAIN journal' = DOMAIN journal
      BY <2>1, MarkedFacts
    <2>3. refresh' \in RefreshState /\ diverged' \subseteq Paths
      BY <2>1, OpenFacts DEF RefreshState, SyncTypeOK
    <2>4. mode' \in {"down", "recovering", "blocked", "hydrating", "watching"}
      BY <2>1
    <2>5. sync' \in SyncState /\ \A k \in DOMAIN sync'.ids : sync'.ids[k] \in DOMAIN journal
      <3>1. /\ ids \in Seq(1 .. MaxJournal) /\ es \in Seq(Entry)
            /\ \A k \in DOMAIN ids : ids[k] \in DOMAIN journal
        BY ReplayFacts
      <3> HIDE DEF es
      <3>2. CASE UNCHANGED sync
        BY <3>2 DEF SyncTypeOK
      <3>3. CASE /\ Commit(Cloud, es)
                 /\ sync' = [NoSync EXCEPT !.step = "committed", !.ids = ids,
                                           !.graph = GraphAfter(Cloud, es)]
        <4>1. GraphAfter(Cloud, es) \in Graph
          BY <3>1, <3>3, GraphAfterType DEF Commit
        <4>2. sync' \in SyncState /\ sync'.ids = ids
          BY <3>1, <3>3, <4>1 DEF SyncState
        <4> QED
          BY <3>1, <4>2
      <3> QED
        BY <2>1, <3>2, <3>3 DEF es
    <2>6. UNCHANGED <<disk, cache, index, ledger, notice>>
      BY <1>3 DEF Recover
    <2> QED
      BY <2>2, <2>3, <2>4, <2>5, <2>6 DEF SyncTypeOK, index
  <1>4. CASE RecoverAcknowledge
    <2>1. journal' \in Seq(Entry) /\ Len(journal') = Len(journal) /\ DOMAIN journal' = DOMAIN journal
      BY <1>4, MarkedFacts DEF RecoverAcknowledge
    <2>2. sync.graph.files \in Files /\ sync.graph.head.revision \in 0 .. MaxRevision
      BY <1>1 DEF SyncState, Graph, HeadRow
    <2>3. /\ manifest' \in Files /\ settled' \in 0 .. MaxRevision
          /\ mode' \in {"down", "recovering", "blocked", "hydrating", "watching"}
      BY <1>4, <2>2 DEF RecoverAcknowledge, Indexed, SyncTypeOK, index
    <2>4. sync' = NoSync /\ UNCHANGED <<store, disk, cache, ledger, diverged, notice, refresh>>
      BY <1>4 DEF RecoverAcknowledge
    <2> QED
      BY <2>1, <2>3, <2>4 DEF SyncTypeOK
  <1>5. CASE HydrateRead
    <2>1. refresh' \in RefreshState
      BY <1>1, <1>5 DEF HydrateRead, RefreshState
    <2> QED
      BY <1>5, <2>1 DEF HydrateRead, SyncTypeOK, index
  <1>6. CASE HydrateFinish
    <2>1. manifest' \in Files /\ settled' \in 0 .. MaxRevision
      BY <1>1, <1>6 DEF HydrateFinish, Indexed, Materialized, RefreshState, Graph, HeadRow, Files
    <2> QED
      BY <1>6, <2>1 DEF HydrateFinish, SyncTypeOK
  <1> QED
    BY <1>2, <1>3, <1>4, <1>5, <1>6

\* A refresh.
LEMMA RefreshTypes ==
  ASSUME StoreInv, SyncTypeOK, Refresh
  PROVE  SyncTypeOK'
  <1> USE StateTypes
  <1>1. refresh \in RefreshState
    BY DEF SyncTypeOK
  <1>2. CASE RefreshRead
    <2>1. refresh' \in RefreshState
      BY <1>2 DEF RefreshRead, RefreshState
    <2> QED
      BY <1>2, <2>1 DEF RefreshRead, SyncTypeOK, index
  <1>3. CASE RefreshCheck
    <2>1. Withheld(refresh.graph) \subseteq Paths
      BY DEF Withheld, Changed
    <2>2. refresh' \in RefreshState
      BY <1>1, <1>3, <2>1 DEF RefreshCheck, RefreshState
    <2> QED
      BY <1>3, <2>2 DEF RefreshCheck, SyncTypeOK, index
  <1>4. CASE RefreshScan
    <2>1. Changed(refresh.graph) \ refresh.withheld \subseteq Paths
      BY DEF Changed
    <2>2. refresh' \in RefreshState
      BY <1>1, <1>4, <2>1 DEF RefreshScan, RefreshState
    <2> QED
      BY <1>4, <2>2 DEF RefreshScan, SyncTypeOK, index
  <1>5. ASSUME NEW p \in Paths, WriteDisk(p)
        PROVE  SyncTypeOK'
    <2>1. refresh' \in RefreshState
      BY <1>1, <1>5 DEF WriteDisk, RefreshState
    <2>2. ContentOf(refresh.graph.files[p]) \in Contents \cup {NoFile}
      BY <1>1, NoFileHasNoContent DEF RefreshState, Graph, Files, File
    <2>3. disk' \in [Paths -> Contents \cup {NoFile}] /\ notice' \in {"none", "raised", "queued"}
      BY <1>5, <2>2 DEF WriteDisk, Noticed, SyncTypeOK
    <2> QED
      BY <1>5, <2>1, <2>3 DEF WriteDisk, SyncTypeOK, index
  <1>6. CASE RefreshFinish
    <2>1. refresh.graph.files \in Files /\ refresh.graph.head.revision \in 0 .. MaxRevision
      BY <1>1 DEF RefreshState, Graph, HeadRow
    <2>2. manifest' \in Files /\ settled' \in 0 .. MaxRevision
      BY <1>6, <2>1 DEF RefreshFinish, Indexed, Materialized, Files, SyncTypeOK
    <2>3. \A p \in Paths : refresh.graph.files[p] # NoFile =>
            [ledger[p] EXCEPT !.refreshed = refresh.graph.files[p]] \in Writer
      BY <2>1 DEF Files, Writer, SyncTypeOK
    <2>4. ledger' \in [Paths -> Writer]
      BY <1>6, <2>3 DEF RefreshFinish, SyncTypeOK
    <2>5. refresh' = NoRefresh /\ UNCHANGED <<store, disk, journal, cache, diverged, mode, notice, sync>>
      BY <1>6 DEF RefreshFinish
    <2> QED
      BY <2>2, <2>4, <2>5 DEF SyncTypeOK
  <1>7. CASE RefreshStops
    BY <1>7 DEF RefreshStops, SyncTypeOK, index
  <1> QED
    BY <1>2, <1>3, <1>4, <1>5, <1>6, <1>7 DEF Refresh

LEMMA NextTypes == StoreInv /\ SyncTypeOK /\ [SyncNext]_svars => SyncTypeOK'
  <1> SUFFICES ASSUME StoreInv, SyncTypeOK, [SyncNext]_svars PROVE SyncTypeOK'
    OBVIOUS
  <1>1. CASE UNCHANGED svars
    BY <1>1 DEF svars, agent, index, SyncTypeOK
  <1> QED
    BY <1>1, OutsideTypes, SyncTypes, StartupTypes, RefreshTypes
    DEF SyncNext, Outside, Sync, Startup

-------------------------------------------------------------------------------
(* The inductive invariant. *)

\* The copies the agent materializes from, and the manifest, are told by the history.
\* What an offline sync works from may hold files it only planned.
CopiesTold ==
  /\ ToldBy(manifest, versions, head.revision)
  /\ ToldBy(refresh.graph.files, versions, head.revision)
  /\ ~sync.offline => ToldBy(sync.graph.files, versions, head.revision)

OfflineOnlyPlans == sync.offline => sync.step = "read"

\* A sync plans against a graph that is the current one, or that its swap will find
\* out of date.
PlanIsCurrentOrRefused ==
  (sync.step \in {"read", "planned"} /\ ~sync.offline) =>
    /\ sync.graph.head.revision <= head.revision
    /\ sync.graph.head = head => sync.graph.files = files

\* Its plan has an edit, each edit is of a path of its own and changes it.
PlanChangesPaths ==
  sync.step = "planned" =>
    /\ sync.ids # <<>>
    /\ \A j, k \in DOMAIN sync.ids :
         journal[sync.ids[j]].path = journal[sync.ids[k]].path => j = k
    /\ \A k \in DOMAIN sync.ids :
         journal[sync.ids[k]].content # ContentOf(sync.graph.files[journal[sync.ids[k]].path])

\* What a sync or a recovery committed is recorded, before it acknowledges it.
CommittedIsRecorded ==
  sync.step = "committed" =>
    \A k \in DOMAIN sync.ids :
      Recorded(journal[sync.ids[k]].path, journal[sync.ids[k]].content)

\* An open entry for a path that had no file is not a deletion.
OpenAdditionsWrite == \A i \in Open : journal[i].base = NoFile => journal[i].content # NoFile

\* A path the history knows nothing of.
Rowless(p) == \A row \in versions : row.path # p

\* The journal holds an edit that would add the path.
Waiting(p) == \E i \in Open : journal[i].path = p /\ journal[i].base = NoFile

\* Whatever the agent knows of a path without a history comes from an edit that waits in
\* the journal: nothing else has it diverge, be deleted or be overwritten.
NeverStored ==
  \A p \in Paths : Rowless(p) =>
    /\ p \notin diverged /\ p \notin sync.clobbered
    /\ ledger[p].refreshed = NoFile /\ sync.ledger[p].refreshed = NoFile
    /\ (\E i \in Open : journal[i].path = p) => Waiting(p)
    /\ (cache # NoGraph /\ cache.files[p] # NoFile) => Waiting(p)
    /\ (sync.offline /\ sync.graph.files[p] # NoFile) => Waiting(p)

\* The inductive invariant.  That a commit is one batch needs NeverStored for the
\* deletions of a recovery, and the deletions' rows need DeletionsIn (StoreTells).
SyncInv ==
  /\ StoreInv /\ StoreTells /\ SyncTypeOK
  /\ CopiesTold /\ OfflineOnlyPlans
  /\ PlanIsCurrentOrRefused /\ PlanChangesPaths
  /\ CommittedIsRecorded /\ AcknowledgedIsRecorded
  /\ OpenAdditionsWrite /\ NeverStored

LEMMA InitSyncInv == SyncInit => SyncInv
  <1> SUFFICES ASSUME SyncInit PROVE SyncInv
    OBVIOUS
  <1>1. StoreInv /\ SyncTypeOK
    BY InitTypes, InitStoreInv DEF SyncInit
  <1>2. /\ \A p \in Paths : NoFiles[p] = NoFile /\ NoSync.graph.files[p] = NoFile
                            /\ NoRefresh.graph.files[p] = NoFile
        /\ NoSync.step = "idle" /\ NoSync.offline = FALSE /\ NoSync.clobbered = {}
        /\ \A p \in Paths : NoSync.ledger[p].refreshed = NoFile
    BY DEF NoFiles, NoSync, NoRefresh, NoRead, NoWriter
  <1>3. StoreTells /\ CopiesTold
    BY <1>2 DEF SyncInit, StoreInit, StoreTells, ToldBy, NewestIn, DeletionsIn, CopiesTold
  <1>4. DOMAIN journal = {} /\ Open = {}
    BY <1>1, EmptySeq, JournalFacts DEF SyncInit, Open
  <1>5. OfflineOnlyPlans /\ PlanIsCurrentOrRefused /\ PlanChangesPaths /\ CommittedIsRecorded
    BY <1>2 DEF SyncInit, OfflineOnlyPlans, PlanIsCurrentOrRefused, PlanChangesPaths, CommittedIsRecorded
  <1>6. AcknowledgedIsRecorded /\ OpenAdditionsWrite
    BY <1>4 DEF AcknowledgedIsRecorded, OpenAdditionsWrite
  <1>7. NeverStored
    BY <1>2, <1>4 DEF SyncInit, NeverStored, NoWriter
  <1> QED
    BY <1>1, <1>3, <1>5, <1>6, <1>7 DEF SyncInv

-------------------------------------------------------------------------------
(* What a step does to the store and the journal. *)

\* The history grows, by rows of later revisions.
Grows ==
  /\ head'.revision \in Nat /\ head'.revision > head.revision
  /\ \E more \in SUBSET Version :
       /\ versions' = versions \cup more
       /\ \A row \in more : row.at \in Nat /\ row.at > head.revision

LEMMA StoreGrows ==
  ASSUME StoreInv, StoreTells, NEW batch \in Batches, NEW n \in Nat \ {0},
         NEW order \in Numberings(DOMAIN batch, n),
         Takes(n), Changes(batch, order)
  PROVE  /\ StoreInv' /\ StoreTells' /\ Grows
         /\ ToldBy(files', versions', head'.revision)
         /\ \A p \in DOMAIN batch :
              Recorded(p, batch[p])' \/ (batch[p] = NoFile /\ files[p] = NoFile /\ Rowless(p))
  <1> DEFINE more == VersionRows(files, head.revision, batch, order)
  <1>1. /\ head \in HeadRow /\ files \in Files /\ versions \in SUBSET Version
        /\ head.revision \in 0 .. MaxRevision /\ head.revision + n <= MaxRevision
        /\ OneChangeEach(files, versions, head.revision)
    BY DEF StoreInv, HeadRow, Takes
  <1>2. StoreInv' /\ head'.revision = head.revision + n /\ head'.revision > head.revision
    BY StoreMoves
  <1>3. files' = Applied(files, head.revision, batch, order) /\ versions' = versions \cup more
    BY DEF Changes
  <1>4. more \in SUBSET Version /\ \A row \in more : row.at \in Nat /\ row.at > head.revision
    BY <1>1, VersionRowsType DEF Version
  <1>5. Grows
    <2>1. head'.revision \in Nat
      BY <1>1, <1>2
    <2> HIDE DEF more
    <2> QED
      BY <1>2, <1>3, <1>4, <2>1 DEF Grows
  <1>6. StoreTells' /\ ToldBy(files', versions', head'.revision)
    BY <1>1, <1>2, <1>3, BatchKeepsTelling DEF StoreTells
  <1>7. ASSUME NEW p \in DOMAIN batch
        PROVE  Recorded(p, batch[p])' \/ (batch[p] = NoFile /\ files[p] = NoFile /\ Rowless(p))
    <2>1. p \in Paths
      BY BatchFacts
    <2>2. CASE batch[p] # ContentOf(files[p])
      <3>1. \E row \in more : row.path = p /\ row.content = batch[p]
        BY <1>1, <2>2, RowOfChange
      <3> QED
        BY <1>3, <3>1 DEF Recorded
    <2>3. CASE batch[p] = ContentOf(files[p]) /\ batch[p] # NoFile
      <3>1. files[p] # NoFile /\ files[p].content = batch[p]
        BY <1>1, <2>1, <2>3, NoFileHasNoContent
      <3>2. \E row \in versions : row.path = p /\ row.content = batch[p]
        BY <2>1, <3>1 DEF StoreTells, ToldBy, Tells
      <3> QED
        BY <1>3, <3>2 DEF Recorded
    <2>4. CASE batch[p] = ContentOf(files[p]) /\ batch[p] = NoFile
      <3>1. files[p] = NoFile
        BY <1>1, <2>1, <2>4, NoFileHasNoContent
      <3>2. Rowless(p) \/ \E row \in versions : row.path = p /\ row.content = batch[p]
        BY <2>1, <2>4, <3>1 DEF StoreTells, DeletionsIn, Rowless
      <3> QED
        BY <1>3, <2>4, <3>1, <3>2 DEF Recorded
    <2> QED
      BY <2>2, <2>3, <2>4
  <1> QED
    BY <1>2, <1>5, <1>6, <1>7

\* What a growing history still tells.
LEMMA GrowthKeeps ==
  ASSUME StoreInv, Grows \/ UNCHANGED store
  PROVE  /\ head'.revision >= head.revision
         /\ \A fs \in Files : ToldBy(fs, versions, head.revision) => ToldBy(fs, versions', head'.revision)
         /\ \A p, content : Recorded(p, content) => Recorded(p, content)'
         /\ \A p : Rowless(p)' => Rowless(p)
         /\ head' = head => UNCHANGED store
  <1>1. head.revision \in Nat /\ versions \in SUBSET Version
    BY DEF StoreInv, HeadRow
  <1>2. CASE UNCHANGED store
    BY <1>1, <1>2 DEF store, Recorded, Rowless
  <1>3. CASE Grows
    <2>1. PICK more \in SUBSET Version :
            /\ versions' = versions \cup more
            /\ \A row \in more : row.at \in Nat /\ row.at > head.revision
      BY <1>3 DEF Grows
    <2>2. head'.revision \in Nat /\ head'.revision > head.revision
      BY <1>3 DEF Grows
    <2>3. \A fs \in Files : ToldBy(fs, versions, head.revision) => ToldBy(fs, versions', head'.revision)
      BY <1>1, <2>1, <2>2, ToldLater
    <2>4. \A p, content : Recorded(p, content) => Recorded(p, content)'
      BY <2>1 DEF Recorded
    <2>5. \A p : Rowless(p)' => Rowless(p)
      BY <2>1 DEF Rowless
    <2>6. head' # head /\ head'.revision >= head.revision
      BY <1>1, <2>2
    <2> QED
      BY <2>3, <2>4, <2>5, <2>6
  <1> QED
    BY <1>2, <1>3

-------------------------------------------------------------------------------
(* What leaves the invariant alone. *)

LEMMA IdleFacts ==
  /\ NoSync.step = "idle" /\ NoSync.offline = FALSE /\ NoSync.clobbered = {}
  /\ \A p \in Paths : NoSync.ledger[p].refreshed = NoFile
  /\ \A rows, revision : ToldBy(NoSync.graph.files, rows, revision)
                         /\ ToldBy(NoRefresh.graph.files, rows, revision)
  BY DEF NoSync, NoRefresh, NoRead, NoFiles, NoWriter, ToldBy

\* The copies and the plan, in a step that does not move the sync on.
LEMMA CopiesStay ==
  ASSUME SyncInv, SyncTypeOK', Grows \/ UNCHANGED store, JournalGoesOn,
         sync' = sync \/ sync' = NoSync,
         manifest' = manifest \/ ToldBy(manifest', versions', head'.revision),
         \/ refresh'.graph = refresh.graph
         \/ ToldBy(refresh'.graph.files, versions', head'.revision)
  PROVE  /\ CopiesTold' /\ OfflineOnlyPlans'
         /\ PlanIsCurrentOrRefused' /\ PlanChangesPaths' /\ CommittedIsRecorded'
  <1>0. manifest \in Files /\ sync \in SyncState /\ refresh \in RefreshState /\ head.revision \in Nat
    BY DEF SyncInv, SyncTypeOK, StoreInv, HeadRow
  <1>a. head'.revision \in Nat
    <2>1. CASE Grows
      BY <2>1 DEF Grows
    <2>2. CASE UNCHANGED store
      BY <1>0, <2>2 DEF store
    <2> QED
      BY <2>1, <2>2
  <1>1. /\ manifest \in Files /\ refresh.graph.files \in Files
        /\ sync.graph \in Graph /\ sync.graph.files \in Files
        /\ head.revision \in Nat /\ head'.revision \in Nat
    BY <1>0, <1>a DEF SyncState, RefreshState, Graph
  <1>2. CopiesTold'
    BY <1>1, GrowthKeeps, IdleFacts DEF SyncInv, CopiesTold
  <1>3. OfflineOnlyPlans'
    BY IdleFacts DEF SyncInv, OfflineOnlyPlans
  <1>4. PlanIsCurrentOrRefused'
    <2>1. CASE sync' = NoSync
      BY <2>1, IdleFacts DEF PlanIsCurrentOrRefused
    <2>2. CASE sync' = sync /\ UNCHANGED store
      BY <2>2 DEF SyncInv, PlanIsCurrentOrRefused, store
    <2>3. CASE sync' = sync /\ Grows
      <3>1. head'.revision > head.revision
        BY <2>3 DEF Grows
      <3>2. sync.graph.head.revision \in Nat
        BY <1>1 DEF Graph, HeadRow
      <3>3. (sync.step \in {"read", "planned"} /\ ~sync.offline) => sync.graph.head.revision < head'.revision
        BY <1>1, <3>1, <3>2 DEF SyncInv, PlanIsCurrentOrRefused
      <3> QED
        BY <1>1, <2>3, <3>2, <3>3 DEF PlanIsCurrentOrRefused
    <2> QED
      BY <2>1, <2>2, <2>3
  <1>5. sync.ids \in Seq(1 .. MaxJournal) /\ \A k \in DOMAIN sync.ids : sync.ids[k] \in DOMAIN journal
    BY DEF SyncInv, SyncTypeOK, SyncState
  <1>6. PlanChangesPaths'
    BY <1>5, IdleFacts DEF SyncInv, PlanChangesPaths, JournalGoesOn
  <1>7. CommittedIsRecorded'
    BY <1>5, IdleFacts, GrowthKeeps DEF SyncInv, CommittedIsRecorded, JournalGoesOn
  <1> QED
    BY <1>2, <1>3, <1>4, <1>6, <1>7

\* Acknowledgements and open entries, in a step that says so of the new ones.
LEMMA JournalStays ==
  ASSUME SyncInv, Grows \/ UNCHANGED store, JournalGoesOn,
         \A i \in DOMAIN journal' : journal'[i].status = "acknowledged" =>
           \/ i \in DOMAIN journal /\ journal[i].status = "acknowledged"
           \/ Recorded(journal[i].path, journal[i].content)',
         \A i \in Open' : i \in Open \/ (journal'[i].base = NoFile => journal'[i].content # NoFile)
  PROVE  AcknowledgedIsRecorded' /\ OpenAdditionsWrite'
  <1>1. AcknowledgedIsRecorded'
    BY GrowthKeeps DEF SyncInv, AcknowledgedIsRecorded, JournalGoesOn
  <1>2. OpenAdditionsWrite'
    BY DEF SyncInv, OpenAdditionsWrite, JournalGoesOn, Open
  <1> QED
    BY <1>1, <1>2

\* An edit that waits goes on to wait, until its path has a history.
LEMMA WaitingStays ==
  ASSUME SyncInv, Grows \/ UNCHANGED store, JournalGoesOn,
         \A i \in Open : \/ i \in Open'
                         \/ journal[i].path \in diverged
                         \/ Recorded(journal[i].path, journal[i].content)',
         NEW p \in Paths, Rowless(p)', Waiting(p)
  PROVE  Waiting(p)'
  <1>1. PICK i \in Open : journal[i].path = p /\ journal[i].base = NoFile
    BY DEF Waiting
  <1>2. Rowless(p) /\ p \notin diverged
    BY GrowthKeeps DEF SyncInv, NeverStored
  <1>3. i \in DOMAIN journal /\ journal'[i].path = p
    BY <1>1 DEF Open, JournalGoesOn
  <1>4. i \in Open'
    <2>1. ~Recorded(journal[i].path, journal[i].content)'
      BY <1>3 DEF Recorded, Rowless
    <2> QED
      BY <1>1, <1>2, <2>1
  <1> QED
    BY <1>1, <1>3, <1>4 DEF Waiting, JournalGoesOn

LEMMA NeverStoredStays ==
  ASSUME SyncInv, Grows \/ UNCHANGED store, JournalGoesOn,
         \A i \in Open : \/ i \in Open'
                         \/ journal[i].path \in diverged
                         \/ Recorded(journal[i].path, journal[i].content)',
         \A p \in Paths : Rowless(p)' =>
           /\ p \notin diverged' /\ p \notin sync'.clobbered
           /\ ledger'[p].refreshed = NoFile /\ sync'.ledger[p].refreshed = NoFile
           /\ \A i \in Open' : journal'[i].path = p => i \in Open \/ Waiting(p)'
           /\ (cache' # NoGraph /\ cache'.files[p] # NoFile) =>
                Waiting(p)' \/ (cache # NoGraph /\ cache.files[p] # NoFile)
           /\ (sync'.offline /\ sync'.graph.files[p] # NoFile) =>
                \/ Waiting(p)'
                \/ cache # NoGraph /\ cache.files[p] # NoFile
                \/ sync.offline /\ sync.graph.files[p] # NoFile
  PROVE  NeverStored'
  <1> SUFFICES ASSUME NEW p \in Paths, Rowless(p)'
               PROVE  /\ (\E i \in Open' : journal'[i].path = p) => Waiting(p)'
                      /\ (cache' # NoGraph /\ cache'.files[p] # NoFile) => Waiting(p)'
                      /\ (sync'.offline /\ sync'.graph.files[p] # NoFile) => Waiting(p)'
    BY DEF NeverStored
  <1>1. Waiting(p) => Waiting(p)'
    BY WaitingStays
  <1>2. /\ (\E i \in Open : journal[i].path = p) => Waiting(p)
        /\ (cache # NoGraph /\ cache.files[p] # NoFile) => Waiting(p)
        /\ (sync.offline /\ sync.graph.files[p] # NoFile) => Waiting(p)
    BY GrowthKeeps DEF SyncInv, NeverStored
  <1>3. \A i \in Open : i \in DOMAIN journal
    BY DEF Open
  <1>4. (\E i \in Open' : journal'[i].path = p) => Waiting(p)'
    BY <1>1, <1>2, <1>3 DEF JournalGoesOn
  <1> QED
    BY <1>1, <1>2, <1>4

\* A step that touches neither the store nor the journal, and moves no sync on.
LEMMA QuietStep ==
  ASSUME SyncInv, SyncTypeOK', UNCHANGED <<store, journal, cache, diverged>>,
         \A p \in Paths : Rowless(p) => ledger'[p].refreshed = NoFile,
         sync' = sync \/ sync' = NoSync,
         manifest' = manifest \/ ToldBy(manifest', versions, head.revision),
         \/ refresh'.graph = refresh.graph
         \/ ToldBy(refresh'.graph.files, versions, head.revision)
  PROVE  SyncInv'
  <1>1. UNCHANGED store /\ UNCHANGED journal /\ UNCHANGED cache /\ UNCHANGED diverged
        /\ versions' = versions /\ head' = head /\ files' = files
    BY DEF store
  <1>2. JournalGoesOn /\ Open' = Open
    BY <1>1 DEF JournalGoesOn, Open
  <1>3. StoreInv' /\ StoreTells'
    BY <1>1 DEF SyncInv, StoreInv, StoreTells
  <1>4. CopiesTold' /\ OfflineOnlyPlans' /\ PlanIsCurrentOrRefused' /\ PlanChangesPaths' /\ CommittedIsRecorded'
    BY <1>1, <1>2, CopiesStay
  <1>5. AcknowledgedIsRecorded' /\ OpenAdditionsWrite'
    BY <1>1, <1>2 DEF SyncInv, AcknowledgedIsRecorded, OpenAdditionsWrite, Recorded
  <1>6. NeverStored'
    <2>1. \A p \in Paths : Rowless(p)' =>
            /\ Rowless(p)
            /\ p \notin diverged /\ p \notin sync'.clobbered /\ sync'.ledger[p].refreshed = NoFile
            /\ (sync'.offline /\ sync'.graph.files[p] # NoFile) => (sync.offline /\ sync.graph.files[p] # NoFile)
      BY <1>1, IdleFacts DEF SyncInv, NeverStored, Rowless
    <2> QED
      BY <1>1, <1>2, <2>1, NeverStoredStays
  <1> QED
    BY <1>3, <1>4, <1>5, <1>6 DEF SyncInv

-------------------------------------------------------------------------------
(* Each action keeps the invariant. *)

\* What a step starts from.
LEMMA StateFacts ==
  ASSUME SyncInv
  PROVE  /\ StoreInv /\ SyncTypeOK
         /\ sync \in SyncState /\ refresh \in RefreshState
         /\ manifest \in Files /\ files \in Files /\ versions \in SUBSET Version
         /\ sync.graph \in Graph /\ sync.graph.files \in Files /\ refresh.graph.files \in Files
         /\ head \in HeadRow /\ head.revision \in 0 .. MaxRevision
         /\ ToldBy(files, versions, head.revision)
         /\ \A rows, revision : ToldBy(NoFiles, rows, revision)
  <1>1. /\ StoreInv /\ SyncTypeOK /\ sync \in SyncState /\ refresh \in RefreshState
        /\ manifest \in Files /\ ToldBy(files, versions, head.revision)
    BY DEF SyncInv, SyncTypeOK, StoreTells
  <1>2. files \in Files /\ versions \in SUBSET Version /\ head \in HeadRow
    BY <1>1 DEF StoreInv
  <1>3. sync.graph \in Graph /\ sync.graph.files \in Files /\ refresh.graph.files \in Files
    BY <1>1 DEF SyncState, RefreshState, Graph
  <1>4. head.revision \in 0 .. MaxRevision
    BY <1>2 DEF HeadRow
  <1>5. \A rows, revision : ToldBy(NoFiles, rows, revision)
    BY DEF ToldBy, NoFiles
  <1> QED
    BY <1>1, <1>2, <1>3, <1>4, <1>5

\* The steps that only move the agent, its copies or the folder.
LEMMA QuietActions ==
  ASSUME SyncInv, SyncTypeOK',
         \/ \E p \in Paths, content \in Contents \cup {NoFile} : Edit(p, content)
         \/ Notice \/ AgentDies \/ SyncFails
         \/ HydrateRead \/ HydrateFinish
         \/ RefreshRead \/ RefreshCheck \/ RefreshScan \/ RefreshFinish \/ RefreshStops
         \/ \E p \in Paths : WriteDisk(p)
  PROVE  SyncInv'
  <1>1. /\ sync \in SyncState /\ refresh \in RefreshState
        /\ refresh.graph.files \in Files /\ ToldBy(files, versions, head.revision)
        /\ ToldBy(refresh.graph.files, versions, head.revision)
        /\ ToldBy(manifest, versions, head.revision)
    BY StateFacts DEF SyncInv, CopiesTold
  <1>2. \A p \in Paths : Rowless(p) => ledger[p].refreshed = NoFile
    BY DEF SyncInv, NeverStored
  <1>3. ToldBy(Materialized, versions, head.revision)
    BY <1>1 DEF ToldBy, Materialized
  <1>4. ToldBy(Cloud.files, versions, head.revision) /\ ToldBy(NoRefresh.graph.files, versions, head.revision)
    BY <1>1, IdleFacts DEF Cloud
  <1>5. ASSUME NEW p \in Paths, NEW content \in Contents \cup {NoFile}, Edit(p, content)
        PROVE  SyncInv'
    BY <1>2, <1>5, QuietStep DEF Edit, index
  <1>6. CASE Notice
    BY <1>2, <1>6, QuietStep DEF Notice, index
  <1>7. CASE AgentDies
    BY <1>2, <1>4, <1>7, QuietStep DEF AgentDies, index
  <1>8. CASE SyncFails
    BY <1>2, <1>8, QuietStep DEF SyncFails, index
  <1>9. CASE HydrateRead
    <2>1. refresh'.graph = Cloud
      BY <1>1, <1>9 DEF HydrateRead, RefreshState
    <2>2. UNCHANGED <<store, journal, cache, diverged>> /\ ledger' = ledger /\ sync' = sync /\ manifest' = manifest
      BY <1>9 DEF HydrateRead, index
    <2> QED
      BY <1>2, <1>4, <2>1, <2>2, QuietStep
  <1>10. CASE HydrateFinish
    <2>1. /\ UNCHANGED <<store, journal, cache, diverged>> /\ ledger' = ledger /\ sync' = sync
          /\ manifest' = Materialized /\ refresh' = NoRefresh
      BY <1>10 DEF HydrateFinish, Indexed
    <2> QED
      BY <1>2, <1>3, <1>4, <2>1, QuietStep
  <1>11. CASE RefreshRead
    <2>1. refresh'.graph = Cloud
      BY <1>11 DEF RefreshRead, NoRefresh
    <2>2. UNCHANGED <<store, journal, cache, diverged>> /\ ledger' = ledger /\ sync' = sync /\ manifest' = manifest
      BY <1>11 DEF RefreshRead, index
    <2> QED
      BY <1>2, <1>4, <2>1, <2>2, QuietStep
  <1>12. CASE RefreshCheck
    <2>1. refresh'.graph = refresh.graph
      BY <1>1, <1>12 DEF RefreshCheck, RefreshState
    <2>2. UNCHANGED <<store, journal, cache, diverged>> /\ ledger' = ledger /\ sync' = sync /\ manifest' = manifest
      BY <1>12 DEF RefreshCheck, index
    <2> QED
      BY <1>2, <2>1, <2>2, QuietStep
  <1>13. CASE RefreshScan
    <2>1. refresh'.graph = refresh.graph
      BY <1>1, <1>13 DEF RefreshScan, RefreshState
    <2>2. UNCHANGED <<store, journal, cache, diverged>> /\ ledger' = ledger /\ sync' = sync /\ manifest' = manifest
      BY <1>13 DEF RefreshScan, index
    <2> QED
      BY <1>2, <2>1, <2>2, QuietStep
  <1>14. ASSUME NEW p \in Paths, WriteDisk(p)
         PROVE  SyncInv'
    <2>1. refresh'.graph = refresh.graph
      BY <1>1, <1>14 DEF WriteDisk, RefreshState
    <2>2. UNCHANGED <<store, journal, cache, diverged>> /\ ledger' = ledger /\ sync' = sync /\ manifest' = manifest
      BY <1>14 DEF WriteDisk, index
    <2> QED
      BY <1>2, <2>1, <2>2, QuietStep
  <1>15. CASE RefreshFinish
    <2>1. /\ UNCHANGED <<store, journal, cache, diverged>> /\ sync' = sync
          /\ manifest' = Materialized /\ refresh' = NoRefresh
      BY <1>15 DEF RefreshFinish, Indexed
    <2>2. ASSUME NEW p \in Paths, Rowless(p)
          PROVE  ledger'[p].refreshed = NoFile
      <3>1. refresh.graph.files[p] = NoFile
        BY <1>1, <2>2 DEF ToldBy, Tells, Rowless
      <3>2. ledger'[p] \in {ledger[p], NoWriter}
        BY <1>15, <3>1 DEF RefreshFinish
      <3> QED
        BY <1>2, <2>2, <3>2 DEF NoWriter
    <2> QED
      BY <1>3, <1>4, <2>1, <2>2, QuietStep
  <1>16. CASE RefreshStops
    BY <1>2, <1>4, <1>16, QuietStep DEF RefreshStops, index
  <1> QED
    BY <1>5, <1>6, <1>7, <1>8, <1>9, <1>10, <1>11, <1>12, <1>13, <1>14, <1>15, <1>16

LEMMA StoreUntouched ==
  ASSUME SyncInv, UNCHANGED store
  PROVE  /\ StoreInv' /\ StoreTells'
         /\ head' = head /\ files' = files /\ versions' = versions
         /\ UNCHANGED journal =>
              JournalGoesOn /\ Open' = Open /\ AcknowledgedIsRecorded' /\ OpenAdditionsWrite'
  <1>1. head' = head /\ files' = files /\ versions' = versions
    BY DEF store
  <1>2. StoreInv' /\ StoreTells'
    BY <1>1 DEF SyncInv, StoreInv, StoreTells
  <1>3. ASSUME journal' = journal
        PROVE  JournalGoesOn /\ Open' = Open /\ AcknowledgedIsRecorded' /\ OpenAdditionsWrite'
    <2>1. JournalGoesOn /\ Open' = Open
      BY <1>3 DEF JournalGoesOn, Open
    <2> QED
      BY <1>1, <1>3, <2>1 DEF SyncInv, AcknowledgedIsRecorded, OpenAdditionsWrite, Recorded
  <1> QED
    BY <1>1, <1>2, <1>3

\* A sync that reads a graph: the cloud's, or the cached one.
LEMMA SyncReadKeeps ==
  ASSUME SyncInv, SyncTypeOK', SyncRead \/ SyncReadCached
  PROVE  SyncInv'
  <1>1. /\ UNCHANGED <<store, journal>> /\ ledger' = ledger /\ diverged' = diverged
        /\ manifest' = manifest /\ refresh' = refresh
    BY DEF SyncRead, SyncReadCached, index
  <1>2. /\ StoreInv' /\ StoreTells' /\ JournalGoesOn /\ Open' = Open
        /\ AcknowledgedIsRecorded' /\ OpenAdditionsWrite'
        /\ head' = head /\ files' = files /\ versions' = versions
    BY <1>1, StoreUntouched
  <1>3. /\ sync'.step = "read" /\ sync'.clobbered = {}
        /\ \A p \in Paths : sync'.ledger[p].refreshed = NoFile
        /\ \/ ~sync'.offline /\ sync'.graph = Cloud /\ cache' = Cloud
           \/ sync'.offline /\ sync'.graph = cache /\ cache' = cache /\ cache # NoGraph
    BY IdleFacts DEF SyncRead, SyncReadCached, NoSync
  <1>4. Cloud.head = head /\ Cloud.files = files /\ head.revision \in Nat
    BY StateFacts DEF Cloud
  <1>5. CopiesTold'
    BY <1>1, <1>2, <1>3, <1>4, StateFacts DEF SyncInv, CopiesTold
  <1>6. OfflineOnlyPlans' /\ PlanChangesPaths' /\ CommittedIsRecorded'
    BY <1>3 DEF OfflineOnlyPlans, PlanChangesPaths, CommittedIsRecorded
  <1>7. PlanIsCurrentOrRefused'
    BY <1>2, <1>3, <1>4 DEF PlanIsCurrentOrRefused
  <1>8. NeverStored'
    <2>1. \A p \in Paths : Rowless(p)' => Rowless(p) /\ files[p] = NoFile
      BY <1>2, StateFacts DEF Rowless, ToldBy, Tells
    <2>2. \A p \in Paths : Rowless(p)' => p \notin diverged' /\ ledger'[p].refreshed = NoFile
      BY <1>1, <2>1 DEF SyncInv, NeverStored
    <2>3. \A p \in Paths : Rowless(p)' =>
            /\ (cache' # NoGraph /\ cache'.files[p] # NoFile) => (cache # NoGraph /\ cache.files[p] # NoFile)
            /\ (sync'.offline /\ sync'.graph.files[p] # NoFile) => (cache # NoGraph /\ cache.files[p] # NoFile)
      BY <1>3, <1>4, <2>1
    <2> QED
      BY <1>1, <1>2, <1>3, <2>2, <2>3, NeverStoredStays
  <1> QED
    BY <1>2, <1>5, <1>6, <1>7, <1>8 DEF SyncInv

LEMMA SyncSettleKeeps ==
  ASSUME SyncInv, SyncTypeOK', SyncSettle
  PROVE  SyncInv'
  <1>1. /\ UNCHANGED <<store, journal>> /\ cache' = cache /\ refresh' = refresh
        /\ diverged' = diverged \cup sync.clobbered
        /\ manifest' = sync.graph.files /\ sync' = NoSync
    BY DEF SyncSettle, Indexed
  <1>2. /\ StoreInv' /\ StoreTells' /\ JournalGoesOn /\ Open' = Open
        /\ AcknowledgedIsRecorded' /\ OpenAdditionsWrite'
        /\ head' = head /\ files' = files /\ versions' = versions
    BY <1>1, StoreUntouched
  <1>3. ToldBy(manifest', versions', head'.revision)
    BY <1>1, <1>2 DEF SyncSettle, SyncInv, OfflineOnlyPlans, CopiesTold
  <1>4. CopiesTold' /\ OfflineOnlyPlans' /\ PlanIsCurrentOrRefused' /\ PlanChangesPaths' /\ CommittedIsRecorded'
    BY <1>1, <1>2, <1>3, CopiesStay
  <1>5. NeverStored'
    <2>1. ASSUME NEW p \in Paths, Rowless(p)'
          PROVE  p \notin diverged' /\ ledger'[p].refreshed = NoFile
      <3>1. /\ p \notin diverged /\ p \notin sync.clobbered
            /\ ledger[p].refreshed = NoFile /\ sync.ledger[p].refreshed = NoFile
        BY <1>2, <2>1 DEF SyncInv, NeverStored, Rowless
      <3>2. \/ ledger' = ledger
            \/ ledger'[p] = sync.ledger[p]
            \/ ledger'[p] = [saved |-> RevisionOf(sync.graph.files[p]), refreshed |-> NoFile]
        BY DEF SyncSettle
      <3> QED
        BY <1>1, <3>1, <3>2
    <2> QED
      BY <1>1, <1>2, <2>1, IdleFacts, NeverStoredStays
  <1> QED
    BY <1>2, <1>4, <1>5 DEF SyncInv

\* A plan that is appended to the journal.
LEMMA PlanAppended ==
  ASSUME SyncInv, UNCHANGED store,
         NEW es \in Seq(Entry), Len(journal) + Len(es) <= MaxJournal, journal' = journal \o es,
         NEW g \in Graph,
         \A k \in DOMAIN es :
           /\ es[k].status = "pending"
           /\ es[k].content # ContentOf(g.files[es[k].path])
           /\ es[k].base = RevisionOf(g.files[es[k].path]),
         \A p \in Paths : (Rowless(p) /\ g.files[p] # NoFile) => Waiting(p)
  PROVE  /\ JournalGoesOn /\ AcknowledgedIsRecorded' /\ OpenAdditionsWrite'
         /\ \A i \in Open : i \in Open'
         /\ \A p \in Paths : Rowless(p)' =>
              /\ \A i \in Open' : journal'[i].path = p => i \in Open \/ Waiting(p)'
              /\ FileAfter(g, es, p, Len(es)) # NoFile => Waiting(p)'
  <1>1. /\ JournalGoesOn
        /\ \A i \in DOMAIN journal : i \in DOMAIN journal' /\ journal'[i] = journal[i]
        /\ \A k \in DOMAIN es : Len(journal) + k \in DOMAIN journal' /\ journal'[Len(journal) + k] = es[k]
        /\ \A i \in DOMAIN journal' \ DOMAIN journal :
             \E k \in DOMAIN es : i = Len(journal) + k /\ journal'[i] = es[k]
    BY StateFacts, AppendedFacts DEF JournalGoesOn
  <1>2. \A i \in Open : i \in Open'
    BY <1>1 DEF Open
  <1>3. \A k \in DOMAIN es : es[k].path \in Paths
    BY EntryFacts
  <1>4. \A i \in Open' : i \in Open \/ (i \in DOMAIN journal' \ DOMAIN journal)
    BY <1>1 DEF Open
  <1>5. \A k \in DOMAIN es : es[k].base = NoFile => es[k].content # NoFile
    BY <1>3, NoFileHasNoContent DEF Graph, ContentOf
  <1>6. AcknowledgedIsRecorded' /\ OpenAdditionsWrite'
    <2>1. ASSUME NEW i \in DOMAIN journal', journal'[i].status = "acknowledged"
          PROVE  i \in DOMAIN journal /\ journal[i].status = "acknowledged"
      BY <1>1, <2>1
    <2>2. \A i \in Open' : i \in Open \/ (journal'[i].base = NoFile => journal'[i].content # NoFile)
      BY <1>1, <1>4, <1>5
    <2> QED
      BY <1>1, <2>1, <2>2, JournalStays
  <1>7. ASSUME NEW p \in Paths, Rowless(p)', NEW k \in DOMAIN es, es[k].path = p
        PROVE  Waiting(p)'
    <2>1. CASE g.files[p] = NoFile
      <3>1. journal'[Len(journal) + k].base = NoFile /\ journal'[Len(journal) + k].path = p
        BY <1>1, <1>7, <2>1 DEF RevisionOf
      <3>2. Len(journal) + k \in Open'
        BY <1>1 DEF Open
      <3> QED
        BY <3>1, <3>2 DEF Waiting
    <2>2. CASE g.files[p] # NoFile
      <3>1. Rowless(p)
        BY <1>7, StoreUntouched DEF Rowless
      <3>2. Waiting(p)
        BY <2>2, <3>1
      <3> QED
        BY <1>1, <1>2, <1>7, <3>2, WaitingStays
    <2> QED
      BY <2>1, <2>2
  <1>8. ASSUME NEW p \in Paths, Rowless(p)', FileAfter(g, es, p, Len(es)) # NoFile
        PROVE  Waiting(p)'
    <2>1. Len(es) \in Nat /\ DOMAIN es = 1 .. Len(es)
      BY EntryFacts
    <2>2. CASE \E k \in DOMAIN es : es[k].path = p
      BY <1>7, <1>8, <2>2
    <2>3. CASE \A k \in DOMAIN es : es[k].path # p
      <3>1. g.files[p] # NoFile
        <4>1. \A k \in 1 .. Len(es) : es[k].path # p
          BY <2>1, <2>3
        <4>2. FileAfter(g, es, p, Len(es)) = g.files[p]
          BY <2>1, <4>1, FileAfterNone, SMTT(30)
        <4> QED
          BY <1>8, <4>2
      <3>2. Rowless(p)
        BY <1>8, StoreUntouched DEF Rowless
      <3> QED
        BY <1>1, <1>2, <1>8, <3>1, <3>2, WaitingStays
    <2> QED
      BY <2>2, <2>3
  <1>9. ASSUME NEW p \in Paths, Rowless(p)', NEW i \in Open', journal'[i].path = p
        PROVE  i \in Open \/ Waiting(p)'
    BY <1>1, <1>4, <1>7, <1>9
  <1> QED
    BY <1>1, <1>2, <1>6, <1>8, <1>9

\* The plan of a start, from the manifest.
LEMMA StartKeeps ==
  ASSUME SyncInv, SyncTypeOK', Start
  PROVE  SyncInv'
  <1>1. /\ UNCHANGED store /\ UNCHANGED <<cache, ledger, diverged, sync, refresh>> /\ manifest' = manifest
    BY DEF Start, index
  <1>2. /\ StoreInv' /\ StoreTells' /\ head' = head /\ files' = files /\ versions' = versions
    BY <1>1, StoreUntouched
  <1>3. Known \in Graph /\ Known.files = manifest
    BY StateFacts, StateTypes DEF Known, NoRead, Graph
  <1>4. PICK es \in Seq(Entry) :
          /\ journal' = journal \o es /\ Len(journal) + Len(es) <= MaxJournal
          /\ \A k \in DOMAIN es :
               /\ es[k].path \in Drifted /\ es[k].status = "pending"
               /\ es[k].content # ContentOf(manifest[es[k].path])
               /\ es[k].base = RevisionOf(manifest[es[k].path])
    BY StateFacts, StartFacts
  <1>5. \A p \in Paths : (Rowless(p) /\ Known.files[p] # NoFile) => Waiting(p)
    BY <1>3 DEF SyncInv, CopiesTold, ToldBy, Tells, Rowless
  <1> HIDE DEF Known
  <1>6. /\ JournalGoesOn /\ AcknowledgedIsRecorded' /\ OpenAdditionsWrite'
        /\ \A i \in Open : i \in Open'
        /\ \A p \in Paths : Rowless(p)' =>
             \A i \in Open' : journal'[i].path = p => i \in Open \/ Waiting(p)'
    BY <1>1, <1>3, <1>4, <1>5, PlanAppended
  <1>7. CopiesTold' /\ OfflineOnlyPlans' /\ PlanIsCurrentOrRefused' /\ PlanChangesPaths' /\ CommittedIsRecorded'
    BY <1>1, <1>6, CopiesStay
  <1>8. NeverStored'
    <2>1. \A p \in Paths : Rowless(p)' =>
            /\ p \notin diverged' /\ p \notin sync'.clobbered
            /\ ledger'[p].refreshed = NoFile /\ sync'.ledger[p].refreshed = NoFile
      BY <1>1, <1>2 DEF SyncInv, NeverStored, Rowless
    <2> QED
      BY <1>1, <1>6, <2>1, NeverStoredStays
  <1> QED
    BY <1>2, <1>6, <1>7, <1>8 DEF SyncInv

\* The plan of a sync.
LEMMA SyncPlanKeeps ==
  ASSUME SyncInv, SyncTypeOK', SyncPlan
  PROVE  SyncInv'
  <1> DEFINE g == sync.graph
             S == Changed(g) \ Clobbers(g)
  <1>1. /\ sync \in SyncState /\ g \in Graph /\ sync.step = "read" /\ S \in SUBSET Changed(g)
        /\ UNCHANGED <<store, ledger, refresh>> /\ manifest' = manifest
    BY StateFacts DEF SyncPlan, index
  <1>2. /\ StoreInv' /\ StoreTells' /\ head' = head /\ files' = files /\ versions' = versions
    BY <1>1, StoreUntouched
  <1>3. PICK order \in SetToSeqs(S) :
          /\ journal' = journal \o Planned(g, order, sync.offline)
          /\ IF sync.offline
               THEN /\ cache' = IF S = {} THEN cache ELSE GraphAfter(g, Planned(g, order, sync.offline))
                    /\ diverged' = diverged \cup Clobbers(g)
                    /\ sync' = NoSync
               ELSE /\ sync' = [sync EXCEPT
                         !.step = IF S = {} THEN "acknowledged" ELSE "planned",
                         !.ids = PlannedIds(Planned(g, order, sync.offline)),
                         !.clobbered = Clobbers(g),
                         !.ledger = ledger]
                    /\ UNCHANGED <<cache, diverged>>
    BY DEF SyncPlan
  <1> DEFINE es == Planned(g, order, sync.offline)
  <1>4. /\ Len(journal) + Cardinality(S) <= MaxJournal
        /\ g.head.revision + Cardinality(S) <= MaxRevision
    BY DEF SyncPlan
  <1>5. /\ es \in Seq(Entry) /\ Len(es) = Cardinality(S) /\ Cardinality(S) \in Nat
        /\ (S # {} => Cardinality(S) # 0) /\ DOMAIN es = 1 .. Cardinality(S)
        /\ \A k \in DOMAIN es :
             /\ es[k].path \in S /\ es[k].status = "pending"
             /\ es[k].content # ContentOf(g.files[es[k].path])
             /\ es[k].base = RevisionOf(g.files[es[k].path])
        /\ \A j, k \in DOMAIN es : es[j].path = es[k].path => j = k
    <2>1. sync.offline \in BOOLEAN
      BY <1>1 DEF SyncState
    <2>2. PICK offline \in BOOLEAN : offline = sync.offline
      BY <2>1
    <2>3. offline \/ g.head.revision + Cardinality(S) <= MaxRevision
      BY <1>4
    <2> HIDE DEF g, S
    <2> QED
      BY <1>1, <2>2, <2>3, StateFacts, PlannedFacts DEF es
  <1>6. \A p \in Clobbers(g) : p \in Paths /\ ledger[p].refreshed # NoFile
    BY DEF Clobbers, Changed
  <1>7. journal' = journal \o es
    BY <1>3
  <1>8. CASE sync.offline
    <2>1. /\ sync' = NoSync /\ diverged' = diverged \cup Clobbers(g)
          /\ cache' = cache \/ cache' = GraphAfter(g, es)
      BY <1>3, <1>8
    <2>2. \A p \in Paths : (Rowless(p) /\ g.files[p] # NoFile) => Waiting(p)
      BY <1>8 DEF SyncInv, NeverStored
    <2> HIDE DEF es, g, S
    <2>3. /\ JournalGoesOn /\ AcknowledgedIsRecorded' /\ OpenAdditionsWrite'
          /\ \A i \in Open : i \in Open'
          /\ \A p \in Paths : Rowless(p)' =>
               /\ \A i \in Open' : journal'[i].path = p => i \in Open \/ Waiting(p)'
               /\ FileAfter(g, es, p, Len(es)) # NoFile => Waiting(p)'
      BY <1>1, <1>4, <1>5, <1>7, <2>2, PlanAppended
    <2>4. CopiesTold' /\ OfflineOnlyPlans' /\ PlanIsCurrentOrRefused' /\ PlanChangesPaths' /\ CommittedIsRecorded'
      BY <1>1, <2>1, <2>3, CopiesStay
    <2>5. NeverStored'
      <3>1. \A p \in Paths : Rowless(p)' => Rowless(p)
        BY <1>2 DEF Rowless
      <3>2. \A p \in Paths : Rowless(p)' => p \notin diverged' /\ ledger'[p].refreshed = NoFile
        BY <1>1, <1>6, <2>1, <3>1 DEF SyncInv, NeverStored
      <3>3. \A p \in Paths : GraphAfter(g, es).files[p] = FileAfter(g, es, p, Len(es))
        BY DEF GraphAfter
      <3>4. \A p \in Paths : Rowless(p)' =>
              ((cache' # NoGraph /\ cache'.files[p] # NoFile) =>
                 Waiting(p)' \/ (cache # NoGraph /\ cache.files[p] # NoFile))
        BY <2>1, <2>3, <3>3
      <3> QED
        BY <1>1, <2>1, <2>3, <3>2, <3>4, IdleFacts, NeverStoredStays
    <2> QED
      BY <1>2, <2>3, <2>4, <2>5 DEF SyncInv
  <1>9. CASE ~sync.offline
    <2>1. /\ sync' = [sync EXCEPT !.step = IF S = {} THEN "acknowledged" ELSE "planned",
                                  !.ids = PlannedIds(es), !.clobbered = Clobbers(g), !.ledger = ledger]
          /\ UNCHANGED <<cache, diverged>>
      BY <1>3, <1>9
    <2>2. ToldBy(g.files, versions, head.revision)
      BY <1>9 DEF SyncInv, CopiesTold
    <2>3. \A p \in Paths : (Rowless(p) /\ g.files[p] # NoFile) => Waiting(p)
      BY <2>2 DEF ToldBy, Tells, Rowless
    <2>4. /\ sync'.graph = g /\ sync'.offline = sync.offline /\ sync'.clobbered = Clobbers(g)
          /\ sync'.ledger = ledger /\ sync'.ids = PlannedIds(es)
          /\ (S = {} /\ sync'.step = "acknowledged") \/ (S # {} /\ sync'.step = "planned")
      BY <1>1, <2>1 DEF SyncState
    <2> HIDE DEF es, g, S
    <2>5. /\ JournalGoesOn /\ AcknowledgedIsRecorded' /\ OpenAdditionsWrite'
          /\ \A i \in Open : i \in Open'
          /\ \A p \in Paths : Rowless(p)' =>
               \A i \in Open' : journal'[i].path = p => i \in Open \/ Waiting(p)'
      BY <1>1, <1>4, <1>5, <1>7, <2>3, PlanAppended
    <2>6. CopiesTold'
      BY <1>1, <1>2, <2>2, <2>4 DEF SyncInv, CopiesTold
    <2>7. OfflineOnlyPlans' /\ CommittedIsRecorded'
      BY <1>9, <2>4 DEF OfflineOnlyPlans, CommittedIsRecorded
    <2>8. PlanIsCurrentOrRefused'
      BY <1>1, <1>2, <1>9, <2>4 DEF SyncInv, PlanIsCurrentOrRefused, g
    <2>9. PlanChangesPaths'
      <3> SUFFICES ASSUME S # {} PROVE PlanChangesPaths'
        BY <2>4 DEF PlanChangesPaths
      <3>1. DOMAIN sync'.ids = DOMAIN es /\ \A k \in DOMAIN es : journal'[sync'.ids[k]] = es[k]
        BY <1>4, <1>5, <1>7, <2>4, StateFacts, AppendedFacts DEF PlannedIds
      <3>2. sync'.ids # <<>>
        <4>1. 1 \in DOMAIN sync'.ids
          BY <1>5, <3>1
        <4> QED
          BY <4>1, EmptySeq, EntryFacts
      <3> QED
        BY <1>5, <2>4, <3>1, <3>2 DEF PlanChangesPaths
    <2>10. NeverStored'
      <3>1. \A p \in Paths : Rowless(p)' => Rowless(p)
        BY <1>2 DEF Rowless
      <3>2. \A p \in Paths : Rowless(p)' =>
              /\ p \notin diverged' /\ p \notin sync'.clobbered
              /\ ledger'[p].refreshed = NoFile /\ sync'.ledger[p].refreshed = NoFile
        BY <1>1, <1>6, <2>1, <2>4, <3>1 DEF SyncInv, NeverStored
      <3> QED
        BY <1>1, <1>9, <2>1, <2>4, <2>5, <3>2, NeverStoredStays
    <2> QED
      BY <1>2, <2>5, <2>6, <2>7, <2>8, <2>9, <2>10 DEF SyncInv
  <1> QED
    BY <1>8, <1>9

\* The commit of a sync: it takes effect only on the graph the sync read.
LEMMA SyncCommitKeeps ==
  ASSUME SyncInv, SyncTypeOK', SyncCommit
  PROVE  SyncInv' /\ StoreNext
  <1>0. PICK es : es = Entries(sync.ids)
    OBVIOUS
  <1>1. /\ sync.step = "planned" /\ ~sync.offline
        /\ sync \in SyncState /\ sync.graph \in Graph
        /\ sync' = [sync EXCEPT !.step = "committed", !.graph = GraphAfter(@, es)]
        /\ UNCHANGED <<journal, cache, ledger, diverged, refresh>> /\ manifest' = manifest
    BY <1>0, StateFacts DEF SyncCommit, SyncInv, OfflineOnlyPlans, index
  <1>2. sync.graph = Cloud /\ Commit(Cloud, es)
    <2>1. sync.graph.head = head /\ sync.graph.files = files
      BY <1>1 DEF SyncCommit, Commit, SyncInv, PlanIsCurrentOrRefused
    <2>2. sync.graph = Cloud
      BY <1>1, <2>1 DEF Graph, Cloud
    <2> QED
      BY <1>0, <2>2 DEF SyncCommit
  <1>3. /\ Len(sync.ids) \in Nat /\ es \in Seq(Entry) /\ Len(es) = Len(sync.ids)
        /\ DOMAIN es = DOMAIN sync.ids /\ \A k \in DOMAIN sync.ids : es[k] = journal[sync.ids[k]]
    BY <1>0, <1>1, StateFacts, EntriesType DEF SyncTypeOK, SyncState
  <1>4. es # <<>>
    <2>1. sync.ids # <<>> /\ sync.ids \in Seq(1 .. MaxJournal)
      BY <1>1 DEF SyncInv, PlanChangesPaths, SyncState
    <2>2. Len(sync.ids) # 0
      BY <2>1, EmptySeq
    <2> QED
      BY <1>3, <2>2, EmptySeq
  <1>5. /\ \A j, k \in DOMAIN es : es[j].path = es[k].path => j = k
        /\ \A k \in DOMAIN es : es[k].content # ContentOf(files[es[k].path])
    BY <1>1, <1>2, <1>3 DEF SyncInv, PlanChangesPaths, Cloud
  <1>6. sync'.step = "committed" /\ sync'.graph = GraphAfter(Cloud, es) /\ sync'.ids = sync.ids
        /\ sync'.offline = sync.offline /\ sync'.clobbered = sync.clobbered /\ sync'.ledger = sync.ledger
    BY <1>1, <1>2 DEF SyncState
  <1>7. OneEach(es)
    BY <1>5 DEF OneEach
  <1>8. /\ Takes(Len(es)) /\ Changes(BatchOf(es), OrderOf(es))
        /\ GraphAfter(Cloud, es) = [head |-> head', files |-> files']
    BY <1>2, <1>3, <1>4, <1>7, StateFacts, CommitIsBatch
  <1>9. /\ Len(es) \in Nat \ {0} /\ BatchOf(es) \in Batches /\ DOMAIN BatchOf(es) = PathsOf(es)
        /\ OrderOf(es) \in Numberings(DOMAIN BatchOf(es), Len(es))
        /\ \A k \in DOMAIN es : es[k].path \in PathsOf(es) /\ BatchOf(es)[es[k].path] = es[k].content
    BY <1>3, <1>4, <1>7, BatchOfEntries
  <1>10. /\ StoreInv' /\ StoreTells' /\ Grows /\ ToldBy(files', versions', head'.revision)
         /\ \A p \in PathsOf(es) :
              Recorded(p, BatchOf(es)[p])' \/ (BatchOf(es)[p] = NoFile /\ files[p] = NoFile /\ Rowless(p))
    BY <1>8, <1>9, StoreGrows DEF SyncInv
  <1>11. StoreNext
    BY <1>2, <1>3, <1>4, <1>7, StateFacts, CommitIsStep
  <1>12. JournalGoesOn /\ Open' = Open
    BY <1>1 DEF JournalGoesOn, Open
  <1>13. AcknowledgedIsRecorded' /\ OpenAdditionsWrite'
    <2>1. \A i \in DOMAIN journal' : journal'[i].status = "acknowledged" =>
            i \in DOMAIN journal /\ journal[i].status = "acknowledged"
      BY <1>1
    <2> QED
      BY <1>10, <1>12, <2>1, JournalStays
  <1>14. CopiesTold'
    <2>1. ToldBy(manifest, versions, head.revision)' /\ ToldBy(refresh.graph.files, versions, head.revision)'
      BY <1>1, <1>10, StateFacts, GrowthKeeps DEF SyncInv, CopiesTold
    <2> QED
      BY <1>6, <1>8, <1>10, <2>1 DEF CopiesTold
  <1>15. OfflineOnlyPlans' /\ PlanIsCurrentOrRefused' /\ PlanChangesPaths'
    BY <1>1, <1>6 DEF OfflineOnlyPlans, PlanIsCurrentOrRefused, PlanChangesPaths
  <1>16. CommittedIsRecorded'
    <2>1. ASSUME NEW k \in DOMAIN sync.ids
          PROVE  Recorded(journal[sync.ids[k]].path, journal[sync.ids[k]].content)'
      <3>1. ~(es[k].content = NoFile /\ files[es[k].path] = NoFile)
        BY <1>3, <1>5 DEF ContentOf
      <3>2. Recorded(es[k].path, es[k].content)'
        <4>0. PICK p : p = es[k].path
          OBVIOUS
        <4>1. p \in PathsOf(es) /\ BatchOf(es)[p] = es[k].content
          BY <1>3, <1>9, <4>0
        <4>2. Recorded(p, BatchOf(es)[p])'
          BY <1>10, <3>1, <4>0, <4>1
        <4> QED
          BY <4>0, <4>1, <4>2
      <3> QED
        BY <1>1, <1>3, <2>1, <3>2
    <2> QED
      BY <1>6, <2>1 DEF CommittedIsRecorded
  <1>17. NeverStored'
    <2>1. \A p \in Paths : Rowless(p)' => Rowless(p)
      BY <1>10, StateFacts, GrowthKeeps
    <2>2. \A p \in Paths : Rowless(p)' =>
            /\ p \notin diverged' /\ p \notin sync'.clobbered
            /\ ledger'[p].refreshed = NoFile /\ sync'.ledger[p].refreshed = NoFile
      BY <1>1, <1>6, <2>1 DEF SyncInv, NeverStored
    <2> QED
      BY <1>1, <1>6, <1>10, <1>12, <2>2, NeverStoredStays
  <1> QED
    BY <1>10, <1>11, <1>13, <1>14, <1>15, <1>16, <1>17 DEF SyncInv

\* The acknowledgement of what was committed.
LEMMA CommittedAcknowledged ==
  ASSUME SyncInv, UNCHANGED store, sync.step = "committed",
         journal' = Marked(IdSet(sync.ids), "acknowledged")
  PROVE  /\ JournalGoesOn /\ AcknowledgedIsRecorded' /\ OpenAdditionsWrite'
         /\ \A i \in Open' : i \in Open
         /\ \A i \in Open : i \in Open' \/ Recorded(journal[i].path, journal[i].content)'
  <1>1. /\ JournalGoesOn /\ DOMAIN journal' = DOMAIN journal
        /\ \A i \in DOMAIN journal : i \in IdSet(sync.ids) => journal'[i].status = "acknowledged"
        /\ \A i \in DOMAIN journal : i \notin IdSet(sync.ids) => journal'[i] = journal[i]
    BY StateFacts, MarkedFacts
  <1>2. \A i \in IdSet(sync.ids) : Recorded(journal[i].path, journal[i].content)
    BY DEF IdSet, SyncInv, CommittedIsRecorded
  <1>3. \A i \in Open : i \in DOMAIN journal
    BY DEF Open
  <1>4. \A i \in DOMAIN journal : i \in IdSet(sync.ids) => Recorded(journal[i].path, journal[i].content)'
    BY <1>1, <1>2, StoreUntouched DEF Recorded, JournalGoesOn
  <1>5. \A i \in Open' : i \in Open
    BY <1>1 DEF Open
  <1>6. \A i \in Open : i \in Open' \/ Recorded(journal[i].path, journal[i].content)'
    BY <1>1, <1>3, <1>4 DEF Open
  <1>7. AcknowledgedIsRecorded' /\ OpenAdditionsWrite'
    BY <1>1, <1>4, <1>5, JournalStays
  <1> QED
    BY <1>1, <1>5, <1>6, <1>7

LEMMA AcknowledgeKeeps ==
  ASSUME SyncInv, SyncTypeOK', SyncAcknowledge \/ RecoverAcknowledge
  PROVE  SyncInv'
  <1>1. /\ UNCHANGED store /\ UNCHANGED <<cache, ledger, diverged, refresh>>
        /\ sync.step = "committed" /\ ~sync.offline /\ sync \in SyncState
        /\ journal' = Marked(IdSet(sync.ids), "acknowledged")
        /\ manifest' = manifest \/ manifest' = sync.graph.files
        /\ \/ sync' = [sync EXCEPT !.step = "acknowledged"] /\ manifest' = manifest
           \/ sync' = NoSync
    BY StateFacts DEF SyncAcknowledge, RecoverAcknowledge, SyncInv, OfflineOnlyPlans, index, Indexed
  <1>2. /\ StoreInv' /\ StoreTells' /\ head' = head /\ files' = files /\ versions' = versions
    BY <1>1, StoreUntouched
  <1>3. /\ JournalGoesOn /\ AcknowledgedIsRecorded' /\ OpenAdditionsWrite'
        /\ \A i \in Open' : i \in Open
        /\ \A i \in Open : i \in Open' \/ Recorded(journal[i].path, journal[i].content)'
    BY <1>1, CommittedAcknowledged
  <1>4. ToldBy(manifest', versions', head'.revision) /\ ToldBy(sync.graph.files, versions', head'.revision)
    BY <1>1, <1>2 DEF SyncInv, CopiesTold
  <1>5. \/ sync' = NoSync
        \/ /\ sync'.step = "acknowledged" /\ sync'.graph = sync.graph /\ ~sync'.offline
           /\ sync'.clobbered = sync.clobbered /\ sync'.ledger = sync.ledger
    BY <1>1 DEF SyncState
  <1>6. CopiesTold' /\ OfflineOnlyPlans' /\ PlanIsCurrentOrRefused' /\ PlanChangesPaths' /\ CommittedIsRecorded'
    <2>1. CASE sync' = NoSync
      BY <1>1, <1>3, <1>4, <2>1, CopiesStay
    <2>2. CASE sync'.step = "acknowledged" /\ sync'.graph = sync.graph /\ ~sync'.offline
      <3>1. CopiesTold'
        BY <1>1, <1>2, <1>4, <2>2 DEF SyncInv, CopiesTold
      <3> QED
        BY <2>2, <3>1 DEF OfflineOnlyPlans, PlanIsCurrentOrRefused, PlanChangesPaths, CommittedIsRecorded
    <2> QED
      BY <1>5, <2>1, <2>2
  <1>7. NeverStored'
    <2>1. \A p \in Paths : Rowless(p)' => Rowless(p)
      BY <1>2 DEF Rowless
    <2>2. \A p \in Paths : Rowless(p)' =>
            /\ p \notin diverged' /\ p \notin sync'.clobbered
            /\ ledger'[p].refreshed = NoFile /\ sync'.ledger[p].refreshed = NoFile
      BY <1>1, <1>5, <2>1, IdleFacts DEF SyncInv, NeverStored
    <2>3. ~sync'.offline
      BY <1>5, IdleFacts
    <2> QED
      BY <1>1, <1>3, <2>2, <2>3, NeverStoredStays
  <1> QED
    BY <1>2, <1>3, <1>6, <1>7 DEF SyncInv

\* A step of somebody else: another device, or a resolution.
LEMMA OutsideKeeps ==
  ASSUME SyncInv, SyncTypeOK', StoreInv', StoreTells', Grows \/ UNCHANGED store, JournalGoesOn,
         UNCHANGED <<cache, ledger, sync, refresh>>, manifest' = manifest, diverged' \subseteq diverged,
         \A i \in DOMAIN journal' : journal'[i].status = "acknowledged" =>
           \/ i \in DOMAIN journal /\ journal[i].status = "acknowledged"
           \/ Recorded(journal[i].path, journal[i].content)',
         \A i \in Open' : i \in Open,
         \A i \in Open : i \in Open' \/ journal[i].path \in diverged
  PROVE  SyncInv'
  <1>1. CopiesTold' /\ OfflineOnlyPlans' /\ PlanIsCurrentOrRefused' /\ PlanChangesPaths' /\ CommittedIsRecorded'
    BY CopiesStay
  <1>2. AcknowledgedIsRecorded' /\ OpenAdditionsWrite'
    BY JournalStays
  <1>3. NeverStored'
    <2>1. \A p \in Paths : Rowless(p)' => Rowless(p)
      BY StateFacts, GrowthKeeps
    <2>2. \A p \in Paths : Rowless(p)' =>
            /\ p \notin diverged' /\ p \notin sync'.clobbered
            /\ ledger'[p].refreshed = NoFile /\ sync'.ledger[p].refreshed = NoFile
      BY <2>1 DEF SyncInv, NeverStored
    <2> QED
      BY <2>2, NeverStoredStays
  <1> QED
    BY <1>1, <1>2, <1>3 DEF SyncInv

LEMMA OtherDeviceKeeps ==
  ASSUME SyncInv, SyncTypeOK', NEW p \in Paths, NEW content \in Contents \cup {NoFile},
         OtherDevice(p, content)
  PROVE  SyncInv' /\ StoreNext
  <1> DEFINE batch == [q \in {p} |-> content]
             order == [q \in {p} |-> 1]
  <1>1. DOMAIN batch = {p} /\ batch \in Batches
    <2>1. {p} \in (SUBSET Paths) \ {{}} /\ batch \in [{p} -> Contents \cup {NoFile}]
      OBVIOUS
    <2> QED
      BY <2>1 DEF Batches
  <1>2. Cardinality({p}) = 1
    BY FS_Singleton
  <1>3. order \in Numberings(DOMAIN batch, 1) /\ order \in Orders(DOMAIN batch)
    BY <1>1, <1>2 DEF Numberings, Orders
  <1>4. Apply(batch, order) /\ UNCHANGED agent
    BY DEF OtherDevice
  <1> HIDE DEF batch, order
  <1>5. Takes(1) /\ Changes(batch, order)
    BY <1>1, <1>2, <1>4 DEF Apply
  <1>6. StoreInv' /\ StoreTells' /\ Grows
    BY <1>1, <1>3, <1>5, StateFacts, StoreGrows DEF SyncInv
  <1>7. StoreNext
    BY <1>1, <1>3, <1>4, StateFacts, ApplyIsStep
  <1>8. UNCHANGED <<journal, cache, ledger, diverged, sync, refresh>> /\ manifest' = manifest
    BY <1>4 DEF agent, index
  <1>9. JournalGoesOn /\ Open' = Open
    BY <1>8 DEF JournalGoesOn, Open
  <1> QED
    BY <1>6, <1>7, <1>8, <1>9, OutsideKeeps

\* What a resolution supersedes is of its diverged path.
LEMMA SupersededFacts ==
  ASSUME SyncInv, NEW p \in Paths
  PROVE  /\ Superseded(p) \in Seq(Entry) /\ Len(Superseded(p)) = Len(journal)
         /\ DOMAIN Superseded(p) = DOMAIN journal
         /\ \A i \in DOMAIN journal :
              /\ Superseded(p)[i].path = journal[i].path
              /\ Superseded(p)[i].content = journal[i].content
              /\ Superseded(p)[i].base = journal[i].base
              /\ \/ Superseded(p)[i].status = journal[i].status
                 \/ Superseded(p)[i].status = "superseded" /\ journal[i].path = p
  <1> DEFINE ids == {i \in DOMAIN journal : journal[i].path = p /\ journal[i].status = "pending"}
  <1>1. \A i \in ids : journal[i].path = p
    OBVIOUS
  <1> HIDE DEF ids
  <1> QED
    BY <1>1, StateFacts, MarkedType DEF Superseded, ids

LEMMA ResolveKeepCloudKeeps ==
  ASSUME SyncInv, SyncTypeOK', NEW p \in Paths, ResolveKeepCloud(p)
  PROVE  SyncInv'
  <1>1. /\ UNCHANGED store /\ UNCHANGED <<cache, ledger, sync, refresh>> /\ manifest' = manifest
        /\ p \in diverged /\ diverged' \subseteq diverged /\ journal' = Superseded(p)
    BY DEF ResolveKeepCloud, index
  <1>2. StoreInv' /\ StoreTells'
    BY <1>1, StoreUntouched
  <1>3. JournalGoesOn /\ DOMAIN journal' = DOMAIN journal
        /\ \A i \in DOMAIN journal : journal'[i].status = journal[i].status
                                      \/ (journal'[i].status = "superseded" /\ journal[i].path = p)
    BY <1>1, SupersededFacts DEF JournalGoesOn
  <1>4. /\ \A i \in Open' : i \in Open
        /\ \A i \in Open : i \in Open' \/ journal[i].path \in diverged
    BY <1>1, <1>3 DEF Open
  <1>5. \A i \in DOMAIN journal' : journal'[i].status = "acknowledged" =>
          i \in DOMAIN journal /\ journal[i].status = "acknowledged"
    BY <1>3
  <1> QED
    BY <1>1, <1>2, <1>3, <1>4, <1>5, OutsideKeeps

LEMMA ResolveKeepLocalKeeps ==
  ASSUME SyncInv, SyncTypeOK', NEW p \in Paths, ResolveKeepLocal(p)
  PROVE  SyncInv' /\ StoreNext
  <1>0. PICK e : e = [path |-> p, content |-> disk[p], base |-> RevisionOf(files[p]),
                      target |-> head.revision, status |-> "acknowledged"]
    OBVIOUS
  <1>1. /\ Commit(Cloud, <<e>>) /\ journal' = Append(Superseded(p), e)
        /\ UNCHANGED <<cache, ledger, sync, refresh>> /\ manifest' = manifest
        /\ p \in diverged /\ diverged' \subseteq diverged
    BY <1>0 DEF ResolveKeepLocal, index
  <1>2. e \in Entry /\ e.path = p /\ e.status = "acknowledged"
    BY <1>0, StateFacts, NoFileHasNoContent DEF Entry, SyncTypeOK
  <1>3. PICK es : es = <<e>>
    OBVIOUS
  <1>4. es \in Seq(Entry) /\ DOMAIN es = {1} /\ es[1] = e /\ es # <<>> /\ Len(es) = 1
    BY <1>2, <1>3
  <1>5. OneEach(es) /\ Commit(Cloud, es)
    BY <1>1, <1>3, <1>4 DEF OneEach
  <1>6. Takes(Len(es)) /\ Changes(BatchOf(es), OrderOf(es)) /\ StoreNext
    BY <1>4, <1>5, StateFacts, CommitIsBatch, CommitIsStep
  <1>7. /\ BatchOf(es) \in Batches /\ DOMAIN BatchOf(es) = PathsOf(es)
        /\ OrderOf(es) \in Numberings(DOMAIN BatchOf(es), Len(es))
        /\ p \in PathsOf(es) /\ BatchOf(es)[p] = e.content
    BY <1>2, <1>4, <1>5, BatchOfEntries
  <1>8. /\ StoreInv' /\ StoreTells' /\ Grows
        /\ Recorded(p, e.content)' \/ Rowless(p)
    <2>1. Len(es) \in Nat \ {0}
      BY <1>4
    <2>2. /\ StoreInv' /\ StoreTells' /\ Grows
          /\ \A q \in DOMAIN BatchOf(es) :
               Recorded(q, BatchOf(es)[q])' \/ (BatchOf(es)[q] = NoFile /\ files[q] = NoFile /\ Rowless(q))
      BY <1>6, <1>7, <2>1, StateFacts, StoreGrows DEF SyncInv
    <2> QED
      BY <1>7, <2>2
  <1>9. Recorded(p, e.content)'
    BY <1>1, <1>8 DEF SyncInv, NeverStored
  <1>10. /\ JournalGoesOn
         /\ \A i \in DOMAIN journal :
              journal'[i].status = journal[i].status
                \/ (journal'[i].status = "superseded" /\ journal[i].path = p)
         /\ \A i \in DOMAIN journal' : i \in DOMAIN journal \/ journal'[i] = e
    <2>1. PICK marked : marked = Superseded(p)
      OBVIOUS
    <2>2. /\ marked \in Seq(Entry) /\ Len(marked) = Len(journal)
          /\ DOMAIN journal = 1 .. Len(journal) /\ Len(journal) \in Nat
          /\ journal' = Append(marked, e)
      BY <1>1, <2>1, SupersededFacts, StateFacts, JournalFacts
    <2>3. /\ DOMAIN journal' = 1 .. Len(journal) + 1
          /\ \A i \in 1 .. Len(journal) : journal'[i] = marked[i]
          /\ journal'[Len(journal) + 1] = e
      BY <1>2, <2>2, AppendProperties, LenProperties
    <2> QED
      BY <2>1, <2>2, <2>3, SupersededFacts DEF JournalGoesOn
  <1>11. /\ \A i \in Open' : i \in Open
         /\ \A i \in Open : i \in Open' \/ journal[i].path \in diverged
    BY <1>1, <1>2, <1>10 DEF Open, JournalGoesOn
  <1>12. ASSUME NEW i \in DOMAIN journal', journal'[i].status = "acknowledged"
         PROVE  \/ i \in DOMAIN journal /\ journal[i].status = "acknowledged"
                \/ Recorded(journal[i].path, journal[i].content)'
    <2>1. CASE i \in DOMAIN journal
      BY <1>10, <1>12, <2>1
    <2>2. CASE journal'[i] = e
      BY <1>2, <1>9, <2>2 DEF Recorded
    <2> QED
      BY <1>10, <2>1, <2>2
  <1> QED
    BY <1>1, <1>6, <1>8, <1>10, <1>11, <1>12, OutsideKeeps

-------------------------------------------------------------------------------
(* What a recovery replays is one batch. *)

\* Among the entries about a path, the first one, and the one that follows another.
LEMMA FirstHit ==
  ASSUME NEW es, NEW p, NEW k \in Nat \ {0}, es[k].path = p
  PROVE  \E a \in 1 .. k : es[a].path = p /\ \A j \in 1 .. a - 1 : es[j].path # p
  <1> DEFINE hits == {i \in 1 .. k : es[i].path = p}
  <1>1. hits \in SUBSET Nat /\ k \in hits
    OBVIOUS
  <1>2. PICK a \in hits : \A i \in hits : a <= i
    BY <1>1, SmallestExists
  <1>3. a \in 1 .. k /\ es[a].path = p
    BY <1>2
  <1>4. \A j \in 1 .. a - 1 : es[j].path # p
    BY <1>2, <1>3
  <1> QED
    BY <1>3, <1>4

LEMMA NextHit ==
  ASSUME NEW es, NEW p, NEW j \in Nat \ {0}, NEW k \in Nat, j < k, es[j].path = p, es[k].path = p
  PROVE  \E c \in (j + 1) .. k : es[c].path = p /\ c - 1 \in Nat /\ j \in LastOf(es, p, c - 1)
  <1> DEFINE hits == {i \in (j + 1) .. k : es[i].path = p}
  <1>1. hits \in SUBSET Nat /\ k \in hits
    OBVIOUS
  <1>2. PICK c \in hits : \A i \in hits : c <= i
    BY <1>1, SmallestExists
  <1>3. c \in (j + 1) .. k /\ es[c].path = p /\ c - 1 \in Nat
    BY <1>2
  <1>4. ASSUME NEW i \in 1 .. c - 1, es[i].path = p
        PROVE  i <= j
    BY <1>2, <1>3, <1>4
  <1>5. j \in LastOf(es, p, c - 1)
    BY <1>3, <1>4 DEF LastOf
  <1> QED
    BY <1>3, <1>5

\* Two entries are not before each other.
LEMMA CausalOnce ==
  ASSUME SyncTypeOK, NEW i \in DOMAIN journal, NEW j \in DOMAIN journal,
         CausallyBefore(i, j), CausallyBefore(j, i)
  PROVE  i = j
  <1>1. /\ i \in Nat /\ j \in Nat
        /\ journal[i].base \in (1 .. MaxRevision) \cup {NoFile}
        /\ journal[j].base \in (1 .. MaxRevision) \cup {NoFile}
    BY JournalFacts
  <1> QED
    BY <1>1, MaxRevisionNat DEF CausallyBefore

\* What decides about a path, and the base its entries are replayed on.
LEMMA ReplayedEntry ==
  ASSUME SyncInv, NEW ids \in SetToSeqs(Ready), NEW es, es = Replay(ids), NEW k \in DOMAIN es,
         NEW p, p = es[k].path
  PROVE  /\ k \in DOMAIN ids /\ ids[k] \in Open /\ ids[k] \in DOMAIN journal
         /\ p \in Paths /\ journal[ids[k]].path = p /\ es[k].content = journal[ids[k]].content
         /\ p \notin Apart
         /\ \/ /\ Bucket(p) = "only-local" /\ es[k].base = journal[ids[k]].base
               /\ \E l \in LastOpen(p) : journal[l].base = RevisionOf(files[p])
            \/ /\ Bucket(p) = "auto-resolved" /\ es[k].base = RevisionOf(files[p])
               /\ \E l \in LastOpen(p) : journal[l].content = ContentOf(files[p])
  <1>1. /\ k \in DOMAIN ids /\ ids[k] \in Ready /\ ids[k] \in DOMAIN journal
        /\ es[k] = Reconciled(journal[ids[k]])
        /\ es[k].path = journal[ids[k]].path /\ es[k].content = journal[ids[k]].content
    BY StateFacts, ReplayFacts
  <1>2. p \in Paths /\ journal[ids[k]] \in Entry /\ journal[ids[k]].path = p
    BY <1>1, StateFacts, JournalFacts
  <1>3. ids[k] \in Open /\ p \notin Apart
    BY <1>1, <1>2 DEF Ready, Candidates
  <1>4. Bucket(p) # "diverged"
    BY <1>2, <1>3 DEF Apart
  <1>5. CASE \E l \in LastOpen(p) : journal[l].base = RevisionOf(files[p])
    <2>1. Bucket(p) = "only-local"
      BY <1>5 DEF Bucket
    <2>2. es[k] = journal[ids[k]]
      BY <1>1, <1>2, <2>1 DEF Reconciled
    <2> QED
      BY <1>1, <1>2, <1>3, <1>5, <2>1, <2>2
  <1>6. CASE ~\E l \in LastOpen(p) : journal[l].base = RevisionOf(files[p])
    <2>1. /\ Bucket(p) = "auto-resolved"
          /\ \E l \in LastOpen(p) : journal[l].content = ContentOf(files[p])
      BY <1>4, <1>6 DEF Bucket
    <2>2. es[k].base = RevisionOf(files[p])
      BY <1>1, <1>2, <2>1 DEF Reconciled, Entry
    <2> QED
      BY <1>1, <1>2, <1>3, <2>1, <2>2
  <1> QED
    BY <1>5, <1>6

\* What the cloud has already decides: the last entry that is replayed has that content.
LEMMA ResolvedLast ==
  ASSUME SyncInv, NEW ids \in SetToSeqs(Ready), InCausalOrder(ids),
         NEW es, es = Replay(ids), NEW k \in DOMAIN es, NEW p, p = es[k].path,
         Bucket(p) = "auto-resolved"
  PROVE  \E n \in DOMAIN es :
           /\ es[n].path = p /\ es[n].content = ContentOf(files[p])
           /\ \A j \in DOMAIN es : es[j].path = p => j <= n
  <1>1. /\ DOMAIN ids = DOMAIN es /\ DOMAIN ids = 1 .. Len(ids) /\ Len(ids) \in Nat
        /\ \A i \in Ready : \E n \in DOMAIN ids : ids[n] = i
        /\ \A n \in DOMAIN ids : /\ ids[n] \in Ready /\ ids[n] \in DOMAIN journal
                                 /\ es[n].path = journal[ids[n]].path
                                 /\ es[n].content = journal[ids[n]].content
    BY StateFacts, ReplayFacts
  <1>2. p \in Paths /\ p \notin Apart
    BY ReplayedEntry
  <1>3. PICK l \in LastOpen(p) : journal[l].content = ContentOf(files[p])
    BY ReplayedEntry
  <1>4. /\ l \in Open /\ journal[l].path = p
        /\ \A j \in Open \ {l} : journal[j].path = p => CausallyBefore(j, l)
    BY DEF LastOpen
  <1>5. l \in Ready
    BY <1>2, <1>3, <1>4 DEF Ready, Candidates, Recoverable
  <1>6. PICK n \in DOMAIN es : ids[n] = l
    BY <1>1, <1>5
  <1>7. ASSUME NEW j \in DOMAIN es, es[j].path = p, j > n
        PROVE  FALSE
    <2>1. CausallyBefore(l, ids[j])
      BY <1>1, <1>6, <1>7 DEF InCausalOrder
    <2>2. ids[j] \in Open /\ journal[ids[j]].path = p
      BY <1>1, <1>7, OpenFacts, StateFacts
    <2>3. ids[j] # l
      <3>1. \A a, b \in DOMAIN ids : a # b => ids[a] # ids[b]
        BY StateFacts, ReplayFacts
      <3> QED
        BY <1>1, <1>6, <1>7, <3>1
    <2>4. CausallyBefore(ids[j], l)
      BY <1>4, <2>2, <2>3
    <2> QED
      BY <1>1, <1>6, <1>7, <2>1, <2>3, <2>4, StateFacts, CausalOnce
  <1>8. \A j \in DOMAIN es : es[j].path = p => j <= n
    BY <1>1, <1>7
  <1> QED
    BY <1>1, <1>3, <1>4, <1>6, <1>8

\* The base of an entry after the first one of its path.
LEMMA LaterBase ==
  ASSUME SyncInv, NEW es \in Seq(Entry), Accepts(Cloud, es),
         NEW c \in DOMAIN es, NEW p, p = es[c].path, c - 1 \in Nat, NEW b \in LastOf(es, p, c - 1),
         head.revision + Len(es) <= MaxRevision
  PROVE  \/ es[b].content = NoFile /\ es[c].base = NoFile
         \/ /\ es[b].content # NoFile /\ es[c].base = head.revision + b
            /\ es[c].base \in Nat /\ es[c].base > head.revision /\ es[c].base # NoFile
  <1>1. /\ DOMAIN es = 1 .. Len(es) /\ Len(es) \in Nat /\ head.revision \in 0 .. MaxRevision
        /\ Cloud.head = head
    BY StateFacts, EntryFacts DEF Cloud
  <1>2. b \in 1 .. Len(es) /\ b \in DOMAIN es
    BY <1>1 DEF LastOf
  <1>3. es[c].base = RevisionOf(FileAfter(Cloud, es, p, c - 1))
    BY DEF Accepts
  <1>4. FileAfter(Cloud, es, p, c - 1) =
          IF es[b].content = NoFile THEN NoFile
          ELSE [revision |-> head.revision + b, content |-> es[b].content]
    BY <1>1, FileAfterLast
  <1>5. CASE es[b].content = NoFile
    BY <1>3, <1>4, <1>5 DEF RevisionOf
  <1>6. CASE es[b].content # NoFile
    <2>1. head.revision + b \in 1 .. MaxRevision
      BY <1>1, <1>2, MaxRevisionNat
    <2>2. [revision |-> head.revision + b, content |-> es[b].content] \in File
      BY <1>2, <1>6, <2>1, EntryFacts DEF File
    <2>3. FileAfter(Cloud, es, p, c - 1) # NoFile
      BY <1>4, <1>6, <2>2, NoFileDistinct
    <2>4. es[c].base = head.revision + b
      BY <1>3, <1>4, <1>6, <2>3 DEF RevisionOf
    <2> QED
      BY <1>1, <1>2, <1>6, <2>1, <2>4, NoFileDistinct, MaxRevisionNat
  <1> QED
    BY <1>5, <1>6

\* A path that is replayed on the version it was based on is replayed once.
LEMMA LocalOnce ==
  ASSUME SyncInv, NEW ids \in SetToSeqs(Ready), InCausalOrder(ids),
         NEW es, es = Replay(ids), Accepts(Cloud, es), head.revision + Len(es) <= MaxRevision,
         NEW p, NEW j \in DOMAIN es, NEW k \in DOMAIN es, es[j].path = p, es[k].path = p,
         Bucket(p) = "only-local"
  PROVE  ~(j < k)
  <1> SUFFICES ASSUME j < k PROVE FALSE
    OBVIOUS
  <1>1. /\ es \in Seq(Entry) /\ DOMAIN es = 1 .. Len(es) /\ Len(es) \in Nat
        /\ DOMAIN ids = DOMAIN es /\ head.revision \in 0 .. MaxRevision
    BY StateFacts, ReplayFacts, EntryFacts
  <1>0. j \in Nat \ {0} /\ k \in Nat
    BY <1>1
  <1>2. PICK a \in 1 .. j : es[a].path = p /\ \A i \in 1 .. a - 1 : es[i].path # p
    BY <1>0, FirstHit
  <1>3. a \in DOMAIN es /\ a \in Nat \ {0} /\ a < k
    BY <1>1, <1>2
  <1>4. PICK c \in (a + 1) .. k : es[c].path = p /\ c - 1 \in Nat /\ a \in LastOf(es, p, c - 1)
    BY <1>0, <1>2, <1>3, NextHit
  <1>5. c \in DOMAIN es /\ a < c
    BY <1>1, <1>3, <1>4
  <1>6. PICK l \in LastOpen(p) : journal[l].base = RevisionOf(files[p])
    BY ReplayedEntry
  <1>7. /\ l \in Open /\ \A i \in Open \ {l} : journal[i].path = p => CausallyBefore(i, l)
    BY DEF LastOpen
  <1>8. /\ ids[a] \in Open /\ journal[ids[a]].base = es[a].base /\ journal[ids[a]].content = es[a].content
    BY <1>2, <1>3, ReplayedEntry
  <1>9. /\ ids[c] \in Open /\ journal[ids[c]].path = p /\ journal[ids[c]].base = es[c].base
        /\ p \in Paths
    BY <1>4, <1>5, ReplayedEntry
  <1>10. es[a].base = RevisionOf(files[p])
    <2>1. FileAfter(Cloud, es, p, a - 1) = files[p]
      BY <1>2, <1>3, FileAfterNone DEF Cloud
    <2> QED
      BY <1>2, <1>3, <2>1 DEF Accepts
  <1>11. /\ RevisionOf(files[p]) = NoFile <=> files[p] = NoFile
         /\ RevisionOf(files[p]) # NoFile => RevisionOf(files[p]) \in Nat /\ RevisionOf(files[p]) <= head.revision
    BY <1>9, StateFacts, NoFileHasNoContent DEF ToldBy
  <1>12. ids[c] # l => CausallyBefore(ids[c], l)
    BY <1>7, <1>9
  <1>13. CASE es[a].content = NoFile /\ es[c].base = NoFile
    <2>1. RevisionOf(files[p]) # NoFile
      BY <1>8, <1>10, <1>13 DEF SyncInv, OpenAdditionsWrite
    <2>2. CausallyBefore(ids[c], l)
      BY <1>6, <1>9, <1>12, <1>13, <2>1
    <2> QED
      BY <1>6, <1>9, <1>13, <2>1, <2>2 DEF CausallyBefore
  <1>14. CASE es[c].base \in Nat /\ es[c].base > head.revision /\ es[c].base # NoFile
    <2>1. RevisionOf(files[p]) = NoFile
      <3> SUFFICES ASSUME RevisionOf(files[p]) # NoFile PROVE FALSE
        OBVIOUS
      <3>1. es[c].base # RevisionOf(files[p]) /\ ~(es[c].base < RevisionOf(files[p]))
        BY <1>1, <1>11, <1>14
      <3>2. CausallyBefore(ids[c], l)
        BY <1>6, <1>9, <1>12, <3>1
      <3> QED
        BY <1>6, <1>9, <1>14, <3>1, <3>2 DEF CausallyBefore
    <2>2. CausallyBefore(ids[a], ids[c])
      BY <1>1, <1>3, <1>5 DEF InCausalOrder
    <2> QED
      BY <1>8, <1>9, <1>10, <1>14, <2>1, <2>2 DEF CausallyBefore
  <1> QED
    BY <1>1, <1>4, <1>5, <1>13, <1>14, LaterBase

\* A path that the cloud has already is replayed more than once only by deletions.
LEMMA ResolvedOften ==
  ASSUME SyncInv, NEW ids \in SetToSeqs(Ready), InCausalOrder(ids),
         NEW es, es = Replay(ids), Accepts(Cloud, es), head.revision + Len(es) <= MaxRevision,
         NEW p, NEW j \in DOMAIN es, NEW k \in DOMAIN es, es[j].path = p, es[k].path = p,
         j < k, Bucket(p) = "auto-resolved"
  PROVE  es[j].content = NoFile /\ es[k].content = NoFile /\ files[p] = NoFile
  <1>1. /\ es \in Seq(Entry) /\ DOMAIN es = 1 .. Len(es) /\ Len(es) \in Nat
        /\ head.revision \in 0 .. MaxRevision
    BY StateFacts, ReplayFacts, EntryFacts
  <1>2. ASSUME NEW b \in DOMAIN es, NEW n \in DOMAIN es, es[b].path = p, es[n].path = p, b < n
        PROVE  es[b].content = NoFile /\ files[p] = NoFile
    <2>1. b \in Nat \ {0} /\ n \in Nat
      BY <1>1
    <2>2. PICK c \in (b + 1) .. n : es[c].path = p /\ c - 1 \in Nat /\ b \in LastOf(es, p, c - 1)
      BY <1>2, <2>1, NextHit
    <2>3. c \in DOMAIN es
      BY <1>1, <2>1, <2>2
    <2>4. es[c].base = RevisionOf(files[p]) /\ p \in Paths
      BY <2>2, <2>3, ReplayedEntry
    <2>5. /\ RevisionOf(files[p]) = NoFile <=> files[p] = NoFile
          /\ RevisionOf(files[p]) # NoFile => RevisionOf(files[p]) <= head.revision /\ RevisionOf(files[p]) \in Nat
      BY <2>4, StateFacts, NoFileHasNoContent DEF ToldBy
    <2>6. es[b].content = NoFile /\ es[c].base = NoFile
      <3>1. ~(es[c].base # NoFile /\ es[c].base > head.revision)
        BY <1>1, <2>4, <2>5
      <3> QED
        BY <1>1, <2>2, <2>3, <3>1, LaterBase
    <2> QED
      BY <2>4, <2>5, <2>6
  <1>3. es[j].content = NoFile /\ files[p] = NoFile
    BY <1>2
  <1>4. PICK n \in DOMAIN es : /\ es[n].path = p /\ es[n].content = ContentOf(files[p])
                               /\ \A i \in DOMAIN es : es[i].path = p => i <= n
    BY ResolvedLast
  <1>5. CASE n = k
    BY <1>3, <1>4, <1>5 DEF ContentOf
  <1>6. CASE n # k
    <2>1. k < n
      BY <1>1, <1>4, <1>6
    <2> QED
      BY <1>2, <1>3, <1>4, <2>1
  <1> QED
    BY <1>3, <1>5, <1>6

LEMMA ReplayIsBatch ==
  ASSUME SyncInv, NEW ids \in SetToSeqs(Ready), InCausalOrder(ids),
         NEW es, es = Replay(ids), Accepts(Cloud, es), head.revision + Len(es) <= MaxRevision
  PROVE  OneEach(es)
  <1>1. DOMAIN es = 1 .. Len(es) /\ Len(es) \in Nat
    BY StateFacts, ReplayFacts, EntryFacts
  <1>2. ASSUME NEW j \in DOMAIN es, NEW k \in DOMAIN es, j < k, es[j].path = es[k].path
        PROVE  es[j].content = NoFile /\ es[k].content = NoFile /\ files[es[k].path] = NoFile
    <2>0. PICK p : p = es[k].path
      OBVIOUS
    <2>1. Bucket(p) # "only-local"
      BY <1>2, <2>0, LocalOnce
    <2>2. Bucket(p) = "auto-resolved"
      BY <2>0, <2>1, ReplayedEntry
    <2> QED
      BY <1>2, <2>0, <2>2, ResolvedOften
  <1>3. ASSUME NEW j \in DOMAIN es, NEW k \in DOMAIN es, j # k, es[j].path = es[k].path
        PROVE  es[j].content = NoFile /\ files[es[k].path] = NoFile
    <2>1. CASE j < k
      BY <1>2, <1>3, <2>1
    <2>2. CASE k < j
      BY <1>2, <1>3, <2>2
    <2> QED
      BY <1>1, <1>3, <2>1, <2>2
  <1> QED
    BY <1>3 DEF OneEach

\* A path without a history that the journal knows waits to be added: it never
\* diverges, and its replay is no deletion.
LEMMA WaitingIsLocal ==
  ASSUME SyncInv, NEW p \in Paths, Rowless(p), \E i \in Open : journal[i].path = p
  PROVE  /\ files[p] = NoFile /\ Bucket(p) = "only-local" /\ p \notin Apart
  <1>1. files[p] = NoFile
    BY StateFacts DEF Rowless, ToldBy, Tells
  <1>2. Waiting(p)
    BY DEF SyncInv, NeverStored
  <1> DEFINE adds == {i \in Open : journal[i].path = p /\ journal[i].base = NoFile}
  <1>3. adds # {} /\ Open \subseteq 1 .. Len(journal) /\ Len(journal) \in Nat
    BY <1>2, StateFacts, OpenFacts, JournalFacts DEF Waiting
  <1>4. adds \in SUBSET (1 .. Len(journal))
    BY <1>3
  <1> HIDE DEF adds
  <1>5. PICK l \in adds : \A i \in adds : i <= l
    BY <1>3, <1>4, LargestExists
  <1>6. l \in Open /\ journal[l].path = p /\ journal[l].base = NoFile
    BY <1>5 DEF adds
  <1>7. ASSUME NEW j \in Open \ {l}, journal[j].path = p
        PROVE  CausallyBefore(j, l)
    <2>1. CASE journal[j].base # NoFile
      BY <1>6, <2>1 DEF CausallyBefore
    <2>2. CASE journal[j].base = NoFile
      <3>1. j <= l
        BY <1>5, <1>7, <2>2 DEF adds
      <3>2. j < l
        BY <1>3, <1>6, <1>7, <3>1
      <3> QED
        BY <1>6, <2>2, <3>2 DEF CausallyBefore
    <2> QED
      BY <2>1, <2>2
  <1>8. l \in LastOpen(p)
    BY <1>6, <1>7 DEF LastOpen
  <1>9. Bucket(p) = "only-local"
    BY <1>1, <1>6, <1>8 DEF Bucket, RevisionOf
  <1> QED
    BY <1>1, <1>9 DEF Apart

LEMMA ReplayRecorded ==
  ASSUME SyncInv, NEW ids \in SetToSeqs(Ready), InCausalOrder(ids),
         NEW es, es = Replay(ids), Accepts(Cloud, es), head.revision + Len(es) <= MaxRevision,
         NEW k \in DOMAIN es, NEW p, p = es[k].path, Rowless(p)
  PROVE  es[k].content # NoFile
  <1>1. DOMAIN es = 1 .. Len(es) /\ Len(es) \in Nat
    BY StateFacts, ReplayFacts, EntryFacts
  <1>2. ids[k] \in Open /\ p \in Paths /\ journal[ids[k]].path = p /\ es[k].content = journal[ids[k]].content
    BY ReplayedEntry
  <1>3. files[p] = NoFile /\ Bucket(p) = "only-local"
    BY <1>2, WaitingIsLocal
  <1>4. es[k].base = journal[ids[k]].base
    BY <1>3, ReplayedEntry
  <1>5. \A j \in 1 .. k - 1 : es[j].path # p
    BY <1>1, <1>3, LocalOnce
  <1>6. FileAfter(Cloud, es, p, k - 1) = files[p]
    BY <1>1, <1>5, FileAfterNone DEF Cloud
  <1>7. journal[ids[k]].base = NoFile
    BY <1>3, <1>4, <1>6 DEF Accepts, RevisionOf
  <1> QED
    BY <1>2, <1>7 DEF SyncInv, OpenAdditionsWrite

\* What a recovery does, whatever its outcome.
LEMMA RecoverSteps ==
  ASSUME SyncInv, Recover
  PROVE  /\ sync = NoSync /\ UNCHANGED <<cache, ledger>> /\ manifest' = manifest
         /\ diverged' = diverged \cup Apart
         /\ refresh'.graph = NoRefresh.graph
         /\ JournalGoesOn /\ Open' = Open
         /\ \A i \in DOMAIN journal' : journal'[i].status = "acknowledged" =>
              i \in DOMAIN journal /\ journal[i].status = "acknowledged"
         /\ \/ UNCHANGED <<store, sync>>
            \/ \E ids \in SetToSeqs(Ready), es \in Seq(Entry) :
                 /\ es = Replay(ids) /\ es # <<>> /\ InCausalOrder(ids)
                 /\ head.revision + Len(es) <= MaxRevision
                 /\ Accepts(Cloud, es) /\ Commit(Cloud, es)
                 /\ sync' = [NoSync EXCEPT !.step = "committed", !.ids = ids,
                                           !.graph = GraphAfter(Cloud, es)]
  <1>1. sync = NoSync /\ UNCHANGED <<cache, ledger>> /\ manifest' = manifest
    BY DEF Recover, index
  <1>2. PICK ids \in SetToSeqs(Ready) :
          LET es == Replay(ids)
              single == Cardinality(Candidates) = 1
              refused == ~Accepts(Cloud, es)
          IN  /\ InCausalOrder(ids)
              /\ head.revision + Len(es) <= MaxRevision
              /\ diverged' = diverged \cup Apart
              /\ refresh' = [NoRefresh EXCEPT !.withheld = Apart]
              /\ journal' = Marked(Candidates \ (IF single /\ refused THEN {} ELSE Ready), "failed")
              /\ IF refused \/ Ready = {} THEN UNCHANGED <<store, sync>>
                 ELSE /\ Commit(Cloud, es)
                      /\ sync' = [NoSync EXCEPT !.step = "committed", !.ids = ids,
                                                !.graph = GraphAfter(Cloud, es)]
    BY DEF Recover
  <1>3. PICK es : es = Replay(ids)
    OBVIOUS
  <1>4. es \in Seq(Entry) /\ (Ready # {} => es # <<>>)
    BY <1>3, StateFacts, ReplayFacts
  <1>5. refresh'.graph = NoRefresh.graph
    BY <1>2 DEF NoRefresh
  <1>6. PICK failed : failed \subseteq Candidates /\ journal' = Marked(failed, "failed")
    BY <1>2
  <1>7. /\ JournalGoesOn /\ DOMAIN journal' = DOMAIN journal
        /\ \A i \in DOMAIN journal : i \in failed => journal'[i].status = "failed"
        /\ \A i \in DOMAIN journal : i \notin failed => journal'[i] = journal[i]
    BY <1>6, StateFacts, MarkedFacts
  <1>8. Open' = Open
    <2>1. \A i \in failed : i \in Open
      BY <1>6, StateFacts, OpenFacts
    <2> QED
      BY <1>7, <2>1 DEF Open
  <1>9. \A i \in DOMAIN journal' : journal'[i].status = "acknowledged" =>
          i \in DOMAIN journal /\ journal[i].status = "acknowledged"
    BY <1>7
  <1>10. \/ UNCHANGED <<store, sync>>
         \/ /\ es # <<>> /\ InCausalOrder(ids)
            /\ head.revision + Len(es) <= MaxRevision
            /\ Accepts(Cloud, es) /\ Commit(Cloud, es)
            /\ sync' = [NoSync EXCEPT !.step = "committed", !.ids = ids,
                                      !.graph = GraphAfter(Cloud, es)]
    BY <1>2, <1>3, <1>4
  <1>11. diverged' = diverged \cup Apart
    BY <1>2
  <1> QED
    BY <1>1, <1>3, <1>4, <1>5, <1>7, <1>8, <1>9, <1>10, <1>11

LEMMA RecoverKeeps ==
  ASSUME SyncInv, SyncTypeOK', Recover
  PROVE  SyncInv' /\ (StoreNext \/ UNCHANGED store)
  <1>1. /\ sync = NoSync /\ UNCHANGED <<cache, ledger>> /\ manifest' = manifest
        /\ diverged' = diverged \cup Apart
        /\ refresh'.graph = NoRefresh.graph
        /\ JournalGoesOn /\ Open' = Open
        /\ \A i \in DOMAIN journal' : journal'[i].status = "acknowledged" =>
             i \in DOMAIN journal /\ journal[i].status = "acknowledged"
    BY RecoverSteps
  <1>2. ASSUME NEW p \in Paths, Rowless(p)
        PROVE  p \notin diverged' /\ ledger'[p].refreshed = NoFile
    <2>1. p \notin diverged /\ ledger[p].refreshed = NoFile
      BY <1>2 DEF SyncInv, NeverStored
    <2>2. p \notin Apart
      <3>1. CASE \E i \in Open : journal[i].path = p
        BY <1>2, <3>1, WaitingIsLocal
      <3>2. CASE ~\E i \in Open : journal[i].path = p
        BY <3>2 DEF Apart
      <3> QED
        BY <3>1, <3>2
    <2> QED
      BY <1>1, <2>1, <2>2
  <1>3. ToldBy(refresh'.graph.files, versions', head'.revision)
    BY <1>1, IdleFacts
  <1>4. ASSUME UNCHANGED <<store, sync>>
        PROVE  SyncInv'
    <2>1. UNCHANGED store /\ sync' = sync
      BY <1>4
    <2>2. StoreInv' /\ StoreTells' /\ versions' = versions
      BY <2>1, StoreUntouched
    <2>3. CopiesTold' /\ OfflineOnlyPlans' /\ PlanIsCurrentOrRefused' /\ PlanChangesPaths' /\ CommittedIsRecorded'
      BY <1>1, <1>3, <2>1, CopiesStay
    <2>4. AcknowledgedIsRecorded' /\ OpenAdditionsWrite'
      BY <1>1, <2>1, JournalStays
    <2>5. NeverStored'
      <3>1. \A p \in Paths : Rowless(p)' => p \notin diverged' /\ ledger'[p].refreshed = NoFile
        BY <1>2, <2>2 DEF Rowless
      <3>2. \A p \in Paths : p \notin sync'.clobbered /\ sync'.ledger[p].refreshed = NoFile
        BY <1>1, <2>1, IdleFacts
      <3> QED
        BY <1>1, <2>1, <3>1, <3>2, NeverStoredStays
    <2> QED
      BY <2>2, <2>3, <2>4, <2>5 DEF SyncInv
  <1>5. ASSUME NEW ids \in SetToSeqs(Ready), NEW es \in Seq(Entry),
               es = Replay(ids), es # <<>>, InCausalOrder(ids),
               head.revision + Len(es) <= MaxRevision,
               Accepts(Cloud, es), Commit(Cloud, es),
               sync' = [NoSync EXCEPT !.step = "committed", !.ids = ids, !.graph = GraphAfter(Cloud, es)]
        PROVE  SyncInv' /\ StoreNext
    <2>1. OneEach(es)
      BY <1>5, ReplayIsBatch
    <2>2. /\ Takes(Len(es)) /\ Changes(BatchOf(es), OrderOf(es))
          /\ GraphAfter(Cloud, es) = [head |-> head', files |-> files'] /\ StoreNext
      BY <1>5, <2>1, StateFacts, CommitIsBatch, CommitIsStep
    <2>3. /\ Len(es) \in Nat \ {0} /\ BatchOf(es) \in Batches /\ DOMAIN BatchOf(es) = PathsOf(es)
          /\ OrderOf(es) \in Numberings(DOMAIN BatchOf(es), Len(es))
          /\ \A k \in DOMAIN es : es[k].path \in PathsOf(es) /\ BatchOf(es)[es[k].path] = es[k].content
      BY <1>5, <2>1, BatchOfEntries
    <2>4. /\ StoreInv' /\ StoreTells' /\ Grows /\ ToldBy(files', versions', head'.revision)
          /\ \A p \in PathsOf(es) :
               Recorded(p, BatchOf(es)[p])' \/ (BatchOf(es)[p] = NoFile /\ files[p] = NoFile /\ Rowless(p))
      BY <2>2, <2>3, StoreGrows DEF SyncInv
    <2>5. /\ sync'.step = "committed" /\ sync'.ids = ids /\ sync'.offline = FALSE /\ sync'.clobbered = {}
          /\ sync'.graph.files = files'
          /\ \A p \in Paths : sync'.ledger[p].refreshed = NoFile
      BY <1>5, <2>2, IdleFacts DEF NoSync
    <2>6. AcknowledgedIsRecorded' /\ OpenAdditionsWrite'
      BY <1>1, <2>4, JournalStays
    <2>7. CopiesTold'
      <3>1. ToldBy(manifest, versions, head.revision)'
        BY <1>1, <2>4, StateFacts, GrowthKeeps DEF SyncInv, CopiesTold
      <3> QED
        BY <1>3, <2>4, <2>5, <3>1 DEF CopiesTold
    <2>8. OfflineOnlyPlans' /\ PlanIsCurrentOrRefused' /\ PlanChangesPaths'
      BY <2>5 DEF OfflineOnlyPlans, PlanIsCurrentOrRefused, PlanChangesPaths
    <2>9. CommittedIsRecorded'
      <3>1. ASSUME NEW k \in DOMAIN ids, NEW i, i = ids[k]
            PROVE  Recorded(journal[i].path, journal[i].content)'
        <4>0. PICK p : p = es[k].path
          OBVIOUS
        <4>1. /\ k \in DOMAIN es /\ i \in DOMAIN journal
              /\ journal[i].path = p /\ journal[i].content = es[k].content
          BY <1>5, <3>1, <4>0, StateFacts, ReplayFacts
        <4>2. p \in PathsOf(es) /\ BatchOf(es)[p] = es[k].content
          BY <2>3, <4>0, <4>1
        <4>3. Recorded(p, es[k].content)'
          <5>1. ~(es[k].content = NoFile /\ Rowless(p))
            BY <1>5, <4>0, <4>1, ReplayRecorded
          <5>2. Recorded(p, BatchOf(es)[p])'
            BY <2>4, <4>2, <5>1
          <5> QED
            BY <4>2, <5>2
        <4> QED
          BY <1>1, <4>1, <4>3 DEF JournalGoesOn
      <3> QED
        BY <2>5, <3>1 DEF CommittedIsRecorded
    <2>10. NeverStored'
      <3>1. \A p \in Paths : Rowless(p)' => p \notin diverged' /\ ledger'[p].refreshed = NoFile
        BY <1>2, <2>4, StateFacts, GrowthKeeps
      <3> QED
        BY <1>1, <2>4, <2>5, <3>1, NeverStoredStays
    <2> QED
      BY <2>2, <2>4, <2>6, <2>7, <2>8, <2>9, <2>10 DEF SyncInv
  <1>6. CASE UNCHANGED <<store, sync>>
    BY <1>4, <1>6
  <1>7. CASE \E ids \in SetToSeqs(Ready), es \in Seq(Entry) :
               /\ es = Replay(ids) /\ es # <<>> /\ InCausalOrder(ids)
               /\ head.revision + Len(es) <= MaxRevision
               /\ Accepts(Cloud, es) /\ Commit(Cloud, es)
               /\ sync' = [NoSync EXCEPT !.step = "committed", !.ids = ids,
                                         !.graph = GraphAfter(Cloud, es)]
    BY <1>5, <1>7
  <1> QED
    BY <1>6, <1>7, RecoverSteps

-------------------------------------------------------------------------------
(* What holds. *)

LEMMA NextSyncInv == SyncInv /\ [SyncNext]_svars => SyncInv' /\ [StoreNext]_store
  <1> SUFFICES ASSUME SyncInv, [SyncNext]_svars PROVE SyncInv' /\ (StoreNext \/ UNCHANGED store)
    OBVIOUS
  <1>1. SyncTypeOK'
    BY StateFacts, NextTypes
  <1>2. CASE UNCHANGED svars
    <2>1. UNCHANGED <<store, journal, cache, diverged>> /\ ledger' = ledger /\ sync' = sync
          /\ manifest' = manifest /\ refresh' = refresh
      BY <1>2 DEF svars, agent, index
    <2>2. \A p \in Paths : Rowless(p) => ledger'[p].refreshed = NoFile
      BY <2>1 DEF SyncInv, NeverStored
    <2> QED
      BY <1>1, <2>1, <2>2, QuietStep
  <1>3. CASE \/ \E p \in Paths, content \in Contents \cup {NoFile} : Edit(p, content)
             \/ Notice \/ AgentDies \/ SyncFails \/ HydrateRead \/ HydrateFinish \/ Refresh
    <2>1. UNCHANGED store
      BY <1>3 DEF Edit, Notice, AgentDies, SyncFails, HydrateRead, HydrateFinish, Refresh,
                  RefreshRead, RefreshCheck, RefreshScan, RefreshFinish, RefreshStops, WriteDisk
    <2> QED
      BY <1>1, <1>3, <2>1, QuietActions DEF Refresh
  <1>4. ASSUME NEW p \in Paths, NEW content \in Contents \cup {NoFile}, OtherDevice(p, content)
        PROVE  SyncInv' /\ StoreNext
    BY <1>1, <1>4, OtherDeviceKeeps
  <1>5. ASSUME NEW p \in Paths, ResolveKeepCloud(p)
        PROVE  SyncInv' /\ UNCHANGED store
    BY <1>1, <1>5, ResolveKeepCloudKeeps DEF ResolveKeepCloud
  <1>6. ASSUME NEW p \in Paths, ResolveKeepLocal(p)
        PROVE  SyncInv' /\ StoreNext
    BY <1>1, <1>6, ResolveKeepLocalKeeps
  <1>7. CASE SyncRead \/ SyncReadCached
    BY <1>1, <1>7, SyncReadKeeps DEF SyncRead, SyncReadCached
  <1>8. CASE SyncPlan
    BY <1>1, <1>8, SyncPlanKeeps DEF SyncPlan
  <1>9. CASE SyncCommit
    BY <1>1, <1>9, SyncCommitKeeps
  <1>10. CASE SyncAcknowledge \/ RecoverAcknowledge
    BY <1>1, <1>10, AcknowledgeKeeps DEF SyncAcknowledge, RecoverAcknowledge
  <1>11. CASE SyncSettle
    BY <1>1, <1>11, SyncSettleKeeps DEF SyncSettle
  <1>12. CASE Start
    BY <1>1, <1>12, StartKeeps DEF Start
  <1>13. CASE Recover
    BY <1>1, <1>13, RecoverKeeps
  <1> QED
    BY <1>2, <1>3, <1>4, <1>5, <1>6, <1>7, <1>8, <1>9, <1>10, <1>11, <1>12, <1>13
    DEF SyncNext, Outside, Sync, Startup

\* The inductive invariant of the agent and the store holds, for every set of paths and
\* contents and every bound.
THEOREM SyncInvHolds == SyncSpec => []SyncInv
  <1>1. SyncInv /\ [SyncNext]_svars => SyncInv'
    BY NextSyncInv
  <1> QED
    BY <1>1, InitSyncInv, PTL DEF SyncSpec

\* The journal, the copies and the ledger of the agent keep their types.
THEOREM SyncTypeCorrect == SyncSpec => []SyncTypeOK
  <1>1. SyncInv => SyncTypeOK
    BY DEF SyncInv
  <1> QED
    BY <1>1, SyncInvHolds, PTL

\* The manifest of the workspace index only names versions that the history has, as it
\* has them, whatever syncs, refreshes, recoveries and crashes came before.
THEOREM ManifestCorrect == SyncSpec => []ManifestTellsHistory
  <1>1. SyncInv => ManifestTellsHistory
    BY DEF SyncInv, CopiesTold, ToldBy, Tells, ManifestTellsHistory
  <1> QED
    BY <1>1, SyncInvHolds, PTL

\* No entry of the journal is acknowledged before the history has its content: by a
\* sync, a recovery or a resolution.
THEOREM AcknowledgementsCorrect == SyncSpec => []AcknowledgedIsRecorded
  <1>1. SyncInv => AcknowledgedIsRecorded
    BY DEF SyncInv
  <1> QED
    BY <1>1, SyncInvHolds, PTL

\* Every commit of the agent, from a plan or from a replayed journal, is one batch on
\* the files as they are: the agent implements the store.
THEOREM SyncRefinement == SyncSpec => SyncImplementsStore
  <1>1. SyncInit => StoreInit
    BY DEF SyncInit
  <1>2. SyncInv /\ [SyncNext]_svars => [StoreNext]_store
    BY NextSyncInv
  <1> QED
    BY <1>1, <1>2, SyncInvHolds, PTL DEF SyncSpec, SyncImplementsStore, StoreSpec

LEMMA ReplayChanges ==
  ASSUME SyncInv, Recover, sync' # NoSync, NEW p \in Paths,
         ContentOf(files'[p]) # ContentOf(files[p])
  PROVE  \E i \in Open : journal[i].path = p /\ journal[i].base = RevisionOf(files[p])
  <1>1. PICK ids \in SetToSeqs(Ready), es \in Seq(Entry) :
          /\ es = Replay(ids) /\ es # <<>> /\ InCausalOrder(ids)
          /\ head.revision + Len(es) <= MaxRevision
          /\ Accepts(Cloud, es) /\ Commit(Cloud, es)
    BY RecoverSteps
  <1>2. /\ DOMAIN es = 1 .. Len(es) /\ Len(es) \in Nat /\ Cloud \in Graph
        /\ Cloud.files = files /\ Cloud.head = head
    BY <1>1, EntryFacts, StateFacts, StateTypes DEF Cloud
  <1>3. files'[p] = FileAfter(Cloud, es, p, Len(es))
    BY <1>1 DEF Commit, GraphAfter
  <1>4. PICK k \in DOMAIN es : es[k].path = p
    BY <1>2, <1>3, FileAfterNone
  <1>5. Bucket(p) # "auto-resolved"
    <2> SUFFICES ASSUME Bucket(p) = "auto-resolved" PROVE FALSE
      OBVIOUS
    <2>1. PICK n \in DOMAIN es : /\ es[n].path = p /\ es[n].content = ContentOf(files[p])
                                 /\ \A j \in DOMAIN es : es[j].path = p => j <= n
      BY <1>1, <1>4, ResolvedLast
    <2>2. n \in LastOf(es, p, Len(es))
      BY <1>2, <2>1 DEF LastOf
    <2>3. files'[p] = IF es[n].content = NoFile THEN NoFile
                      ELSE [revision |-> head.revision + n, content |-> es[n].content]
      BY <1>2, <1>3, <2>2, FileAfterLast
    <2>4. es[n].content # NoFile => files'[p] \in File
      <3>1. head.revision + n \in 1 .. MaxRevision
        BY <1>1, <1>2, StateFacts, MaxRevisionNat
      <3> QED
        BY <1>2, <2>1, <2>3, <3>1, EntryFacts DEF File
    <2>5. ContentOf(files'[p]) = es[n].content
      BY <2>3, <2>4, NoFileDistinct DEF ContentOf
    <2> QED
      BY <2>1, <2>5
  <1>6. \E l \in LastOpen(p) : journal[l].base = RevisionOf(files[p])
    BY <1>1, <1>4, <1>5, ReplayedEntry
  <1> QED
    BY <1>6 DEF LastOpen

\* Replaying a journal changes a file only from the version one of its open entries is
\* based on: what was overtaken, or was committed already, is not applied again.
THEOREM ReplayCorrect == SyncSpec => ReplayKeepsNewerVersions
  <1> DEFINE Changed1 ==
        (mode = "recovering" /\ sync = NoSync /\ sync' # NoSync) =>
          \A p \in Paths :
            ContentOf(files'[p]) # ContentOf(files[p]) =>
              \E i \in Open : journal[i].path = p /\ journal[i].base = RevisionOf(files[p])
  <1>1. SyncInv /\ [SyncNext]_svars => [Changed1]_svars
    <2> SUFFICES ASSUME SyncInv, SyncNext, mode = "recovering", sync = NoSync, sync' # NoSync
                 PROVE  Recover
      BY ReplayChanges
    <2>1. NoSync.step = "idle"
      BY IdleFacts
    <2>2. ~(SyncRead \/ SyncReadCached \/ SyncPlan \/ SyncCommit \/ SyncAcknowledge \/ SyncFails)
      BY <2>1 DEF SyncRead, SyncReadCached, Drain, SyncPlan, SyncCommit, SyncAcknowledge, SyncFails
    <2>3. ~Notice /\ ~SyncSettle /\ ~AgentDies
      BY DEF Notice, SyncSettle, AgentDies
    <2>4. ~Outside
      BY DEF Outside, Edit, OtherDevice, ResolveKeepCloud, ResolveKeepLocal, agent
    <2>5. ~Refresh
      BY DEF Refresh, RefreshRead, RefreshCheck, RefreshScan, RefreshFinish, RefreshStops, WriteDisk
    <2>6. ~Start /\ ~RecoverAcknowledge /\ ~HydrateRead /\ ~HydrateFinish
      BY DEF Start, RecoverAcknowledge, HydrateRead, HydrateFinish
    <2> QED
      BY <2>2, <2>3, <2>4, <2>5, <2>6 DEF SyncNext, Sync, Startup
  <1> QED
    BY <1>1, SyncInvHolds, PTL DEF SyncSpec, ReplayKeepsNewerVersions

-------------------------------------------------------------------------------
(* What materializing a graph may overwrite. *)

\* Nothing is lost when the path is written over: what the folder has is recorded or was
\* put there after the scan, or the path had an open entry when the agent was started.
Replaceable(p) == p \in behind \/ Overwritable(p)

\* What the folder has is in an entry that a recovery will replay.
Journaled(p) == \E i \in Open : journal[i].path = p /\ journal[i].content = disk[p]

\* While it starts, the agent has no sync and no refresh of the watcher under way.
OneAtATime ==
  /\ mode # "watching" => sync.step \in {"idle", "committed"}
  /\ mode = "down" => sync.step = "idle"
  /\ mode \notin {"hydrating", "watching"} => refresh.step = "idle"
  /\ mode = "hydrating" => refresh.step \in {"idle", "writing"}
  /\ refresh.step # "writing" => refresh.todo = {}

\* What a refresh has not withheld it may overwrite, from its check to its last file.
RefreshIsCovered ==
  mode = "watching" =>
    /\ refresh.step = "checked" => \A p \in Paths \ refresh.withheld : Overwritable(p)
    /\ refresh.step = "writing" => \A p \in refresh.todo : Overwritable(p)

\* What the folder has when the agent starts is recorded, or the journal has it until a
\* recovery commits it or sets its path apart.
StartIsCovered ==
  /\ mode = "recovering" /\ sync.step = "idle" =>
       \A p \in Paths : Replaceable(p) \/ Journaled(p)
  /\ (mode = "recovering" /\ sync.step = "committed") \/ (mode = "hydrating" /\ refresh.step = "idle") =>
       \A p \in Paths \ refresh.withheld : Replaceable(p)
  /\ mode = "hydrating" /\ refresh.step = "writing" =>
       \A p \in refresh.todo : Replaceable(p)

CoverInv == SyncInv /\ OneAtATime /\ RefreshIsCovered /\ StartIsCovered

LEMMA InitCover == MCSyncInit => CoverInv
  <1> SUFFICES ASSUME MCSyncInit PROVE CoverInv
    OBVIOUS
  <1>1. SyncInv
    BY InitSyncInv DEF MCSyncInit
  <1>2. mode = "down" /\ sync.step = "idle" /\ refresh.step = "idle" /\ refresh.todo = {}
    BY DEF MCSyncInit, SyncInit, NoSync, NoRefresh
  <1> QED
    BY <1>1, <1>2 DEF CoverInv, OneAtATime, RefreshIsCovered, StartIsCovered

LEMMA CountedIsSyncStep == MCSyncNext => SyncNext
  BY DEF MCSyncNext, MCSyncStep, EditStep, OtherDeviceStep, FailureStep, ScanStep, OtherStep,
         SyncNext, Outside, Sync, Startup, Refresh

\* A copy that the history tells has only recorded contents.
LEMMA ToldIsRecorded ==
  ASSUME NEW fs \in Files, NEW r, ToldBy(fs, versions, r), NEW p \in Paths
  PROVE  ContentOf(fs[p]) = NoFile \/ Recorded(p, ContentOf(fs[p]))
  <1>1. CASE fs[p] = NoFile
    BY <1>1, NoFileHasNoContent
  <1>2. CASE fs[p] # NoFile
    <2>1. PICK row \in versions : Tells(row, versions, p, fs[p])
      BY <1>2 DEF ToldBy
    <2> QED
      BY <1>2, <2>1, NoFileHasNoContent DEF Tells, Recorded
  <1> QED
    BY <1>1, <1>2

\* A step that is no scan leaves what may be overwritten so, and what it puts into the
\* folder may be overwritten.
FolderStays ==
  \A p \in Paths :
    /\ Overwritable(p) => Overwritable(p)'
    /\ disk'[p] # disk[p] => Overwritable(p)'

LEMMA HistoryStays ==
  ASSUME SyncInv, [SyncNext]_svars, NEW p, NEW content, Recorded(p, content)
  PROVE  Recorded(p, content)'
  <1>1. [StoreNext]_store
    BY NextSyncInv
  <1>2. versions \subseteq versions'
    BY <1>1 DEF StoreNext, Changes, store
  <1> QED
    BY <1>2 DEF Recorded

LEMMA StepsKeepFolder ==
  ASSUME SyncInv, MCSyncNext, ~ScanStep
  PROVE  FolderStays
  <1> SUFFICES ASSUME NEW p \in Paths
               PROVE  /\ Overwritable(p) => Overwritable(p)'
                      /\ disk'[p] # disk[p] => Overwritable(p)'
    BY DEF FolderStays
  <1>1. SyncNext
    BY CountedIsSyncStep
  <1>2. \A content : Recorded(p, content) => Recorded(p, content)'
    BY <1>1, HistoryStays
  <1>3. touched \subseteq touched'
    BY DEF MCSyncNext, MCSyncStep
  <1>4. disk'[p] # disk[p] => Overwritable(p)'
    <2> SUFFICES ASSUME disk'[p] # disk[p] PROVE Overwritable(p)'
      OBVIOUS
    <2>1. CASE EditStep /\ touched' = touched \cup {q \in Paths : disk'[q] # disk[q]}
      BY <2>1 DEF Overwritable
    <2>2. CASE \E q \in Paths : ResolveKeepCloud(q)
      <3>1. PICK q \in Paths : ResolveKeepCloud(q)
        BY <2>2
      <3>2. disk'[p] = ContentOf(files[p])
        BY <3>1, StateFacts DEF ResolveKeepCloud, SyncTypeOK
      <3>3. PICK c : c = ContentOf(files[p])
        OBVIOUS
      <3>4. c = NoFile \/ Recorded(p, c)'
        BY <1>2, <3>2, <3>3, StateFacts, ToldIsRecorded
      <3> QED
        BY <3>2, <3>3, <3>4 DEF Overwritable, Recorded
    <2>3. CASE \E q \in Paths : WriteDisk(q)
      <3>1. PICK q \in Paths : WriteDisk(q)
        BY <2>3
      <3>2. disk'[p] = ContentOf(refresh.graph.files[p])
        BY <3>1, StateFacts DEF WriteDisk, SyncTypeOK
      <3>3. PICK c : c = ContentOf(refresh.graph.files[p])
        OBVIOUS
      <3>4. c = NoFile \/ Recorded(p, c)'
        BY <1>2, <3>2, <3>3, StateFacts, ToldIsRecorded DEF SyncInv, CopiesTold
      <3> QED
        BY <3>2, <3>3, <3>4 DEF Overwritable, Recorded
    <2>4. CASE \/ OtherDeviceStep \/ FailureStep \/ \E q \in Paths : ResolveKeepLocal(q)
               \/ Notice \/ SyncRead \/ SyncReadCached
               \/ SyncPlan \/ SyncCommit \/ SyncAcknowledge \/ SyncSettle
               \/ Recover \/ RecoverAcknowledge \/ HydrateRead \/ HydrateFinish
               \/ RefreshRead \/ RefreshScan \/ RefreshFinish
      <3>1. disk' = disk
        BY <2>4 DEF OtherDeviceStep, OtherDevice, agent, FailureStep, AgentDies, SyncFails, RefreshStops,
             ResolveKeepLocal, Notice, SyncRead, SyncReadCached, SyncPlan, SyncCommit, SyncAcknowledge,
             SyncSettle, Recover, RecoverAcknowledge, HydrateRead, HydrateFinish, RefreshRead,
             RefreshScan, RefreshFinish
      <3> QED
        BY <3>1
    <2> QED
      BY <2>1, <2>2, <2>3, <2>4 DEF MCSyncNext, MCSyncStep, OtherStep
  <1>5. ASSUME Overwritable(p), disk'[p] = disk[p] PROVE Overwritable(p)'
    <2>1. PICK c : c = disk[p]
      OBVIOUS
    <2>2. Recorded(p, c) => Recorded(p, c)'
      BY <1>2
    <2> QED
      BY <1>3, <1>5, <2>1, <2>2 DEF Overwritable, Recorded
  <1> QED
    BY <1>4, <1>5

LEMMA ScanMoves ==
  ASSUME SyncInv, ScanStep
  PROVE  mode' # mode \/ refresh' # refresh
  <1>1. CASE Start
    BY <1>1 DEF Start
  <1>2. CASE RefreshCheck
    <2>1. refresh.step = "read" /\ refresh'.step = "checked"
      BY <1>2, StateFacts DEF RefreshCheck, RefreshState
    <2> QED
      BY <2>1
  <1> QED
    BY <1>1, <1>2 DEF ScanStep

\* Where the steps of the agent stay, so does the cover.
LEMMA StillCovered ==
  ASSUME CoverInv, SyncInv', MCSyncNext, FolderStays, mode' = mode, sync' = sync, refresh' = refresh,
         \A p \in Paths : Journaled(p) => Journaled(p)' \/ Overwritable(p)'
  PROVE  CoverInv'
  <1>1. OneAtATime'
    BY DEF CoverInv, OneAtATime
  <1>2. RefreshIsCovered'
    BY StateFacts DEF CoverInv, RefreshIsCovered, FolderStays, RefreshState
  <1>3. mode \in {"recovering", "hydrating"} => \A p \in Paths : Replaceable(p) => Replaceable(p)'
    BY DEF MCSyncNext, FolderStays, Replaceable
  <1>4. StartIsCovered'
    <2>1. ASSUME mode = "recovering", sync.step = "idle", NEW p \in Paths
          PROVE  Replaceable(p)' \/ Journaled(p)'
      BY <1>3, <2>1 DEF CoverInv, StartIsCovered, Replaceable
    <2>2. \A p \in Paths \ refresh.withheld :
            (mode = "recovering" /\ sync.step = "committed") \/ (mode = "hydrating" /\ refresh.step = "idle")
              => Replaceable(p)'
      BY <1>3 DEF CoverInv, StartIsCovered
    <2>3. \A p \in refresh.todo : mode = "hydrating" /\ refresh.step = "writing" => Replaceable(p)'
      BY <1>3, StateFacts DEF CoverInv, StartIsCovered, RefreshState
    <2> QED
      BY <2>1, <2>2, <2>3 DEF StartIsCovered
  <1> QED
    BY <1>1, <1>2, <1>4 DEF CoverInv

LEMMA OutsideCovered ==
  ASSUME CoverInv, SyncInv', MCSyncNext,
         \/ EditStep /\ touched' = touched \cup {p \in Paths : disk'[p] # disk[p]}
         \/ OtherDeviceStep
         \/ \E p \in Paths : ResolveKeepCloud(p) \/ ResolveKeepLocal(p)
         \/ Notice
  PROVE  CoverInv'
  <1>1. mode' = mode /\ sync' = sync /\ refresh' = refresh
    BY DEF EditStep, Edit, OtherDeviceStep, OtherDevice, agent, ResolveKeepCloud, ResolveKeepLocal, Notice
  <1>2. FolderStays
    <2>1. ~ScanStep
      BY <1>1, ScanMoves DEF CoverInv
    <2> QED
      BY <2>1, StepsKeepFolder DEF CoverInv
  <1>3. ASSUME NEW p \in Paths, Journaled(p)
        PROVE  Journaled(p)' \/ Overwritable(p)'
    <2>1. CASE disk'[p] # disk[p]
      BY <1>2, <2>1 DEF FolderStays
    <2>2. CASE disk'[p] = disk[p] /\ journal' = journal
      BY <1>3, <2>2 DEF Journaled, Open
    <2>3. CASE disk'[p] = disk[p] /\ \E q \in Paths : ResolveKeepCloud(q) \/ ResolveKeepLocal(q)
      <3>1. PICK q \in Paths : ResolveKeepCloud(q) \/ ResolveKeepLocal(q)
        BY <2>3
      <3>2. CASE q # p
        <4>1. PICK i \in Open : journal[i].path = p /\ journal[i].content = disk[p]
          BY <1>3 DEF Journaled
        <4>2. /\ i \in DOMAIN journal' /\ journal'[i].path = p /\ journal'[i].content = disk[p]
              /\ journal'[i].status = journal[i].status
          <5>1. PICK marked : marked = Superseded(q)
            OBVIOUS
          <5>2. /\ marked \in Seq(Entry) /\ DOMAIN marked = DOMAIN journal /\ i \in DOMAIN marked
                /\ marked[i].path = p /\ marked[i].content = disk[p]
                /\ marked[i].status = journal[i].status
            BY <3>2, <4>1, <5>1, SupersededFacts DEF CoverInv, Open
          <5>3. DOMAIN marked = 1 .. Len(marked) /\ Len(marked) \in Nat
            BY <5>2, LenProperties
          <5>4. CASE ResolveKeepCloud(q)
            BY <5>1, <5>2, <5>4 DEF ResolveKeepCloud
          <5>5. CASE ResolveKeepLocal(q)
            <6>1. PICK e \in Entry : journal' = Append(marked, e)
              <7>1. [path |-> q, content |-> disk[q], base |-> RevisionOf(files[q]),
                     target |-> head.revision, status |-> "acknowledged"] \in Entry
                BY StateFacts, NoFileHasNoContent DEF CoverInv, Entry, SyncTypeOK
              <7> QED
                BY <5>1, <5>5, <7>1 DEF ResolveKeepLocal
            <6>2. i \in DOMAIN journal' /\ journal'[i] = marked[i]
              BY <5>2, <5>3, <6>1, AppendProperties, LenProperties
            <6> QED
              BY <5>2, <6>2
          <5> QED
            BY <3>1, <5>4, <5>5
        <4> QED
          BY <2>3, <4>1, <4>2 DEF Journaled, Open
      <3>3. CASE q = p /\ ResolveKeepCloud(p)
        <4>1. disk'[p] = ContentOf(files[p]) /\ versions' = versions
          BY <3>3, StateFacts DEF CoverInv, ResolveKeepCloud, SyncTypeOK, store
        <4>2. disk'[p] = NoFile \/ Recorded(p, disk'[p])
          BY <4>1, StateFacts, ToldIsRecorded DEF CoverInv
        <4> QED
          BY <4>1, <4>2 DEF Overwritable, Recorded
      <3>4. CASE q = p /\ ResolveKeepLocal(p)
        <4>1. PICK e : e = [path |-> p, content |-> disk[p], base |-> RevisionOf(files[p]),
                            target |-> head.revision, status |-> "acknowledged"]
          OBVIOUS
        <4>2. e \in Entry
          BY <4>1, StateFacts, NoFileHasNoContent DEF CoverInv, Entry, SyncTypeOK
        <4>3. PICK marked : marked = Superseded(p)
          OBVIOUS
        <4>4. marked \in Seq(Entry) /\ journal' = Append(marked, e)
          BY <3>4, <4>1, <4>3, SupersededFacts DEF CoverInv, ResolveKeepLocal
        <4>5. \E i \in DOMAIN journal' : journal'[i] = e
          BY <4>2, <4>4, AppendProperties, LenProperties
        <4>6. Recorded(p, disk[p])'
          BY <2>3, <4>1, <4>5 DEF SyncInv, AcknowledgedIsRecorded, Recorded
        <4> QED
          BY <4>6 DEF Overwritable
      <3> QED
        BY <3>1, <3>2, <3>3, <3>4
    <2> QED
      BY <2>1, <2>2, <2>3 DEF EditStep, Edit, OtherDeviceStep, OtherDevice, agent, Notice
  <1> QED
    BY <1>1, <1>2, <1>3, StillCovered

\* The steps of a sync of the watcher change nothing the cover is about.
LEMMA SyncCovered ==
  ASSUME CoverInv, SyncInv', MCSyncNext,
         \/ SyncRead \/ SyncReadCached \/ SyncPlan \/ SyncCommit \/ SyncAcknowledge \/ SyncSettle
         \/ SyncFails
  PROVE  CoverInv'
  <1>1. mode = "watching" /\ mode' = mode /\ refresh' = refresh
    BY DEF CoverInv, OneAtATime, SyncRead, SyncReadCached, Drain, SyncPlan, SyncCommit,
           SyncAcknowledge, SyncSettle, SyncFails
  <1>2. FolderStays
    <2>1. ~ScanStep
      BY <1>1, ScanMoves DEF CoverInv
    <2> QED
      BY <2>1, StepsKeepFolder DEF CoverInv
  <1>3. RefreshIsCovered'
    BY <1>1, <1>2, StateFacts DEF CoverInv, RefreshIsCovered, FolderStays, RefreshState
  <1> QED
    BY <1>1, <1>3 DEF CoverInv, OneAtATime, StartIsCovered

LEMMA DeathCovered ==
  ASSUME CoverInv, SyncInv', AgentDies
  PROVE  CoverInv'
  <1>1. mode' = "down" /\ sync'.step = "idle" /\ refresh'.step = "idle" /\ refresh'.todo = {}
    BY DEF AgentDies, NoSync, NoRefresh
  <1> QED
    BY <1>1 DEF CoverInv, OneAtATime, RefreshIsCovered, StartIsCovered

\* A refresh of the watcher: what its check does not withhold is what the manifest or
\* the graph it read has.
LEMMA RefreshCovered ==
  ASSUME CoverInv, SyncInv', MCSyncNext,
         \/ RefreshRead \/ RefreshCheck \/ RefreshScan \/ RefreshFinish \/ RefreshStops
         \/ \E p \in Paths : WriteDisk(p)
  PROVE  CoverInv'
  <1>1. mode' = mode /\ sync' = sync /\ refresh \in RefreshState /\ SyncTypeOK
    BY StateFacts DEF CoverInv, RefreshRead, RefreshCheck, RefreshScan, RefreshFinish, RefreshStops, WriteDisk
  <1>2. CASE RefreshRead \/ RefreshFinish \/ RefreshStops
    <2>1. mode = "watching" /\ refresh'.step \in {"idle", "read"} /\ refresh'.todo = {}
      <3>1. NoRefresh \in RefreshState /\ NoRefresh.step = "idle" /\ NoRefresh.todo = {}
        BY StateFacts, StateTypes DEF CoverInv, NoRefresh
      <3>2. CASE RefreshRead
        BY <3>1, <3>2 DEF RefreshRead, RefreshState
      <3>3. CASE RefreshFinish \/ RefreshStops
        BY <3>1, <3>3 DEF RefreshFinish, RefreshStops
      <3> QED
        BY <1>2, <3>2, <3>3
    <2> QED
      BY <1>1, <2>1 DEF CoverInv, OneAtATime, RefreshIsCovered, StartIsCovered
  <1>3. CASE RefreshCheck
    <2>1. /\ mode = "watching" /\ refresh'.step = "checked" /\ refresh'.todo = {}
          /\ refresh'.withheld = Withheld(refresh.graph)
          /\ UNCHANGED <<store, disk>>
      BY <1>1, <1>3 DEF CoverInv, OneAtATime, RefreshCheck, RefreshState
    <2>2. ASSUME NEW p \in Paths, p \notin Withheld(refresh.graph)
          PROVE  Overwritable(p)'
      <3>1. disk[p] \in {ContentOf(manifest[p]), ContentOf(refresh.graph.files[p])}
        BY <2>2 DEF Withheld, Changed
      <3>2. disk[p] = NoFile \/ Recorded(p, disk[p])
        BY <3>1, StateFacts, ToldIsRecorded DEF CoverInv, SyncInv, CopiesTold
      <3> QED
        BY <2>1, <3>2 DEF Overwritable, Recorded, store
    <2> QED
      BY <1>1, <2>1, <2>2 DEF CoverInv, OneAtATime, RefreshIsCovered, StartIsCovered
  <1>4. CASE RefreshScan
    <2>1. /\ mode = "watching" /\ refresh.step = "checked" /\ refresh'.step = "writing"
          /\ refresh'.todo = Changed(refresh.graph) \ refresh.withheld
      BY <1>1, <1>4 DEF CoverInv, OneAtATime, RefreshScan, RefreshState
    <2>2. FolderStays
      <3>1. ~ScanStep
        BY <1>1, <2>1 DEF ScanStep, Start, RefreshCheck
      <3> QED
        BY <3>1, StepsKeepFolder DEF CoverInv
    <2>3. \A p \in refresh'.todo : Overwritable(p)'
      BY <2>1, <2>2 DEF CoverInv, RefreshIsCovered, FolderStays, Changed
    <2> QED
      BY <1>1, <2>1, <2>3 DEF CoverInv, OneAtATime, RefreshIsCovered, StartIsCovered
  <1>5. CASE \E p \in Paths : WriteDisk(p)
    <2>1. /\ refresh.step = "writing" /\ refresh'.step = "writing" /\ refresh'.todo \subseteq refresh.todo
          /\ refresh.todo \subseteq Paths
      <3>1. PICK p \in Paths : WriteDisk(p)
        BY <1>5
      <3> QED
        BY <1>1, <3>1 DEF WriteDisk, RefreshState
    <2>2. FolderStays
      <3>1. ~ScanStep
        BY <1>1, <2>1 DEF ScanStep, Start, RefreshCheck
      <3> QED
        BY <3>1, StepsKeepFolder DEF CoverInv
    <2>3. RefreshIsCovered'
      BY <1>1, <2>1, <2>2 DEF CoverInv, RefreshIsCovered, FolderStays
    <2>4. mode = "hydrating" => behind' = behind
      BY <1>1 DEF MCSyncNext
    <2>5. mode \in {"watching", "hydrating"}
      BY <2>1 DEF CoverInv, OneAtATime
    <2>6. StartIsCovered'
      BY <1>1, <2>1, <2>2, <2>4, <2>5 DEF CoverInv, StartIsCovered, Replaceable, FolderStays
    <2> QED
      BY <1>1, <2>1, <2>3, <2>5, <2>6 DEF CoverInv, OneAtATime
  <1> QED
    BY <1>2, <1>3, <1>4, <1>5

\* A start journals every path that drifted from the manifest and was not journaled.
LEMMA StartCovers ==
  ASSUME CoverInv, SyncInv', MCSyncNext, Start
  PROVE  CoverInv'
  <1>1. /\ mode = "down" /\ mode' = "recovering" /\ sync' = sync /\ refresh' = refresh
        /\ UNCHANGED <<store, disk>> /\ sync.step = "idle" /\ refresh.step = "idle"
        /\ behind' = {journal[i].path : i \in Open}
    BY DEF CoverInv, OneAtATime, Start, MCSyncNext
  <1>2. ASSUME NEW p \in Paths
        PROVE  Replaceable(p)' \/ Journaled(p)'
    <2>1. CASE p \in behind'
      BY <2>1 DEF Replaceable
    <2>2. CASE disk[p] = ContentOf(manifest[p])
      <3>1. disk[p] = NoFile \/ Recorded(p, disk[p])
        BY <2>2, StateFacts, ToldIsRecorded DEF CoverInv, SyncInv, CopiesTold
      <3> QED
        BY <1>1, <3>1 DEF Replaceable, Overwritable, Recorded, store
    <2>3. CASE p \notin behind' /\ disk[p] # ContentOf(manifest[p])
      <3>1. p \in Drifted
        BY <1>1, <2>3 DEF Drifted, Changed, Known
      <3>2. PICK order \in SetToSeqs(Drifted) : journal' = journal \o Planned(Known, order, TRUE)
        BY DEF Start, Known, Drifted
      <3>3. /\ Known \in Graph /\ Drifted \in SUBSET Changed(Known)
            /\ Len(journal) + Cardinality(Drifted) <= MaxJournal
        BY StateFacts, StateTypes DEF CoverInv, Known, NoRead, Graph, SyncTypeOK, Drifted, Start
      <3>4. IsFiniteSet(Drifted)
        BY <3>3, PathsFinite, FS_Subset DEF Changed
      <3>5. PICK k \in DOMAIN order : order[k] = p
        BY <3>1, <3>2, <3>4, OrderingFacts
      <3>6. PICK es : es = Planned(Known, order, TRUE)
        OBVIOUS
      <3>7. es \in Seq(Entry) /\ Len(es) = Cardinality(Drifted)
        <4> HIDE DEF Drifted, Known
        <4>1. PICK offline \in BOOLEAN :
                /\ offline \/ Known.head.revision + Cardinality(Drifted) <= MaxRevision
                /\ es = Planned(Known, order, offline)
          BY <3>6
        <4> QED
          BY <3>2, <3>3, <4>1, StateFacts, PlannedFacts DEF CoverInv
      <3>8. k \in DOMAIN es /\ es[k].path = p /\ es[k].content = disk[p] /\ es[k].status = "pending"
        BY <3>5, <3>6 DEF Planned
      <3>9. Len(journal) + k \in DOMAIN journal' /\ journal'[Len(journal) + k] = es[k]
        BY <3>2, <3>3, <3>6, <3>7, <3>8, StateFacts, AppendedFacts DEF CoverInv
      <3> QED
        BY <1>1, <3>8, <3>9 DEF Journaled, Open
    <2> QED
      BY <2>1, <2>2, <2>3
  <1> QED
    BY <1>1, <1>2 DEF CoverInv, OneAtATime, RefreshIsCovered, StartIsCovered

\* What a recovery commits is recorded; what it sets apart is withheld.
LEMMA RecoverCovers ==
  ASSUME CoverInv, SyncInv', MCSyncNext, Recover
  PROVE  CoverInv'
  <1>1. /\ mode = "recovering" /\ sync = NoSync /\ sync.step = "idle" /\ disk' = disk
        /\ refresh' = [NoRefresh EXCEPT !.withheld = Apart]
    BY IdleFacts DEF Recover
  <1>2. /\ refresh'.step = "idle" /\ refresh'.withheld = Apart /\ refresh'.todo = {}
    <2>1. NoRefresh \in RefreshState /\ NoRefresh.step = "idle" /\ NoRefresh.todo = {}
      BY StateFacts, StateTypes DEF CoverInv, NoRefresh
    <2> QED
      BY <1>1, <2>1 DEF RefreshState
  <1>3. PICK ids \in SetToSeqs(Ready) :
          LET es == Replay(ids)
              single == Cardinality(Candidates) = 1
              refused == ~Accepts(Cloud, es)
          IN  /\ mode' = IF refused /\ ~single THEN "down"
                         ELSE IF refused \/ Ready # Candidates THEN "blocked"
                         ELSE IF Ready = {} THEN "hydrating"
                         ELSE "recovering"
              /\ IF refused \/ Ready = {} THEN UNCHANGED <<store, sync>>
                 ELSE sync' = [NoSync EXCEPT !.step = "committed", !.ids = ids,
                                             !.graph = GraphAfter(Cloud, es)]
    BY DEF Recover
  <1>4. /\ mode' \in {"down", "blocked", "hydrating", "recovering"}
        /\ mode' \in {"hydrating", "recovering"} => Ready = Candidates
        /\ mode' = "hydrating" => Ready = {}
        /\ mode' = "recovering" => sync'.step = "committed" /\ sync'.ids = ids
        /\ mode' = "down" => sync'.step = "idle"
        /\ sync'.step \in {"idle", "committed"}
    <2>1. NoSync \in SyncState /\ NoSync.step = "idle"
      BY StateFacts, StateTypes DEF CoverInv, NoSync
    <2> QED
      BY <1>1, <1>3, <2>1 DEF SyncState
  <1>5. FolderStays
    <2>1. ~ScanStep
      BY <1>1, <1>2 DEF ScanStep, Start, RefreshCheck, CoverInv, OneAtATime
    <2> QED
      BY <2>1, StepsKeepFolder DEF CoverInv
  <1>6. ASSUME mode' \in {"hydrating", "recovering"}, NEW p \in Paths \ Apart
        PROVE  Replaceable(p)'
    <2>1. Replaceable(p) \/ Journaled(p)
      BY <1>1 DEF CoverInv, StartIsCovered
    <2>2. behind' = behind
      BY <1>1, <1>6 DEF MCSyncNext
    <2>3. CASE Replaceable(p)
      BY <1>5, <2>2, <2>3 DEF Replaceable, FolderStays
    <2>4. CASE Journaled(p)
      <3>1. PICK i \in Open : journal[i].path = p /\ journal[i].content = disk[p]
        BY <2>4 DEF Journaled
      <3>2. i \in Ready
        BY <1>4, <1>6, <3>1 DEF Candidates
      <3>3. sync'.step = "committed" /\ \E k \in DOMAIN sync'.ids : sync'.ids[k] = i
        BY <1>4, <1>6, <3>2, StateFacts, ReplayFacts DEF CoverInv
      <3>4. Recorded(journal[i].path, journal[i].content)'
        BY <3>3 DEF SyncInv, CommittedIsRecorded
      <3>5. i \in DOMAIN journal /\ JournalGoesOn
        BY <3>1, RecoverSteps DEF CoverInv, Open
      <3> QED
        BY <1>1, <3>1, <3>4, <3>5 DEF Replaceable, Overwritable, JournalGoesOn, Recorded
    <2> QED
      BY <2>1, <2>3, <2>4
  <1>7. OneAtATime'
    BY <1>2, <1>4 DEF OneAtATime
  <1>8. RefreshIsCovered'
    BY <1>4 DEF RefreshIsCovered
  <1>9. StartIsCovered'
    BY <1>2, <1>4, <1>6 DEF StartIsCovered
  <1> QED
    BY <1>7, <1>8, <1>9 DEF CoverInv

\* The rest of the recovery, and the hydration, leave the folder alone or write what they may.
LEMMA HydrationCovered ==
  ASSUME CoverInv, SyncInv', MCSyncNext, RecoverAcknowledge \/ HydrateRead \/ HydrateFinish
  PROVE  CoverInv'
  <1>1. refresh \in RefreshState /\ NoRefresh.step = "idle" /\ NoRefresh.todo = {} /\ NoSync.step = "idle"
    BY StateFacts, IdleFacts DEF CoverInv, NoRefresh
  <1>2. FolderStays /\ disk' = disk
    <2>1. ~ScanStep
      BY <1>1 DEF ScanStep, Start, RefreshCheck, RecoverAcknowledge, HydrateRead, HydrateFinish,
                  CoverInv, OneAtATime
    <2>2. disk' = disk
      BY DEF RecoverAcknowledge, HydrateRead, HydrateFinish
    <2> QED
      BY <2>1, <2>2, StepsKeepFolder DEF CoverInv
  <1>3. mode \in {"recovering", "hydrating"} /\ mode' \in {"recovering", "hydrating"} =>
          \A p \in Paths : Replaceable(p) => Replaceable(p)'
    BY <1>2 DEF MCSyncNext, Replaceable, FolderStays
  <1>4. CASE RecoverAcknowledge
    <2>1. /\ mode \in {"recovering", "blocked"} /\ sync.step = "committed" /\ sync'.step = "idle"
          /\ refresh' = refresh /\ refresh.step = "idle"
          /\ mode' = IF mode = "blocked" THEN "blocked" ELSE "hydrating"
      BY <1>1, <1>4 DEF RecoverAcknowledge, CoverInv, OneAtATime
    <2>2. mode = "recovering" => \A p \in Paths \ refresh.withheld : Replaceable(p)'
      BY <1>3, <2>1 DEF CoverInv, StartIsCovered
    <2> QED
      BY <2>1, <2>2 DEF CoverInv, OneAtATime, RefreshIsCovered, StartIsCovered
  <1>5. CASE HydrateRead
    <2>1. /\ mode = "hydrating" /\ mode' = "hydrating" /\ refresh.step = "idle" /\ sync' = sync
          /\ refresh'.step = "writing" /\ refresh'.todo \subseteq Paths \ refresh.withheld
      BY <1>1, <1>5 DEF HydrateRead, RefreshState
    <2>2. \A p \in refresh'.todo : Replaceable(p)'
      BY <1>3, <2>1 DEF CoverInv, StartIsCovered
    <2> QED
      BY <2>1, <2>2 DEF CoverInv, OneAtATime, RefreshIsCovered, StartIsCovered
  <1>6. CASE HydrateFinish
    <2>1. mode' = "watching" /\ refresh'.step = "idle" /\ refresh'.todo = {}
      BY <1>1, <1>6 DEF HydrateFinish
    <2> QED
      BY <2>1 DEF CoverInv, OneAtATime, RefreshIsCovered, StartIsCovered
  <1> QED
    BY <1>4, <1>5, <1>6

LEMMA NextCover == CoverInv /\ [MCSyncNext]_mcsvars => CoverInv'
  <1> SUFFICES ASSUME CoverInv, [MCSyncNext]_mcsvars PROVE CoverInv'
    OBVIOUS
  <1>1. [SyncNext]_svars
    BY CountedIsSyncStep DEF mcsvars
  <1>2. SyncInv'
    BY <1>1, NextSyncInv DEF CoverInv
  <1>3. CASE UNCHANGED mcsvars
    <2>1. UNCHANGED <<disk, journal, mode, sync, refresh, touched, behind>> /\ versions' = versions
      BY <1>3 DEF mcsvars, svars, agent, store
    <2>2. OneAtATime' /\ RefreshIsCovered'
      BY <2>1 DEF CoverInv, OneAtATime, RefreshIsCovered, Overwritable, Recorded
    <2>3. \A p \in Paths : (Replaceable(p) => Replaceable(p)') /\ (Journaled(p) => Journaled(p)')
      BY <2>1 DEF Replaceable, Overwritable, Recorded, Journaled, Open
    <2>4. StartIsCovered'
      BY <2>1, <2>3, StateFacts DEF CoverInv, StartIsCovered, RefreshState
    <2> QED
      BY <1>2, <2>2, <2>4 DEF CoverInv
  <1>4. CASE MCSyncNext
    <2>1. CASE EditStep /\ touched' = touched \cup {p \in Paths : disk'[p] # disk[p]}
      BY <1>2, <1>4, <2>1, OutsideCovered
    <2>2. CASE OtherDeviceStep \/ Notice \/ \E p \in Paths : ResolveKeepCloud(p) \/ ResolveKeepLocal(p)
      BY <1>2, <1>4, <2>2, OutsideCovered
    <2>3. CASE \/ SyncRead \/ SyncReadCached \/ SyncPlan \/ SyncCommit \/ SyncAcknowledge
               \/ SyncSettle \/ SyncFails
      BY <1>2, <1>4, <2>3, SyncCovered
    <2>4. CASE \/ RefreshRead \/ RefreshCheck \/ RefreshScan \/ RefreshFinish \/ RefreshStops
               \/ \E p \in Paths : WriteDisk(p)
      BY <1>2, <1>4, <2>4, RefreshCovered
    <2>5. CASE AgentDies
      BY <1>2, <2>5, DeathCovered
    <2>6. CASE Start
      BY <1>2, <1>4, <2>6, StartCovers
    <2>7. CASE Recover
      BY <1>2, <1>4, <2>7, RecoverCovers
    <2>8. CASE RecoverAcknowledge \/ HydrateRead \/ HydrateFinish
      BY <1>2, <1>4, <2>8, HydrationCovered
    <2> QED
      BY <1>4, <2>1, <2>2, <2>3, <2>4, <2>5, <2>6, <2>7, <2>8
      DEF MCSyncNext, MCSyncStep, FailureStep, ScanStep, OtherStep
  <1> QED
    BY <1>3, <1>4

LEMMA CoverHolds == MCSyncSpec => []CoverInv
  BY InitCover, NextCover, PTL DEF MCSyncSpec

LEMMA OverwritesCovered ==
  ASSUME CoverInv, NEW p \in Paths, Overwrites(p)
  PROVE  /\ mode = "watching" => Overwritable(p)
         /\ mode = "hydrating" => p \in behind \/ Overwritable(p)
  <1>1. p \in refresh.todo /\ refresh.step = "writing"
    BY DEF Overwrites, CoverInv, OneAtATime
  <1> QED
    BY <1>1 DEF CoverInv, RefreshIsCovered, StartIsCovered, Replaceable

\* A refresh of a watching agent writes over no content that is in no version, unless the
\* user wrote it after the refresh had looked, whatever syncs run beside it.
THEOREM RefreshAlwaysKeepsEdits == MCSyncSpec => RefreshKeepsLocalEdits
  <1>1. CoverInv => (mode = "watching" => \A p \in Paths : Overwrites(p) => Overwritable(p))
    BY OverwritesCovered
  <1> QED
    BY <1>1, CoverHolds, PTL DEF RefreshKeepsLocalEdits

\* What the user edited while no agent ran is journaled by the start, and recorded or set
\* apart before the hydration writes the folder, unless an earlier edit of the path was
\* still open.
THEOREM StartAlwaysKeepsEdits == MCSyncSpec => DroppedOnlyBehindOpenEntry
  <1>1. CoverInv => (mode = "hydrating" => \A p \in Paths : Overwrites(p) => p \in behind \/ Overwritable(p))
    BY OverwritesCovered
  <1> QED
    BY <1>1, CoverHolds, PTL DEF DroppedOnlyBehindOpenEntry

===============================================================================
