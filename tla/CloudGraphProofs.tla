--------------------------- MODULE CloudGraphProofs ---------------------------
(***************************************************************************)
(* Proofs about CloudGraph, for every set of agents, browsers, paths and   *)
(* contents and every bound: type correctness, the coherence of clients'   *)
(* copies, the agreement of history and files, the action properties, and  *)
(* that the compare-and-swap implements GraphStore; and that the damage of *)
(* whole-graph writes, which no swap guards, is confined to the paths      *)
(* whose changes were missed.                                              *)
(*                                                                         *)
(* They rest on facts about one committed batch: what Applied and          *)
(* VersionRows return, and that they carry a store whose history tells its *)
(* files to another one.                                                   *)
(***************************************************************************)
EXTENDS MCGraphRewrite, FiniteSetTheorems, TLAPS

-------------------------------------------------------------------------------
(* One batch. *)

\* A batch is a function on a finite, non-empty set of paths.
LEMMA BatchFacts ==
  ASSUME NEW batch \in Batches
  PROVE  /\ DOMAIN batch \in SUBSET Paths
         /\ DOMAIN batch # {}
         /\ batch \in [DOMAIN batch -> Contents \cup {NoFile}]
         /\ Cardinality(DOMAIN batch) \in Nat \ {0}
  <1>1. PICK S \in (SUBSET Paths) \ {{}} : batch \in [S -> Contents \cup {NoFile}]
    BY DEF Batches
  <1>2. DOMAIN batch = S
    BY <1>1
  <1>3. IsFiniteSet(S)
    BY <1>1, PathsFinite, FS_Subset
  <1>4. Cardinality(S) \in Nat
    BY <1>3, FS_CardinalityType
  <1>5. Cardinality(S) # 0
    BY <1>1, <1>3, FS_EmptySet
  <1> QED
    BY <1>1, <1>2, <1>4, <1>5

\* The revisions a batch hands out follow the one it started from, up to the one it
\* commits, one per path.
LEMMA OrderFacts ==
  ASSUME NEW batch \in Batches, NEW n \in Nat \ {0}, NEW order \in Numberings(DOMAIN batch, n)
  PROVE  /\ \A p \in DOMAIN batch : order[p] \in 1 .. n
         /\ \A p, q \in DOMAIN batch : order[p] = order[q] => p = q
  BY DEF Numberings

\* The files after a batch are files again.
LEMMA AppliedType ==
  ASSUME NEW fs \in Files, NEW r \in 0 .. MaxRevision,
         NEW batch \in Batches, NEW n \in Nat \ {0}, NEW order \in Numberings(DOMAIN batch, n),
         r + n <= MaxRevision
  PROVE  Applied(fs, r, batch, order) \in Files
  <1>2. ASSUME NEW p \in Paths, p \in DOMAIN batch, batch[p] # NoFile
        PROVE  [revision |-> r + order[p], content |-> batch[p]] \in File
    <2>1. batch[p] \in Contents
      BY <1>2, BatchFacts
    <2>2. order[p] \in 1 .. n
      BY <1>2, OrderFacts
    <2>3. r + order[p] \in 1 .. MaxRevision
      BY <2>2, MaxRevisionNat
    <2> QED
      BY <2>1, <2>3 DEF File
  <1> QED
    BY <1>2 DEF Applied, Files

\* The rows a batch adds are version rows of its own revisions.
LEMMA VersionRowsType ==
  ASSUME NEW fs \in Files, NEW r \in 0 .. MaxRevision,
         NEW batch \in Batches, NEW n \in Nat \ {0}, NEW order \in Numberings(DOMAIN batch, n),
         r + n <= MaxRevision
  PROVE  \A row \in VersionRows(fs, r, batch, order) :
           /\ row \in Version
           /\ row.at > r
           /\ row.at <= r + n
  <1>2. ASSUME NEW p \in DOMAIN batch
        PROVE  /\ p \in Paths
               /\ batch[p] \in Contents \cup {NoFile}
               /\ r + order[p] \in 1 .. MaxRevision
               /\ r + order[p] > r
               /\ r + order[p] <= r + n
    <2>1. order[p] \in 1 .. n
      BY OrderFacts
    <2> QED
      BY <2>1, BatchFacts, MaxRevisionNat
  <1> QED
    BY <1>2 DEF VersionRows, Version

\* A batch keeps the rule that one revision names one change.
LEMMA BatchKeepsOneChangeEach ==
  ASSUME NEW fs \in Files, NEW rows \in SUBSET Version, NEW r \in 0 .. MaxRevision,
         NEW batch \in Batches, NEW n \in Nat \ {0}, NEW order \in Numberings(DOMAIN batch, n),
         r + n <= MaxRevision,
         OneChangeEach(fs, rows, r)
  PROVE  OneChangeEach(Applied(fs, r, batch, order),
                       rows \cup VersionRows(fs, r, batch, order),
                       r + n)
  <1> DEFINE gs == Applied(fs, r, batch, order)
             new == VersionRows(fs, r, batch, order)
  <1>2. \A p \in DOMAIN batch : order[p] \in 1 .. n
    BY OrderFacts
  <1>3. \A s \in rows : s.at \in Nat /\ s.at <= r
    BY DEF OneChangeEach, Version
  <1>4. \A s \in new : s.at \in Nat /\ s.at > r /\ s.at <= r + n
    BY VersionRowsType DEF Version
  <1>5. \A s, t \in new : s.at = t.at => s = t
    <2>1. ASSUME NEW p \in DOMAIN batch, NEW q \in DOMAIN batch, r + order[p] = r + order[q]
          PROVE  p = q
      BY <2>1, <1>2, OrderFacts
    <2> QED
      BY <2>1 DEF VersionRows
  <1>6. \A s, t \in rows \cup new : s.at = t.at => s = t
    BY <1>3, <1>4, <1>5 DEF OneChangeEach
  <1>7. \A s \in rows \cup new : s.at <= r + n
    BY <1>3, <1>4
  <1>8. ASSUME NEW p \in Paths, gs[p] # NoFile
        PROVE  \/ p \notin DOMAIN batch /\ gs[p] = fs[p] /\ fs[p].revision \in Nat
                    /\ fs[p].revision <= r
               \/ p \in DOMAIN batch /\ gs[p].revision = r + order[p]
    BY <1>8 DEF Applied, Files, File, OneChangeEach
  <1>9. \A p \in Paths : gs[p] # NoFile => gs[p].revision <= r + n
    BY <1>2, <1>8
  <1>10. ASSUME NEW p \in Paths, NEW q \in Paths, gs[p] # NoFile, gs[q] # NoFile,
                gs[p].revision = gs[q].revision
         PROVE  p = q
    <2>1. CASE p \in DOMAIN batch /\ q \in DOMAIN batch
      BY <2>1, <1>8, <1>10, <1>2, OrderFacts
    <2>2. CASE p \notin DOMAIN batch /\ q \notin DOMAIN batch
      BY <2>2, <1>8, <1>10 DEF OneChangeEach
    <2>3. CASE (p \in DOMAIN batch) # (q \in DOMAIN batch)
      BY <2>3, <1>8, <1>10, <1>2
    <2> QED
      BY <2>1, <2>2, <2>3
  <1> HIDE DEF gs, new
  <1>11. OneChangeEach(gs, rows \cup new, r + n)
    BY <1>6, <1>7, <1>9, <1>10 DEF OneChangeEach
  <1> QED
    BY <1>11 DEF gs, new

\* The content of a path after a batch is the batch's, or what it was.
LEMMA AppliedContent ==
  ASSUME NEW fs \in Files, NEW r \in 0 .. MaxRevision,
         NEW batch \in Batches, NEW n \in Nat \ {0}, NEW order \in Numberings(DOMAIN batch, n),
         r + n <= MaxRevision,
         NEW p \in Paths
  PROVE  /\ p \in DOMAIN batch => ContentOf(Applied(fs, r, batch, order)[p]) = batch[p]
         /\ p \notin DOMAIN batch => Applied(fs, r, batch, order)[p] = fs[p]
  <1> DEFINE gs == Applied(fs, r, batch, order)
  <1>1. p \notin DOMAIN batch => gs[p] = fs[p]
    BY DEF Applied
  <1>2. CASE p \in DOMAIN batch /\ batch[p] = NoFile
    BY <1>2, <1>1 DEF Applied, ContentOf
  <1>3. CASE p \in DOMAIN batch /\ batch[p] # NoFile
    <2>1. gs[p] = [revision |-> r + order[p], content |-> batch[p]]
      BY <1>3 DEF Applied
    <2>2. gs[p] \in File \cup {NoFile}
      BY AppliedType DEF Files
    <2>3. order[p] \in 1 .. n
      BY <1>3, OrderFacts
    <2>4. r + order[p] \in 1 .. MaxRevision
      BY <2>3, BatchFacts, MaxRevisionNat
    <2>5. batch[p] \in Contents
      BY <1>3, BatchFacts
    <2>6. gs[p] \in File
      BY <2>1, <2>4, <2>5 DEF File
    <2>7. gs[p] # NoFile
      BY <2>6, NoFileDistinct
    <2> QED
      BY <2>1, <2>7, <1>3 DEF ContentOf
  <1> QED
    BY <1>1, <1>2, <1>3

\* A batch keeps the history telling the files.
LEMMA BatchKeepsHistory ==
  ASSUME NEW fs \in Files, NEW rows \in SUBSET Version, NEW r \in 0 .. MaxRevision,
         NEW batch \in Batches, NEW n \in Nat \ {0}, NEW order \in Numberings(DOMAIN batch, n),
         r + n <= MaxRevision,
         OneChangeEach(fs, rows, r),
         HistoryTells(fs, rows, r)
  PROVE  HistoryTells(Applied(fs, r, batch, order),
                      rows \cup VersionRows(fs, r, batch, order),
                      r + n)
  <1> DEFINE gs == Applied(fs, r, batch, order)
             new == VersionRows(fs, r, batch, order)
  <1>2. \A row \in rows : row.at \in Nat /\ row.at <= r
    BY DEF OneChangeEach, Version
  <1>3. \A row \in new : row.at \in Nat /\ row.at > r /\ row.at <= r + n
    BY VersionRowsType DEF Version
  <1>4. SUFFICES ASSUME NEW p \in Paths
                 PROVE  /\ (\A row \in rows \cup new : row.path # p) => gs[p] = NoFile
                        /\ \A row \in rows \cup new :
                             (row.path = p /\ IsLatest(row, rows \cup new, r + n))
                               => row.content = ContentOf(gs[p])
    BY DEF HistoryTells
  <1>5. CASE p \in DOMAIN batch /\ batch[p] # ContentOf(fs[p])
    <2> DEFINE mine == [path |-> p, at |-> r + order[p], content |-> batch[p]]
    <2>1. mine \in new /\ mine.path = p /\ mine.at = r + order[p] /\ mine.content = batch[p]
      BY <1>5 DEF VersionRows
    <2>2. \A row \in new : row.path = p => row = mine
      BY DEF VersionRows
    <2>3. ASSUME NEW row \in rows \cup new, row.path = p, IsLatest(row, rows \cup new, r + n)
          PROVE  row = mine
      <3>1. mine.at <= row.at
        BY <2>1, <2>3, <1>3 DEF IsLatest
      <3>2. row \notin rows
        BY <3>1, <2>1, <1>2, <1>3
      <3> QED
        BY <3>2, <2>2, <2>3
    <2>4. ContentOf(gs[p]) = batch[p]
      BY <1>5, AppliedContent
    <2> HIDE DEF mine
    <2> QED
      BY <2>1, <2>3, <2>4
  <1>6. CASE ~(p \in DOMAIN batch /\ batch[p] # ContentOf(fs[p]))
    <2>1. \A row \in new : row.path # p
      BY <1>6 DEF VersionRows
    <2>2. ContentOf(gs[p]) = ContentOf(fs[p])
      BY <1>6, AppliedContent
    <2>3. fs[p] = NoFile => gs[p] = NoFile
      BY <1>6, AppliedContent DEF ContentOf, Applied
    <2>4. ASSUME NEW row \in rows \cup new, row.path = p, IsLatest(row, rows \cup new, r + n)
          PROVE  row \in rows /\ IsLatest(row, rows, r)
      <3>1. row \in rows
        BY <2>1, <2>4
      <3>2. \A other \in rows : other.path = row.path => other.at <= row.at
        BY <2>4, <1>2 DEF IsLatest
      <3> QED
        BY <3>1, <3>2, <1>2 DEF IsLatest
    <2> HIDE DEF gs, new
    <2> QED
      BY <2>1, <2>2, <2>3, <2>4 DEF HistoryTells
  <1> HIDE DEF gs, new
  <1> QED
    BY <1>5, <1>6

\* What the store keeps: its types, one change for each revision, and a history that
\* tells the files.
StoreInv ==
  /\ head \in HeadRow /\ files \in Files /\ versions \in SUBSET Version
  /\ OneChangeEach(files, versions, head.revision)
  /\ HistoryTells(files, versions, head.revision)

LEMMA InitStoreInv == StoreInit => StoreInv
  <1> SUFFICES ASSUME StoreInit PROVE StoreInv
    OBVIOUS
  <1>1. EmptyHead \in HeadRow /\ NoFiles \in Files
    BY MaxRevisionNat DEF EmptyHead, HeadRow, ReviewStates, NoFiles, Files
  <1>2. OneChangeEach(files, versions, head.revision)
    BY DEF StoreInit, OneChangeEach, NoFiles
  <1>3. HistoryTells(files, versions, head.revision)
    BY DEF StoreInit, HistoryTells, NoFiles
  <1> QED
    BY <1>1, <1>2, <1>3 DEF StoreInit, StoreInv

\* A step of the store carries all of that on, to a later revision.
LEMMA StoreMoves ==
  ASSUME StoreInv, NEW batch \in Batches, NEW n \in Nat \ {0},
         NEW order \in Numberings(DOMAIN batch, n),
         Takes(n), Changes(batch, order)
  PROVE  StoreInv' /\ head'.revision = head.revision + n /\ head'.revision > head.revision
  <1>1. /\ head \in HeadRow /\ files \in Files /\ versions \in SUBSET Version
        /\ head.revision \in 0 .. MaxRevision /\ head.revision + n <= MaxRevision
        /\ files' = Applied(files, head.revision, batch, order)
        /\ versions' = versions \cup VersionRows(files, head.revision, batch, order)
    BY DEF StoreInv, HeadRow, Takes, Changes
  <1>2. head'.revision = head.revision + n /\ head'.revision > head.revision
    BY <1>1 DEF Takes, Advanced, HeadRow
  <1>3. head' \in HeadRow
    <2>1. head.revision + n \in 0 .. MaxRevision
      BY <1>1, MaxRevisionNat
    <2> QED
      BY <1>1, <2>1 DEF Takes, Advanced, HeadRow
  <1>4. files' \in Files
    BY <1>1, AppliedType
  <1>5. versions' \in SUBSET Version
    BY <1>1, VersionRowsType
  <1>6. OneChangeEach(files, versions, head.revision)'
    BY <1>1, <1>2, BatchKeepsOneChangeEach DEF StoreInv
  <1>7. HistoryTells(files, versions, head.revision)'
    BY <1>1, <1>2, BatchKeepsHistory DEF StoreInv
  <1> QED
    BY <1>2, <1>3, <1>4, <1>5, <1>6, <1>7 DEF StoreInv

\* A batch with one edit of each path is a step of the store.
LEMMA ApplyIsStep ==
  ASSUME NEW batch \in Batches, NEW order \in Orders(DOMAIN batch),
         head.revision \in 0 .. MaxRevision, Apply(batch, order)
  PROVE  StoreNext
  <1> DEFINE n == Cardinality(DOMAIN batch)
  <1>1. n \in Nat \ {0} /\ order \in Numberings(DOMAIN batch, n)
    BY BatchFacts DEF Orders
  <1>2. n \in 1 .. MaxRevision
    BY <1>1, MaxRevisionNat DEF Apply, Takes
  <1> QED
    BY <1>1, <1>2 DEF Apply, StoreNext

-------------------------------------------------------------------------------
(* The clients. *)

\* No client's copy is of a head later than the current one: heads only advance.
CopiesNotAhead ==
  \A c \in Clients : phase[c] # "idle" => graph[c].head.revision <= head.revision

\* A browser reads the graph only to submit an edit.
ReadsToSubmit == \A b \in Browsers : phase[b] # "idle" => intent[b] # NoIntent

\* The inductive invariant.  CopyIsCurrentOrRefused alone is not inductive: that a
\* commit outdates every other copy needs those copies not to be ahead already.
Inv ==
  /\ TypeOK
  /\ ReadsToSubmit
  /\ CopiesNotAhead
  /\ CopyIsCurrentOrRefused
  /\ RevisionNamesOneChange
  /\ HistoryMatchesFiles

\* The batch of one browser edit is a batch.
LEMMA SaveBatch ==
  ASSUME NEW p \in Paths, NEW content \in Contents
  PROVE  /\ [q \in {p} |-> content] \in Batches
         /\ DOMAIN [q \in {p} |-> content] = {p}
  <1>1. {p} \in (SUBSET Paths) \ {{}}
    OBVIOUS
  <1>2. [q \in {p} |-> content] \in [{p} -> Contents \cup {NoFile}]
    OBVIOUS
  <1> QED
    BY <1>1, <1>2 DEF Batches

\* A swap that takes effect is an atomic step of the store, because the copy it was
\* computed from is the current one; it keeps the store's half of the invariant.
LEMMA SwapIsAtomic ==
  ASSUME Inv, NEW c \in Clients, phase[c] = "graph",
         NEW batch \in Batches, NEW order \in Orders(DOMAIN batch),
         Swap(graph[c], batch, order)
  PROVE  /\ graph[c].head = head /\ graph[c].files = files
         /\ Writable(head)
         /\ head.revision + Cardinality(DOMAIN batch) <= MaxRevision
         /\ head' = Advanced(head, Cardinality(DOMAIN batch))
         /\ files' = Applied(files, head.revision, batch, order)
         /\ versions' = versions \cup VersionRows(files, head.revision, batch, order)
         /\ head' \in HeadRow /\ files' \in Files /\ versions' \in SUBSET Version
         /\ head'.revision > head.revision
         /\ RevisionNamesOneChange'
         /\ HistoryMatchesFiles'
  <1> DEFINE n == Cardinality(DOMAIN batch)
  <1>1. n \in Nat \ {0} /\ order \in Numberings(DOMAIN batch, n)
    BY BatchFacts DEF Orders
  <1>2. graph[c].head = head /\ graph[c].files = files
    BY DEF Inv, CopyIsCurrentOrRefused, Swap
  <1>3. Takes(n)
    BY <1>2 DEF Swap, Takes
  <1>4. Changes(batch, order)
    BY <1>2 DEF Swap, Changes, Applied
  <1>5. StoreInv
    BY DEF Inv, TypeOK, RevisionNamesOneChange, HistoryMatchesFiles, StoreInv
  <1>6. StoreInv' /\ head'.revision > head.revision
    BY <1>1, <1>3, <1>4, <1>5, StoreMoves
  <1> QED
    BY <1>2, <1>3, <1>4, <1>6
    DEF Takes, Changes, Apply, StoreInv, RevisionNamesOneChange, HistoryMatchesFiles

\* The whole copy a client works with is a graph.
LEMMA AdvancedCopy ==
  ASSUME NEW g \in Graph, NEW batch \in Batches, NEW order \in Orders(DOMAIN batch),
         g.head.revision + Cardinality(DOMAIN batch) <= MaxRevision
  PROVE  [head  |-> Advanced(g.head, Cardinality(DOMAIN batch)),
          files |-> Applied(g.files, g.head.revision, batch, order)] \in Graph
  <1> DEFINE n == Cardinality(DOMAIN batch)
  <1>1. n \in Nat \ {0} /\ order \in Numberings(DOMAIN batch, n)
    BY BatchFacts DEF Orders
  <1>2. g.head \in HeadRow /\ g.files \in Files /\ g.head.revision \in 0 .. MaxRevision
    BY DEF Graph, HeadRow
  <1>3. g.head.revision + n \in 0 .. MaxRevision
    BY <1>1, <1>2, MaxRevisionNat
  <1>4. Advanced(g.head, n) \in HeadRow
    BY <1>2, <1>3 DEF Advanced, HeadRow
  <1>5. Applied(g.files, g.head.revision, batch, order) \in Files
    BY <1>1, <1>2, AppliedType
  <1> QED
    BY <1>4, <1>5 DEF Graph

-------------------------------------------------------------------------------

LEMMA InitInv == Init => Inv
  <1> SUFFICES ASSUME Init PROVE Inv
    OBVIOUS
  <1>1. StoreInv
    BY InitStoreInv DEF Init
  <1>2. TypeOK
    BY <1>1 DEF Init, StoreInit, StoreInv, TypeOK, Unread, Graph
  <1> QED
    BY <1>1, <1>2 DEF Init, StoreInv, RevisionNamesOneChange, HistoryMatchesFiles, Inv,
                      ReadsToSubmit, CopiesNotAhead, CopyIsCurrentOrRefused, Clients

\* Forgetting a copy keeps every conjunct that is about copies.
LEMMA ForgetKeeps ==
  ASSUME Inv, NEW c \in Clients, Forget(c), UNCHANGED store,
         intent' \in [Clients -> Intent \cup {NoIntent}],
         reply' \in [Clients -> {"none", "saved", "conflict"}],
         \A d \in Clients : d # c => intent'[d] = intent[d]
  PROVE  Inv'
  <1> USE DEF store
  <1>1. Unread \in Graph
    BY MaxRevisionNat DEF Unread, Graph, EmptyHead, HeadRow, ReviewStates, NoFiles, Files
  <1>2. TypeOK'
    BY <1>1 DEF Inv, TypeOK, Forget
  <1>3. CopiesNotAhead' /\ CopyIsCurrentOrRefused' /\ ReadsToSubmit'
    BY DEF Inv, TypeOK, CopiesNotAhead, CopyIsCurrentOrRefused, ReadsToSubmit, Forget, Clients
  <1> QED
    BY <1>2, <1>3
    DEF Inv, RevisionNamesOneChange, HistoryMatchesFiles

LEMMA NextInv == Inv /\ [Next]_vars => Inv'
  <1> SUFFICES ASSUME Inv, [Next]_vars PROVE Inv'
    OBVIOUS
  <1> USE DEF Clients, store
  <1>1. ASSUME NEW c \in Clients, NEW p \in Paths, NEW content \in Contents,
               OpenFile(c, p, content)
        PROVE  Inv'
    <2>1. RevisionOf(files[p]) \in (1 .. MaxRevision) \cup {NoFile}
      BY DEF Inv, TypeOK, Files, File, RevisionOf
    <2>2. [path |-> p, content |-> content, base |-> RevisionOf(files[p]), attempt |-> 1]
            \in Intent
      BY <2>1, MaxAttemptsNat DEF Intent
    <2>3. TypeOK'
      BY <1>1, <2>2 DEF Inv, TypeOK, OpenFile
    <2>4. ReadsToSubmit'
      BY <1>1 DEF OpenFile, Inv, TypeOK, ReadsToSubmit
    <2> QED
      BY <1>1, <2>3, <2>4 DEF OpenFile, Inv, CopiesNotAhead, CopyIsCurrentOrRefused,
                        RevisionNamesOneChange, HistoryMatchesFiles
  <1>2. ASSUME NEW c \in Clients, ReadHead(c)
        PROVE  Inv'
    <2>1. TypeOK'
      BY <1>2 DEF Inv, TypeOK, ReadHead, Graph
    <2>2. CopiesNotAhead'
      BY <1>2 DEF Inv, TypeOK, ReadHead, CopiesNotAhead, Graph, HeadRow
    <2>3. CopyIsCurrentOrRefused'
      BY <1>2 DEF Inv, TypeOK, ReadHead, CopyIsCurrentOrRefused, Graph
    <2>4. ReadsToSubmit'
      BY <1>2 DEF ReadHead, Inv, TypeOK, ReadsToSubmit
    <2> QED
      BY <1>2, <2>1, <2>2, <2>3, <2>4
      DEF ReadHead, Inv, RevisionNamesOneChange, HistoryMatchesFiles
  <1>3. ASSUME NEW c \in Clients, ReadFiles(c)
        PROVE  Inv'
    <2>1. TypeOK'
      BY <1>3 DEF Inv, TypeOK, ReadFiles, Graph
    <2>2. CopiesNotAhead'
      BY <1>3 DEF Inv, TypeOK, ReadFiles, CopiesNotAhead, Graph
    <2>3. CopyIsCurrentOrRefused'
      BY <1>3 DEF Inv, TypeOK, ReadFiles, CopyIsCurrentOrRefused, Graph
    <2>4. ReadsToSubmit'
      BY <1>3 DEF ReadFiles, Inv, TypeOK, ReadsToSubmit
    <2> QED
      BY <1>3, <2>1, <2>2, <2>3, <2>4
      DEF ReadFiles, Inv, RevisionNamesOneChange, HistoryMatchesFiles
  <1>4. ASSUME NEW c \in Clients, NEW batch \in Batches, NEW order \in Orders(DOMAIN batch),
               CommitBatch(c, batch, order)
        PROVE  Inv'
    <2> DEFINE n == Cardinality(DOMAIN batch)
               next == [head  |-> Advanced(graph[c].head, n),
                        files |-> Applied(graph[c].files, graph[c].head.revision, batch, order)]
    <2>1. phase[c] = "graph" /\ Swap(graph[c], batch, order)
      BY <1>4 DEF CommitBatch
    <2>2. /\ graph[c].head = head /\ graph[c].files = files
          /\ head.revision + n <= MaxRevision
          /\ head' = Advanced(head, n)
          /\ files' = Applied(files, head.revision, batch, order)
          /\ head' \in HeadRow /\ files' \in Files /\ versions' \in SUBSET Version
          /\ head'.revision > head.revision
          /\ RevisionNamesOneChange' /\ HistoryMatchesFiles'
      BY <2>1, SwapIsAtomic
    <2>3. graph' = [graph EXCEPT ![c] = next] /\ UNCHANGED <<phase, intent, reply>>
      BY <1>4 DEF CommitBatch
    <2>4. next \in Graph
      BY <2>2, AdvancedCopy DEF Inv, TypeOK
    <2>5. next.head = head' /\ next.files = files'
      BY <2>2
    <2> HIDE DEF next
    <2>6. TypeOK'
      BY <2>2, <2>3, <2>4 DEF Inv, TypeOK
    <2>7. ASSUME NEW d \in Clients, phase'[d] # "idle"
          PROVE  /\ graph'[d].head.revision <= head'.revision
                 /\ (phase'[d] = "graph" /\ graph'[d].head = head') => graph'[d].files = files'
      <3>1. CASE d = c
        <4>1. graph'[d] = next
          BY <3>1, <2>3 DEF Inv, TypeOK
        <4> QED
          BY <4>1, <2>5, <2>2 DEF HeadRow
      <3>2. CASE d # c
        <4>1. graph'[d] = graph[d] /\ phase'[d] = phase[d]
          BY <3>2, <2>3 DEF Inv, TypeOK
        <4>2. graph[d].head.revision <= head.revision
          BY <4>1, <2>7 DEF Inv, CopiesNotAhead
        <4>3. graph[d].head.revision \in Nat /\ head.revision \in Nat /\ head'.revision \in Nat
          BY <2>2 DEF Inv, TypeOK, Graph, HeadRow
        <4>4. graph[d].head.revision < head'.revision
          BY <4>2, <4>3, <2>2
        <4> QED
          BY <4>1, <4>3, <4>4
      <3> QED
        BY <3>1, <3>2
    <2>8. CopiesNotAhead' /\ CopyIsCurrentOrRefused'
      BY <2>7 DEF CopiesNotAhead, CopyIsCurrentOrRefused
    <2>9. ReadsToSubmit'
      BY <2>3 DEF Inv, ReadsToSubmit
    <2> QED
      BY <2>2, <2>6, <2>8, <2>9 DEF Inv
  <1>5. ASSUME NEW c \in Clients, AgentStops(c)
        PROVE  Inv'
    BY <1>5, ForgetKeeps DEF AgentStops, Inv, TypeOK
  <1>6. ASSUME NEW c \in Browsers, SaveFile(c)
        PROVE  Inv'
    <2> DEFINE batch == [p \in {intent[c].path} |-> intent[c].content]
    <2>1. c \in Clients /\ intent[c] \in Intent
      BY <1>6 DEF Inv, TypeOK, ReadsToSubmit, SaveFile
    <2>2. batch \in Batches
      BY <2>1, SaveBatch DEF Intent
    <2>3. PICK order \in Orders(DOMAIN batch) : Swap(graph[c], batch, order)
      BY <1>6 DEF SaveFile
    <2> HIDE DEF batch
    <2>4. phase[c] = "graph"
      BY <1>6 DEF SaveFile
    <2>5. /\ head' \in HeadRow /\ files' \in Files /\ versions' \in SUBSET Version
          /\ head'.revision > head.revision
          /\ RevisionNamesOneChange' /\ HistoryMatchesFiles'
      BY <2>1, <2>2, <2>3, <2>4, SwapIsAtomic
    <2>6. Unread \in Graph
      BY MaxRevisionNat DEF Unread, Graph, EmptyHead, HeadRow, ReviewStates, NoFiles, Files
    <2>7. /\ phase' = [phase EXCEPT ![c] = "idle"] /\ graph' = [graph EXCEPT ![c] = Unread]
          /\ intent' = [intent EXCEPT ![c] = NoIntent]
          /\ reply' = [reply EXCEPT ![c] = "saved"]
      BY <1>6 DEF SaveFile, Forget
    <2>8. TypeOK'
      BY <2>5, <2>6, <2>7 DEF Inv, TypeOK
    <2>9. ASSUME NEW d \in Clients, phase'[d] # "idle"
          PROVE  graph'[d].head.revision < head'.revision
      <3>1. d # c /\ graph'[d] = graph[d] /\ phase'[d] = phase[d]
        BY <2>7, <2>9 DEF Inv, TypeOK
      <3>2. graph[d].head.revision <= head.revision
        BY <3>1, <2>9 DEF Inv, CopiesNotAhead
      <3>3. graph[d].head.revision \in Nat /\ head.revision \in Nat /\ head'.revision \in Nat
        BY <2>5 DEF Inv, TypeOK, Graph, HeadRow
      <3> QED
        BY <3>1, <3>2, <3>3, <2>5
    <2>10. CopiesNotAhead' /\ CopyIsCurrentOrRefused'
      <3>1. \A d \in Clients : graph'[d].head.revision \in Nat /\ head'.revision \in Nat
        BY <2>8 DEF TypeOK, Graph, HeadRow
      <3> QED
        BY <2>9, <3>1 DEF CopiesNotAhead, CopyIsCurrentOrRefused
    <2>11. ReadsToSubmit'
      BY <2>7 DEF Inv, TypeOK, ReadsToSubmit
    <2> QED
      BY <2>5, <2>8, <2>10, <2>11 DEF Inv
  <1>7. ASSUME NEW c \in Browsers, RetrySave(c)
        PROVE  Inv'
    <2>1. intent[c] \in Intent
      BY <1>7 DEF Inv, TypeOK, ReadsToSubmit, RetrySave
    <2>2. [intent[c] EXCEPT !.attempt = intent[c].attempt + 1] \in Intent
      BY <1>7, <2>1, MaxAttemptsNat DEF RetrySave, Intent
    <2>3. /\ intent' \in [Clients -> Intent \cup {NoIntent}]
          /\ \A d \in Clients : d # c => intent'[d] = intent[d]
      BY <1>7, <2>2 DEF RetrySave, Inv, TypeOK
    <2> QED
      BY <1>7, <2>3, ForgetKeeps DEF RetrySave, Inv, TypeOK
  <1>8. ASSUME NEW c \in Browsers, RefuseSave(c)
        PROVE  Inv'
    <2>1. /\ intent' \in [Clients -> Intent \cup {NoIntent}]
          /\ reply' \in [Clients -> {"none", "saved", "conflict"}]
          /\ \A d \in Clients : d # c => intent'[d] = intent[d]
      BY <1>8 DEF RefuseSave, Inv, TypeOK
    <2> QED
      BY <1>8, <2>1, ForgetKeeps DEF RefuseSave
  <1>9. CASE UNCHANGED vars
    BY <1>9 DEF vars, store, Inv, TypeOK, ReadsToSubmit, CopiesNotAhead, CopyIsCurrentOrRefused,
                RevisionNamesOneChange, HistoryMatchesFiles
  <1> QED
    BY <1>1, <1>2, <1>3, <1>4, <1>5, <1>6, <1>7, <1>8, <1>9
    DEF Next, AgentNext, BrowserNext

-------------------------------------------------------------------------------

\* The inductive invariant holds in every reachable state.
THEOREM InvHolds == Spec => []Inv
  <1>1. Init => Inv
    BY InitInv
  <1>2. Inv /\ [Next]_vars => Inv'
    BY NextInv
  <1> QED
    BY <1>1, <1>2, PTL DEF Spec

\* Every variable keeps its type.
THEOREM TypeCorrect == Spec => []TypeOK
  BY InvHolds, PTL DEF Inv

\* The version history always reproduces the files of the current revision.
THEOREM HistoryCorrect == Spec => []HistoryMatchesFiles
  BY InvHolds, PTL DEF Inv

\* A revision is never given to two changes.
THEOREM RevisionsCorrect == Spec => []RevisionNamesOneChange
  BY InvHolds, PTL DEF Inv

\* A copy with the current head has the current files.
THEOREM CopiesCorrect == Spec => []CopyIsCurrentOrRefused
  BY InvHolds, PTL DEF Inv

\* The steps of the specification, as steps of the store: a commit of a batch, or
\* nothing that the store can see.
LEMMA StoreStep ==
  ASSUME Inv, [Next]_vars
  PROVE  \/ UNCHANGED store
         \/ \E c \in Clients, batch \in Batches : \E order \in Orders(DOMAIN batch) :
              phase[c] = "graph" /\ Swap(graph[c], batch, order)
  <1> USE DEF store
  <1>1. ASSUME NEW b \in Browsers, SaveFile(b)
        PROVE  \E c \in Clients, batch \in Batches : \E order \in Orders(DOMAIN batch) :
                 phase[c] = "graph" /\ Swap(graph[c], batch, order)
    <2> DEFINE batch == [p \in {intent[b].path} |-> intent[b].content]
    <2>1. phase[b] = "graph" /\ b \in Clients
      BY <1>1 DEF SaveFile, Clients
    <2>2. intent[b] \in Intent
      BY <2>1 DEF Inv, TypeOK, ReadsToSubmit, Clients
    <2>3. batch \in Batches
      BY <2>2, SaveBatch DEF Intent
    <2>4. PICK order \in Orders(DOMAIN batch) : Swap(graph[b], batch, order)
      BY <1>1 DEF SaveFile
    <2> HIDE DEF batch
    <2> QED
      BY <2>1, <2>3, <2>4
  <1>2. ASSUME NEW a \in Agents, NEW batch \in Batches, NEW order \in Orders(DOMAIN batch),
               CommitBatch(a, batch, order)
        PROVE  a \in Clients /\ phase[a] = "graph" /\ Swap(graph[a], batch, order)
    BY <1>2 DEF CommitBatch, Clients
  <1> QED
    BY <1>1, <1>2 DEF Next, AgentNext, BrowserNext, vars, OpenFile, ReadHead, ReadFiles,
                      AgentStops, RetrySave, RefuseSave

\* No snapshot of the past ever changes.
THEOREM PastImmutable == Spec => PastIsImmutable
  <1> USE DEF store
  <1> DEFINE A == /\ versions \subseteq versions'
                  /\ \A row \in versions' \ versions : row.at > head.revision
  <1>1. ASSUME Inv, [Next]_vars
        PROVE  A
    <2>1. CASE UNCHANGED store
      BY <2>1
    <2>2. ASSUME NEW c \in Clients, NEW batch \in Batches, NEW order \in Orders(DOMAIN batch),
                 phase[c] = "graph", Swap(graph[c], batch, order)
          PROVE  A
      <3>1. /\ versions' = versions \cup VersionRows(files, head.revision, batch, order)
            /\ head.revision + Cardinality(DOMAIN batch) <= MaxRevision
        BY <1>1, <2>2, SwapIsAtomic
      <3>2. files \in Files /\ head.revision \in 0 .. MaxRevision
        BY <1>1 DEF Inv, TypeOK, HeadRow
      <3>3. \A row \in VersionRows(files, head.revision, batch, order) :
              row.at > head.revision
        BY <3>1, <3>2, VersionRowsType, BatchFacts DEF Orders
      <3> QED
        BY <3>1, <3>3
    <2> QED
      BY <1>1, <2>1, <2>2, StoreStep
  <1>2. Inv /\ [Next]_vars => [A]_vars
    BY <1>1
  <1> QED
    BY <1>2, InvHolds, PTL DEF Spec, PastIsImmutable

\* No browser save replaces a version its user has not seen.
THEOREM NoBlindSaves == Spec => NoBlindSave
  <1> USE DEF store
  <1> DEFINE A == \A b \in Browsers :
                    (intent[b] # NoIntent /\ intent'[b] = NoIntent /\ reply'[b] = "saved") =>
                      /\ RevisionOf(files[intent[b].path]) = intent[b].base
                      /\ ContentOf(files'[intent[b].path]) = intent[b].content
  <1>1. ASSUME Inv, [Next]_vars
        PROVE  A
    <2> SUFFICES ASSUME NEW b \in Browsers, intent[b] # NoIntent, intent'[b] = NoIntent,
                        reply'[b] = "saved"
                 PROVE  /\ RevisionOf(files[intent[b].path]) = intent[b].base
                        /\ ContentOf(files'[intent[b].path]) = intent[b].content
      OBVIOUS
    <2> DEFINE batch == [p \in {intent[b].path} |-> intent[b].content]
    <2>1. b \in Clients /\ intent[b] \in Intent
      BY <1>1 DEF Inv, TypeOK, Clients
    <2>2. SaveFile(b)
      <3>1. intent[b] # intent'[b]
        OBVIOUS
      <3>2. \A c \in Clients, p \in Paths, content \in Contents : ~OpenFile(c, p, content)
        BY <1>1, <2>1 DEF OpenFile, Inv, TypeOK
      <3>3. PICK c \in Browsers : BrowserNext(c)
        BY <1>1, <3>1 DEF Next, AgentNext, ReadHead, ReadFiles, CommitBatch, AgentStops, vars
      <3>4. SaveFile(c) \/ RetrySave(c) \/ RefuseSave(c)
        BY <3>1, <3>2, <3>3 DEF BrowserNext, ReadHead, ReadFiles, Clients
      <3>5. c = b
        <4>1. \E x : intent' = [intent EXCEPT ![c] = x]
          BY <3>4 DEF SaveFile, RetrySave, RefuseSave
        <4> QED
          BY <4>1, <3>1, <1>1, <2>1 DEF Inv, TypeOK
      <3>6. ~RetrySave(b)
        <4> SUFFICES ASSUME RetrySave(b) PROVE FALSE
          OBVIOUS
        <4>1. intent'[b] = [intent[b] EXCEPT !.attempt = intent[b].attempt + 1]
          BY <1>1, <2>1 DEF RetrySave, Inv, TypeOK
        <4>2. [intent[b] EXCEPT !.attempt = intent[b].attempt + 1] \in Intent
          BY <2>1, MaxAttemptsNat DEF RetrySave, Intent
        <4> QED
          BY <4>1, <4>2, NoIntentDistinct
      <3>7. ~RefuseSave(b)
        BY <1>1, <2>1 DEF RefuseSave, Inv, TypeOK
      <3> QED
        BY <3>4, <3>5, <3>6, <3>7
    <2>3. batch \in Batches /\ DOMAIN batch = {intent[b].path}
      BY <2>1, SaveBatch DEF Intent
    <2>4. PICK order \in Orders(DOMAIN batch) : Swap(graph[b], batch, order)
      BY <2>2 DEF SaveFile
    <2>5. batch[intent[b].path] = intent[b].content
      OBVIOUS
    <2> HIDE DEF batch
    <2>6. /\ graph[b].files = files
          /\ files' = Applied(files, head.revision, batch, order)
          /\ head.revision + Cardinality(DOMAIN batch) <= MaxRevision
      BY <1>1, <2>1, <2>2, <2>3, <2>4, SwapIsAtomic DEF SaveFile
    <2>7. files \in Files /\ head.revision \in 0 .. MaxRevision /\ intent[b].path \in Paths
      BY <1>1, <2>1 DEF Inv, TypeOK, HeadRow, Intent
    <2>8. ContentOf(files'[intent[b].path]) = batch[intent[b].path]
      BY <2>3, <2>6, <2>7, AppliedContent, BatchFacts DEF Orders
    <2> QED
      BY <2>2, <2>5, <2>6, <2>8 DEF SaveFile, BaseHolds
  <1>2. Inv /\ [Next]_vars => [A]_vars
    BY <1>1
  <1> QED
    BY <1>2, InvHolds, PTL DEF Spec, NoBlindSave

\* The two-query reads and the compare-and-swap implement the sequential store.
THEOREM Refinement == Spec => ImplementsStore
  <1>1. Init => StoreInit
    BY DEF Init
  <1>2. ASSUME Inv, [Next]_vars
        PROVE  [StoreNext]_store
    <2>1. CASE UNCHANGED store
      BY <2>1
    <2>2. ASSUME NEW c \in Clients, NEW batch \in Batches, NEW order \in Orders(DOMAIN batch),
                 phase[c] = "graph", Swap(graph[c], batch, order)
          PROVE  StoreNext
      <3>1. Apply(batch, order)
        BY <1>2, <2>2, SwapIsAtomic DEF Apply, Takes, Changes
      <3>2. head.revision \in 0 .. MaxRevision
        BY <1>2 DEF Inv, TypeOK, HeadRow
      <3> QED
        BY <3>1, <3>2, ApplyIsStep
    <2> QED
      BY <1>2, <2>1, <2>2, StoreStep
  <1>3. Inv /\ [Next]_vars => [StoreNext]_store
    BY <1>2
  <1> QED
    BY <1>1, <1>3, InvHolds, PTL DEF Spec, ImplementsStore, StoreSpec

-------------------------------------------------------------------------------
(* Whole-graph writes. *)

\* The types and what they need.  None of it depends on copies being current: what a
\* commit or a whole-graph write computes from any copy fits the tables.
FitInv == RewriteTypeOK /\ ReadsToSubmit

\* A swap computes rows from a copy that may be torn or taken back since; they fit.
LEMMA SwapFits ==
  ASSUME TypeOK, NEW c \in Clients, NEW batch \in Batches, NEW order \in Orders(DOMAIN batch),
         Swap(graph[c], batch, order)
  PROVE  /\ head' \in HeadRow /\ files' \in Files /\ versions' \in SUBSET Version
         /\ [head  |-> Advanced(graph[c].head, Cardinality(DOMAIN batch)),
             files |-> Applied(graph[c].files, graph[c].head.revision, batch, order)] \in Graph
  <1> DEFINE n == Cardinality(DOMAIN batch)
             g == graph[c]
             next == Applied(g.files, g.head.revision, batch, order)
  <1>1. n \in Nat \ {0} /\ order \in Numberings(DOMAIN batch, n)
    BY BatchFacts DEF Orders
  <1>2. /\ g \in Graph /\ g.files \in Files /\ g.head.revision \in 0 .. MaxRevision
        /\ g.head.revision + n <= MaxRevision
        /\ files \in Files /\ versions \in SUBSET Version
    BY DEF TypeOK, Graph, HeadRow, Swap
  <1>3. [head |-> Advanced(g.head, n), files |-> next] \in Graph
    BY <1>2, AdvancedCopy
  <1>4. head' = Advanced(g.head, n) /\ head' \in HeadRow /\ next \in Files
    BY <1>3 DEF Swap, Graph
  <1>5. files' \in Files
    <2>1. files' = [p \in Paths |-> IF p \in DOMAIN batch THEN next[p] ELSE files[p]]
      BY DEF Swap
    <2> HIDE DEF next
    <2> QED
      BY <2>1, <1>2, <1>4 DEF Files
  <1>6. versions' \in SUBSET Version
    <2>1. versions' = versions \cup VersionRows(g.files, g.head.revision, batch, order)
      BY DEF Swap
    <2> QED
      BY <2>1, <1>1, <1>2, VersionRowsType
  <1> QED
    BY <1>3, <1>4, <1>5, <1>6

LEMMA ForgetFits ==
  ASSUME TypeOK, ReadsToSubmit, NEW c \in Clients, Forget(c),
         head' \in HeadRow, files' \in Files, versions' \in SUBSET Version,
         intent' \in [Clients -> Intent \cup {NoIntent}],
         reply' \in [Clients -> {"none", "saved", "conflict"}],
         \A d \in Clients : d # c => intent'[d] = intent[d]
  PROVE  TypeOK' /\ ReadsToSubmit'
  <1>1. Unread \in Graph
    BY MaxRevisionNat DEF Unread, Graph, EmptyHead, HeadRow, ReviewStates, NoFiles, Files
  <1>2. TypeOK'
    BY <1>1 DEF TypeOK, Forget
  <1>3. ReadsToSubmit'
    BY DEF TypeOK, ReadsToSubmit, Forget, Clients
  <1> QED
    BY <1>2, <1>3

LEMMA GuardedFits ==
  ASSUME TypeOK, ReadsToSubmit, Next
  PROVE  TypeOK' /\ ReadsToSubmit'
  <1> USE DEF Clients, store
  <1>1. ASSUME NEW c \in Clients, NEW p \in Paths, NEW content \in Contents,
               OpenFile(c, p, content)
        PROVE  TypeOK' /\ ReadsToSubmit'
    <2>1. RevisionOf(files[p]) \in (1 .. MaxRevision) \cup {NoFile}
      BY DEF TypeOK, Files, File, RevisionOf
    <2>2. [path |-> p, content |-> content, base |-> RevisionOf(files[p]), attempt |-> 1]
            \in Intent
      BY <2>1, MaxAttemptsNat DEF Intent
    <2>3. TypeOK'
      BY <1>1, <2>2 DEF TypeOK, OpenFile
    <2>4. ReadsToSubmit'
      BY <1>1 DEF OpenFile, TypeOK, ReadsToSubmit
    <2> QED
      BY <2>3, <2>4
  <1>2. ASSUME NEW c \in Clients, ReadHead(c) PROVE TypeOK' /\ ReadsToSubmit'
    <2>1. TypeOK'
      BY <1>2 DEF TypeOK, ReadHead, Graph
    <2> QED
      BY <1>2, <2>1 DEF TypeOK, ReadHead, ReadsToSubmit
  <1>3. ASSUME NEW c \in Clients, ReadFiles(c) PROVE TypeOK' /\ ReadsToSubmit'
    <2>1. TypeOK'
      BY <1>3 DEF TypeOK, ReadFiles, Graph
    <2> QED
      BY <1>3, <2>1 DEF TypeOK, ReadFiles, ReadsToSubmit
  <1>4. ASSUME NEW c \in Clients, NEW batch \in Batches, NEW order \in Orders(DOMAIN batch),
               CommitBatch(c, batch, order)
        PROVE  TypeOK' /\ ReadsToSubmit'
    <2>1. PICK next \in Graph :
            /\ graph' = [graph EXCEPT ![c] = next] /\ UNCHANGED <<phase, intent, reply>>
            /\ head' \in HeadRow /\ files' \in Files /\ versions' \in SUBSET Version
      BY <1>4, SwapFits DEF CommitBatch
    <2> QED
      BY <2>1 DEF TypeOK, ReadsToSubmit
  <1>5. ASSUME NEW c \in Clients, AgentStops(c) PROVE TypeOK' /\ ReadsToSubmit'
    BY <1>5, ForgetFits DEF AgentStops, TypeOK
  <1>6. ASSUME NEW c \in Browsers, SaveFile(c) PROVE TypeOK' /\ ReadsToSubmit'
    <2> DEFINE batch == [p \in {intent[c].path} |-> intent[c].content]
    <2>1. c \in Clients /\ intent[c] \in Intent
      BY <1>6 DEF TypeOK, ReadsToSubmit, SaveFile
    <2>2. batch \in Batches
      BY <2>1, SaveBatch DEF Intent
    <2>3. PICK order \in Orders(DOMAIN batch) : Swap(graph[c], batch, order)
      BY <1>6 DEF SaveFile
    <2> HIDE DEF batch
    <2>4. head' \in HeadRow /\ files' \in Files /\ versions' \in SUBSET Version
      BY <2>1, <2>2, <2>3, SwapFits
    <2>5. /\ Forget(c)
          /\ intent' \in [Clients -> Intent \cup {NoIntent}]
          /\ reply' \in [Clients -> {"none", "saved", "conflict"}]
          /\ \A d \in Clients : d # c => intent'[d] = intent[d]
      BY <1>6 DEF SaveFile, TypeOK
    <2> QED
      BY <2>1, <2>4, <2>5, ForgetFits
  <1>7. ASSUME NEW c \in Browsers, RetrySave(c) PROVE TypeOK' /\ ReadsToSubmit'
    <2>1. intent[c] \in Intent
      BY <1>7 DEF TypeOK, ReadsToSubmit, RetrySave
    <2>2. [intent[c] EXCEPT !.attempt = intent[c].attempt + 1] \in Intent
      BY <1>7, <2>1, MaxAttemptsNat DEF RetrySave, Intent
    <2>3. /\ intent' \in [Clients -> Intent \cup {NoIntent}]
          /\ \A d \in Clients : d # c => intent'[d] = intent[d]
      BY <1>7, <2>2 DEF RetrySave, TypeOK
    <2> QED
      BY <1>7, <2>3, ForgetFits DEF RetrySave, TypeOK
  <1>8. ASSUME NEW c \in Browsers, RefuseSave(c) PROVE TypeOK' /\ ReadsToSubmit'
    <2>1. /\ intent' \in [Clients -> Intent \cup {NoIntent}]
          /\ reply' \in [Clients -> {"none", "saved", "conflict"}]
          /\ \A d \in Clients : d # c => intent'[d] = intent[d]
      BY <1>8 DEF RefuseSave, TypeOK
    <2> QED
      BY <1>8, <2>1, ForgetFits DEF RefuseSave, TypeOK
  <1> QED
    BY <1>1, <1>2, <1>3, <1>4, <1>5, <1>6, <1>7, <1>8 DEF Next, AgentNext, BrowserNext

\* The heads that whole-graph writes are called with.
LEMMA RewrittenHeads ==
  ASSUME NEW h \in HeadRow
  PROVE  /\ [h EXCEPT !.review = "open"] \in HeadRow
         /\ [h EXCEPT !.review = "merged", !.main = h.revision] \in HeadRow
         /\ [h EXCEPT !.conflicted = TRUE] \in HeadRow
         /\ h.revision < MaxRevision =>
              /\ [h EXCEPT !.revision = h.revision + 1, !.main = h.revision + 1] \in HeadRow
              /\ h.revision <= h.revision + 1
         /\ h.revision <= h.revision
  <1>1. h.revision \in 0 .. MaxRevision /\ h.revision \in Nat
    BY MaxRevisionNat DEF HeadRow
  <1>2. /\ [h EXCEPT !.review = "open"] \in HeadRow
        /\ [h EXCEPT !.review = "merged", !.main = h.revision] \in HeadRow
        /\ [h EXCEPT !.conflicted = TRUE] \in HeadRow
    BY <1>1 DEF HeadRow, ReviewStates
  <1>3. h.revision < MaxRevision =>
          [h EXCEPT !.revision = h.revision + 1, !.main = h.revision + 1] \in HeadRow
    <2>1. h.revision < MaxRevision => h.revision + 1 \in 0 .. MaxRevision
      BY <1>1, MaxRevisionNat
    <2> QED
      BY <2>1 DEF HeadRow
  <1> QED
    BY <1>1, <1>2, <1>3

\* A call begins with a head that fits, whatever copy it comes from.
LEMMA CallsFit ==
  ASSUME FitInv, NEW c \in Agents,
         OpenReview(c) \/ Merge(c) \/ UpdateCodebase(c) \/ RecordConflict(c)
  PROVE  FitInv'
  <1> DEFINE Call == [step : {"head", "files", "versions"}, head : HeadRow, files : Files,
                      before : Files, todo : SUBSET Paths, recovers : BOOLEAN]
             h == graph[c].head
  <1>1. /\ TypeOK /\ ReadsToSubmit /\ rewrite \in [Agents -> Call \cup {NoRewrite}]
        /\ c \in Clients /\ h \in HeadRow /\ graph[c].files \in Files /\ files \in Files
    BY DEF FitInv, RewriteTypeOK, TypeOK, Clients, Graph
  <1>2. PICK new \in HeadRow, recovers \in BOOLEAN : Rewrite(c, new, recovers)
    <2> HIDE DEF h
    <2>1. /\ [h EXCEPT !.review = "open"] \in HeadRow
          /\ [h EXCEPT !.review = "merged", !.main = h.revision] \in HeadRow
          /\ [h EXCEPT !.conflicted = TRUE] \in HeadRow
          /\ h.revision < MaxRevision =>
               [h EXCEPT !.revision = h.revision + 1, !.main = h.revision + 1] \in HeadRow
      BY <1>1, RewrittenHeads
    <2> QED
      BY <2>1 DEF OpenReview, Merge, UpdateCodebase, RecordConflict, h
  <1>3. /\ Forget(c) /\ UNCHANGED <<store, intent, reply>>
        /\ rewrite' = [rewrite EXCEPT ![c] =
             [step |-> "head", head |-> new, files |-> graph[c].files,
              before |-> files, todo |-> {}, recovers |-> recovers]]
    BY <1>2 DEF Rewrite
  <1>4. TypeOK' /\ ReadsToSubmit'
    BY <1>1, <1>3, ForgetFits DEF TypeOK, store
  <1>5. rewrite' \in [Agents -> Call \cup {NoRewrite}]
    BY <1>1, <1>3
  <1> QED
    BY <1>4, <1>5 DEF FitInv, RewriteTypeOK

\* So do the rows its queries write, although the files and the rows before them may be
\* another client's by then.
LEMMA WritingFits ==
  ASSUME FitInv, NEW c \in Agents, Writing(c)
  PROVE  FitInv'
  <1> DEFINE Call == [step : {"head", "files", "versions"}, head : HeadRow, files : Files,
                      before : Files, todo : SUBSET Paths, recovers : BOOLEAN]
             r == rewrite[c]
  <1>1. rewrite \in [Agents -> Call \cup {NoRewrite}] /\ TypeOK
    BY DEF FitInv, RewriteTypeOK
  <1>2. r \in Call
    BY <1>1 DEF Writing, WriteHead, WriteFile, DeleteOthers, WriteVersion, EndRewrite, Return
  <1>3. /\ r.head \in HeadRow /\ r.files \in Files /\ r.todo \in SUBSET Paths
        /\ head \in HeadRow /\ files \in Files /\ versions \in SUBSET Version
    BY <1>1, <1>2 DEF TypeOK
  <1>4. CASE WriteHead(c)
    BY <1>1, <1>2, <1>3, <1>4 DEF FitInv, RewriteTypeOK, TypeOK, ReadsToSubmit, WriteHead
  <1>5. ASSUME NEW p \in Paths, WriteFile(c, p) PROVE FitInv'
    <2>1. files' = [files EXCEPT ![p] = r.files[p]] /\ UNCHANGED <<head, versions, phase, graph, intent, reply>>
      BY <1>5 DEF WriteFile
    <2>2. files' \in Files
      BY <1>3, <2>1 DEF Files
    <2>3. rewrite' \in [Agents -> Call \cup {NoRewrite}]
      BY <1>1, <1>2, <1>5 DEF WriteFile
    <2> QED
      BY <1>1, <2>1, <2>2, <2>3 DEF FitInv, RewriteTypeOK, TypeOK, ReadsToSubmit
  <1>6. CASE DeleteOthers(c)
    <2>1. files' = [p \in Paths |-> IF r.files[p] = NoFile THEN NoFile ELSE files[p]]
          /\ UNCHANGED <<head, versions, phase, graph, intent, reply>>
      BY <1>6 DEF DeleteOthers
    <2>2. files' \in Files
      BY <1>3, <2>1 DEF Files
    <2>3. rewrite' \in [Agents -> Call \cup {NoRewrite}]
      BY <1>1, <1>2, <1>6 DEF DeleteOthers
    <2> QED
      BY <1>1, <2>1, <2>2, <2>3 DEF FitInv, RewriteTypeOK, TypeOK, ReadsToSubmit
  <1>7. ASSUME NEW p \in Paths, WriteVersion(c, p) PROVE FitInv'
    <2> DEFINE at == IF r.files[p] = NoFile THEN r.head.revision ELSE r.files[p].revision
               row == [path |-> p, at |-> at, content |-> ContentOf(r.files[p])]
    <2>1. versions' = versions \cup {row} /\ UNCHANGED <<head, files, phase, graph, intent, reply>>
      BY <1>7 DEF WriteVersion
    <2>2. r.files[p] \in File \cup {NoFile}
      BY <1>3 DEF Files
    <2>3. at \in 0 .. MaxRevision
      BY <1>3, <2>2, MaxRevisionNat DEF File, HeadRow
    <2>4. ContentOf(r.files[p]) \in Contents \cup {NoFile}
      BY <2>2 DEF ContentOf, File
    <2>5. row \in Version
      BY <2>3, <2>4 DEF Version
    <2>6. rewrite' \in [Agents -> Call \cup {NoRewrite}]
      BY <1>1, <1>2, <1>7 DEF WriteVersion
    <2> HIDE DEF row
    <2> QED
      BY <1>1, <1>3, <2>1, <2>5, <2>6 DEF FitInv, RewriteTypeOK, TypeOK, ReadsToSubmit
  <1>8. CASE EndRewrite(c)
    BY <1>1, <1>2, <1>8 DEF EndRewrite, FitInv, RewriteTypeOK, TypeOK, ReadsToSubmit, vars, store
  <1>9. CASE Return(c)
    <2>1. [head |-> r.head, files |-> r.files] \in Graph
      BY <1>2 DEF Graph
    <2>2. c \in Clients /\ c \notin Browsers
      BY AgentsAreNotBrowsers DEF Clients
    <2>3. /\ TypeOK' /\ ReadsToSubmit'
          /\ rewrite' \in [Agents -> Call \cup {NoRewrite}]
      BY <1>1, <1>9, <2>1, <2>2 DEF Return, FitInv, TypeOK, ReadsToSubmit, store
    <2> QED
      BY <2>3 DEF FitInv, RewriteTypeOK
  <1> QED
    BY <1>4, <1>5, <1>6, <1>7, <1>8, <1>9 DEF Writing

LEMMA FitStep == FitInv /\ [RewriteNext]_rvars => FitInv'
  <1> SUFFICES ASSUME FitInv, [RewriteNext]_rvars PROVE FitInv'
    OBVIOUS
  <1>1. CASE UNCHANGED rvars
    BY <1>1 DEF rvars, vars, store, FitInv, RewriteTypeOK, TypeOK, ReadsToSubmit
  <1>2. CASE Guarded
    BY <1>2, GuardedFits DEF Guarded, FitInv, RewriteTypeOK
  <1>3. CASE \E c \in Agents : OpenReview(c) \/ Merge(c) \/ UpdateCodebase(c) \/ RecordConflict(c)
    BY <1>3, CallsFit
  <1>4. CASE \E c \in Agents : Writing(c)
    BY <1>4, WritingFits
  <1> QED
    BY <1>1, <1>2, <1>3, <1>4, MaintainersAreAgents DEF RewriteNext

LEMMA InitFit == RewriteInit => FitInv
  <1> SUFFICES ASSUME RewriteInit PROVE FitInv
    OBVIOUS
  <1>1. Inv
    BY InitInv DEF RewriteInit
  <1> QED
    BY <1>1 DEF RewriteInit, FitInv, RewriteTypeOK, Inv

\* Whoever shares the store with a whole-graph write, and wherever it is left, the rows of
\* the codebase, its files and its history, the copies and the calls have their types.
THEOREM RewriteTypeCorrect == RewriteSpec => []RewriteTypeOK
  <1>1. FitInv => RewriteTypeOK
    BY DEF FitInv
  <1> QED
    BY <1>1, InitFit, FitStep, PTL DEF RewriteSpec

-------------------------------------------------------------------------------
(* What whole-graph writes can damage. *)

\* The files and the history of the paths outside D.
Without(fs, D) == [p \in Paths |-> IF p \in D THEN NoFile ELSE fs[p]]
RowsWithout(rows, D) == {row \in rows : row.path \notin D}

\* Outside D the history tells the files, and one revision names one change.
Settled(fs, rows, r, D) ==
  /\ HistoryTells(Without(fs, D), RowsWithout(rows, D), r)
  /\ OneChangeEach(Without(fs, D), RowsWithout(rows, D), r)

\* The path has no file and no history of a revision after r.
NotBeyond(fs, rows, p, r) ==
  /\ \A row \in rows : row.path = p => row.at <= r
  /\ fs[p] # NoFile => fs[p].revision <= r

\* The copy of a client tells the truth about every path of which it missed no change,
\* and its head is not behind the changes of those that are not disputed.
CopySees(c) ==
  \A p \in Paths \ missed[c] :
    /\ phase[c] = "graph" => graph[c].files[p] = files[p]
    /\ (phase[c] # "idle" /\ p \notin disputed) =>
         NotBeyond(files, versions, p, graph[c].head.revision)

\* So does what a whole-graph write under way holds; of those paths it has nothing to
\* tell the history.
CallSees(c) ==
  rewrite[c] # NoRewrite =>
    /\ phase[c] = "idle"
    /\ \A p \in Paths \ missed[c] :
         /\ rewrite[c].files[p] = files[p] /\ rewrite[c].before[p] = files[p]
         /\ rewrite[c].step = "versions" => p \notin rewrite[c].todo
         /\ p \notin disputed => NotBeyond(files, versions, p, rewrite[c].head.revision)

\* The inductive invariant.
ConfinedInv ==
  /\ FitInv
  /\ missed \in [Clients -> SUBSET Paths]
  /\ disputed \in SUBSET Paths
  /\ DamageIsConfined
  /\ \A c \in Clients : CopySees(c)
  /\ \A c \in Agents : CallSees(c)

LEMMA WithoutFacts ==
  ASSUME NEW fs \in Files, NEW rows \in SUBSET Version, NEW D
  PROVE  /\ Without(fs, D) \in Files
         /\ RowsWithout(rows, D) \in SUBSET Version
         /\ \A p \in Paths : Without(fs, D)[p] = IF p \in D THEN NoFile ELSE fs[p]
  BY DEF Without, RowsWithout, Files

\* Any revision that nothing is beyond will do.
LEMMA AnyRevisionTells ==
  ASSUME NEW fs \in Files, NEW rows \in SUBSET Version, NEW r \in Nat, NEW s \in Nat,
         OneChangeEach(fs, rows, r), HistoryTells(fs, rows, r),
         \A p \in Paths : NotBeyond(fs, rows, p, s)
  PROVE  OneChangeEach(fs, rows, s) /\ HistoryTells(fs, rows, s)
  <1>1. \A row \in rows : row.path \in Paths /\ row.at <= r /\ row.at <= s
    BY DEF OneChangeEach, NotBeyond, Version
  <1>2. OneChangeEach(fs, rows, s)
    BY <1>1 DEF OneChangeEach, NotBeyond
  <1>3. \A row \in rows : IsLatest(row, rows, s) => IsLatest(row, rows, r)
    BY <1>1 DEF IsLatest
  <1> QED
    BY <1>2, <1>3 DEF HistoryTells

\* Leaving out more paths, and changing those, leaves the others settled.
LEMMA StaysSettled ==
  ASSUME NEW fs \in Files, NEW rows \in SUBSET Version, NEW r \in Nat, NEW D,
         Settled(fs, rows, r, D),
         NEW gs \in Files, NEW more \in SUBSET Version, NEW s \in Nat, NEW E, D \subseteq E,
         \A p \in Paths \ E : gs[p] = fs[p] /\ NotBeyond(fs, rows, p, s),
         RowsWithout(more, E) = RowsWithout(rows, E)
  PROVE  Settled(gs, more, s, E)
  <1> DEFINE w == Without(fs, E)
             R == RowsWithout(rows, E)
  <1>1. w \in Files /\ R \in SUBSET Version
    BY WithoutFacts
  <1>2. Without(gs, E) = w
    BY DEF Without
  <1>3. \A p \in Paths : w[p] # NoFile => p \notin E /\ w[p] = fs[p] /\ w[p] = Without(fs, D)[p]
    BY DEF Without
  <1>4. \A row \in R : row \in RowsWithout(rows, D) /\ row \in rows /\ row.path \in Paths \ E
    BY DEF RowsWithout, Version
  <1>5. OneChangeEach(w, R, r)
    <2> HIDE DEF w, R
    <2> QED
      BY <1>3, <1>4 DEF Settled, OneChangeEach
  <1>6. HistoryTells(w, R, r)
    <2>1. ASSUME NEW row \in R, IsLatest(row, R, r)
          PROVE  IsLatest(row, RowsWithout(rows, D), r)
      BY <2>1, <1>4 DEF IsLatest, RowsWithout
    <2>2. ASSUME NEW p \in Paths, \A row \in R : row.path # p PROVE w[p] = NoFile
      <3>1. CASE p \in E
        BY <3>1 DEF Without
      <3>2. CASE p \notin E
        <4>1. \A row \in RowsWithout(rows, D) : row.path # p
          BY <2>2, <3>2 DEF RowsWithout
        <4>2. Without(fs, D)[p] = NoFile
          BY <4>1 DEF Settled, HistoryTells
        <4> QED
          BY <3>2, <4>2 DEF Without
      <3> QED
        BY <3>1, <3>2
    <2>3. ASSUME NEW p \in Paths, NEW row \in R, row.path = p, IsLatest(row, R, r)
          PROVE  row.content = ContentOf(w[p])
      <3>1. p \notin E /\ row \in RowsWithout(rows, D)
        BY <1>4, <2>3
      <3>2. row.content = ContentOf(Without(fs, D)[p])
        BY <2>1, <2>3, <3>1 DEF Settled, HistoryTells
      <3>3. Without(fs, D)[p] = w[p]
        BY <3>1 DEF Without
      <3> QED
        BY <3>2, <3>3
    <2> HIDE DEF w, R
    <2> QED
      BY <2>2, <2>3 DEF HistoryTells
  <1>7. \A p \in Paths : NotBeyond(w, R, p, s)
    <2> HIDE DEF w, R
    <2> QED
      BY <1>3, <1>4 DEF NotBeyond
  <1>8. OneChangeEach(w, R, s) /\ HistoryTells(w, R, s)
    <2> HIDE DEF w, R
    <2> QED
      BY <1>1, <1>5, <1>6, <1>7, AnyRevisionTells
  <1> QED
    BY <1>2, <1>8 DEF Settled

\* Nothing that is settled at a revision is beyond it.
LEMMA SettledNotBeyond ==
  ASSUME NEW fs, NEW rows, NEW r, NEW D, Settled(fs, rows, r, D),
         NEW p \in Paths \ D
  PROVE  NotBeyond(fs, rows, p, r)
  <1>1. \A row \in rows : row.path = p => row \in RowsWithout(rows, D)
    BY DEF RowsWithout
  <1>2. Without(fs, D)[p] = fs[p]
    BY DEF Without
  <1> QED
    BY <1>1, <1>2 DEF Settled, OneChangeEach, NotBeyond

\* What a batch does outside E, it does as the part of it that is outside E.
LEMMA PartOfBatch ==
  ASSUME NEW batch \in Batches, NEW n \in Nat \ {0}, NEW order \in Numberings(DOMAIN batch, n),
         NEW E, NEW S, S = DOMAIN batch \ E, S # {}
  PROVE  /\ [p \in S |-> batch[p]] \in Batches
         /\ DOMAIN [p \in S |-> batch[p]] = S
         /\ [p \in S |-> order[p]] \in Numberings(S, n)
  <1>1. S \in (SUBSET Paths) \ {{}}
    BY BatchFacts
  <1>2. [p \in S |-> batch[p]] \in [S -> Contents \cup {NoFile}]
    BY BatchFacts
  <1>3. [p \in S |-> batch[p]] \in Batches
    BY <1>1, <1>2 DEF Batches
  <1>4. [p \in S |-> order[p]] \in Numberings(S, n)
    BY OrderFacts DEF Numberings
  <1> QED
    BY <1>3, <1>4

\* A commit from a copy that tells the truth outside E keeps the rest settled; a row it
\* adds there comes with a change of the file.
LEMMA CommitSettles ==
  ASSUME TypeOK, NEW g \in Graph, NEW batch \in Batches, NEW order \in Orders(DOMAIN batch),
         Swap(g, batch, order), NEW E,
         \A p \in Paths \ E : g.files[p] = files[p],
         Settled(files, versions, head.revision, E)
  PROVE  /\ Settled(files', versions', head'.revision, E)
         /\ \A p \in Paths \ E : Applied(g.files, g.head.revision, batch, order)[p] = files'[p]
         /\ \A p \in Paths \ E : files'[p] = files[p] =>
              \A row \in versions' : row.path = p => row \in versions
         /\ head' = Advanced(g.head, Cardinality(DOMAIN batch))
         /\ head'.revision = head.revision + Cardinality(DOMAIN batch)
  <1> DEFINE n == Cardinality(DOMAIN batch)
             r == head.revision
             S == DOMAIN batch \ E
             part == [p \in S |-> batch[p]]
             o == [p \in S |-> order[p]]
             w == Without(files, E)
             R == RowsWithout(versions, E)
             next == Applied(g.files, r, batch, order)
             rows == VersionRows(g.files, r, batch, order)
  <1>1. n \in Nat \ {0} /\ order \in Numberings(DOMAIN batch, n)
    BY BatchFacts DEF Orders
  <1>2. /\ g.head = head /\ r \in 0 .. MaxRevision /\ r + n <= MaxRevision
        /\ head' = Advanced(g.head, n) /\ versions' = versions \cup rows
        /\ files' = [p \in Paths |-> IF p \in DOMAIN batch THEN next[p] ELSE files[p]]
        /\ files \in Files /\ versions \in SUBSET Version /\ g.files \in Files
    BY DEF Swap, TypeOK, HeadRow, Graph
  <1>3. head'.revision = r + n
    BY <1>2 DEF Advanced, TypeOK, HeadRow
  <1>4. next \in Files /\ files' \in Files
    <2>1. next \in Files
      BY <1>1, <1>2, AppliedType
    <2> HIDE DEF next
    <2> QED
      BY <1>2, <2>1 DEF Files
  <1>5. rows \in SUBSET Version /\ versions' \in SUBSET Version
    BY <1>1, <1>2, VersionRowsType
  <1>6. \A p \in Paths \ E : next[p] = files'[p]
    BY <1>2 DEF Applied
  <1>7. ASSUME NEW p \in Paths \ E, files'[p] = files[p], NEW row \in rows, row.path = p
        PROVE  FALSE
    <2>1. p \in DOMAIN batch /\ batch[p] # ContentOf(files[p])
      BY <1>7 DEF VersionRows
    <2>2. batch[p] \in Contents \cup {NoFile} /\ next[p] = files[p]
      BY <1>6, <1>7, <2>1, BatchFacts
    <2>3. CASE batch[p] = NoFile
      BY <2>1, <2>2, <2>3 DEF Applied, ContentOf
    <2>4. CASE batch[p] \in Contents
      <3>1. next[p] = [revision |-> r + order[p], content |-> batch[p]] /\ batch[p] # NoFile
        BY <2>1, <2>4, NoFileDistinct DEF Applied
      <3>2. next[p] \in File
        BY <1>4, <2>1, <3>1, <1>7, NoFileDistinct, OrderFacts, <1>1, <1>2, MaxRevisionNat, <2>4
           DEF File
      <3>3. files[p] # NoFile
        BY <3>2, <2>2, NoFileDistinct
      <3> QED
        BY <2>1, <2>2, <3>1, <3>3 DEF ContentOf
    <2> QED
      BY <2>2, <2>3, <2>4
  <1>8. Settled(files', versions', r + n, E)
    <2>1. \A p \in Paths \ E : NotBeyond(files, versions, p, r)
      <3> HIDE DEF w, R, S, n, next, rows, part, o
      <3> QED
        BY SettledNotBeyond, <1>2, Zenon
    <2>2. CASE S = {}
      <3>1. \A p \in Paths \ E : files'[p] = files[p]
        BY <1>2, <2>2
      <3>2. RowsWithout(versions', E) = R
        BY <1>2, <2>2 DEF RowsWithout, VersionRows
      <3>3. \A p \in Paths \ E : NotBeyond(files, versions, p, r + n)
        <4>1. ASSUME NEW p \in Paths \ E PROVE NotBeyond(files, versions, p, r + n)
          <5>1. \A row \in versions : row.at \in Nat
            BY <1>2 DEF Version
          <5>2. files[p] # NoFile => files[p].revision \in Nat
            BY <1>2, MaxRevisionNat DEF Files, File
          <5> QED
            BY <1>1, <1>2, <2>1, <5>1, <5>2 DEF NotBeyond
        <4> QED
          BY <4>1
      <3>4. r \in Nat /\ r + n \in Nat
        BY <1>1, <1>2
      <3> HIDE DEF rows, next, R, S, r, n
      <3> QED
        BY <1>2, <1>4, <1>5, <3>1, <3>2, <3>3, <3>4, StaysSettled DEF R, r
    <2>3. CASE S # {}
      <3>1. part \in Batches /\ DOMAIN part = S /\ o \in Numberings(S, n)
        BY <1>1, <2>3, PartOfBatch
      <3>2. w \in Files /\ R \in SUBSET Version
        BY <1>2, WithoutFacts
      <3>3. OneChangeEach(w, R, r) /\ HistoryTells(w, R, r)
        BY DEF Settled
      <3>4. Without(files', E) = Applied(w, r, part, o)
        BY <1>2, <3>1 DEF Without, Applied
      <3>5. RowsWithout(versions', E) = R \cup VersionRows(w, r, part, o)
        <4>1. \A p \in S : p \in Paths /\ ContentOf(w[p]) = ContentOf(g.files[p])
          BY BatchFacts DEF Without
        <4>2. RowsWithout(rows, E) = VersionRows(w, r, part, o)
          BY <3>1, <4>1 DEF RowsWithout, VersionRows
        <4> HIDE DEF rows
        <4> QED
          BY <1>2, <4>2 DEF RowsWithout
      <3> HIDE DEF part, o, w, R, S, n, r
      <3>6. /\ OneChangeEach(Applied(w, r, part, o), R \cup VersionRows(w, r, part, o), r + n)
            /\ HistoryTells(Applied(w, r, part, o), R \cup VersionRows(w, r, part, o), r + n)
        BY <1>1, <1>2, <3>1, <3>2, <3>3, BatchKeepsOneChangeEach, BatchKeepsHistory
      <3> QED
        BY <3>4, <3>5, <3>6 DEF Settled
    <2> QED
      BY <2>2, <2>3
  <1>9. \A p \in Paths \ E : files'[p] = files[p] =>
              \A row \in versions' : row.path = p => row \in versions
    BY <1>2, <1>7
  <1> QED
    BY <1>2, <1>3, <1>6, <1>8, <1>9

-------------------------------------------------------------------------------
(* The steps, with the history variables. *)

\* Outside the disputed paths a row comes with a change of its file.
RowsFollow ==
  \A p \in Paths \ disputed' : files'[p] = files[p] =>
    \A row \in versions' : row.path = p => row \in versions

\* The step is the client's.
StepOf(c) ==
  /\ \A d \in Clients : d # c => ~Acts(d)
  /\ store' # store => Acts(c)

Sees(c) == CopySees(c) /\ (c \in Agents => CallSees(c))

\* The paths of the last step are missed by everybody else, and disputed if its client
\* had missed them.
LEMMA HistoryVariables ==
  ASSUME ConfinedInv, MCNext, FitInv', NEW c \in Clients, StepOf(c)
  PROVE  /\ disputed' = IF store' = store THEN disputed ELSE disputed \cup missed[c]
         /\ \A d \in Clients : (d # c \/ ~Acts(c)) /\ UnderWay(d) =>
              missed[d] \cup Rewritten \subseteq missed'[d]
         /\ UnderWay(c)' => missed'[c] = missed[c]
         /\ missed' \in [Clients -> SUBSET Paths] /\ disputed' \in SUBSET Paths
  <1>1. missed \in [Clients -> SUBSET Paths] /\ disputed \in SUBSET Paths /\ Rewritten \in SUBSET Paths
    BY DEF ConfinedInv, Rewritten
  <1>2. missed' = [d \in Clients |->
          IF ~UnderWay(d)' THEN {} ELSE IF Acts(d) THEN missed[d] ELSE missed[d] \cup Rewritten]
    BY DEF MCNext
  <1>3. disputed' = disputed \cup
          UNION {missed[d] : d \in {e \in Clients : Acts(e) /\ store' # store}}
    BY DEF MCNext
  <1>4. missed' \in [Clients -> SUBSET Paths] /\ disputed' \in SUBSET Paths
    <2> HIDE DEF Rewritten
    <2> QED
      BY <1>1, <1>2, <1>3
  <1>5. disputed' = IF store' = store THEN disputed ELSE disputed \cup missed[c]
    <2>1. CASE store' = store
      BY <1>3, <2>1
    <2>2. CASE store' # store
      <3>1. {e \in Clients : Acts(e) /\ store' # store} = {c}
        BY <2>2 DEF StepOf
      <3> QED
        BY <1>3, <2>2, <3>1
    <2> QED
      BY <2>1, <2>2
  <1>6. \A d \in Clients : ~Acts(d) /\ UnderWay(d) => UnderWay(d)'
    BY DEF Acts, UnderWay
  <1>7. \A d \in Clients : (d # c \/ ~Acts(c)) /\ UnderWay(d) =>
          missed[d] \cup Rewritten \subseteq missed'[d]
    BY <1>2, <1>6 DEF StepOf
  <1>8. ~Acts(c) => Rewritten = {}
    BY DEF StepOf, Rewritten, store
  <1>9. UnderWay(c)' => missed'[c] = missed[c]
    BY <1>2, <1>8
  <1> QED
    BY <1>4, <1>5, <1>7, <1>9

\* A client that does not take the step sees what it saw of the paths it did not miss.
LEMMA UnmovedSees ==
  ASSUME ConfinedInv, RowsFollow, disputed \subseteq disputed',
         NEW d \in Clients, ~Acts(d), UnderWay(d) => missed[d] \cup Rewritten \subseteq missed'[d]
  PROVE  Sees(d)'
  <1>1. /\ phase'[d] = phase[d] /\ graph'[d] = graph[d]
        /\ d \in Agents => rewrite'[d] = rewrite[d]
    BY DEF Acts
  <1>2. CopySees(d) /\ (d \in Agents => CallSees(d))
    BY DEF ConfinedInv
  <1>3. ASSUME UnderWay(d), NEW p \in Paths \ missed'[d]
        PROVE  /\ p \notin missed[d] /\ files'[p] = files[p]
               /\ p \notin disputed' =>
                    /\ p \notin disputed
                    /\ \A r : NotBeyond(files, versions, p, r) => NotBeyond(files', versions', p, r)
    <2>1. p \notin missed[d] /\ files'[p] = files[p]
      BY <1>3 DEF Rewritten
    <2>2. ASSUME p \notin disputed', NEW r, NotBeyond(files, versions, p, r)
          PROVE  NotBeyond(files', versions', p, r)
      BY <2>1, <2>2 DEF RowsFollow, NotBeyond
    <2> QED
      BY <2>1, <2>2
  <1>4. CopySees(d)'
    <2> SUFFICES ASSUME NEW p \in Paths \ missed'[d], phase'[d] # "idle"
                 PROVE  /\ phase'[d] = "graph" => graph'[d].files[p] = files'[p]
                        /\ p \notin disputed' =>
                             NotBeyond(files', versions', p, graph'[d].head.revision)
      BY DEF CopySees
    <2>1. UnderWay(d)
      BY <1>1 DEF UnderWay
    <2> QED
      BY <1>1, <1>2, <1>3, <2>1 DEF CopySees
  <1>5. ASSUME d \in Agents PROVE CallSees(d)'
    <2> SUFFICES ASSUME rewrite'[d] # NoRewrite
                 PROVE  /\ phase'[d] = "idle"
                        /\ \A p \in Paths \ missed'[d] :
                             /\ rewrite'[d].files[p] = files'[p] /\ rewrite'[d].before[p] = files'[p]
                             /\ rewrite'[d].step = "versions" => p \notin rewrite'[d].todo
                             /\ p \notin disputed' =>
                                  NotBeyond(files', versions', p, rewrite'[d].head.revision)
      BY DEF CallSees
    <2>1. UnderWay(d) /\ rewrite'[d] = rewrite[d]
      BY <1>1, <1>5 DEF UnderWay
    <2> QED
      BY <1>1, <1>2, <1>3, <1>5, <2>1 DEF CallSees
  <1> QED
    BY <1>4, <1>5 DEF Sees

\* What a step has to keep: the settled part of the store, and what its own client sees.
LEMMA StepKeeps ==
  ASSUME ConfinedInv, MCNext, FitInv', NEW c \in Clients, StepOf(c),
         RowsFollow, DamageIsConfined', Acts(c) => Sees(c)'
  PROVE  ConfinedInv'
  <1>1. /\ disputed \subseteq disputed'
        /\ \A d \in Clients : (d # c \/ ~Acts(c)) /\ UnderWay(d) =>
             missed[d] \cup Rewritten \subseteq missed'[d]
        /\ missed' \in [Clients -> SUBSET Paths] /\ disputed' \in SUBSET Paths
    BY HistoryVariables
  <1>2. ASSUME NEW d \in Clients PROVE Sees(d)'
    <2>1. CASE d = c /\ Acts(c)
      BY <2>1
    <2>2. CASE d # c \/ ~Acts(c)
      <3>1. ~Acts(d)
        BY <2>2 DEF StepOf
      <3>2. UnderWay(d) => missed[d] \cup Rewritten \subseteq missed'[d]
        BY <1>1, <2>2
      <3> QED
        BY <1>1, <3>1, <3>2, UnmovedSees
    <2> QED
      BY <2>1, <2>2
  <1>3. (\A d \in Clients : CopySees(d)') /\ (\A d \in Agents : CallSees(d)')
    BY <1>2 DEF Sees, Clients
  <1> QED
    BY <1>1, <1>3 DEF ConfinedInv

LEMMA QuietKeeps ==
  ASSUME ConfinedInv, MCNext, FitInv', NEW c \in Clients, StepOf(c),
         UNCHANGED store, Acts(c) => Sees(c)'
  PROVE  ConfinedInv'
  <1>1. disputed' = disputed /\ UNCHANGED <<head, files, versions>>
    BY HistoryVariables DEF store
  <1>2. RowsFollow
    BY <1>1 DEF RowsFollow
  <1>3. DamageIsConfined'
    BY <1>1 DEF ConfinedInv, DamageIsConfined, SettledFiles, SettledRows
  <1> QED
    BY <1>2, <1>3, StepKeeps

\* The steps of the clients outside writeGraph.
LEMMA GuardedKeeps ==
  ASSUME ConfinedInv, MCNext, FitInv', Guarded
  PROVE  ConfinedInv'
  <1> USE DEF store
  <1>1. /\ TypeOK /\ ReadsToSubmit /\ UNCHANGED rewrite
        /\ \A a \in Agents : rewrite[a] # NoRewrite => phase'[a] = phase[a]
        /\ graph \in [Clients -> Graph] /\ phase \in [Clients -> {"idle", "head", "graph"}]
        /\ files \in Files /\ head \in HeadRow /\ versions \in SUBSET Version
        /\ Settled(files, versions, head.revision, disputed)
    BY DEF ConfinedInv, FitInv, RewriteTypeOK, TypeOK, Guarded, DamageIsConfined, SettledFiles,
           SettledRows, Settled, Without, RowsWithout
  <1>2. ASSUME NEW c \in Clients, ~Acts(c), \A d \in Clients : ~Acts(d), UNCHANGED store
        PROVE  ConfinedInv'
    BY <1>2, QuietKeeps DEF StepOf
  <1>3. ASSUME NEW c \in Clients, c \in Agents, rewrite[c] # NoRewrite, phase[c] # "idle"
        PROVE  FALSE
    BY <1>3 DEF ConfinedInv, CallSees
  <1>4. ASSUME NEW c \in Clients, NEW p \in Paths, NEW content \in Contents, OpenFile(c, p, content)
        PROVE  ConfinedInv'
    <2>1. UNCHANGED <<store, phase, graph, rewrite>>
      BY <1>1, <1>4 DEF OpenFile
    <2>2. \A d \in Clients : ~Acts(d)
      BY <2>1 DEF Acts
    <2> QED
      BY <1>2, <2>1, <2>2
  <1>5. ASSUME NEW c \in Clients, ReadHead(c) PROVE ConfinedInv'
    <2>1. /\ phase[c] = "idle" /\ phase' = [phase EXCEPT ![c] = "head"]
          /\ graph' = [graph EXCEPT ![c].head = head] /\ UNCHANGED store
      BY <1>5 DEF ReadHead
    <2>2. StepOf(c)
      BY <1>1, <2>1 DEF StepOf, Acts
    <2>3. phase'[c] = "head" /\ graph'[c].head = head
      BY <1>1, <2>1 DEF Graph
    <2>4. disputed' = disputed
      BY <2>1, <2>2, HistoryVariables
    <2>5. CopySees(c)'
      BY <1>1, <2>1, <2>3, <2>4, SettledNotBeyond DEF CopySees
    <2>6. c \in Agents => CallSees(c)'
      BY <1>1, <2>1, <2>3 DEF CallSees
    <2> QED
      BY <2>1, <2>2, <2>5, <2>6, QuietKeeps DEF Sees
  <1>6. ASSUME NEW c \in Clients, ReadFiles(c) PROVE ConfinedInv'
    <2>1. /\ phase[c] = "head" /\ phase' = [phase EXCEPT ![c] = "graph"]
          /\ graph' = [graph EXCEPT ![c].files = files] /\ UNCHANGED store
      BY <1>6 DEF ReadFiles
    <2>2. StepOf(c)
      BY <1>1, <2>1 DEF StepOf, Acts
    <2>3. /\ phase'[c] = "graph" /\ graph'[c].head = graph[c].head /\ graph'[c].files = files
      BY <1>1, <2>1 DEF Graph
    <2>4. disputed' = disputed /\ missed'[c] = missed[c]
      BY <2>1, <2>2, <2>3, HistoryVariables DEF UnderWay
    <2>5. CopySees(c)
      BY DEF ConfinedInv
    <2>6. CopySees(c)'
      BY <2>1, <2>3, <2>4, <2>5 DEF CopySees
    <2>7. c \in Agents => CallSees(c)'
      BY <1>1, <1>3, <2>1 DEF CallSees
    <2> QED
      BY <2>1, <2>2, <2>6, <2>7, QuietKeeps DEF Sees
  <1>7. ASSUME NEW c \in Clients, Forget(c), UNCHANGED store PROVE ConfinedInv'
    <2>1. phase' = [phase EXCEPT ![c] = "idle"] /\ graph' = [graph EXCEPT ![c] = Unread]
      BY <1>7 DEF Forget
    <2>2. StepOf(c)
      BY <1>1, <1>7, <2>1 DEF StepOf, Acts
    <2>3. phase'[c] = "idle"
      BY <1>1, <2>1
    <2>4. CopySees(c)'
      BY <2>3 DEF CopySees
    <2>5. ASSUME c \in Agents PROVE CallSees(c)'
      <3>1. CASE rewrite[c] = NoRewrite
        BY <1>1, <3>1 DEF CallSees
      <3>2. CASE rewrite[c] # NoRewrite
        <4>1. disputed' = disputed /\ missed'[c] = missed[c]
          BY <1>1, <1>7, <2>2, <2>5, <3>2, HistoryVariables DEF UnderWay
        <4>2. CallSees(c)
          BY <2>5 DEF ConfinedInv
        <4> QED
          BY <1>1, <1>7, <2>3, <3>2, <4>1, <4>2 DEF CallSees
      <3> QED
        BY <3>1, <3>2
    <2> QED
      BY <1>7, <2>2, <2>4, <2>5, QuietKeeps DEF Sees
  <1>8. ASSUME NEW c \in Clients, NEW batch \in Batches, NEW order \in Orders(DOMAIN batch),
               phase[c] = "graph", Swap(graph[c], batch, order), StepOf(c), Acts(c)
        PROVE  /\ disputed' = disputed \/ disputed' = disputed \cup missed[c]
               /\ DamageIsConfined' /\ RowsFollow
               /\ Settled(files', versions', head'.revision, disputed')
               /\ head' = Advanced(graph[c].head, Cardinality(DOMAIN batch))
               /\ \A p \in Paths \ missed[c] :
                    /\ Applied(graph[c].files, graph[c].head.revision, batch, order)[p] = files'[p]
    <2> DEFINE E == disputed \cup missed[c]
               n == Cardinality(DOMAIN batch)
    <2>1. n \in Nat \ {0}
      BY BatchFacts
    <2>2. \A p \in Paths \ missed[c] : graph[c].files[p] = files[p]
      BY <1>8 DEF ConfinedInv, CopySees
    <2>3. graph[c].head = head /\ head' = Advanced(graph[c].head, n)
      BY <1>8 DEF Swap
    <2>4. head'.revision = head.revision + n /\ head.revision \in Nat
      BY <1>1, <2>3 DEF Advanced, HeadRow
    <2>5. store' # store
      BY <2>1, <2>4
    <2>6. disputed' = E
      BY <1>8, <2>5, HistoryVariables
    <2>7. \A p \in Paths \ E : NotBeyond(files, versions, p, head.revision)
      BY <1>1, SettledNotBeyond
    <2>8. Settled(files, versions, head.revision, E)
      <3> HIDE DEF E
      <3>1. disputed \subseteq E
        BY DEF E
      <3> QED
        BY <1>1, <2>4, <2>7, <3>1, StaysSettled
    <2>9. graph[c] \in Graph /\ \A p \in Paths \ E : graph[c].files[p] = files[p]
      BY <1>1, <2>2
    <2>10. /\ Settled(files', versions', head'.revision, E)
           /\ \A p \in Paths \ E : files'[p] = files[p] =>
                \A row \in versions' : row.path = p => row \in versions
      <3> HIDE DEF E
      <3> QED
        BY <1>1, <1>8, <2>8, <2>9, CommitSettles
    <2>11. DamageIsConfined'
      BY <2>6, <2>10 DEF DamageIsConfined, SettledFiles, SettledRows, Settled, Without, RowsWithout
    <2>12. RowsFollow
      BY <2>6, <2>10 DEF RowsFollow
    <2>13. \A p \in Paths \ missed[c] :
             Applied(graph[c].files, graph[c].head.revision, batch, order)[p] = files'[p]
      BY <1>8, <2>2, <2>3 DEF Swap, Applied
    <2> QED
      BY <2>3, <2>6, <2>10, <2>11, <2>12, <2>13
  <1>9. ASSUME NEW c \in Clients, NEW batch \in Batches, NEW order \in Orders(DOMAIN batch),
               CommitBatch(c, batch, order)
        PROVE  ConfinedInv'
    <2> DEFINE next == [head  |-> Advanced(graph[c].head, Cardinality(DOMAIN batch)),
                        files |-> Applied(graph[c].files, graph[c].head.revision, batch, order)]
    <2>1. /\ phase[c] = "graph" /\ Swap(graph[c], batch, order)
          /\ graph' = [graph EXCEPT ![c] = next] /\ phase' = phase
      BY <1>9 DEF CommitBatch
    <2>2. graph'[c] = next
      BY <1>1, <2>1
    <2>3. graph'[c] # graph[c]
      <3>1. Cardinality(DOMAIN batch) \in Nat \ {0} /\ graph[c].head \in HeadRow
        BY <1>1, BatchFacts DEF Graph
      <3>2. next.head.revision = graph[c].head.revision + Cardinality(DOMAIN batch)
        BY <3>1 DEF Advanced, HeadRow
      <3>3. graph[c].head.revision \in Nat
        BY <3>1 DEF HeadRow
      <3> QED
        BY <2>2, <3>1, <3>2, <3>3
    <2>4. StepOf(c) /\ Acts(c)
      BY <1>1, <2>1, <2>3 DEF StepOf, Acts
    <2>5. /\ DamageIsConfined' /\ RowsFollow
          /\ Settled(files', versions', head'.revision, disputed')
          /\ graph'[c].head = head'
          /\ \A p \in Paths \ missed[c] : graph'[c].files[p] = files'[p]
      BY <1>8, <2>1, <2>2, <2>4
    <2>6. missed'[c] = missed[c]
      BY <2>1, <2>4, HistoryVariables DEF UnderWay
    <2>7. \A p \in Paths \ disputed' : NotBeyond(files', versions', p, head'.revision)
      BY <2>5, SettledNotBeyond
    <2>8. CopySees(c)'
      BY <2>5, <2>6, <2>7 DEF CopySees
    <2>9. c \in Agents => CallSees(c)'
      BY <1>1, <1>3, <2>1 DEF CallSees
    <2> QED
      BY <2>4, <2>5, <2>8, <2>9, StepKeeps DEF Sees
  <1>10. ASSUME NEW c \in Browsers, SaveFile(c) PROVE ConfinedInv'
    <2> DEFINE batch == [p \in {intent[c].path} |-> intent[c].content]
    <2>1. c \in Clients /\ phase[c] = "graph" /\ Forget(c)
      BY <1>10 DEF SaveFile, Clients
    <2>2. intent[c] \in Intent
      BY <1>1, <2>1 DEF TypeOK, ReadsToSubmit
    <2>3. batch \in Batches
      BY <2>2, SaveBatch DEF Intent
    <2>4. PICK order \in Orders(DOMAIN batch) : Swap(graph[c], batch, order)
      BY <1>10 DEF SaveFile
    <2>5. phase'[c] = "idle" /\ \A d \in Clients : d # c => phase'[d] = phase[d] /\ graph'[d] = graph[d]
      BY <1>1, <2>1 DEF Forget
    <2>6. StepOf(c) /\ Acts(c)
      BY <1>1, <2>1, <2>5 DEF StepOf, Acts
    <2>7. DamageIsConfined' /\ RowsFollow
      <3> HIDE DEF batch
      <3> QED
        BY <1>8, <2>1, <2>3, <2>4, <2>6
    <2>8. CopySees(c)'
      BY <2>5 DEF CopySees
    <2>9. c \in Agents => CallSees(c)'
      BY <1>1, <1>3, <2>1 DEF CallSees
    <2> QED
      BY <2>1, <2>6, <2>7, <2>8, <2>9, StepKeeps DEF Sees
  <1>11. ASSUME NEW a \in Agents, AgentNext(a) PROVE ConfinedInv'
    BY <1>5, <1>6, <1>7, <1>9, <1>11 DEF AgentNext, AgentStops, Clients
  <1>12. ASSUME NEW b \in Browsers, BrowserNext(b) PROVE ConfinedInv'
    BY <1>4, <1>5, <1>6, <1>7, <1>10, <1>12 DEF BrowserNext, RetrySave, RefuseSave, Clients
  <1> QED
    BY <1>11, <1>12 DEF Guarded, Next

\* A whole-graph write begins from what its client sees.
LEMMA BeginKeeps ==
  ASSUME ConfinedInv, MCNext, FitInv', NEW c \in Agents, NEW new \in HeadRow,
         NEW recovers \in BOOLEAN, Rewrite(c, new, recovers),
         graph[c].head.revision <= new.revision
  PROVE  ConfinedInv'
  <1> DEFINE call == [step |-> "head", head |-> new, files |-> graph[c].files,
                      before |-> files, todo |-> {}, recovers |-> recovers]
             h == graph[c].head
  <1>1. /\ TypeOK /\ graph \in [Clients -> Graph] /\ phase \in [Clients -> {"idle", "head", "graph"}]
        /\ c \in Clients /\ h.revision \in Nat /\ new.revision \in Nat
        /\ files \in Files /\ versions \in SUBSET Version
    BY DEF ConfinedInv, FitInv, RewriteTypeOK, TypeOK, Graph, HeadRow, Clients
  <1>2. /\ phase[c] = "graph" /\ rewrite[c] = NoRewrite /\ Forget(c)
        /\ rewrite' = [rewrite EXCEPT ![c] = call] /\ UNCHANGED store
    BY DEF Rewrite
  <1>3. rewrite'[c] = call /\ phase'[c] = "idle"
    BY <1>1, <1>2 DEF ConfinedInv, FitInv, RewriteTypeOK, Forget
  <1>4. StepOf(c) /\ Acts(c)
    <2>1. \A d \in Clients : d # c => phase'[d] = phase[d] /\ graph'[d] = graph[d]
      BY <1>1, <1>2 DEF Forget
    <2>2. \A d \in Agents : d # c => rewrite'[d] = rewrite[d]
      BY <1>2 DEF ConfinedInv, FitInv, RewriteTypeOK
    <2> QED
      BY <1>2, <1>3, <2>1, <2>2 DEF StepOf, Acts
  <1>5. disputed' = disputed /\ UNCHANGED <<head, files, versions>>
    BY <1>1, <1>2, <1>4, HistoryVariables DEF store
  <1>6. rewrite'[c] # NoRewrite => missed'[c] = missed[c]
    BY <1>1, <1>4, HistoryVariables DEF UnderWay
  <1>7. CopySees(c)'
    BY <1>3 DEF CopySees
  <1>8. CallSees(c)'
    <2>1. ASSUME NEW p \in Paths \ missed[c]
          PROVE  /\ call.files[p] = files[p] /\ call.before[p] = files[p]
                 /\ p \notin disputed => NotBeyond(files, versions, p, new.revision)
      <3>1. /\ graph[c].files[p] = files[p]
            /\ p \notin disputed => NotBeyond(files, versions, p, h.revision)
        BY <1>1, <1>2, <2>1 DEF ConfinedInv, CopySees
      <3>2. \A row \in versions : row.at \in Nat
        BY <1>1 DEF Version
      <3>3. files[p] # NoFile => files[p].revision \in Nat
        BY <1>1, MaxRevisionNat DEF Files, File
      <3> QED
        BY <1>1, <3>1, <3>2, <3>3 DEF NotBeyond
    <2> QED
      BY <1>3, <1>5, <1>6, <2>1 DEF CallSees
  <1> QED
    BY <1>1, <1>2, <1>4, <1>7, <1>8, QuietKeeps DEF Sees

\* Nothing it is called with takes the revision back behind the copy's.
LEMMA CallsKeep ==
  ASSUME ConfinedInv, MCNext, FitInv', NEW c \in Agents,
         OpenReview(c) \/ Merge(c) \/ UpdateCodebase(c) \/ RecordConflict(c)
  PROVE  ConfinedInv'
  <1> DEFINE h == graph[c].head
  <1>1. h \in HeadRow
    BY DEF ConfinedInv, FitInv, RewriteTypeOK, TypeOK, Clients, Graph
  <1>2. PICK new \in HeadRow, recovers \in BOOLEAN :
          Rewrite(c, new, recovers) /\ h.revision <= new.revision
    <2> HIDE DEF h
    <2>1. /\ [h EXCEPT !.review = "open"].revision = h.revision
          /\ [h EXCEPT !.review = "merged", !.main = h.revision].revision = h.revision
          /\ [h EXCEPT !.conflicted = TRUE].revision = h.revision
          /\ [h EXCEPT !.revision = h.revision + 1, !.main = h.revision + 1].revision = h.revision + 1
      BY <1>1 DEF HeadRow
    <2> QED
      BY <1>1, <2>1, RewrittenHeads DEF OpenReview, Merge, UpdateCodebase, RecordConflict, h
  <1> QED
    BY <1>1, <1>2, BeginKeeps

\* A query writes nothing over a path of which its client missed no change.
LEMMA QueryWrites ==
  ASSUME ConfinedInv, NEW c \in Agents,
         \/ WriteHead(c) \/ \E p \in Paths : WriteFile(c, p)
         \/ DeleteOthers(c) \/ \E p \in Paths : WriteVersion(c, p)
  PROVE  /\ rewrite[c] # NoRewrite /\ UNCHANGED <<phase, graph>>
         /\ \A d \in Agents : d # c => rewrite'[d] = rewrite[d]
         /\ rewrite'[c] # rewrite[c]
         /\ head' = head \/ head' = rewrite[c].head
         /\ \A p \in Paths \ missed[c] :
              /\ files'[p] = files[p]
              /\ \A row \in versions' : row.path = p => row \in versions
              /\ rewrite'[c].step = "versions" => p \notin rewrite'[c].todo
         /\ versions \subseteq versions'
         /\ rewrite'[c].head = rewrite[c].head /\ rewrite'[c].files = rewrite[c].files
         /\ rewrite'[c].before = rewrite[c].before
  <1> DEFINE Call == [step : {"head", "files", "versions"}, head : HeadRow, files : Files,
                      before : Files, todo : SUBSET Paths, recovers : BOOLEAN]
             r == rewrite[c]
  <1>1. /\ rewrite \in [Agents -> Call \cup {NoRewrite}] /\ files \in Files
        /\ r # NoRewrite /\ r \in Call
    BY DEF ConfinedInv, FitInv, RewriteTypeOK, TypeOK, WriteHead, WriteFile, DeleteOthers, WriteVersion
  <1>2. \A p \in Paths \ missed[c] :
          r.files[p] = files[p] /\ r.before[p] = files[p] /\ (r.step = "versions" => p \notin r.todo)
    BY <1>1 DEF ConfinedInv, CallSees
  <1>3. CASE WriteHead(c)
    <2> DEFINE new == [r EXCEPT !.step = "files", !.todo = {p \in Paths : r.files[p] # NoFile}]
    <2>1. /\ rewrite' = [rewrite EXCEPT ![c] = new] /\ r.step = "head" /\ head' = r.head
          /\ UNCHANGED <<files, versions, phase, graph>>
      BY <1>3 DEF WriteHead
    <2>2. new.step = "files" /\ new.head = r.head /\ new.files = r.files /\ new.before = r.before
      BY <1>1
    <2> HIDE DEF new, Call
    <2> QED
      BY <1>1, <2>1, <2>2
  <1>4. ASSUME NEW p \in Paths, r.step \in {"files", "versions"}, p \in r.todo,
               rewrite' = [rewrite EXCEPT ![c].todo = r.todo \ {p}]
        PROVE  /\ rewrite'[c] # r /\ rewrite'[c].todo = r.todo \ {p} /\ rewrite'[c].step = r.step
               /\ rewrite'[c].head = r.head /\ rewrite'[c].files = r.files
               /\ rewrite'[c].before = r.before
               /\ \A d \in Agents : d # c => rewrite'[d] = rewrite[d]
    <2> DEFINE new == [r EXCEPT !.todo = r.todo \ {p}]
    <2>1. rewrite' = [rewrite EXCEPT ![c] = new]
      BY <1>4
    <2>2. /\ new.todo = r.todo \ {p} /\ new.step = r.step /\ new.head = r.head
          /\ new.files = r.files /\ new.before = r.before
      BY <1>1
    <2> HIDE DEF new, Call
    <2> QED
      BY <1>1, <1>4, <2>1, <2>2
  <1>5. ASSUME NEW p \in Paths, WriteFile(c, p)
        PROVE  /\ UNCHANGED <<head, versions, phase, graph>>
               /\ rewrite' = [rewrite EXCEPT ![c].todo = r.todo \ {p}]
               /\ r.step = "files" /\ p \in r.todo
               /\ \A q \in Paths \ missed[c] : files'[q] = files[q]
    <2>1. files' = [files EXCEPT ![p] = r.files[p]]
      BY <1>5 DEF WriteFile
    <2> QED
      BY <1>1, <1>2, <1>5, <2>1 DEF WriteFile, Files
  <1>6. ASSUME NEW p \in Paths, WriteVersion(c, p)
        PROVE  /\ UNCHANGED <<head, files, phase, graph>>
               /\ rewrite' = [rewrite EXCEPT ![c].todo = r.todo \ {p}]
               /\ r.step = "versions" /\ p \in r.todo
               /\ \E row : row.path = p /\ versions' = versions \cup {row}
    <2> DEFINE row == [path |-> p, at |-> IF r.files[p] = NoFile THEN r.head.revision ELSE r.files[p].revision,
                       content |-> ContentOf(r.files[p])]
    <2>1. row.path = p /\ versions' = versions \cup {row}
      BY <1>6 DEF WriteVersion
    <2> HIDE DEF row
    <2> QED
      BY <1>6, <2>1 DEF WriteVersion
  <1>7. CASE DeleteOthers(c)
    <2> DEFINE todo == {p \in Paths : ContentOf(r.files[p]) # ContentOf(r.before[p])}
               new == [r EXCEPT !.step = "versions", !.todo = todo]
    <2>1. /\ files' = [p \in Paths |-> IF r.files[p] = NoFile THEN NoFile ELSE files[p]]
          /\ rewrite' = [rewrite EXCEPT ![c] = new] /\ r.step = "files"
          /\ UNCHANGED <<head, versions, phase, graph>>
      BY <1>7 DEF DeleteOthers
    <2>2. \A p \in Paths \ missed[c] : p \notin todo
      BY <1>2
    <2>3. /\ new.step = "versions" /\ new.todo = todo /\ new.head = r.head /\ new.files = r.files
          /\ new.before = r.before
      BY <1>1
    <2>4. \A p \in Paths \ missed[c] : files'[p] = files[p]
      BY <1>2, <2>1
    <2> HIDE DEF new, todo, Call
    <2> QED
      BY <1>1, <2>1, <2>2, <2>3, <2>4
  <1>8. CASE \E p \in Paths : WriteFile(c, p)
    <2>1. PICK p \in Paths : WriteFile(c, p)
      BY <1>8
    <2> HIDE DEF Call
    <2> QED
      BY <1>1, <1>2, <1>4, <1>5, <2>1
  <1>9. CASE \E p \in Paths : WriteVersion(c, p)
    <2>1. PICK p \in Paths : WriteVersion(c, p)
      BY <1>9
    <2>2. PICK row : row.path = p /\ versions' = versions \cup {row}
      BY <1>6, <2>1
    <2>3. r.step = "versions" /\ p \in r.todo /\ p \notin Paths \ missed[c]
      BY <1>2, <1>6, <2>1
    <2> HIDE DEF Call
    <2> QED
      BY <1>1, <1>2, <1>4, <1>6, <2>1, <2>2, <2>3
  <1> QED
    BY <1>3, <1>7, <1>8, <1>9

\* So a query that changes the store disputes the paths its client missed, and keeps the
\* others settled: its head is not behind any of their changes.
LEMMA WritingKeeps ==
  ASSUME ConfinedInv, MCNext, FitInv', NEW c \in Agents, Writing(c)
  PROVE  ConfinedInv'
  <1> DEFINE r == rewrite[c]
  <1>1. /\ TypeOK /\ graph \in [Clients -> Graph] /\ phase \in [Clients -> {"idle", "head", "graph"}]
        /\ c \in Clients /\ files \in Files /\ versions \in SUBSET Version /\ head \in HeadRow
        /\ head.revision \in Nat /\ head'.revision \in Nat /\ files' \in Files
        /\ versions' \in SUBSET Version
        /\ Settled(files, versions, head.revision, disputed)
    BY DEF ConfinedInv, FitInv, RewriteTypeOK, TypeOK, HeadRow, Clients, DamageIsConfined,
           SettledFiles, SettledRows, Settled, Without, RowsWithout
  <1>2. CASE \/ WriteHead(c) \/ \E p \in Paths : WriteFile(c, p)
             \/ DeleteOthers(c) \/ \E p \in Paths : WriteVersion(c, p)
    <2>1. /\ r # NoRewrite /\ UNCHANGED <<phase, graph>>
          /\ \A d \in Agents : d # c => rewrite'[d] = rewrite[d]
          /\ rewrite'[c] # rewrite[c]
          /\ head' = head \/ head' = r.head
          /\ \A p \in Paths \ missed[c] :
               /\ files'[p] = files[p]
               /\ \A row \in versions' : row.path = p => row \in versions
               /\ rewrite'[c].step = "versions" => p \notin rewrite'[c].todo
          /\ versions \subseteq versions'
          /\ rewrite'[c].head = r.head /\ rewrite'[c].files = r.files
          /\ rewrite'[c].before = r.before
      BY <1>2, QueryWrites
    <2>2. StepOf(c) /\ Acts(c)
      BY <2>1 DEF StepOf, Acts
    <2>3. disputed' = IF store' = store THEN disputed ELSE disputed \cup missed[c]
      BY <1>1, <2>2, HistoryVariables
    <2>4. rewrite'[c] # NoRewrite => missed'[c] = missed[c]
      BY <1>1, <2>2, HistoryVariables DEF UnderWay
    <2>5. CallSees(c)
      BY DEF ConfinedInv
    <2>6. CopySees(c)'
      BY <2>1, <2>5 DEF CopySees, CallSees
    <2>7. CASE store' = store
      <3>1. UNCHANGED <<head, files, versions>>
        BY <2>7 DEF store
      <3>2. CallSees(c)'
        BY <2>1, <2>3, <2>4, <2>5, <2>7, <3>1 DEF CallSees
      <3> QED
        BY <1>1, <2>2, <2>6, <2>7, <3>2, QuietKeeps DEF Sees
    <2>8. CASE store' # store
      <3> DEFINE E == disputed \cup missed[c]
      <3>1. disputed' = E
        BY <2>3, <2>8
      <3>2. \A p \in Paths \ E : NotBeyond(files, versions, p, head'.revision)
        <4>1. \A p \in Paths \ E : NotBeyond(files, versions, p, head.revision)
          BY <1>1, SettledNotBeyond
        <4>2. \A p \in Paths \ E : NotBeyond(files, versions, p, r.head.revision)
          BY <2>1, <2>5 DEF CallSees
        <4> QED
          BY <2>1, <4>1, <4>2
      <3>3. RowsWithout(versions', E) = RowsWithout(versions, E)
        BY <1>1, <2>1 DEF RowsWithout, Version
      <3>4. \A p \in Paths \ E : files'[p] = files[p]
        BY <2>1
      <3>5. Settled(files', versions', head'.revision, E)
        <4>1. disputed \subseteq E
          OBVIOUS
        <4> HIDE DEF E
        <4> QED
          BY <1>1, <3>2, <3>3, <3>4, <4>1, StaysSettled
      <3>6. DamageIsConfined'
        BY <3>1, <3>5 DEF DamageIsConfined, SettledFiles, SettledRows, Settled, Without, RowsWithout
      <3>7. RowsFollow
        BY <2>1, <3>1 DEF RowsFollow
      <3>8. CallSees(c)'
        <4>1. ASSUME NEW p \in Paths \ missed[c], p \notin disputed
              PROVE  NotBeyond(files', versions', p, r.head.revision)
          BY <2>1, <2>5, <4>1 DEF CallSees, NotBeyond
        <4> QED
          BY <2>1, <2>4, <2>5, <3>1, <4>1 DEF CallSees
      <3> QED
        BY <1>1, <2>2, <2>6, <3>6, <3>7, <3>8, StepKeeps DEF Sees
    <2> QED
      BY <2>7, <2>8
  <1>3. CASE EndRewrite(c)
    <2>1. /\ r # NoRewrite /\ rewrite' = [rewrite EXCEPT ![c] = NoRewrite]
          /\ UNCHANGED <<store, phase, graph>>
      BY <1>3 DEF EndRewrite, vars
    <2>2. rewrite'[c] = NoRewrite /\ \A d \in Agents : d # c => rewrite'[d] = rewrite[d]
      BY <2>1 DEF ConfinedInv, FitInv, RewriteTypeOK
    <2>3. StepOf(c)
      BY <2>1, <2>2 DEF StepOf, Acts
    <2>4. CopySees(c)' /\ CallSees(c)'
      BY <2>1, <2>2 DEF ConfinedInv, CallSees, CopySees
    <2> QED
      BY <1>1, <2>1, <2>3, <2>4, QuietKeeps DEF Sees
  <1>4. CASE Return(c)
    <2> DEFINE copy == [head |-> r.head, files |-> r.files]
    <2>1. /\ r # NoRewrite /\ rewrite' = [rewrite EXCEPT ![c] = NoRewrite]
          /\ phase' = [phase EXCEPT ![c] = "graph"] /\ graph' = [graph EXCEPT ![c] = copy]
          /\ UNCHANGED store
      BY <1>4 DEF Return
    <2>2. /\ rewrite'[c] = NoRewrite /\ \A d \in Agents : d # c => rewrite'[d] = rewrite[d]
          /\ phase'[c] = "graph" /\ graph'[c] = copy
      BY <1>1, <2>1 DEF ConfinedInv, FitInv, RewriteTypeOK
    <2>3. StepOf(c)
      BY <1>1, <2>1, <2>2 DEF StepOf, Acts
    <2>4. disputed' = disputed /\ missed'[c] = missed[c] /\ UNCHANGED <<head, files, versions>>
      BY <1>1, <2>1, <2>2, <2>3, HistoryVariables DEF UnderWay, store
    <2>5. CopySees(c)' /\ CallSees(c)'
      BY <2>1, <2>2, <2>4 DEF ConfinedInv, CallSees, CopySees
    <2> QED
      BY <1>1, <2>1, <2>3, <2>5, QuietKeeps DEF Sees
  <1> QED
    BY <1>2, <1>3, <1>4 DEF Writing

LEMMA NextConfined == ConfinedInv /\ [MCNext]_mcvars => ConfinedInv'
  <1> SUFFICES ASSUME ConfinedInv, [MCNext]_mcvars PROVE ConfinedInv'
    OBVIOUS
  <1>1. FitInv'
    <2>1. [RewriteNext]_rvars
      BY DEF MCNext, mcvars
    <2> QED
      BY <2>1, FitStep DEF ConfinedInv
  <1>2. CASE UNCHANGED mcvars
    BY <1>1, <1>2 DEF mcvars, rvars, vars, store, ConfinedInv, DamageIsConfined, SettledFiles,
       SettledRows, CopySees, CallSees
  <1>3. CASE MCNext
    <2>1. RewriteNext
      BY <1>3 DEF MCNext
    <2>2. CASE Guarded
      BY <1>1, <1>3, <2>2, GuardedKeeps
    <2>3. CASE \E c \in Agents : OpenReview(c) \/ Merge(c) \/ UpdateCodebase(c) \/ RecordConflict(c)
      BY <1>1, <1>3, <2>3, CallsKeep
    <2>4. CASE \E c \in Agents : Writing(c)
      BY <1>1, <1>3, <2>4, WritingKeeps
    <2> QED
      BY <2>1, <2>2, <2>3, <2>4, MaintainersAreAgents DEF RewriteNext
  <1> QED
    BY <1>2, <1>3

\* However whole-graph writes race with commits and with one another, from whatever copies,
\* and wherever they die, the paths they can damage are those whose change somebody missed
\* who then wrote.
THEOREM DamageConfined == MCSpec => []DamageIsConfined
  <1>1. MCInit => ConfinedInv
    <2> SUFFICES ASSUME MCInit PROVE ConfinedInv
      OBVIOUS
    <2>1. FitInv /\ RewriteInit
      BY InitFit DEF MCInit
    <2>2. Inv
      BY InitInv, <2>1 DEF RewriteInit
    <2>3. /\ disputed = {} /\ missed = [c \in Clients |-> {}] /\ files \in Files
          /\ \A c \in Clients : phase[c] = "idle"
          /\ \A c \in Agents : rewrite[c] = NoRewrite
      BY <2>2 DEF MCInit, RewriteInit, Init, Inv, TypeOK
    <2>4. SettledFiles = files /\ SettledRows = versions
      BY <2>3 DEF SettledFiles, SettledRows, Files
    <2>5. DamageIsConfined
      BY <2>2, <2>4 DEF DamageIsConfined, Inv, HistoryMatchesFiles, RevisionNamesOneChange
    <2> QED
      BY <2>1, <2>3, <2>5 DEF ConfinedInv, CopySees, CallSees
  <1>2. ConfinedInv => DamageIsConfined
    BY DEF ConfinedInv
  <1> QED
    BY <1>1, <1>2, NextConfined, PTL DEF MCSpec

===============================================================================
