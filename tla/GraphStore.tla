------------------------------ MODULE GraphStore ------------------------------
(***************************************************************************)
(* What the cloud file graph promises its clients: one sequential store.   *)
(* A batch of edits is applied in one step to the files as they are at     *)
(* that moment, numbers its edits with the revisions that follow the       *)
(* current one, and appends what it changed to the history.  Clients, the  *)
(* copies they read and the compare-and-swap are not visible here.         *)
(***************************************************************************)
EXTENDS GraphRevisions

VARIABLES
  head,      \* the codebases row
  files,     \* the files rows
  versions   \* the file_versions rows

store == <<head, files, versions>>

\* A copy of the graph.
Graph == [head : HeadRow, files : Files]

StoreInit ==
  /\ head = EmptyHead
  /\ files = NoFiles
  /\ versions = {}

\* n edits take the n revisions that follow.
Takes(n) ==
  /\ Writable(head)
  /\ head.revision + n <= MaxRevision
  /\ head' = Advanced(head, n)

Changes(batch, order) ==
  /\ files' = Applied(files, head.revision, batch, order)
  /\ versions' = versions \cup VersionRows(files, head.revision, batch, order)

\* A batch with one edit of each of its paths.
Apply(batch, order) == Takes(Cardinality(DOMAIN batch)) /\ Changes(batch, order)

\* Only the deletion of a file that does not exist may come more than once in one batch:
\* each takes a revision, and none changes anything.
Repeats(batch) == \E p \in DOMAIN batch : batch[p] = NoFile /\ files[p] = NoFile

StoreNext ==
  \E n \in 1 .. MaxRevision :
    /\ Takes(n)
    /\ \E batch \in Batches :
         /\ Cardinality(DOMAIN batch) <= n
         /\ Cardinality(DOMAIN batch) < n => Repeats(batch)
         /\ \E order \in Numberings(DOMAIN batch, n) : Changes(batch, order)

StoreSpec == StoreInit /\ [][StoreNext]_store

===============================================================================
