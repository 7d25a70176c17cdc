---------------------------- MODULE GraphRevisions ----------------------------
(***************************************************************************)
(* The vocabulary of the cloud file graph of packages/backend-d1: files    *)
(* with revisions, the edits a journal commit carries, and what one        *)
(* committed batch of edits does to the files and to the version history.  *)
(* The state machines that use it are GraphStore (the promise) and         *)
(* CloudGraph (the compare-and-swap implementation).                       *)
(***************************************************************************)
EXTENDS Naturals, FiniteSets

CONSTANTS
  Paths,        \* the file paths of one codebase
  Contents,     \* the contents a file can have (a content stands for its hash)
  NoFile,       \* no row for a path, and the content of a deletion
  MaxRevision   \* bound: no commit moves the codebase past this revision

ASSUME PathsFinite == IsFiniteSet(Paths)
ASSUME MaxRevisionNat == MaxRevision \in Nat

File == [revision : 1 .. MaxRevision, content : Contents]

ASSUME NoFileDistinct == NoFile \notin File \cup Contents \cup (0 .. MaxRevision)

Files == [Paths -> File \cup {NoFile}]

NoFiles == [p \in Paths |-> NoFile]

\* The revision a base check compares: the file's, or NoFile where the code has null.
RevisionOf(f) == IF f = NoFile THEN NoFile ELSE f.revision

ContentOf(f) == IF f = NoFile THEN NoFile ELSE f.content

\* The columns of the codebases row the head update is guarded by: revision,
\* selected_state_json (its review, merge and conflict state), main_json (its revision).
ReviewStates == {"not-open", "open", "merged"}

HeadRow ==
  [revision : 0 .. MaxRevision, review : ReviewStates, conflicted : BOOLEAN,
   main : 0 .. MaxRevision]

EmptyHead == [revision |-> 0, review |-> "not-open", conflicted |-> FALSE, main |-> 0]

\* A batch is a non-empty set of paths with a new content, or a deletion, each.
Batches == UNION {[S -> Contents \cup {NoFile}] : S \in (SUBSET Paths) \ {{}}}

\* The entries of a batch are applied one after the other: each takes the next
\* revision, so the paths of a batch of n entries are numbered from 1 to n.
Numberings(S, n) == {o \in [S -> 1 .. n] : \A p, q \in S : o[p] = o[q] => p = q}
Orders(S) == Numberings(S, Cardinality(S))

\* Mutant of Applied: every entry of a batch takes the same revision.
AppliedTogether(fs, revision, batch, order) ==
  [p \in Paths |->
     IF p \notin DOMAIN batch THEN fs[p]
     ELSE IF batch[p] = NoFile THEN NoFile
     ELSE [revision |-> revision + 1, content |-> batch[p]]]

\* applyJournalEntryToCloud, entry by entry: a write gives the file the next
\* revision whether or not its content changed, a delete removes the row.
Applied(fs, revision, batch, order) ==
  [p \in Paths |->
     IF p \notin DOMAIN batch THEN fs[p]
     ELSE IF batch[p] = NoFile THEN NoFile
     ELSE [revision |-> revision + order[p], content |-> batch[p]]]

\* A row of file_versions: the content a path has from revision `at` on.
Version == [path : Paths, at : 0 .. MaxRevision, content : Contents \cup {NoFile}]

\* Mutant of VersionRows: rows are dated by the revision before the entry.
VersionRowsEarly(fs, revision, batch, order) ==
  {[path |-> p, at |-> revision + order[p] - 1, content |-> batch[p]] :
     p \in {q \in DOMAIN batch : batch[q] # ContentOf(fs[q])}}

\* Mutant of VersionRows: a deletion leaves no row.
VersionRowsOfWrites(fs, revision, batch, order) ==
  {[path |-> p, at |-> revision + order[p], content |-> batch[p]] :
     p \in {q \in DOMAIN batch : batch[q] \notin {NoFile, ContentOf(fs[q])}}}

\* buildFileVersionRowForEntry: an entry that does not change the content (a
\* rewrite of the same bytes, a delete of a missing file) leaves no row.
VersionRows(fs, revision, batch, order) ==
  {[path |-> p, at |-> revision + order[p], content |-> batch[p]] :
     p \in {q \in DOMAIN batch : batch[q] # ContentOf(fs[q])}}

\* The head a batch of n entries commits.
Advanced(head, n) == [head EXCEPT !.revision = @ + n]

\* assertWritableSelectedState: a merged change set takes no more file edits.
Writable(head) == head.review # "merged"

\* snapshotAtRevision: the content a path has at a revision, as the history tells
\* it, is that of the last row of the path at or before the revision.
IsLatest(row, rows, revision) ==
  /\ row \in rows
  /\ row.at <= revision
  /\ \A other \in rows :
       (other.path = row.path /\ other.at <= revision) => other.at <= row.at

\* The history tells the files: replaying it up to the current revision gives
\* exactly the files there are.
HistoryTells(fs, rows, revision) ==
  \A p \in Paths :
    /\ (\A row \in rows : row.path # p) => fs[p] = NoFile
    /\ \A row \in rows :
         (row.path = p /\ IsLatest(row, rows, revision)) => row.content = ContentOf(fs[p])

\* A revision names one change: no two rows and no two files carry the same one,
\* and none carries one that is still to come.
OneChangeEach(fs, rows, revision) ==
  /\ \A r, s \in rows : r.at = s.at => r = s
  /\ \A p, q \in Paths :
       (fs[p] # NoFile /\ fs[q] # NoFile /\ fs[p].revision = fs[q].revision) => p = q
  /\ \A r \in rows : r.at <= revision
  /\ \A p \in Paths : fs[p] # NoFile => fs[p].revision <= revision

===============================================================================
