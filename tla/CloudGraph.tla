------------------------------ MODULE CloudGraph ------------------------------
(***************************************************************************)
(* The D1-backed cloud graph and the clients that edit it through guarded  *)
(* commits: agents (read the graph, plan a batch against it, commit) and   *)
(* browsers (remember the revision the user opened, read the graph, check  *)
(* that base, commit, retry when only the head moved).                     *)
(*                                                                         *)
(* A client reads the codebases row and the files rows in two queries, so  *)
(* a commit of another client may fall between them.  A commit is one      *)
(* batch of statements: the head update is a compare-and-swap on the row   *)
(* the client read, every other statement requires that it took effect.    *)
(***************************************************************************)
EXTENDS GraphStore

CONSTANTS
  Agents,      \* clients that plan edits against the graph they read
  Browsers,    \* clients whose edits carry the base revision the user saw
  NoIntent,    \* no edit is being submitted by a browser
  MaxAttempts  \* commit attempts of one browser edit (3 in mutateTextFile)

ASSUME MaxAttemptsNat == MaxAttempts \in Nat \ {0}

Clients == Agents \cup Browsers

Intent ==
  [path : Paths, content : Contents, base : (1 .. MaxRevision) \cup {NoFile},
   attempt : 1 .. MaxAttempts]

ASSUME NoIntentDistinct == NoIntent \notin Intent

VARIABLES    \* besides the store's head, files and versions
  phase,     \* what a client has read: nothing, the head, or the whole graph
  graph,     \* the copy of the graph it read, and advances as it commits
  intent,    \* the browser edit being submitted
  reply      \* how the last browser edit of a client ended

vars == <<store, phase, graph, intent, reply>>

Unread == [head |-> EmptyHead, files |-> NoFiles]

TypeOK ==
  /\ head \in HeadRow
  /\ files \in Files
  /\ versions \subseteq Version
  /\ phase \in [Clients -> {"idle", "head", "graph"}]
  /\ graph \in [Clients -> Graph]
  /\ intent \in [Clients -> Intent \cup {NoIntent}]
  /\ reply \in [Clients -> {"none", "saved", "conflict"}]

Init ==
  /\ StoreInit
  /\ phase = [c \in Clients |-> "idle"]
  /\ graph = [c \in Clients |-> Unread]
  /\ intent = [c \in Clients |-> NoIntent]
  /\ reply = [c \in Clients |-> "none"]

-------------------------------------------------------------------------------
(* Reading the graph. *)

\* readTextFile: the user opens a file in the browser and edits it; the edit
\* will be submitted with the revision of the file that was shown.
OpenFile(c, p, content) ==
  /\ phase[c] = "idle"
  /\ intent[c] = NoIntent
  /\ intent' = [intent EXCEPT ![c] =
       [path |-> p, content |-> content, base |-> RevisionOf(files[p]), attempt |-> 1]]
  /\ reply' = [reply EXCEPT ![c] = "none"]
  /\ UNCHANGED <<store, phase, graph>>

\* readOptionalGraph, first query.
ReadHead(c) ==
  /\ phase[c] = "idle"
  /\ c \in Browsers => intent[c] # NoIntent
  /\ phase' = [phase EXCEPT ![c] = "head"]
  /\ graph' = [graph EXCEPT ![c].head = head]
  /\ UNCHANGED <<store, intent, reply>>

\* readOptionalGraph, second query.
ReadFiles(c) ==
  /\ phase[c] = "head"
  /\ phase' = [phase EXCEPT ![c] = "graph"]
  /\ graph' = [graph EXCEPT ![c].files = files]
  /\ UNCHANGED <<store, intent, reply>>

-------------------------------------------------------------------------------
(* Committing. *)

\* Mutant of Swap: the head update does not compare the row with the one read.
SwapUnguarded(seen, batch, order) ==
  LET n == Cardinality(DOMAIN batch)
      next == Applied(seen.files, seen.head.revision, batch, order)
  IN  /\ Writable(seen.head)
      /\ seen.head.revision + n <= MaxRevision
      /\ head' = Advanced(seen.head, n)
      /\ files' = [p \in Paths |-> IF p \in DOMAIN batch THEN next[p] ELSE files[p]]
      /\ versions' = versions \cup
           VersionRows(seen.files, seen.head.revision, batch, order)

\* The guarded batch took effect: the head update found the row that was read.
\* Every row it writes is computed from the client's copy, not from the store.
Swap(seen, batch, order) ==
  LET n == Cardinality(DOMAIN batch)
      next == Applied(seen.files, seen.head.revision, batch, order)
  IN  /\ seen.head = head
      /\ Writable(seen.head)
      /\ seen.head.revision + n <= MaxRevision
      /\ head' = Advanced(seen.head, n)
      /\ files' = [p \in Paths |-> IF p \in DOMAIN batch THEN next[p] ELSE files[p]]
      /\ versions' = versions \cup
           VersionRows(seen.files, seen.head.revision, batch, order)

\* Mutant of CommitBatch: after a chunk only the head of the copy is moved on.
CommitBatchHeadOnly(c, batch, order) ==
  /\ phase[c] = "graph"
  /\ Swap(graph[c], batch, order)
  /\ graph' = [graph EXCEPT ![c].head = Advanced(@, Cardinality(DOMAIN batch))]
  /\ UNCHANGED <<phase, intent, reply>>

\* commitJournalEntry, commitJournalEntryChunk by an agent: the base revisions
\* of the batch are those of the graph it was planned against, so only the swap
\* can refuse it.  The agent's copy becomes what it committed
\* (replaceGraphContents), and it may commit its next chunk from it.
CommitBatch(c, batch, order) ==
  /\ phase[c] = "graph"
  /\ Swap(graph[c], batch, order)
  /\ graph' = [graph EXCEPT ![c] =
       [head  |-> Advanced(@.head, Cardinality(DOMAIN batch)),
        files |-> Applied(@.files, @.head.revision, batch, order)]]
  /\ UNCHANGED <<phase, intent, reply>>

\* The client's request or command ends, or the client dies: its copy is gone.
Forget(c) ==
  /\ phase' = [phase EXCEPT ![c] = "idle"]
  /\ graph' = [graph EXCEPT ![c] = Unread]

\* An agent whose swap changed no row throws; nothing was written.  It may as
\* well stop by itself, or die, with its copy in any state.
AgentStops(c) ==
  /\ phase[c] # "idle"
  /\ Forget(c)
  /\ UNCHANGED <<store, intent, reply>>

\* Mutant of BaseHolds: a retry does not check the base again.
BaseHoldsAtFirst(c) ==
  intent[c].attempt > 1 \/ RevisionOf(graph[c].files[intent[c].path]) = intent[c].base

BaseHolds(c) == RevisionOf(graph[c].files[intent[c].path]) = intent[c].base

\* mutateTextFile: the edit commits at the base the user saw.
SaveFile(c) ==
  /\ phase[c] = "graph"
  /\ BaseHolds(c)
  /\ LET batch == [p \in {intent[c].path} |-> intent[c].content]
     IN  \E order \in Orders(DOMAIN batch) : Swap(graph[c], batch, order)
  /\ Forget(c)
  /\ intent' = [intent EXCEPT ![c] = NoIntent]
  /\ reply' = [reply EXCEPT ![c] = "saved"]

\* mutateTextFile: the head moved between the read and the swap.  The edit is
\* tried again from a fresh read, against the base of the first attempt.
RetrySave(c) ==
  /\ phase[c] = "graph"
  /\ BaseHolds(c) /\ Writable(graph[c].head)
  /\ graph[c].head # head
  /\ intent[c].attempt < MaxAttempts
  /\ Forget(c)
  /\ intent' = [intent EXCEPT ![c].attempt = @ + 1]
  /\ UNCHANGED <<store, reply>>

\* mutateTextFile throws: the file is no longer at the base (409), the change
\* set is merged, or the last attempt lost the swap too.
RefuseSave(c) ==
  /\ phase[c] = "graph"
  /\ \/ ~BaseHolds(c)
     \/ ~Writable(graph[c].head)
     \/ graph[c].head # head /\ intent[c].attempt = MaxAttempts
  /\ Forget(c)
  /\ intent' = [intent EXCEPT ![c] = NoIntent]
  /\ reply' = [reply EXCEPT ![c] = "conflict"]
  /\ UNCHANGED store

-------------------------------------------------------------------------------

AgentNext(a) ==
  \/ ReadHead(a)
  \/ ReadFiles(a)
  \/ \E batch \in Batches : \E order \in Orders(DOMAIN batch) : CommitBatch(a, batch, order)
  \/ AgentStops(a)

BrowserNext(b) ==
  \/ \E p \in Paths, content \in Contents : OpenFile(b, p, content)
  \/ ReadHead(b)
  \/ ReadFiles(b)
  \/ SaveFile(b)
  \/ RetrySave(b)
  \/ RefuseSave(b)

Next ==
  \/ \E a \in Agents : AgentNext(a)
  \/ \E b \in Browsers : BrowserNext(b)

Spec == Init /\ [][Next]_vars

-------------------------------------------------------------------------------
(* Properties. *)

\* The history tells the files: reading file_versions up to the current revision
\* gives exactly the files rows, although rows are computed from clients' copies.
HistoryMatchesFiles == HistoryTells(files, versions, head.revision)

\* One revision names one change of the codebase, in the history and in the files,
\* although every client numbers its edits from its own copy of the head.
RevisionNamesOneChange == OneChangeEach(files, versions, head.revision)

\* The snapshot a pinned revision names never changes (compareRevisions, releases
\* and proposals rely on it): a row added later is later than every revision that
\* existed when it was added, and no row ever goes away.
PastIsImmutable ==
  [][/\ versions \subseteq versions'
     /\ \A row \in versions' \ versions : row.at > head.revision]_vars

\* Two queries make no torn copy that counts: a copy whose head is the current one
\* has the current files, so the swap on the head row also guards the files.
CopyIsCurrentOrRefused ==
  \A c \in Clients :
    (phase[c] = "graph" /\ graph[c].head = head) => graph[c].files = files

\* mutateTextFile never saves over a version its user has not seen, however many
\* retries and other commits come between opening the file and the save.
NoBlindSave ==
  [][\A b \in Browsers :
       (intent[b] # NoIntent /\ intent'[b] = NoIntent /\ reply'[b] = "saved") =>
         /\ RevisionOf(files[intent[b].path]) = intent[b].base
         /\ ContentOf(files'[intent[b].path]) = intent[b].content]_vars

\* The two-query reads and the compare-and-swap implement the sequential store:
\* every step is an atomic batch on the current files, or invisible.
ImplementsStore == StoreSpec

===============================================================================
