----------------------------- MODULE GraphRewrite -----------------------------
(***************************************************************************)
(* The clients that write the graph as a whole: opening a review, merging  *)
(* the change set, renaming the codebase or giving it to another owner,    *)
(* and an agent that records a conflict while it recovers its journal.     *)
(* Each reads the graph, edits the head of its copy and hands the copy to  *)
(* writeGraph, which has no guard: it writes the head, every file of the   *)
(* copy, deletes every other file, and appends the differences to the      *)
(* history, one query after the other.                                     *)
(***************************************************************************)
EXTENDS CloudGraph

CONSTANTS
  Maintainers,  \* the agents whose user opens reviews, merges and administers
  NoRewrite     \* the client is not inside writeGraph

ASSUME MaintainersAreAgents == Maintainers \subseteq Agents
ASSUME AgentsAreNotBrowsers == Agents \cap Browsers = {}

VARIABLE rewrite   \* per client: the writeGraph call in progress

rvars == <<vars, rewrite>>

\* The types of the variables.
RewriteTypeOK ==
  /\ TypeOK
  /\ rewrite \in [Agents ->
       [step : {"head", "files", "versions"}, head : HeadRow, files : Files,
        before : Files, todo : SUBSET Paths, recovers : BOOLEAN] \cup {NoRewrite}]

RewriteInit ==
  /\ Init
  /\ rewrite = [c \in Agents |-> NoRewrite]

-------------------------------------------------------------------------------
(* Calling writeGraph with the edited copy. *)

\* The call starts with a read of the current files, for the history rows.  Only a
\* recovery has a use for its copy afterwards.
Rewrite(c, newHead, recovers) ==
  /\ phase[c] = "graph"
  /\ rewrite[c] = NoRewrite
  /\ Forget(c)
  /\ rewrite' = [rewrite EXCEPT ![c] =
       [step |-> "head", head |-> newHead, files |-> graph[c].files,
        before |-> files, todo |-> {}, recovers |-> recovers]]
  /\ UNCHANGED <<store, intent, reply>>

OpenReview(m) ==
  /\ graph[m].head.review # "merged"
  /\ Rewrite(m, [graph[m].head EXCEPT !.review = "open"], FALSE)

\* The change set began when Main was at this revision.
MainMoved(seen) == seen.head.main # EmptyHead.main

\* mergeChangeSet: Main moves to the revision the change set has in the copy.  If Main
\* has moved since the change set began, the conflict is recorded instead.
Merge(m) ==
  /\ graph[m].head.review = "open"
  /\ \/ /\ ~MainMoved(graph[m])
        /\ Rewrite(m, [graph[m].head EXCEPT !.review = "merged",
                                            !.main = graph[m].head.revision], FALSE)
     \/ /\ MainMoved(graph[m])
        /\ Rewrite(m, [graph[m].head EXCEPT !.conflicted = TRUE], FALSE)

\* updateCodebase, claimCodebaseOwner: the codebase takes another name, visibility or
\* owner, which counts as a revision and moves Main to it, so that a change set that
\* began before can no longer be merged.
UpdateCodebase(m) ==
  /\ graph[m].head.revision < MaxRevision
  /\ Rewrite(m, [graph[m].head EXCEPT !.revision = @ + 1,
                                      !.main = graph[m].head.revision + 1], FALSE)

\* recoverJournal: a recovered entry was refused, because its base is not the file's
\* revision in the copy or because its commit lost the swap.  The conflict is recorded
\* on the copy, current or not.
RecordConflict(a) == Rewrite(a, [graph[a].head EXCEPT !.conflicted = TRUE], TRUE)

-------------------------------------------------------------------------------
(* The queries of writeGraph. *)

WriteHead(c) ==
  /\ rewrite[c] # NoRewrite /\ rewrite[c].step = "head"
  /\ head' = rewrite[c].head
  /\ rewrite' = [rewrite EXCEPT ![c].step = "files",
                                ![c].todo = {p \in Paths : rewrite[c].files[p] # NoFile}]
  /\ UNCHANGED <<files, versions, phase, graph, intent, reply>>

WriteFile(c, p) ==
  /\ rewrite[c] # NoRewrite /\ rewrite[c].step = "files"
  /\ p \in rewrite[c].todo
  /\ files' = [files EXCEPT ![p] = rewrite[c].files[p]]
  /\ rewrite' = [rewrite EXCEPT ![c].todo = @ \ {p}]
  /\ UNCHANGED <<head, versions, phase, graph, intent, reply>>

\* Mutant of DeleteOthers: the list of paths to keep is sent in chunks of one path, and
\* each query deletes what the other chunks carry.
DeleteOthersInChunks(c) ==
  /\ rewrite[c] # NoRewrite /\ rewrite[c].step = "files"
  /\ rewrite[c].todo = {}
  /\ files' = [p \in Paths |->
       IF \A q \in Paths : rewrite[c].files[q] # NoFile => p = q THEN files[p] ELSE NoFile]
  /\ rewrite' = [rewrite EXCEPT ![c].step = "versions",
       ![c].todo = {p \in Paths :
          ContentOf(rewrite[c].files[p]) # ContentOf(rewrite[c].before[p])}]
  /\ UNCHANGED <<head, versions, phase, graph, intent, reply>>

DeleteOthers(c) ==
  /\ rewrite[c] # NoRewrite /\ rewrite[c].step = "files"
  /\ rewrite[c].todo = {}
  /\ files' = [p \in Paths |-> IF rewrite[c].files[p] = NoFile THEN NoFile ELSE files[p]]
  /\ rewrite' = [rewrite EXCEPT ![c].step = "versions",
       ![c].todo = {p \in Paths :
          ContentOf(rewrite[c].files[p]) # ContentOf(rewrite[c].before[p])}]
  /\ UNCHANGED <<head, versions, phase, graph, intent, reply>>

\* A row of the history is dated by the file's own revision, a deletion by the graph's.
WriteVersion(c, p) ==
  /\ rewrite[c] # NoRewrite /\ rewrite[c].step = "versions"
  /\ p \in rewrite[c].todo
  /\ LET f == rewrite[c].files[p]
     IN  versions' = versions \cup
           {[path |-> p, at |-> IF f = NoFile THEN rewrite[c].head.revision ELSE f.revision,
             content |-> ContentOf(f)]}
  /\ rewrite' = [rewrite EXCEPT ![c].todo = @ \ {p}]
  /\ UNCHANGED <<head, files, phase, graph, intent, reply>>

\* The command is done, or its process dies before the next query.
EndRewrite(c) ==
  /\ rewrite[c] # NoRewrite
  /\ rewrite' = [rewrite EXCEPT ![c] = NoRewrite]
  /\ UNCHANGED vars

\* The call returned to recoverJournal, which goes on with the next entry from the copy.
Return(c) ==
  /\ rewrite[c] # NoRewrite /\ rewrite[c].step = "versions" /\ rewrite[c].todo = {}
  /\ rewrite[c].recovers
  /\ rewrite' = [rewrite EXCEPT ![c] = NoRewrite]
  /\ phase' = [phase EXCEPT ![c] = "graph"]
  /\ graph' = [graph EXCEPT ![c] = [head |-> rewrite[c].head, files |-> rewrite[c].files]]
  /\ UNCHANGED <<store, intent, reply>>

-------------------------------------------------------------------------------

Writing(c) ==
  \/ WriteHead(c)
  \/ \E p \in Paths : WriteFile(c, p)
  \/ DeleteOthers(c)
  \/ \E p \in Paths : WriteVersion(c, p)
  \/ EndRewrite(c)
  \/ Return(c)

\* Outside writeGraph the clients go on as in CloudGraph; inside writeGraph an agent reads
\* and commits nothing.
Guarded ==
  /\ Next
  /\ \A a \in Agents : rewrite[a] # NoRewrite => phase'[a] = phase[a]
  /\ UNCHANGED rewrite

RewriteNext ==
  \/ Guarded
  \/ \E m \in Maintainers : OpenReview(m) \/ Merge(m) \/ UpdateCodebase(m)
  \/ \E a \in Agents : RecordConflict(a) \/ Writing(a)

RewriteSpec == RewriteInit /\ [][RewriteNext]_rvars

===============================================================================
