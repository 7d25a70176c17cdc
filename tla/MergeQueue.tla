------------------------------- MODULE MergeQueue -------------------------------
(***************************************************************************)
(* Proposals and the merge queue: hop propose, review decisions, approval, *)
(* the CI gate and the landing of the first ready proposal on Main.        *)
(*                                                                         *)
(* Every command is a process of its own that reads and writes the cloud   *)
(* in separate requests, without a lock: two of them may propose, decide,  *)
(* approve or land at once, and each may die between any two requests.     *)
(* Of a proposal's CI jobs the model has the outcome of the latest one;    *)
(* how a job gets it is the subject of ActionJobs.                         *)
(*                                                                         *)
(* A codebase has one line of revisions, and of each the model keeps the   *)
(* files that the version history tells.  It was created empty, without a  *)
(* history, or imported as revision 1.  Codebases with D1 only: without it *)
(* CI gates nothing.  Retention, the plain merge without a proposal        *)
(* (GraphRewrite) and the mirror job of a landing are left out.            *)
(***************************************************************************)
EXTENDS Naturals, Sequences

CONSTANTS
  Paths,
  Contents,      \* what a file may hold
  NoFile,        \* there is no file at a path
  Clients,       \* the commands that run at the same time
  Requesters,    \* those of them that somebody other than the owner gives
  Shared,        \* the paths that a requester may see
  MaxRevision,   \* bound on the saves
  MaxProposals,  \* bound on the rows of proposals
  MaxDecisions   \* bound on the review decisions

ASSUME QueueAssumption ==
  /\ Requesters \subseteq Clients /\ Shared \subseteq Paths
  /\ MaxRevision \in Nat \ {0} /\ MaxProposals \in Nat /\ MaxDecisions \in Nat

Ids == 1 .. MaxProposals

VARIABLES
  graph,      \* the codebase row: head revision, the active change set and its revision,
              \* and Main's revision
  snapshots,  \* the rows of file_versions: the files as of each revision
  recorded,   \* the revisions that have rows
  proposals,  \* the rows of proposals, in the order of their insertion
  queue,      \* the approved ones in the order of queued_at
  decisions,  \* the rows of review_decisions in the order of created_at
  ci,         \* the status of the latest CI job of each proposal
  pc,         \* the request a command is about to make
  copy,       \* the graph it read
  held        \* the proposal it is about: id, and the row as it read it

history == <<snapshots, recorded>>
cloud == <<graph, history, proposals, queue, decisions, ci>>
local == <<pc, copy, held>>
vars == <<cloud, local>>

NoRow == [id |-> 0, pin |-> 0, base |-> 0, set |-> 0]
Only(p) == [NoRow EXCEPT !.id = p]
At(revision) == [head |-> revision, tip |-> revision, main |-> revision, active |-> 0]
Empty == At(0)

Revisions == 0 .. MaxRevision
Snapshot == [Paths -> Contents \cup {NoFile}]
NoFiles == [path \in Paths |-> NoFile]

Created ==
  /\ graph = Empty
  /\ snapshots = [r \in Revisions |-> NoFiles]
  /\ recorded = {}

Imported ==
  /\ graph = At(1)
  /\ \E files \in Snapshot \ {NoFiles} : snapshots = [r \in Revisions |-> IF r = 1 THEN files ELSE NoFiles]
  /\ recorded = {1}

Init ==
  /\ Created \/ Imported
  /\ proposals = <<>> /\ queue = <<>> /\ decisions = <<>>
  /\ ci = [p \in Ids |-> "none"]
  /\ pc = [c \in Clients |-> "idle"]
  /\ copy = [c \in Clients |-> Empty]
  /\ held = [c \in Clients |-> NoRow]

Goes(c, from, to) == pc[c] = from /\ pc' = [pc EXCEPT ![c] = to]

\* A command is over; what it has read is gone.
Over(c) ==
  /\ pc' = [pc EXCEPT ![c] = "idle"]
  /\ copy' = [copy EXCEPT ![c] = Empty]
  /\ held' = [held EXCEPT ![c] = NoRow]

Ends(c, from) == pc[c] = from /\ Over(c)

\* The command goes on with the queue.
Again(c, from) ==
  /\ Goes(c, from, "list")
  /\ copy' = [copy EXCEPT ![c] = Empty]
  /\ held' = [held EXCEPT ![c] = NoRow]

Row(p) == [id |-> p, pin |-> proposals[p].pin, base |-> proposals[p].base, set |-> proposals[p].set]

Queued(p) == \E i \in DOMAIN queue : queue[i] = p
Place(p) == CHOOSE i \in DOMAIN queue : queue[i] = p

\* A proposal is in the queue once.
Without(p) ==
  IF Queued(p) THEN SubSeq(queue, 1, Place(p) - 1) \o SubSeq(queue, Place(p) + 1, Len(queue)) ELSE queue

\* A device of the codebase saves a file of the active change set.
Save ==
  /\ graph.head < MaxRevision
  /\ \E path \in Paths, content \in Contents \cup {NoFile} :
       /\ content # snapshots[graph.head][path]
       /\ snapshots' = [snapshots EXCEPT ![graph.head + 1] = [snapshots[graph.head] EXCEPT ![path] = content]]
  /\ recorded' = recorded \cup {graph.head + 1}
  /\ graph' = [graph EXCEPT !.head = @ + 1, !.tip = graph.head + 1]
  /\ UNCHANGED <<proposals, queue, decisions, ci, local>>

\* The codebase takes another name or owner: a revision without rows, to which Main moves
\* and the change set does not.  What happens between its read and its writes is left to
\* GraphRewrite.
UpdateCodebase ==
  /\ graph.head < MaxRevision
  /\ snapshots' = [snapshots EXCEPT ![graph.head + 1] = snapshots[graph.head]]
  /\ graph' = [graph EXCEPT !.head = @ + 1, !.main = graph.head + 1]
  /\ UNCHANGED <<recorded, proposals, queue, decisions, ci, local>>

-------------------------------------------------------------------------------
(* proposeChangeSet and upsertProposal. *)

ProposeReads(c) ==
  /\ Goes(c, "idle", "find")
  /\ copy' = [copy EXCEPT ![c] = graph]
  /\ held' = [held EXCEPT ![c] = NoRow]
  /\ UNCHANGED cloud

Open(set) == {p \in DOMAIN proposals : proposals[p].set = set /\ proposals[p].state # "merged"}

FindOpen(c) ==
  /\ Goes(c, "find", "upsert")
  /\ IF Open(copy[c].active) = {} THEN UNCHANGED held
     ELSE \E p \in Open(copy[c].active) : held' = [held EXCEPT ![c] = Only(p)]
  /\ UNCHANGED <<cloud, copy>>

Pinned(c) ==
  [set |-> copy[c].active, pin |-> copy[c].tip, base |-> copy[c].main, state |-> "proposed", merged |-> 0]

\* The row that was found is pinned anew, whatever has become of it; none was found: a
\* row is inserted, whatever others have inserted.
Upsert(c) ==
  /\ Goes(c, "upsert", "enqueue")
  /\ copy' = [copy EXCEPT ![c] = Empty]
  /\ IF held[c].id # 0
     THEN /\ proposals' = [proposals EXCEPT ![held[c].id] = [Pinned(c) EXCEPT !.merged = proposals[held[c].id].merged]]
          /\ queue' = Without(held[c].id)
          /\ held' = [held EXCEPT ![c] = Only(@.id)]
     ELSE /\ Len(proposals) < MaxProposals
          /\ proposals' = Append(proposals, Pinned(c))
          /\ held' = [held EXCEPT ![c] = Only(Len(proposals) + 1)]
          /\ UNCHANGED queue
  /\ UNCHANGED <<graph, history, decisions, ci>>

\* enqueueCiJobForProposal: a new job, which is the latest one.
EnqueueCi(p) == ci' = [ci EXCEPT ![p] = "queued"]

\* Best effort: the proposal is pinned even if this fails.  With --merge the command
\* goes on to approve the proposal, and then to the queue.
ProposeEnqueues(c) ==
  /\ \/ Ends(c, "enqueue")
     \/ /\ Goes(c, "enqueue", "approve") /\ UNCHANGED <<copy, held>>
        /\ proposals[held[c].id].state # "merged"
  /\ EnqueueCi(held[c].id) \/ UNCHANGED ci
  /\ UNCHANGED <<graph, history, proposals, queue, decisions>>

-------------------------------------------------------------------------------
(* approveProposal and createReviewDecision. *)

ApproveReads(c) ==
  /\ Goes(c, "idle", "approve")
  /\ \E p \in DOMAIN proposals :
       /\ proposals[p].state # "merged"
       /\ held' = [held EXCEPT ![c] = Only(p)]
  /\ UNCHANGED <<cloud, copy>>

\* The update is not guarded by the state or the pin that was read.
Approve(c) ==
  /\ \/ Ends(c, "approve") \/ Ends(c, "accept")
     \/ Again(c, "approve")
  /\ proposals' = [proposals EXCEPT ![held[c].id].state = "approved"]
  /\ queue' = Append(Without(held[c].id), held[c].id)
  /\ UNCHANGED <<graph, history, decisions, ci>>

DecideReads(c) ==
  /\ Goes(c, "idle", "decide")
  /\ \E p \in DOMAIN proposals :
       /\ proposals[p].state # "merged"
       /\ held' = [held EXCEPT ![c] = [Only(p) EXCEPT !.pin = proposals[p].pin]]
  /\ UNCHANGED <<cloud, copy>>

\* The decision has the pin that was read; an approval goes on to approve the proposal.
Decide(c) ==
  /\ Len(decisions) < MaxDecisions
  /\ \E ok \in BOOLEAN :
       /\ \/ ok /\ Goes(c, "decide", "accept") /\ UNCHANGED <<copy, held>>
          \/ ~ok /\ Ends(c, "decide")
       /\ decisions' = Append(decisions, [of |-> held[c].id, rev |-> held[c].pin, ok |-> ok])
  /\ UNCHANGED <<graph, history, proposals, queue, ci>>

-------------------------------------------------------------------------------
(* runMergeQueue and landOneProposal. *)

ListReady(c) ==
  /\ queue # <<>>
  /\ Goes(c, "list", "land")
  /\ held' = [held EXCEPT ![c] = Only(Head(queue))]
  /\ UNCHANGED <<cloud, copy>>

NothingReady(c) == queue = <<>> /\ Ends(c, "list") /\ UNCHANGED cloud

LandReads(c) ==
  /\ Goes(c, "land", "row")
  /\ copy' = [copy EXCEPT ![c] = graph]
  /\ UNCHANGED <<cloud, held>>

Ready(p) == p \in DOMAIN proposals /\ proposals[p].state = "approved"

\* The row is read afresh: skipped when it is no longer approved.
LandReadsRow(c) ==
  /\ \/ /\ Goes(c, "row", "decision")
        /\ Ready(held[c].id)
        /\ held' = [held EXCEPT ![c] = Row(held[c].id)]
        /\ UNCHANGED copy
     \/ Ends(c, "row") /\ ~Ready(held[c].id)
  /\ UNCHANGED cloud

Of(p) == {i \in DOMAIN decisions : decisions[i].of = p}

Latest(p) == {i \in Of(p) : \A j \in Of(p) : j <= i}

\* Mutant of Reviewed: which pin the approval was for is not asked.
ReviewedSometime(c) == \A i \in Latest(held[c].id) : decisions[i].ok

\* No decision: the proposer approved it.  Otherwise the latest one approves this pin.
Reviewed(c) ==
  \A i \in Latest(held[c].id) : decisions[i].ok /\ decisions[i].rev = held[c].pin

LandReviewed(c) ==
  /\ Goes(c, "decision", IF Reviewed(c) THEN "ci" ELSE "stale")
  /\ UNCHANGED <<cloud, copy, held>>

\* compareRevisions tells in which paths the files as of two revisions differ, ...
Differ(a, b) == {path \in Paths : snapshots[a][path] # snapshots[b][path]}

\* ... unless one of them is before the first or after the last revision that has rows.
Comparable(a, b) ==
  \E first, last \in recorded : \A r \in {a, b} : first <= r /\ r <= last

\* canRequesterSeePath: the comparisons leave out what the command's user may not see.
Seen(c) == IF c \in Requesters THEN Shared ELSE Paths

Overlaps(c) ==
  /\ held[c].base # copy[c].main
  /\ \/ ~Comparable(held[c].base, copy[c].main) \/ ~Comparable(copy[c].main, held[c].pin)
     \/ Differ(held[c].base, copy[c].main) \cap Differ(copy[c].main, held[c].pin) \cap Seen(c) # {}

\* Mutant of LandPasses: the row is taken off the queue before Main moves.
LandPassesMarked(c) ==
  /\ pc[c] = "ci" /\ ci[held[c].id] = "succeeded" /\ ~Overlaps(c)
  /\ Goes(c, "ci", "write")
  /\ proposals' = [proposals EXCEPT ![held[c].id].state = "merged", ![held[c].id].merged = held[c].pin]
  /\ queue' = Without(held[c].id)
  /\ UNCHANGED <<graph, history, decisions, ci, copy, held>>

LandPasses(c) ==
  /\ pc[c] = "ci" /\ ci[held[c].id] = "succeeded"
  /\ Goes(c, "ci", IF Overlaps(c) THEN "stale" ELSE "write")
  /\ UNCHANGED <<cloud, copy, held>>

\* Mutant of LandWaits: the run goes on with the queue.
LandGoesOn(c) ==
  /\ Again(c, "ci")
  /\ ci[held[c].id] # "succeeded"
  /\ IF ci[held[c].id] = "queued" THEN UNCHANGED ci ELSE EnqueueCi(held[c].id)
  /\ UNCHANGED <<graph, history, proposals, queue, decisions>>

\* Without a green job the queue stops; a new job is queued unless one is under way.
LandWaits(c) ==
  /\ Ends(c, "ci")
  /\ ci[held[c].id] # "succeeded"
  /\ IF ci[held[c].id] = "queued" THEN UNCHANGED ci ELSE EnqueueCi(held[c].id)
  /\ UNCHANGED <<graph, history, proposals, queue, decisions>>

MarkStale(c) ==
  /\ Again(c, "stale")
  /\ proposals' = [proposals EXCEPT ![held[c].id].state = "stale"]
  /\ queue' = Without(held[c].id)
  /\ UNCHANGED <<graph, history, decisions, ci>>

\* The copy with Main at the pin.  The change set that lands is rotated away; the next one
\* begins with what was saved since.
Landed(c) ==
  IF copy[c].active = held[c].set
  THEN [At(copy[c].head) EXCEPT !.main = held[c].pin, !.active = copy[c].active + 1]
  ELSE [copy[c] EXCEPT !.main = held[c].pin]

\* advanceMainToRevision: the graph is written as it was read, with Main moved.
AdvanceMain(c) ==
  /\ Goes(c, "write", "mark")
  /\ graph' = Landed(c)
  /\ copy' = [copy EXCEPT ![c] = Empty]
  /\ UNCHANGED <<history, proposals, queue, decisions, ci, held>>

\* The row is marked, whatever has become of it.
MarkMerged(c) ==
  /\ Again(c, "mark")
  /\ proposals' = [proposals EXCEPT ![held[c].id].state = "merged", ![held[c].id].merged = held[c].pin]
  /\ queue' = Without(held[c].id)
  /\ UNCHANGED <<graph, history, decisions, ci>>

-------------------------------------------------------------------------------

\* A command is killed or its request fails; what it wrote stays.
Dies(c) ==
  /\ pc[c] # "idle" /\ Over(c)
  /\ UNCHANGED cloud

Propose(c) == ProposeReads(c) \/ FindOpen(c) \/ Upsert(c) \/ ProposeEnqueues(c)
Review(c) == ApproveReads(c) \/ DecideReads(c) \/ Decide(c) \/ Approve(c)
Land(c) ==
  \/ ListReady(c) \/ NothingReady(c) \/ LandReads(c) \/ LandReadsRow(c) \/ LandReviewed(c) \/ LandPasses(c)
  \/ LandWaits(c) \/ MarkStale(c) \/ AdvanceMain(c) \/ MarkMerged(c)

\* A runner takes the job up and completes it, or the owner cancels it: "queued" stands
\* for running too, which the merge queue does not tell apart, "failed" for cancelled.
Hosted ==
  /\ \E p \in Ids, status \in {"succeeded", "failed"} :
       /\ ci[p] = "queued"
       /\ ci' = [ci EXCEPT ![p] = status]
  /\ UNCHANGED <<graph, history, proposals, queue, decisions, local>>

Next ==
  \/ Save \/ UpdateCodebase
  \/ Hosted
  \/ \E c \in Clients : Propose(c) \/ Review(c) \/ Land(c) \/ Dies(c)

Spec == Init /\ [][Next]_vars

===============================================================================
