------------------------------ MODULE MCMergeQueue ------------------------------
(***************************************************************************)
(* TLC instance of MergeQueue, with history variables that tell what its   *)
(* proposer approved, what has landed, and whether a landing ever wrote a  *)
(* graph that was behind the head.                                         *)
(***************************************************************************)
EXTENDS MergeQueue, FiniteSets, TLC

CONSTANT MaxWork    \* bound on the commands that are started and the revisions that are made

VARIABLES
  work,          \* counts them
  selfApproved,  \* the proposals and pins approved by a command, before any review
  landed,        \* the proposals and pins that a landing took Main to
  taken,         \* the proposals a run has taken up and nobody has approved since
  outdated       \* there was a new revision between the read and the write of a landing

mcvars == <<vars, work, selfApproved, landed, taken, outdated>>

\* Bounds: an import has a file at every path, an empty codebase is one step behind it.
MCInit ==
  /\ Init
  /\ \A path \in Paths : recorded # {} => snapshots[1][path] # NoFile
  /\ work = (IF recorded = {} THEN 1 ELSE 0)
  /\ selfApproved = {}
  /\ landed = {}
  /\ taken = [c \in Clients |-> {}]
  /\ outdated = FALSE

Approved == {held[c].id : c \in {d \in Clients : Approve(d)}}

TakesUp(c) == IF pc[c] = "list" /\ pc'[c] = "land" THEN {held'[c].id} ELSE {}

MCNext ==
  /\ Next
  /\ work' = work + Cardinality({c \in Clients : pc[c] = "idle" /\ pc'[c] # "idle"})
                  + (IF graph'.head > graph.head THEN 1 ELSE 0)
  /\ work' <= MaxWork
  /\ selfApproved' = selfApproved \cup
       {<<held[c].id, proposals[held[c].id].pin>> :
          c \in {d \in Clients : pc[d] = "approve" /\ Of(held[d].id) = {} /\ Approve(d)}}
  /\ landed' = landed \cup
       {<<held[c].id, held[c].pin>> : c \in {d \in Clients : pc[d] = "write" /\ AdvanceMain(d)}}
  /\ taken' = [c \in Clients |-> IF pc'[c] = "idle" THEN {} ELSE (taken[c] \ Approved) \cup TakesUp(c)]
  /\ outdated' = (outdated \/ \E c \in Clients : pc[c] = "write" /\ AdvanceMain(c) /\ copy[c].head # graph.head)

\* What such a copy does to the files is the subject of GraphRewrite.  Two landings at
\* once, one of which writes Main or the change set back, are in the run.
UpToDate == ~outdated

Symmetry == Permutations(Clients)

MCSpec == MCInit /\ [][MCNext]_mcvars

\* A landing takes to Main a revision that a review approved at this very pin, or that
\* was approved at this pin before anybody had reviewed the proposal: whatever is pinned
\* anew, reviewed or approved between the requests of the commands, an approval never
\* carries over to another revision.
OnlyApprovedPinsLand ==
  [][\A c \in Clients : pc[c] = "write" /\ AdvanceMain(c) =>
       \/ \E i \in DOMAIN decisions :
            decisions[i] = [of |-> held[c].id, rev |-> graph'.main, ok |-> TRUE]
       \/ <<held[c].id, graph'.main>> \in selfApproved]_mcvars

\* What a row says was merged is a pin of this row that Main has been at, wherever the
\* landing's process died and whoever else landed, proposed or approved at the time.
MergedWasLanded ==
  \A p \in DOMAIN proposals : proposals[p].state = "merged" => <<p, proposals[p].merged>> \in landed

\* A run of the queue takes no proposal up again, whatever becomes of it at the hands of
\* others in the meantime, unless somebody has approved it since: what a run goes on from
\* has left the queue, so that it never goes around with one that cannot land.
NoneIsTakenUpAgain ==
  [][\A c \in Clients : pc[c] = "list" /\ pc'[c] = "land" => held'[c].id \notin taken[c]]_mcvars

===============================================================================
