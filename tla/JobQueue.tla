-------------------------------- MODULE JobQueue --------------------------------
(***************************************************************************)
(* What the table of action jobs promises: a queued job is taken by one    *)
(* runner, and that runner alone gives it its outcome, once.  The service  *)
(* owner may cancel a job nobody has taken and queue a failed one again.   *)
(***************************************************************************)
CONSTANTS
  Jobs,      \* the jobs that may be created
  Runners    \* the processes that run them

VARIABLE job    \* job[j]: how far j is, and the runner that has or had it

NoJob == [is |-> "absent"]
Waiting == [is |-> "waiting"]
Cancelled == [is |-> "cancelled"]
TakenBy(r) == [is |-> "taken", by |-> r]
DoneBy(r, ok) == [is |-> "done", by |-> r, ok |-> ok]

QueueInit == job = [j \in Jobs |-> NoJob]

Becomes(j, from, to) == job[j] = from /\ job' = [job EXCEPT ![j] = to]

Add(j) == Becomes(j, NoJob, Waiting)
TakeUp(j, r) == Becomes(j, Waiting, TakenBy(r))
Finish(j, r, ok) == Becomes(j, TakenBy(r), DoneBy(r, ok))
Withdraw(j) == Becomes(j, Waiting, Cancelled)
Again(j, r) == Becomes(j, DoneBy(r, FALSE), Waiting)

QueueNext ==
  \E j \in Jobs :
    \/ Add(j)
    \/ Withdraw(j)
    \/ \E r \in Runners : TakeUp(j, r) \/ Again(j, r) \/ \E ok \in BOOLEAN : Finish(j, r, ok)

QueueSpec == QueueInit /\ [][QueueNext]_job

===============================================================================
