------------------------------- MODULE ActionJobs -------------------------------
(***************************************************************************)
(* Hosted actions: the rows of action_jobs, the runners that poll them,    *)
(* and the console of the service owner.                                   *)
(*                                                                         *)
(* A runner reads the oldest queued row, claims it with a guarded update,  *)
(* reads it back and runs it; it completes it with a check and an          *)
(* unguarded update.  Each of these is a request of its own, whose answer  *)
(* may be lost, and other runners, which hold no lock, run in between.     *)
(*                                                                         *)
(* What a job does, its output and the events and notifications about it   *)
(* are left out.  A runner that is started again has an id of its own.     *)
(***************************************************************************)
EXTENDS Naturals

CONSTANTS
  MaxJobs,      \* bound: the jobs that are created, in the order of their creation
  MaxRequeues,  \* bound: how often the owner queues a failed job again
  Runners,
  Nobody        \* runner_id of a row that was not claimed

ASSUME JobsAssumption == MaxJobs \in Nat /\ MaxRequeues \in Nat /\ Nobody \notin Runners

Jobs == 1 .. MaxJobs
Verdict == {"succeeded", "failed"}

VARIABLES
  status,     \* the column status of each row; "none" before the row exists
  runner_id,  \* ... and its column runner_id
  request,    \* the request a runner is about to make
  job,        \* the job a runner has in hand
  result,     \* the verdict it is about to report
  requeues    \* counts the requeues, for the bound

rows == <<status, runner_id>>
runner == <<request, job, result>>
jobsVars == <<rows, runner, requeues>>

JobsTypeOK ==
  /\ status \in [Jobs -> {"none", "queued", "running", "cancelled"} \cup Verdict]
  /\ runner_id \in [Jobs -> Runners \cup {Nobody}]
  /\ request \in [Runners -> {"poll", "claim", "reread", "execute", "check", "write", "answer",
                              "check again", "write again", "dead"}]
  /\ job \in [Runners -> Jobs \cup {0}]
  /\ result \in [Runners -> Verdict]
  /\ requeues \in 0 .. MaxRequeues

JobsInit ==
  /\ status = [j \in Jobs |-> "none"]
  /\ runner_id = [j \in Jobs |-> Nobody]
  /\ request = [r \in Runners |-> "poll"]
  /\ job = [r \in Runners |-> 0]
  /\ result = [r \in Runners |-> "failed"]
  /\ requeues = 0

Moves(r, from, to) == request[r] = from /\ request' = [request EXCEPT ![r] = to]

\* The browser, a merge and the merge queue each insert a row.
Enqueue ==
  /\ \E j \in Jobs :
       /\ status[j] = "none"
       /\ \A i \in Jobs : status[i] = "none" => j <= i
       /\ status' = [status EXCEPT ![j] = "queued"]
  /\ UNCHANGED <<runner_id, runner, requeues>>

-------------------------------------------------------------------------------
(* claimNextActionJob. *)

Select(r) ==
  /\ \E j \in Jobs :
       /\ status[j] = "queued"
       /\ \A i \in Jobs : status[i] = "queued" => j <= i
       /\ job' = [job EXCEPT ![r] = j]
  /\ Moves(r, "poll", "claim")
  /\ UNCHANGED <<rows, result, requeues>>

\* The update is void when the row is no longer queued; the runner does not look.
Claim(r) ==
  /\ Moves(r, "claim", "reread")
  /\ IF status[job[r]] = "queued"
     THEN /\ status' = [status EXCEPT ![job[r]] = "running"]
          /\ runner_id' = [runner_id EXCEPT ![job[r]] = r]
     ELSE UNCHANGED rows
  /\ UNCHANGED <<job, result, requeues>>

\* The row that is returned is the one selected, whoever has it.
Reread(r) ==
  /\ Moves(r, "reread", "execute")
  /\ UNCHANGED <<rows, job, result, requeues>>

\* A request fails, or its answer is lost: the claim is tried anew, from the selection.
ClaimFails(r) ==
  /\ request[r] \in {"claim", "reread"}
  /\ request' = [request EXCEPT ![r] = "poll"]
  /\ UNCHANGED <<rows, job, result, requeues>>

-------------------------------------------------------------------------------
(* executeJob and completeActionJob. *)

\* Mutant of Execute: a job that throws is not reported.
ExecuteQuietly(r) ==
  /\ \/ Moves(r, "execute", "check") /\ result' = [result EXCEPT ![r] = "succeeded"]
     \/ Moves(r, "execute", "poll") /\ UNCHANGED result
  /\ UNCHANGED <<rows, job, requeues>>

\* Every process of a job has a timeout; one that throws or times out counts as failed.
Execute(r) ==
  /\ Moves(r, "execute", "check")
  /\ \E v \in Verdict : result' = [result EXCEPT ![r] = v]
  /\ UNCHANGED <<rows, job, requeues>>

\* Mutant of Completable: whether the row is the runner's own is not asked.
CompletableByAnyone(r) == status[job[r]] = "running"

\* The row is running, and claimed by the runner that reports.
Completable(r) ==
  /\ status[job[r]] = "running"
  /\ runner_id[job[r]] \in {r, Nobody}

Check(r) ==
  /\ Moves(r, "check", "write") \/ Moves(r, "check again", "write again")
  /\ Completable(r)
  /\ UNCHANGED <<rows, job, result, requeues>>

\* Any error of the first report, its check's included, has the job reported as failed...
ReportFails(r) ==
  /\ request[r] \in {"check", "write", "answer"}
  /\ request' = [request EXCEPT ![r] = "check again"]
  /\ result' = [result EXCEPT ![r] = "failed"]
  /\ UNCHANGED <<rows, job, requeues>>

\* ... and an error of the second one ends the cycle.
CycleFails(r) ==
  /\ request[r] \in {"check again", "write again"}
  /\ request' = [request EXCEPT ![r] = "poll"]
  /\ UNCHANGED <<rows, job, result, requeues>>

\* The check's own refusals, which come as such errors.
Refused(r) ==
  /\ \/ request[r] = "check" /\ ReportFails(r)
     \/ request[r] = "check again" /\ CycleFails(r)
  /\ ~Completable(r)

Write(r) ==
  /\ Moves(r, "write", "answer") \/ Moves(r, "write again", "poll")
  /\ status' = [status EXCEPT ![job[r]] = result[r]]
  /\ runner_id' = [runner_id EXCEPT ![job[r]] = r]
  /\ UNCHANGED <<job, result, requeues>>

Answer(r) ==
  /\ Moves(r, "answer", "poll")
  /\ UNCHANGED <<rows, job, result, requeues>>

Die(r) ==
  /\ request[r] # "dead"
  /\ request' = [request EXCEPT ![r] = "dead"]
  /\ UNCHANGED <<rows, job, result, requeues>>

-------------------------------------------------------------------------------
(* applyServiceAdminAction: the guard is repeated in the update. *)

Cancel(j) ==
  /\ status[j] = "queued"
  /\ status' = [status EXCEPT ![j] = "cancelled"]
  /\ UNCHANGED <<runner_id, runner, requeues>>

\* Mutant of Requeue: a job that seems stuck may be queued again.
RequeueStuck(j) ==
  /\ requeues < MaxRequeues
  /\ status[j] \in {"failed", "running"}
  /\ status' = [status EXCEPT ![j] = "queued"]
  /\ runner_id' = [runner_id EXCEPT ![j] = Nobody]
  /\ requeues' = requeues + 1
  /\ UNCHANGED runner

Requeue(j) ==
  /\ requeues < MaxRequeues
  /\ status[j] = "failed"
  /\ status' = [status EXCEPT ![j] = "queued"]
  /\ runner_id' = [runner_id EXCEPT ![j] = Nobody]
  /\ requeues' = requeues + 1
  /\ UNCHANGED runner

-------------------------------------------------------------------------------

Works(r) ==
  Select(r) \/ Claim(r) \/ Reread(r) \/ Execute(r) \/ Check(r) \/ Refused(r) \/ Write(r) \/ Answer(r)

JobsNext ==
  \/ Enqueue
  \/ \E r \in Runners : Works(r) \/ ClaimFails(r) \/ ReportFails(r) \/ CycleFails(r) \/ Die(r)
  \/ \E j \in Jobs : Cancel(j) \/ Requeue(j)

\* A live runner polls on and takes the next step of its job, which ends by its timeout;
\* a claim that is tried again and again comes through at last.
JobsFairness == \A r \in Runners : WF_jobsVars(Works(r)) /\ SF_jobsVars(Claim(r))

JobsSpec == JobsInit /\ [][JobsNext]_jobsVars /\ JobsFairness

-------------------------------------------------------------------------------
(* Properties. *)

\* Nothing happens to a row between the check of a completion and its unguarded update,
\* whichever runners hold the same job and whatever the owner does in the meantime.
CheckStaysTrue ==
  \A r \in Runners : request[r] \in {"write", "write again"} =>
    status[job[r]] = "running" /\ runner_id[job[r]] = r

Promised(j) ==
  CASE status[j] = "none" -> [is |-> "absent"]
    [] status[j] = "queued" -> [is |-> "waiting"]
    [] status[j] = "cancelled" -> [is |-> "cancelled"]
    [] status[j] = "running" -> [is |-> "taken", by |-> runner_id[j]]
    [] status[j] \in Verdict ->
         [is |-> "done", by |-> runner_id[j], ok |-> status[j] = "succeeded"]

Queue == INSTANCE JobQueue WITH job <- [j \in Jobs |-> Promised(j)]

\* Two runners may run the same job, and reports may be made twice: the table still has
\* every job taken once, and its outcome given once, by the runner that took it.
ImplementsQueue == Queue!QueueSpec

===============================================================================
