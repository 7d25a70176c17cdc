------------------------------ MODULE MCActionJobs ------------------------------
(***************************************************************************)
(* TLC instance of ActionJobs, with a history variable that has the jobs   *)
(* their runner lost sight of by failing requests.                         *)
(***************************************************************************)
EXTENDS ActionJobs

VARIABLE dropped    \* the claim's answer, or both reports, did not come through

mcvars == <<jobsVars, dropped>>

\* The runner has the job as its own and goes back to polling without an outcome.
Drops(r, j) ==
  /\ job[r] = j /\ status'[j] = "running" /\ runner_id'[j] = r
  /\ request[r] \in {"reread", "check again", "write again"} /\ request'[r] = "poll"

MCInit == JobsInit /\ dropped = {}
MCNext == JobsNext /\ dropped' = dropped \cup {j \in Jobs : \E r \in Runners : Drops(r, j)}
MCSpec == MCInit /\ [][MCNext]_mcvars /\ JobsFairness

AllDead == \A r \in Runners : request[r] = "dead"
Orphaned(j) == j \in dropped \/ \E r \in Runners : runner_id[j] = r /\ request[r] = "dead"

\* A queued job gets its outcome, through twin claims, refused and repeated reports, unless
\* it is cancelled, or its runner dies or fails to reach the table with it in hand: there
\* is no lease that would give it to another.
QueuedIsServed ==
  \A j \in Jobs :
    status[j] = "queued" ~> (status[j] \in Verdict \cup {"cancelled"} \/ Orphaned(j) \/ AllDead)

===============================================================================
