---------------------------- MODULE MCWatchScheduler ----------------------------
(* TLC instance of WatchScheduler, with the time a report has been held as a      *)
(* history variable.                                                              *)
EXTENDS WatchScheduler

VARIABLE held   \* ticks since the oldest queued report, while no drain is running

mcvars == <<vars, held>>

MCInit == Init /\ held = 0

\* The bound of held only serves to keep a faulty scheduler finite.
MCNext ==
  /\ Next
  /\ held' = IF queued = "nothing" \/ drain # "idle" \/ drain' # "idle" THEN 0
             ELSE IF Tick /\ held <= MaxDelay THEN held + 1 ELSE held

MCSpec == MCInit /\ [][MCNext]_mcvars /\ Fairness

\* A report is never held longer than the delay cap before a drain takes it, however
\* saves and flushes fall between each other and into running drains.
HeldAtMostCap == held <= MaxDelay

===============================================================================
