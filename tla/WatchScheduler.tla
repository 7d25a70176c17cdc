----------------------------- MODULE WatchScheduler -----------------------------
(***************************************************************************)
(* What makes a watching agent run a sync, and a refresh: the watcher that *)
(* reports changes of the folder and may drop some, the periodic scan that *)
(* finds the dropped ones, the scheduler that coalesces reports into syncs *)
(* behind a quiet window and a delay cap, and the scheduler that runs the  *)
(* refresh after a cooldown, from local activity and from a periodic look  *)
(* at the cloud's head.                                                    *)
(*                                                                         *)
(* Timers count down in ticks.  A timer that is due runs before the next   *)
(* tick, as does the code between two awaits; syncs, refreshes, scans and  *)
(* the watcher take any time.  What a sync does is AgentSync's subject.    *)
(***************************************************************************)
EXTENDS Naturals

CONSTANTS
  Wait,         \* ticks of the quiet window
  MaxDelay,     \* ticks a change is held at most, or Off when coalescing is off
  Cooldown,     \* ticks between two runs of the refresh scheduler
  Off           \* a timer that is not armed

ASSUME WaitNat == Wait \in Nat \ {0}
ASSUME MaxDelayCapsWait == MaxDelay = Off \/ (MaxDelay \in Nat /\ MaxDelay >= Wait)
ASSUME CooldownNat == Cooldown \in Nat
ASSUME OffDistinct == Off \notin Nat

VARIABLES
  change,     \* the changes of the folder that no sync has scanned
  drift,      \* the folder differs from the last snapshot of the periodic scan
  queued,     \* what the reports that wait for the drain are about
  waitTimer,
  capTimer,
  drain,      \* what the drain is doing
  behind,     \* the cloud's head is not the revision that was materialized
  trigger,    \* a run of the refresh is queued
  pullTimer,
  cooling,    \* ticks left of the cooldown
  pull        \* what the run of the refresh is doing

folder == <<change, drift>>
local == <<queued, waitTimer, capTimer, drain>>
remote == <<behind, trigger, pullTimer, cooling, pull>>
vars == <<folder, local, remote>>

WatchTypeOK ==
  /\ change \in {"none", "silent", "reported", "failed"}
  /\ drift \in BOOLEAN
  /\ queued \in {"nothing", "activity", "change"}
  /\ waitTimer \in 0 .. Wait \cup {Off}
  /\ capTimer = Off \/ (MaxDelay # Off /\ capTimer \in 0 .. MaxDelay)
  /\ drain \in {"idle", "reading", "committing", "after"}
  /\ behind \in BOOLEAN
  /\ trigger \in BOOLEAN
  /\ pullTimer \in 0 .. Cooldown \cup {Off}
  /\ cooling \in 0 .. Cooldown
  /\ pull \in {"idle", "skipping", "deciding", "refreshing"}

Init ==
  /\ change = "none" /\ drift = FALSE
  /\ queued = "nothing" /\ waitTimer = Off /\ capTimer = Off /\ drain = "idle"
  /\ behind = FALSE /\ trigger = FALSE /\ pullTimer = Off /\ cooling = 0
  /\ pull = "idle"

-------------------------------------------------------------------------------
(* createWatchSyncScheduler. *)

\* Mutant of Schedule: the queue remembers the last report only.
ScheduleLastOnly(kind) ==
  /\ queued' = kind
  /\ waitTimer' = Wait
  /\ capTimer' = IF capTimer = Off THEN MaxDelay ELSE capTimer

\* Mutant of Schedule: every report restarts the cap too.
ScheduleAnew(kind) ==
  /\ queued' = IF queued = "change" THEN "change" ELSE kind
  /\ waitTimer' = Wait
  /\ capTimer' = MaxDelay

\* schedule: a report restarts the quiet window, and arms the cap unless it is armed.
\* Activity is an event of a marker file: it triggers the refresh but no sync.
Schedule(kind) ==
  /\ queued' = IF queued = "change" THEN "change" ELSE kind
  /\ waitTimer' = Wait
  /\ capTimer' = IF capTimer = Off THEN MaxDelay ELSE capTimer

\* The loop of the drain takes what is queued.
Take ==
  /\ queued' = "nothing"
  /\ capTimer' = Off
  /\ drain' = IF queued = "change" THEN "reading" ELSE "after"

\* flush, from either timer.  A drain under way finds the queue by itself.
Flush ==
  /\ waitTimer = 0 \/ capTimer = 0
  /\ waitTimer' = Off
  /\ IF drain = "idle" /\ queued # "nothing" THEN Take
     ELSE capTimer' = Off /\ UNCHANGED <<queued, drain>>
  /\ UNCHANGED <<folder, remote>>

\* The sync scans the folder.
SyncScans ==
  /\ drain = "reading"
  /\ drain' = "committing"
  /\ change' = "none"
  /\ UNCHANGED <<drift, queued, waitTimer, capTimer, remote>>

\* The sync throws before it has scanned; the drain catches that and goes on.
SyncThrows ==
  /\ drain = "reading"
  /\ drain' = "after"
  /\ change' = IF change = "none" THEN "none" ELSE "failed"
  /\ UNCHANGED <<drift, queued, waitTimer, capTimer, remote>>

SyncEnds ==
  /\ drain = "committing"
  /\ drain' = "after"
  /\ UNCHANGED <<folder, queued, waitTimer, capTimer, remote>>

isIdle == drain = "idle" /\ queued = "nothing" /\ waitTimer = Off /\ capTimer = Off

-------------------------------------------------------------------------------
(* createRemoteRefreshScheduler. *)

\* schedule: queues a run, and arms its timer unless a run or a timer is there.
Trigger ==
  /\ trigger' = TRUE
  /\ pullTimer' = IF pull = "idle" /\ pullTimer = Off THEN cooling ELSE pullTimer

\* Mutant of AfterDrain: the drain ends without a look at the queue.
AfterDrainOnce ==
  /\ drain = "after"
  /\ Trigger
  /\ drain' = "idle"
  /\ UNCHANGED <<folder, queued, waitTimer, capTimer, behind, cooling, pull>>

\* afterDrain triggers the refresh; then the drain takes what was queued or ends.
AfterDrain ==
  /\ drain = "after"
  /\ Trigger
  /\ IF queued # "nothing" THEN Take
     ELSE drain' = "idle" /\ UNCHANGED <<queued, capTimer>>
  /\ UNCHANGED <<folder, waitTimer, behind, cooling, pull>>

\* periodic-head-reconciliation.
Reconcile ==
  /\ Trigger
  /\ UNCHANGED <<folder, local, behind, cooling, pull>>

\* The timer is due; remoteRefreshDecision first asks whether the local side is idle.
PullStarts ==
  /\ pullTimer = 0
  /\ pullTimer' = Off
  /\ trigger' = FALSE
  /\ pull' = IF isIdle THEN "deciding" ELSE "skipping"
  /\ UNCHANGED <<folder, local, behind, cooling>>

\* The head moved: the refresh reads the graph.
PullRefreshes ==
  /\ pull = "deciding" /\ behind
  /\ pull' = "refreshing"
  /\ behind' = FALSE
  /\ UNCHANGED <<folder, local, trigger, pullTimer, cooling>>

\* Mutant of PullRests: what was queued during the run waits for the next trigger.
PullRestsAlone ==
  /\ pull' = "idle"
  /\ cooling' = Cooldown
  /\ pullTimer' = Off
  /\ UNCHANGED <<folder, local, trigger>>

\* The run ends, whatever came of it: a trigger that came meanwhile arms the timer.
PullRests ==
  /\ pull' = "idle"
  /\ cooling' = Cooldown
  /\ pullTimer' = IF trigger THEN Cooldown ELSE Off
  /\ UNCHANGED <<folder, local, trigger>>

\* Mutant of PullSkips: the early return for a busy local side leaves the run marked
\* as running.
PullSkipsDecided == pull = "deciding" /\ PullRests /\ UNCHANGED behind

PullSkips == pull \in {"skipping", "deciding"} /\ PullRests /\ UNCHANGED behind
PullEnds == pull = "refreshing" /\ PullRests /\ UNCHANGED behind
PullFails == pull = "refreshing" /\ PullRests /\ behind' = TRUE

-------------------------------------------------------------------------------
(* The folder, the cloud, and time. *)

\* The folder changes, by the user or by a refresh that writes to it.
Edit ==
  /\ change' = IF change = "reported" THEN "reported" ELSE "silent"
  /\ drift' = TRUE
  /\ UNCHANGED <<local, remote>>

\* The watcher, or the poller, delivers an event; a sync may have scanned its change.
WatcherReports ==
  /\ \/ Schedule("change") /\ change' = IF change = "silent" THEN "reported" ELSE change
     \/ Schedule("activity") /\ UNCHANGED change
  /\ UNCHANGED <<drift, drain, remote>>

\* createWorkspaceScanScheduler: the folder is compared with the last snapshot.
ScanReports ==
  /\ drift
  /\ drift' = FALSE
  /\ Schedule("change")
  /\ change' = IF change = "silent" THEN "reported" ELSE change
  /\ UNCHANGED <<drain, remote>>

OtherDevice ==
  /\ behind' = TRUE
  /\ UNCHANGED <<folder, local, trigger, pullTimer, cooling, pull>>

Less(timer) == IF timer = Off THEN Off ELSE timer - 1

Tick ==
  /\ 0 \notin {waitTimer, capTimer, pullTimer}
  /\ waitTimer' = Less(waitTimer)
  /\ capTimer' = Less(capTimer)
  /\ pullTimer' = Less(pullTimer)
  /\ cooling' = IF cooling = 0 THEN 0 ELSE cooling - 1
  /\ UNCHANGED <<folder, queued, drain, behind, trigger, pull>>

-------------------------------------------------------------------------------

Drain == SyncScans \/ SyncThrows \/ SyncEnds \/ AfterDrain
Pull == PullRefreshes \/ PullSkips \/ PullEnds \/ PullFails

Next ==
  \/ Flush \/ Drain \/ Reconcile \/ PullStarts \/ Pull
  \/ Edit \/ WatcherReports \/ ScanReports \/ OtherDevice \/ Tick

\* Timers expire, the intervals of the scan and of the reconciliation come round, and
\* every awaited call ends.  Nothing makes the watcher report, and a sync or a refresh
\* may fail each time; a refresh that is decided on again and again is not refused
\* forever.
Fairness ==
  /\ WF_vars(Tick) /\ WF_vars(Flush) /\ WF_vars(PullStarts)
  /\ WF_vars(ScanReports) /\ WF_vars(Reconcile)
  /\ WF_vars(Drain) /\ WF_vars(Pull) /\ SF_vars(PullRefreshes)

Spec == Init /\ [][Next]_vars /\ Fairness

-------------------------------------------------------------------------------
(* Properties. *)

\* isIdle lets a refresh start: every change that was reported by then has been taken
\* by a sync, whatever reports came while a drain was running.
IdleMeansTaken == isIdle => change # "reported"

\* A queued run of the refresh is never forgotten, although a trigger that comes while
\* a run or a timer is there arms nothing.
TriggerWillRun == trigger => (pullTimer # Off \/ pull # "idle")

\* A change of the folder is taken by a sync in the end: also when the watcher drops
\* its event, and when saves never pause so that the quiet window never ends.
EveryChangeIsTaken == change \in {"silent", "reported"} ~> change \in {"none", "failed"}

\* Once the local side stays idle, a head that moved on is refreshed, or tried again
\* and again, without any push or local activity.
HeadIsFollowed == <>[]isIdle => []<>(~behind \/ pull = "refreshing")

===============================================================================
