------------------------------ MODULE WatchProofs ------------------------------
(***************************************************************************)
(* The agent process that watches a folder.                                *)
(*                                                                         *)
(* The lock file keeps the folder to one agent, for any number of          *)
(* processes, as long as no process dies, and with any number of deaths as *)
(* long as nobody removes another file than the stale one it has judged.   *)
(* Behind the lock, the safety of the schedulers of the agent that has it, *)
(* for every quiet window, delay cap (or none) and cooldown.               *)
(***************************************************************************)
EXTENDS MCWorkspaceLock, MCWatchScheduler, TLAPS

-------------------------------------------------------------------------------
(* The lock. *)

\* Without deaths nobody takes over, and whoever got past the exclusive create still
\* has the file it created.  LiveExclusion alone is not inductive: it says nothing of
\* a process that has yet to write its record.
OwnersKeepTheirFile ==
  Dead = {} =>
    /\ \A p \in Procs : pc[p] # "remove"
    /\ \A p \in Procs :
         pc[p] \in {"write", "held", "unlink"} =>
           /\ lock # NoLock /\ lock.by = p
           /\ pc[p] # "write" => lock.written

LockInv == LockTypeOK /\ OwnersKeepTheirFile

LEMMA LockTyping == LockTypeOK /\ [LockNext]_lvars => LockTypeOK'
<1> SUFFICES ASSUME LockTypeOK, [LockNext]_lvars PROVE LockTypeOK'
  OBVIOUS
<1> USE NoLockDistinct DEF LockTypeOK
<1>1. CASE UNCHANGED lvars
  BY <1>1 DEF lvars
<1>2. ASSUME NEW p \in Procs, Start(p) \/ Acquire(p) \/ Release(p) \/ Die(p)
      PROVE LockTypeOK'
  <2>1. CASE Start(p)
    BY <2>1 DEF Start, Goes
  <2>2. CASE Create(p)
    BY <2>2 DEF Create, Goes
  <2>3. CASE Collide(p)
    BY <2>3 DEF Collide, Goes
  <2>4. CASE Judge(p)
    BY <2>4 DEF Judge, Goes
  <2>5. CASE Remove(p)
    BY <2>5 DEF Remove, Goes
  <2>6. CASE Write(p)
    BY <2>6 DEF Write, Goes
  <2>7. CASE ReadOwn(p)
    BY <2>7 DEF ReadOwn, Goes
  <2>8. CASE Unlink(p)
    BY <2>8 DEF Unlink, Goes
  <2>9. CASE Die(p)
    BY <2>9 DEF Die
  <2> QED
    BY <1>2, <2>1, <2>2, <2>3, <2>4, <2>5, <2>6, <2>7, <2>8, <2>9 DEF Acquire, Release
<1> QED
  BY <1>1, <1>2 DEF LockNext

\* No step brings a process back from the dead.
LEMMA DeathIsFinal == LockTypeOK /\ [LockNext]_lvars /\ Dead' = {} => Dead = {}
<1> SUFFICES ASSUME LockTypeOK, [LockNext]_lvars, NEW q \in Procs, pc[q] = "dead"
             PROVE pc'[q] = "dead"
  BY DEF Dead
<1>1. CASE UNCHANGED lvars
  BY <1>1 DEF lvars
<1>2. ASSUME NEW p \in Procs, Start(p) \/ Acquire(p) \/ Release(p) \/ Die(p)
      PROVE pc'[q] = "dead"
  BY <1>2 DEF LockTypeOK, Start, Acquire, Release, Create, Collide, Judge, Remove, Write,
              ReadOwn, Unlink, Die, Goes
<1> QED
  BY <1>1, <1>2 DEF LockNext

LEMMA OwnersStep == LockInv /\ [LockNext]_lvars => OwnersKeepTheirFile'
<1> SUFFICES ASSUME LockInv, [LockNext]_lvars, Dead' = {}
             PROVE /\ \A p \in Procs : pc'[p] # "remove"
                   /\ \A p \in Procs :
                        pc'[p] \in {"write", "held", "unlink"} =>
                          /\ lock' # NoLock /\ lock'.by = p
                          /\ pc'[p] # "write" => lock'.written
  BY DEF OwnersKeepTheirFile
<1>0. /\ \A p \in Procs : pc[p] \notin {"dead", "remove"}
      /\ \A p \in Procs :
           pc[p] \in {"write", "held", "unlink"} =>
             /\ lock # NoLock /\ lock.by = p
             /\ pc[p] # "write" => lock.written
  BY DeathIsFinal DEF LockInv, OwnersKeepTheirFile, Dead
<1> USE NoLockDistinct DEF LockInv, LockTypeOK
<1>1. CASE UNCHANGED lvars
  BY <1>0, <1>1 DEF lvars
<1>2. ASSUME NEW p \in Procs, Start(p) \/ Acquire(p) \/ Release(p) \/ Die(p)
      PROVE /\ \A q \in Procs : pc'[q] # "remove"
            /\ \A q \in Procs :
                 pc'[q] \in {"write", "held", "unlink"} =>
                   /\ lock' # NoLock /\ lock'.by = q
                   /\ pc'[q] # "write" => lock'.written
  <2>1. CASE Start(p)
    BY <1>0, <2>1 DEF Start, Goes
  <2>2. CASE Create(p)
    <3>1. lock' # NoLock /\ lock'.by = p
      BY <2>2, [by |-> p, written |-> FALSE] \in [by : Procs, written : BOOLEAN]
         DEF Create, Goes
    <3>2. \A q \in Procs : pc[q] \notin {"write", "held", "unlink"}
      BY <1>0, <2>2 DEF Create
    <3>3. pc' = [pc EXCEPT ![p] = "write"]
      BY <2>2 DEF Create, Goes
    <3> QED
      BY <1>0, <3>1, <3>2, <3>3
  <2>3. CASE Collide(p)
    BY <1>0, <2>3 DEF Collide, Goes
  \* A record names a process, and no process is dead, so nothing is stale.
  <2>4. CASE Judge(p)
    <3>1. ~Stale
      BY <1>0 DEF Stale, Record
    <3> QED
      BY <1>0, <2>4, <3>1 DEF Judge, Goes
  <2>5. CASE Remove(p)
    BY <1>0, <2>5 DEF Remove, Goes
  <2>6. CASE Write(p)
    BY <1>0, <2>6 DEF Write, Goes
  <2>7. CASE ReadOwn(p)
    BY <1>0, <2>7 DEF ReadOwn, Goes
  \* The file that is removed is the own one, so nobody else has one.
  <2>8. CASE Unlink(p)
    BY <1>0, <2>8 DEF Unlink, Goes
  <2>9. CASE Die(p)
    BY <2>9 DEF Die, Dead
  <2> QED
    BY <1>2, <2>1, <2>2, <2>3, <2>4, <2>5, <2>6, <2>7, <2>8, <2>9 DEF Acquire, Release
<1> QED
  BY <1>1, <1>2 DEF LockNext

LEMMA LockInvHolds == LockSpec => []LockInv
<1>1. LockInit => LockInv
  BY NoLockDistinct DEF LockInit, LockInv, LockTypeOK, OwnersKeepTheirFile
<1>2. LockInv /\ [LockNext]_lvars => LockInv'
  BY LockTyping, OwnersStep DEF LockInv
<1> QED
  BY <1>1, <1>2, PTL DEF LockSpec

\* The lock file, the program counters and the attempts of acquireWorkspaceLock keep
\* their types.
THEOREM LockTypeCorrect == LockSpec => []LockTypeOK
<1>1. LockInv => LockTypeOK
  BY DEF LockInv
<1> QED
  BY <1>1, LockInvHolds, PTL

\* One agent per workspace, whatever starts, refusals and releases overlap, as long as
\* no process dies.
THEOREM LiveExclusionHolds == LockSpec => []LiveExclusion
<1>1. LockInv => LiveExclusion
  <2> SUFFICES ASSUME LockInv, Dead = {}, NEW p \in Holders
               PROVE lock = [by |-> p, written |-> TRUE] /\ Holders = {p}
    BY DEF LiveExclusion
  <2>1. \A q \in Holders : q \in Procs /\ lock # NoLock /\ lock.by = q /\ lock.written
    BY DEF LockInv, OwnersKeepTheirFile, Holders
  <2>2. lock = [by |-> p, written |-> TRUE]
    BY <2>1 DEF LockInv, LockTypeOK
  <2> QED
    BY <2>1, <2>2
<1> QED
  BY <1>1, LockInvHolds, PTL

-------------------------------------------------------------------------------
(* Takeovers. *)

\* As long as no takeover raced, whoever got past the exclusive create has the file it
\* created, and whoever is about to remove a file has judged the holder dead.
TakeoverInv ==
  ~raced =>
    /\ \A p \in Procs :
         pc[p] \in {"write", "held", "unlink"} =>
           /\ lock # NoLock /\ lock.by = p
           /\ pc[p] # "write" => lock.written
    /\ \A p \in Procs : pc[p] = "remove" => judged[p] \in Procs /\ pc[judged[p]] = "dead"

\* The step of one process other than a removal.
LEMMA OwnersKeep ==
  ASSUME LockTypeOK, NEW p \in Procs,
         Start(p) \/ Create(p) \/ Collide(p) \/ Judge(p) \/ Write(p) \/ Release(p) \/ Die(p),
         \A q \in Procs :
           pc[q] \in {"write", "held", "unlink"} =>
             /\ lock # NoLock /\ lock.by = q
             /\ pc[q] # "write" => lock.written
  PROVE  \A q \in Procs :
           pc'[q] \in {"write", "held", "unlink"} =>
             /\ lock' # NoLock /\ lock'.by = q
             /\ pc'[q] # "write" => lock'.written
<1> USE NoLockDistinct DEF LockTypeOK
<1>1. CASE Start(p)
  BY <1>1 DEF Start, Goes
<1>2. CASE Create(p)
  <2>1. lock' # NoLock /\ lock'.by = p
    BY <1>2, [by |-> p, written |-> FALSE] \in [by : Procs, written : BOOLEAN] DEF Create, Goes
  <2>2. \A q \in Procs : pc[q] \notin {"write", "held", "unlink"}
    BY <1>2 DEF Create
  <2>3. pc' = [pc EXCEPT ![p] = "write"]
    BY <1>2 DEF Create, Goes
  <2> QED
    BY <2>1, <2>2, <2>3
<1>3. CASE Collide(p)
  BY <1>3 DEF Collide, Goes
<1>4. CASE Judge(p)
  BY <1>4 DEF Judge, Goes
<1>5. CASE Write(p)
  BY <1>5 DEF Write, Goes
<1>6. CASE ReadOwn(p)
  BY <1>6 DEF ReadOwn, Goes
<1>7. CASE Unlink(p)
  BY <1>7 DEF Unlink, Goes
<1>8. CASE Die(p)
  BY <1>8 DEF Die
<1> QED
  BY <1>1, <1>2, <1>3, <1>4, <1>5, <1>6, <1>7, <1>8 DEF Release

\* A removal that does not race removes the file of a dead process, which is no owner's.
LEMMA RemovalKeeps ==
  ASSUME LockTypeOK, TakeoverInv, NEW p \in Procs, Remove(p), MCLockNext, ~raced'
  PROVE  \A q \in Procs : pc'[q] \notin {"write", "held", "unlink"}
<1>1. /\ pc[p] = "remove" /\ pc'[p] \in {"open", "off"}
      /\ \A q \in Procs : q # p => pc'[q] = pc[q]
  BY DEF Remove, Goes, LockTypeOK
<1>2. ~raced /\ (lock = NoLock \/ lock = [by |-> judged[p], written |-> TRUE])
  BY <1>1 DEF MCLockNext
<1>3. judged[p] \in Procs /\ pc[judged[p]] = "dead"
  BY <1>1, <1>2 DEF TakeoverInv
<1>4. \A q \in Procs : pc[q] \in {"write", "held", "unlink"} => lock # NoLock /\ lock.by = q
  BY <1>2 DEF TakeoverInv
<1> QED
  BY <1>1, <1>2, <1>3, <1>4

LEMMA JudgedStaysDead ==
  ASSUME LockTypeOK, TakeoverInv, MCLockNext, ~raced', NEW q \in Procs, pc'[q] = "remove"
  PROVE  judged'[q] \in Procs /\ pc'[judged'[q]] = "dead"
<1>1. PICK p \in Procs : Start(p) \/ Acquire(p) \/ Release(p) \/ Die(p)
  BY DEF MCLockNext, LockNext
<1>2. \A r \in Procs : pc[r] = "dead" => pc'[r] = "dead"
  BY <1>1 DEF LockTypeOK, Start, Acquire, Release, Create, Collide, Judge, Remove, Write,
              ReadOwn, Unlink, Die, Goes
<1>3. ~raced /\ judged'[q] = IF pc[q] = "read" THEN Record ELSE judged[q]
  BY DEF MCLockNext
<1>4. CASE pc[q] = "read"
  <2>1. Judge(q) /\ Stale
    BY <1>1, <1>4 DEF LockTypeOK, Start, Acquire, Release, Create, Collide, Judge, Remove, Write,
                      ReadOwn, Unlink, Die, Goes
  <2>2. Record \in Procs /\ pc[Record] = "dead"
    BY <2>1, NoLockDistinct DEF Stale, Record, LockTypeOK
  <2> QED
    BY <1>2, <1>3, <1>4, <2>2
<1>5. CASE pc[q] # "read"
  <2>1. pc[q] = "remove"
    BY <1>1, <1>5 DEF LockTypeOK, Start, Acquire, Release, Create, Collide, Judge, Remove, Write,
                      ReadOwn, Unlink, Die, Goes
  <2> QED
    BY <1>2, <1>3, <1>5, <2>1 DEF TakeoverInv
<1> QED
  BY <1>4, <1>5

LEMMA TakeoverStep == LockTypeOK /\ TakeoverInv /\ [MCLockNext]_mclvars => TakeoverInv'
<1> SUFFICES ASSUME LockTypeOK, TakeoverInv, [MCLockNext]_mclvars PROVE TakeoverInv'
  OBVIOUS
<1>1. CASE UNCHANGED mclvars
  BY <1>1 DEF mclvars, lvars, TakeoverInv
<1>2. ASSUME MCLockNext, ~raced'
      PROVE  \A q \in Procs :
               pc'[q] \in {"write", "held", "unlink"} =>
                 /\ lock' # NoLock /\ lock'.by = q
                 /\ pc'[q] # "write" => lock'.written
  <2>1. ~raced
    BY <1>2 DEF MCLockNext
  <2>2. PICK p \in Procs : Start(p) \/ Acquire(p) \/ Release(p) \/ Die(p)
    BY <1>2 DEF MCLockNext, LockNext
  <2>3. CASE Remove(p)
    BY <1>2, <2>3, RemovalKeeps
  <2>4. CASE Start(p) \/ Create(p) \/ Collide(p) \/ Judge(p) \/ Write(p) \/ Release(p) \/ Die(p)
    BY <2>1, <2>4, OwnersKeep DEF TakeoverInv
  <2> QED
    BY <2>2, <2>3, <2>4 DEF Acquire
<1> QED
  BY <1>1, <1>2, JudgedStaysDead DEF TakeoverInv

\* One agent per workspace with any number of deaths and takeovers, as long as nobody
\* removes a file that has changed since it was judged stale.
THEOREM TakeoverAlwaysExcludes == MCLockSpec => []TakeoverExcludes
<1>1. MCLockInit => LockTypeOK /\ TakeoverInv
  BY NoLockDistinct DEF MCLockInit, LockInit, LockTypeOK, TakeoverInv
<1>2. LockTypeOK /\ [MCLockNext]_mclvars => LockTypeOK'
  BY LockTyping DEF MCLockNext, mclvars, lvars
<1>3. TakeoverInv => TakeoverExcludes
  BY DEF TakeoverInv, TakeoverExcludes, MutualExclusion, Holders
<1> QED
  BY <1>1, <1>2, <1>3, TakeoverStep, PTL DEF MCLockSpec

-------------------------------------------------------------------------------
(* The schedulers. *)

\* A reported change is in the queue, or in the sync that reads the folder.
ReportedIsQueued == change = "reported" => (queued = "change" \/ drain = "reading")

WatchInv == WatchTypeOK /\ ReportedIsQueued /\ TriggerWillRun

\* The steps that only concern the drain, the folder and its reports.
LocalStep ==
  Flush \/ SyncScans \/ SyncThrows \/ SyncEnds \/ Edit \/ WatcherReports \/ ScanReports

\* The steps of the refresh scheduler alone.
RemoteStep == Reconcile \/ PullStarts \/ Pull \/ OtherDevice

LEMMA NextSplits == Next => LocalStep \/ RemoteStep \/ AfterDrain \/ Tick
BY DEF Next, Drain, LocalStep, RemoteStep

LEMMA ScheduleTypes ==
  ASSUME WatchTypeOK, NEW kind \in {"activity", "change"}, Schedule(kind)
  PROVE  /\ queued' \in {"change", kind}
         /\ waitTimer' \in 0 .. Wait
         /\ capTimer' = Off \/ (MaxDelay # Off /\ capTimer' \in 0 .. MaxDelay)
BY WaitNat, MaxDelayCapsWait DEF WatchTypeOK, Schedule

LEMMA TriggerTypes ==
  ASSUME WatchTypeOK, Trigger
  PROVE  /\ trigger' = TRUE
         /\ pullTimer' \in 0 .. Cooldown \cup {Off}
         /\ pull = "idle" => pullTimer' # Off
BY CooldownNat, OffDistinct DEF WatchTypeOK, Trigger

LEMMA LessTypes ==
  ASSUME NEW n \in Nat, NEW timer \in 0 .. n \cup {Off}, timer # 0
  PROVE  Less(timer) \in 0 .. n \cup {Off} /\ (Less(timer) = Off <=> timer = Off)
BY OffDistinct DEF Less

LEMMA LocalKeeps == WatchInv /\ LocalStep => WatchInv'
<1> SUFFICES ASSUME WatchInv, LocalStep PROVE WatchInv'
  OBVIOUS
<1> USE DEF WatchInv
<1>1. remote' = remote
  BY DEF LocalStep, Flush, SyncScans, SyncThrows, SyncEnds, Edit, WatcherReports, ScanReports, remote
<1>2. TriggerWillRun'
  BY <1>1 DEF TriggerWillRun, remote
<1>3. CASE Flush
  BY <1>1, <1>2, <1>3 DEF Flush, Take, WatchTypeOK, ReportedIsQueued, folder, remote
<1>4. CASE SyncScans \/ SyncThrows \/ SyncEnds
  BY <1>1, <1>2, <1>4 DEF SyncScans, SyncThrows, SyncEnds, WatchTypeOK, ReportedIsQueued, folder, remote
<1>5. CASE Edit
  BY <1>1, <1>2, <1>5 DEF Edit, WatchTypeOK, ReportedIsQueued, local, remote
<1>6. CASE WatcherReports
  <2>1. CASE Schedule("change") /\ change' = IF change = "silent" THEN "reported" ELSE change
    <3>1. queued' = "change"
      BY <2>1 DEF Schedule
    <3> QED
      BY <1>1, <1>2, <1>6, <2>1, <3>1, ScheduleTypes
         DEF WatcherReports, WatchTypeOK, ReportedIsQueued, remote
  <2>2. CASE Schedule("activity") /\ UNCHANGED change
    <3>1. queued = "change" => queued' = "change"
      BY <2>2 DEF Schedule
    <3> QED
      BY <1>1, <1>2, <1>6, <2>2, <3>1, ScheduleTypes
         DEF WatcherReports, WatchTypeOK, ReportedIsQueued, remote
  <2> QED
    BY <1>6, <2>1, <2>2 DEF WatcherReports
<1>7. CASE ScanReports
  <2>1. queued' = "change"
    BY <1>7 DEF ScanReports, Schedule
  <2>2. Schedule("change")
    BY <1>7 DEF ScanReports
  <2> QED
    BY <1>1, <1>2, <1>7, <2>1, <2>2, ScheduleTypes
       DEF ScanReports, WatchTypeOK, ReportedIsQueued, remote
<1> QED
  BY <1>3, <1>4, <1>5, <1>6, <1>7 DEF LocalStep

LEMMA RemoteKeeps == WatchInv /\ RemoteStep => WatchInv'
<1> SUFFICES ASSUME WatchInv, RemoteStep PROVE WatchInv'
  OBVIOUS
<1> USE DEF WatchInv
<1>1. folder' = folder /\ local' = local
  BY DEF RemoteStep, Reconcile, PullStarts, Pull, PullRefreshes, PullSkips, PullEnds, PullFails,
         PullRests, OtherDevice, folder, local
<1>2. ReportedIsQueued'
  BY <1>1 DEF ReportedIsQueued, folder, local
<1>3. CASE Reconcile
  <2>1. Trigger /\ UNCHANGED <<behind, cooling, pull>>
    BY <1>3 DEF Reconcile
  <2>2. TriggerWillRun'
    BY <2>1, TriggerTypes, SMTT(20) DEF TriggerWillRun
  <2>3. trigger' = TRUE /\ pullTimer' \in 0 .. Cooldown \cup {Off}
    BY <2>1, TriggerTypes
  <2>4. UNCHANGED <<change, drift, queued, waitTimer, capTimer, drain, behind, cooling, pull>>
    BY <1>1, <2>1 DEF folder, local
  <2>5. WatchTypeOK'
    BY <2>3, <2>4 DEF WatchTypeOK
  <2> QED
    BY <1>2, <2>2, <2>5
<1>4. CASE PullStarts
  BY <1>1, <1>2, <1>4 DEF PullStarts, WatchTypeOK, TriggerWillRun, folder, local
<1>5. CASE PullRefreshes
  <2>1. WatchTypeOK'
    BY <1>1, <1>5 DEF PullRefreshes, WatchTypeOK, folder, local
  <2>2. TriggerWillRun'
    BY <1>5 DEF PullRefreshes, TriggerWillRun
  <2> QED
    BY <1>2, <2>1, <2>2
<1>6. CASE PullSkips \/ PullEnds \/ PullFails
  <2>1. PullRests /\ behind' \in BOOLEAN
    BY <1>6 DEF PullSkips, PullEnds, PullFails, WatchTypeOK
  <2>2. TriggerWillRun'
    BY <2>1, CooldownNat, OffDistinct DEF PullRests, TriggerWillRun
  <2> QED
    BY <1>1, <1>2, <2>1, <2>2, CooldownNat DEF PullRests, WatchTypeOK, folder, local
<1>7. CASE OtherDevice
  BY <1>1, <1>2, <1>7 DEF OtherDevice, WatchTypeOK, TriggerWillRun, folder, local
<1> QED
  BY <1>3, <1>4, <1>5, <1>6, <1>7 DEF RemoteStep, Pull

LEMMA AfterDrainKeeps == WatchInv /\ AfterDrain => WatchInv'
<1> SUFFICES ASSUME WatchInv, AfterDrain PROVE WatchInv'
  OBVIOUS
<1> USE DEF WatchInv
<1>1. Trigger /\ pull' = pull
  BY DEF AfterDrain
<1>2. TriggerWillRun'
  BY <1>1, TriggerTypes DEF TriggerWillRun
<1>3. ReportedIsQueued'
  BY DEF AfterDrain, Take, ReportedIsQueued, folder
<1>4. WatchTypeOK'
  BY <1>1, TriggerTypes DEF AfterDrain, Take, WatchTypeOK, folder
<1> QED
  BY <1>2, <1>3, <1>4

LEMMA TickKeeps == WatchInv /\ Tick => WatchInv'
<1> SUFFICES ASSUME WatchInv, Tick PROVE WatchInv'
  OBVIOUS
<1> USE DEF WatchInv
<1>1. waitTimer' \in 0 .. Wait \cup {Off}
  BY WaitNat, LessTypes DEF Tick, WatchTypeOK
<1>2. capTimer' = Off \/ (MaxDelay # Off /\ capTimer' \in 0 .. MaxDelay)
  <2>1. CASE capTimer = Off
    BY <2>1 DEF Tick, Less
  <2>2. CASE capTimer # Off
    <3>1. MaxDelay # Off /\ MaxDelay \in Nat
      BY <2>2, MaxDelayCapsWait DEF WatchTypeOK
    <3>2. capTimer \in 0 .. MaxDelay \cup {Off} /\ capTimer # 0
      BY <2>2 DEF Tick, WatchTypeOK
    <3>3. Less(capTimer) \in 0 .. MaxDelay \cup {Off}
      BY <3>1, <3>2, LessTypes
    <3> QED
      BY <3>1, <3>3 DEF Tick
  <2> QED
    BY <2>1, <2>2
<1>3. pullTimer' \in 0 .. Cooldown \cup {Off} /\ (pullTimer' = Off <=> pullTimer = Off)
  BY CooldownNat, LessTypes DEF Tick, WatchTypeOK
<1>4. cooling' \in 0 .. Cooldown
  BY CooldownNat DEF Tick, WatchTypeOK
<1>5. WatchTypeOK'
  BY <1>1, <1>2, <1>3, <1>4 DEF Tick, WatchTypeOK, folder
<1>6. ReportedIsQueued' /\ TriggerWillRun'
  BY <1>3 DEF Tick, Less, ReportedIsQueued, TriggerWillRun, folder
<1> QED
  BY <1>5, <1>6

LEMMA WatchInvHolds == Spec => []WatchInv
<1>1. Init => WatchInv
  <2> SUFFICES ASSUME Init PROVE WatchInv
    OBVIOUS
  <2>1. cooling \in 0 .. Cooldown
    BY CooldownNat DEF Init
  <2>2. WatchTypeOK
    BY <2>1, Zenon DEF Init, WatchTypeOK
  <2>3. ReportedIsQueued /\ TriggerWillRun
    BY DEF Init, ReportedIsQueued, TriggerWillRun
  <2> QED
    BY <2>2, <2>3 DEF WatchInv
<1>2. WatchInv /\ [Next]_vars => WatchInv'
  <2>1. WatchInv /\ UNCHANGED vars => WatchInv'
    BY DEF vars, folder, local, remote, WatchInv, WatchTypeOK, ReportedIsQueued, TriggerWillRun
  <2> QED
    BY <2>1, NextSplits, LocalKeeps, RemoteKeeps, AfterDrainKeeps, TickKeeps
<1> QED
  BY <1>1, <1>2, PTL DEF Spec

\* The timers stay between zero and what armed them, or off, and the phases of the
\* drain and of the refresh keep their types.
THEOREM WatchTypeCorrect == Spec => []WatchTypeOK
<1>1. WatchInv => WatchTypeOK
  BY DEF WatchInv
<1> QED
  BY <1>1, WatchInvHolds, PTL

\* isIdle never lets a refresh start while a reported change waits for its sync.
THEOREM IdleHolds == Spec => []IdleMeansTaken
<1>1. WatchInv => IdleMeansTaken
  BY DEF WatchInv, ReportedIsQueued, IdleMeansTaken, isIdle
<1> QED
  BY <1>1, WatchInvHolds, PTL

\* No queued run of the refresh is forgotten.
THEOREM TriggerHolds == Spec => []TriggerWillRun
<1>1. WatchInv => TriggerWillRun
  BY DEF WatchInv
<1> QED
  BY <1>1, WatchInvHolds, PTL

-------------------------------------------------------------------------------
(* The cap. *)

\* A report that no drain will look at has the cap armed, with what is left of it.
HeldInv ==
  /\ held \in Nat
  /\ queued = "nothing" => capTimer = Off
  /\ queued = "nothing" \/ drain # "idle" => held = 0
  /\ queued # "nothing" /\ drain = "idle" => capTimer \in Nat /\ held + capTimer <= MaxDelay

LEMMA HeldStep == MaxDelay # Off /\ WatchTypeOK /\ HeldInv /\ [MCNext]_mcvars => HeldInv'
<1> SUFFICES ASSUME MaxDelay # Off, WatchTypeOK, HeldInv, [MCNext]_mcvars PROVE HeldInv'
  OBVIOUS
<1>0. MaxDelay \in Nat
  BY MaxDelayCapsWait
<1>1. CASE UNCHANGED mcvars
  BY <1>1 DEF mcvars, vars, local, HeldInv
<1>2. CASE MCNext
  <2>1. held' = IF queued = "nothing" \/ drain # "idle" \/ drain' # "idle" THEN 0
                ELSE IF Tick /\ held <= MaxDelay THEN held + 1 ELSE held
    BY <1>2 DEF MCNext
  <2>2. CASE Tick
    <3>1. UNCHANGED <<queued, drain>> /\ capTimer # 0 /\ capTimer' = Less(capTimer)
      BY <2>2 DEF Tick
    <3>2. CASE queued = "nothing" \/ drain # "idle"
      BY <2>1, <3>1, <3>2 DEF HeldInv, Less
    <3>3. CASE queued # "nothing" /\ drain = "idle"
      BY <1>0, <2>1, <2>2, <3>1, <3>3, OffDistinct DEF HeldInv, Less
    <3> QED
      BY <3>2, <3>3
  <2>3. CASE ~Tick
    <3>1. held' = IF queued = "nothing" \/ drain # "idle" \/ drain' # "idle" THEN 0 ELSE held
      BY <2>1, <2>3
    <3>2. ASSUME NEW kind \in {"activity", "change"}, Schedule(kind), drain' = drain
          PROVE  HeldInv'
      <4>1. queued' # "nothing" /\ capTimer' = IF capTimer = Off THEN MaxDelay ELSE capTimer
        BY <3>2 DEF Schedule
      <4>2. capTimer' \in Nat
        BY <1>0, <4>1 DEF WatchTypeOK
      <4>3. CASE drain = "idle" /\ queued = "nothing"
        BY <1>0, <3>1, <3>2, <4>1, <4>2, <4>3 DEF HeldInv
      <4>4. CASE drain = "idle" /\ queued # "nothing"
        BY <3>1, <3>2, <4>1, <4>2, <4>4, OffDistinct DEF HeldInv
      <4>5. CASE drain # "idle"
        BY <3>1, <3>2, <4>1, <4>5 DEF HeldInv
      <4> QED
        BY <4>3, <4>4, <4>5
    <3>3. CASE WatcherReports \/ ScanReports
      BY <3>2, <3>3 DEF WatcherReports, ScanReports
    <3>4. CASE Flush
      BY <3>1, <3>4 DEF Flush, Take, HeldInv
    <3>5. CASE AfterDrain
      BY <3>1, <3>5 DEF AfterDrain, Take, HeldInv
    <3>6. CASE SyncScans \/ SyncThrows \/ SyncEnds
      BY <3>1, <3>6 DEF SyncScans, SyncThrows, SyncEnds, HeldInv
    <3>7. CASE UNCHANGED local
      BY <3>1, <3>7 DEF local, HeldInv
    <3>8. Edit \/ RemoteStep => UNCHANGED local
      BY DEF Edit, RemoteStep, Reconcile, PullStarts, Pull, PullRefreshes, PullSkips, PullEnds,
             PullFails, PullRests, OtherDevice, local
    <3> QED
      BY <1>2, <2>3, <3>3, <3>4, <3>5, <3>6, <3>7, <3>8, NextSplits DEF MCNext, LocalStep
  <2> QED
    BY <2>2, <2>3
<1> QED
  BY <1>1, <1>2

\* With coalescing on, no report waits longer than the cap for a drain to take it.
THEOREM CapHolds == ASSUME MaxDelay # Off PROVE MCSpec => []HeldAtMostCap
<1>1. MCInit => HeldInv
  BY DEF MCInit, Init, HeldInv
<1>2. HeldInv => HeldAtMostCap
  BY MaxDelayCapsWait DEF HeldInv, HeldAtMostCap
<1>3. MCSpec => []WatchTypeOK
  <2>1. (MCInit => Init) /\ ([MCNext]_mcvars => [Next]_vars)
    BY DEF MCInit, MCNext, mcvars
  <2> QED
    BY <2>1, WatchTypeCorrect, PTL DEF MCSpec, Spec
<1>4. WatchTypeOK /\ HeldInv /\ [MCNext]_mcvars => HeldInv'
  BY HeldStep
<1> QED
  BY <1>1, <1>2, <1>3, <1>4, PTL DEF MCSpec

===============================================================================
