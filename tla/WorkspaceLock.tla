----------------------------- MODULE WorkspaceLock -----------------------------
(***************************************************************************)
(* The lock file that keeps a second agent off a workspace folder.         *)
(*                                                                         *)
(* A process that starts watching creates the file exclusively, then       *)
(* writes its pid into it.  One that finds the file reads the record, and  *)
(* removes the file to try once more when the process of the record is     *)
(* gone.  The last owner removes it when it stops watching.  Every line is *)
(* a call of the file system; processes run and die between any two.       *)
(*                                                                         *)
(* All processes run on one host.  A pid is not used again after a death.  *)
(***************************************************************************)
EXTENDS Naturals, FiniteSets

CONSTANTS
  Procs,    \* the processes that may start an agent on the folder
  NoLock    \* the lock file does not exist; its record cannot be read

ASSUME NoLockDistinct == NoLock \notin Procs \cup [by : Procs, written : BOOLEAN]

VARIABLES
  lock,      \* the lock file: the process that created it, and whether it has its record
  pc,        \* what a process is about to do
  attempt    \* the iteration of the loop of acquireWorkspaceLock

lvars == <<lock, pc, attempt>>

LockTypeOK ==
  /\ lock \in [by : Procs, written : BOOLEAN] \cup {NoLock}
  /\ pc \in [Procs -> {"off", "open", "read", "remove", "write", "held", "unlink", "dead"}]
  /\ attempt \in [Procs -> 0 .. 1]

LockInit ==
  /\ lock = NoLock
  /\ pc = [p \in Procs |-> "off"]
  /\ attempt = [p \in Procs |-> 0]

Goes(p, from, to) == pc[p] = from /\ pc' = [pc EXCEPT ![p] = to]

\* readWorkspaceLockRecord: null when the file is missing or has no record yet.
Record == IF lock # NoLock /\ lock.written THEN lock.by ELSE NoLock

Start(p) ==
  /\ Goes(p, "off", "open")
  /\ attempt' = [attempt EXCEPT ![p] = 0]
  /\ UNCHANGED lock

\* Mutant of Create: the file is opened without the exclusive flag.
CreateShared(p) ==
  /\ Goes(p, "open", "write")
  /\ lock' = [by |-> p, written |-> FALSE]
  /\ UNCHANGED attempt

\* open(lockPath, 'wx') creates the file.
Create(p) ==
  /\ lock = NoLock
  /\ Goes(p, "open", "write")
  /\ lock' = [by |-> p, written |-> FALSE]
  /\ UNCHANGED attempt

\* ... or answers EEXIST.
Collide(p) ==
  /\ lock # NoLock
  /\ Goes(p, "open", "read")
  /\ UNCHANGED <<lock, attempt>>

\* Mutant of Stale: no lock is ever taken over.
StaleNever == FALSE

\* Mutant of Stale: the lock of a process that is stopping is taken over.
StaleWhenStopping == Record # NoLock /\ pc[Record] \in {"unlink", "dead"}

\* The record names a process that is gone.
Stale == Record # NoLock /\ pc[Record] = "dead"

Judge(p) ==
  /\ Goes(p, "read", IF Stale THEN "remove" ELSE "off")
  /\ UNCHANGED <<lock, attempt>>

\* The file of that name is removed, whichever it is by now; the loop goes round once.
Remove(p) ==
  /\ Goes(p, "remove", IF attempt[p] = 0 THEN "open" ELSE "off")
  /\ attempt' = [attempt EXCEPT ![p] = 1]
  /\ lock' = NoLock

\* The record goes to the file that was opened, which may be unlinked by now.
Write(p) ==
  /\ Goes(p, "write", "held")
  /\ lock' = IF lock # NoLock /\ lock.by = p THEN [lock EXCEPT !.written = TRUE] ELSE lock
  /\ UNCHANGED attempt

\* release: the record is read, and the file is removed if it is the own one.
ReadOwn(p) ==
  /\ Goes(p, "held", IF Record = p THEN "unlink" ELSE "off")
  /\ UNCHANGED <<lock, attempt>>

Unlink(p) ==
  /\ Goes(p, "unlink", "off")
  /\ lock' = NoLock
  /\ UNCHANGED attempt

Die(p) ==
  /\ pc[p] \notin {"off", "dead"}
  /\ pc' = [pc EXCEPT ![p] = "dead"]
  /\ UNCHANGED <<lock, attempt>>

Acquire(p) == Create(p) \/ Collide(p) \/ Judge(p) \/ Remove(p) \/ Write(p)
Release(p) == ReadOwn(p) \/ Unlink(p)

LockNext == \E p \in Procs : Start(p) \/ Acquire(p) \/ Release(p) \/ Die(p)

\* A process that runs goes on to its next call, and a stop that has begun ends;
\* whether to stop is the user's decision.  An agent that was refused or has stopped is
\* started again by the service manager (scripts/package-hop.mjs:442, KeepAlive).
LockFairness == \A p \in Procs : WF_lvars(Start(p)) /\ WF_lvars(Acquire(p)) /\ WF_lvars(Unlink(p))

LockSpec == LockInit /\ [][LockNext]_lvars /\ LockFairness

-------------------------------------------------------------------------------
(* Properties. *)

Holders == {p \in Procs : pc[p] \in {"held", "unlink"}}
Dead == {p \in Procs : pc[p] = "dead"}

\* One agent per workspace: two processes never watch the folder at the same time.
MutualExclusion == \A p, q \in Holders : p = q

\* It is so as long as no process has died: starts, refusals and releases that
\* overlap in any order never leave the folder with two agents, or an agent's lock
\* with another.
LiveExclusion ==
  Dead = {} => \A p \in Holders : lock = [by |-> p, written |-> TRUE] /\ Holders = {p}

\* The file left by a process that died between creating and writing it.
Wedged == lock # NoLock /\ ~lock.written /\ lock.by \in Dead

\* A dead holder does not keep the folder, nor do starts that refuse each other: while
\* processes are left to start there is an agent again and again, except behind a file
\* without a record.
FolderStaysUsable == []<>(Holders # {} \/ Wedged \/ Dead = Procs)

===============================================================================
