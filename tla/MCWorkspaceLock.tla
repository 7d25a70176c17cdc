---------------------------- MODULE MCWorkspaceLock ----------------------------
(***************************************************************************)
(* TLC instance of WorkspaceLock, with a history variable that tells       *)
(* whether a process ever removed a file that was no longer the stale one  *)
(* it had judged.                                                          *)
(***************************************************************************)
EXTENDS WorkspaceLock

VARIABLES
  judged,   \* the stale owner a process is about to evict
  raced     \* a process removed a file that had changed since it was judged

mclvars == <<lvars, judged, raced>>

MCLockInit == LockInit /\ judged = [p \in Procs |-> NoLock] /\ raced = FALSE

MCLockNext ==
  /\ LockNext
  /\ judged' = [p \in Procs |->
       IF pc[p] = "read" /\ pc'[p] = "remove" THEN Record
       ELSE IF pc'[p] = "remove" THEN judged[p] ELSE NoLock]
  /\ raced' = (raced \/ \E p \in Procs :
       /\ pc[p] = "remove" /\ pc'[p] \in {"open", "off"}
       /\ lock # NoLock /\ lock # [by |-> judged[p], written |-> TRUE])

MCLockSpec == MCLockInit /\ [][MCLockNext]_mclvars /\ LockFairness

\* Taking over from a dead holder keeps one agent per workspace, with any number of
\* deaths, as long as no two takeovers race.
TakeoverExcludes == ~raced => MutualExclusion

===============================================================================
