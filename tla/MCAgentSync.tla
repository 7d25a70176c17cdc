------------------------------ MODULE MCAgentSync ------------------------------
(***************************************************************************)
(* TLC instance of AgentSync, with history variables: the paths the user   *)
(* edited after the scan a running materialization relies on, the paths    *)
(* that had an open journal entry when the agent was started, how many     *)
(* edits were made, here and on other devices, and how many failures.      *)
(***************************************************************************)
EXTENDS AgentSync

CONSTANTS
  MaxEdits,  \* bound: edits by the user in the folder and by other devices
  MaxEvents  \* bound: edits, deaths of the agent, failed syncs and stopped refreshes

VARIABLES touched, behind, edits, failures

mcsvars == <<svars, touched, behind, edits, failures>>

MCSyncInit == SyncInit /\ touched = {} /\ behind = {} /\ edits = 0 /\ failures = 0

EditStep == \E p \in Paths, content \in Contents \cup {NoFile} : Edit(p, content)
OtherDeviceStep ==
  \E p \in Paths, content \in Contents \cup {NoFile} : OtherDevice(p, content)
FailureStep == AgentDies \/ SyncFails \/ RefreshStops
ScanStep == Start \/ RefreshCheck
OtherStep ==
  \/ \E p \in Paths : ResolveKeepCloud(p) \/ ResolveKeepLocal(p) \/ WriteDisk(p)
  \/ Notice \/ SyncRead \/ SyncReadCached
  \/ SyncPlan \/ SyncCommit \/ SyncAcknowledge \/ SyncSettle
  \/ Recover \/ RecoverAcknowledge \/ HydrateRead \/ HydrateFinish
  \/ RefreshRead \/ RefreshScan \/ RefreshFinish

MCSyncStep ==
  \/ /\ edits < MaxEdits /\ edits + failures < MaxEvents
     /\ edits' = edits + 1 /\ UNCHANGED failures
     /\ \/ EditStep /\ touched' = touched \cup {p \in Paths : disk'[p] # disk[p]}
        \/ OtherDeviceStep /\ UNCHANGED touched
  \/ /\ FailureStep /\ edits + failures < MaxEvents
     /\ failures' = failures + 1 /\ UNCHANGED <<touched, edits>>
  \/ ScanStep /\ touched' = {} /\ UNCHANGED <<edits, failures>>
  \/ OtherStep /\ UNCHANGED <<touched, edits, failures>>

MCSyncNext ==
  /\ MCSyncStep
  /\ behind' = IF mode' \notin {"recovering", "hydrating"} THEN {}
               ELSE IF mode = "down" THEN {journal[i].path : i \in Open}
               ELSE behind

MCSyncSpec == MCSyncInit /\ [][MCSyncNext]_mcsvars

Symmetry == Permutations(Paths) \cup Permutations(Contents)

\* The agent writes a file it materializes over what the folder has.
Overwrites(p) ==
  /\ p \in refresh.todo /\ refresh'.step = "writing" /\ p \notin refresh'.todo
  /\ disk'[p] # disk[p]

\* The content a materialization overwrites is in the history, unless the user edited
\* the path after the scan that withheld the edits.
Overwritable(p) == p \in touched \/ disk[p] = NoFile \/ Recorded(p, disk[p])

\* A refresh never writes over a local edit it could have seen, although syncs,
\* crashes and commits of other devices run between its scans and its writes.
RefreshKeepsLocalEdits ==
  [][mode = "watching" => \A p \in Paths : Overwrites(p) => Overwritable(p)]_mcsvars

\* Starting the agent loses no edit made while it was down, whatever the crash before
\* it left in the journal, unless an earlier edit of the same path was still open.
DroppedOnlyBehindOpenEntry ==
  [][mode = "hydrating" =>
       \A p \in Paths : Overwrites(p) => p \in behind \/ Overwritable(p)]_mcsvars

===============================================================================
