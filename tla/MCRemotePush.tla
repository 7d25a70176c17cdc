------------------------------ MODULE MCRemotePush ------------------------------
(***************************************************************************)
(* TLC instance of RemotePush with history variables.                      *)
(***************************************************************************)
EXTENDS RemotePush

VARIABLES
  missed,   \* a hint has been lost or not acted on, and no decision has read the head since
  crossed   \* a refresh that read an older graph has written after a newer one

mcvars == <<vars, missed, crossed>>

MCInit == Init /\ missed = FALSE /\ crossed = FALSE

\* A hint that nobody will act on: its notification fails, no socket is open and the next
\* connection does not poll, nobody listens, it is of another selected state, or its
\* decision skips or fails.
Misses ==
  \/ \E n \in due : NotifyFails(n)
  \/ \E e \in flight : Publish(e) /\ ~socket /\ ~client.again
  \/ Receive /\ client.pc # "listening"
  \/ Handle /\ Foreign(Head(client.queue))
  \/ work.step = "decide" /\ work'.step = "none" /\ busy
  \/ DecisionFails

\* A decision reads the head: what was missed before no longer matters, unless the
\* refresh fails.
Catches ==
  ~busy /\ (PullDecides \/ (work.step = "decide" /\ work'.step = IF Behind THEN "refresh" ELSE "none"))

MCNext ==
  /\ Next
  /\ crossed' = (crossed \/ have' < have)
  /\ missed' = (~Restart /\ ~Catches /\ (missed \/ Misses))

MCSpec == MCInit /\ [][MCNext]_mcvars /\ Fairness

Quiet ==
  /\ due = {} /\ flight = {} /\ wire = <<>> /\ client.queue = <<>>
  /\ work = Resting /\ pull = Resting

\* A connected client that listens, with nothing under way, is at the head: duplicated
\* and reordered envelopes, notifications that read a later head than their commit's,
\* broken connections and restarts cost no update.  The losses that the periodic
\* reconciliation is there for are excepted.
UpToDateAtRest ==
  (socket /\ client.pc = "listening" /\ Quiet) => missed \/ crossed \/ have = revision

\* The revision up to which envelopes are dropped as applied is one that the workspace
\* has had, unless two refreshes cross.
AppliedIsHeld == crossed \/ client.applied <= have

\* Whatever is lost, and also when a push and a pull cross, the workspace gets to the
\* head in the end.
HeadIsReached == <>[](have = revision)

===============================================================================
