------------------------------- MODULE RemotePush -------------------------------
(***************************************************************************)
(* How a commit of another device reaches a watched workspace: the worker  *)
(* notifies the codebase's push hub after the commit, the hub keeps the    *)
(* last envelope and sends it to the agent's socket, and the agent takes   *)
(* it as a hint to read the head and refresh.  The agent polls the head    *)
(* when it connects again, and a pull scheduler does so periodically.      *)
(*                                                                         *)
(* A notification is best effort, the socket breaks, the agent dies; push  *)
(* and pull refresh the same workspace without knowing of each other.      *)
(*                                                                         *)
(* The workspace is the revision its index says is materialized: what a    *)
(* refresh does to the files is AgentSync's, when the scheduler runs is    *)
(* WatchScheduler's.  The NDJSON stream, a fallback transport, is left     *)
(* out.                                                                    *)
(***************************************************************************)
EXTENDS Naturals, Sequences

CONSTANTS
  MaxRevision,   \* bounds: on the commits,
  MaxRotations,  \* ... on the changes of the selected state,
  MaxDrops,      \* ... on the broken connections,
  MaxDeaths,     \* ... on the agent's deaths,
  MaxEdits       \* ... and on the local edits

ASSUME PushAssumption ==
  {MaxRevision, MaxRotations, MaxDrops, MaxDeaths, MaxEdits} \subseteq Nat

\* An event id is the revision whose commit sent it; 0 is none.
Envelope == [id : 0 .. MaxRevision, revision : 0 .. MaxRevision, selected : 0 .. MaxRotations]
NoEnvelope == [id |-> 0, revision |-> 0, selected |-> 0]

VARIABLES
  revision,  \* of the head of the cloud graph
  selected,  \* the id of its selected state
  due,       \* commits whose worker has yet to notify the hub
  flight,    \* envelopes on their way to the hub
  hub,       \* the hub's last envelope
  socket,    \* the hub and the agent are connected
  wire,      \* what the hub has sent and the agent has not received
  have,      \* lastMaterializedRevision of the workspace
  busy,      \* local edits are being synced, or keep a refresh from being safe
  client,    \* the push client
  work,      \* the refresh decision the client is in
  pull,      \* ... and the one the pull scheduler is in
  faults     \* counts drops, deaths and edits, for the bounds

cloud == <<revision, selected>>
hints == <<due, flight, hub>>
line == <<socket, wire>>
vars == <<cloud, hints, line, have, busy, client, work, pull, faults>>

Resting == [step |-> "none", to |-> 0, read |-> 0]
Refreshing(to) == [step |-> "refresh", to |-> to, read |-> 0]

\* The cursor (id, pushed, applied) is kept in the event log.
Started(id, pushed, applied) ==
  [pc |-> "closed", again |-> FALSE, seen |-> {}, selected |-> 0, queue |-> <<>>,
   id |-> id, pushed |-> pushed, applied |-> applied]

Init ==
  /\ revision = 0 /\ selected = 0
  /\ due = {} /\ flight = {} /\ hub = NoEnvelope
  /\ socket = FALSE /\ wire = <<>>
  /\ have = 0 /\ busy = FALSE
  /\ client = Started(0, 0, 0)
  /\ work = Resting /\ pull = Resting
  /\ faults = [drops |-> 0, deaths |-> 0, edits |-> 0]

-------------------------------------------------------------------------------
(* The cloud: a commit, its notification, and the hub. *)

Commit ==
  /\ revision < MaxRevision
  /\ revision' = revision + 1
  /\ \E s \in {selected, selected + 1} : s <= MaxRotations /\ selected' = s
  /\ due' = due \cup {revision'}
  /\ UNCHANGED <<flight, hub, line, have, busy, client, work, pull, faults>>

\* notifyPushHubAfterMutation reads the head that there is by now, or fails.
Notify(n) ==
  /\ n \in due /\ due' = due \ {n}
  /\ flight' = flight \cup {[id |-> n, revision |-> revision, selected |-> selected]}
  /\ UNCHANGED <<cloud, hub, line, have, busy, client, work, pull, faults>>

NotifyFails(n) ==
  /\ n \in due /\ due' = due \ {n}
  /\ UNCHANGED <<cloud, flight, hub, line, have, busy, client, work, pull, faults>>

\* CodebasePushHub.notify: whichever envelope comes last is the last one.
Publish(e) ==
  /\ e \in flight /\ flight' = flight \ {e}
  /\ hub' = e
  /\ wire' = IF socket THEN Append(wire, e) ELSE wire
  /\ UNCHANGED <<cloud, due, socket, have, busy, client, work, pull, faults>>

\* shouldSendCursorCatchup, for the cursor in the URL.
CatchesUp(e) ==
  /\ e # NoEnvelope
  /\ client.id # e.id
  /\ client.pushed = 0 \/ client.pushed < e.revision

-------------------------------------------------------------------------------
(* createRemotePushClient and its loop. *)

Goes(to) == client' = [client EXCEPT !.pc = to]

\* The client's messages have no listener until it listens.
Connect ==
  /\ client.pc = "closed" /\ ~socket
  /\ socket' = TRUE
  /\ wire' = IF CatchesUp(hub) THEN <<hub>> ELSE <<>>
  /\ client' = [client EXCEPT !.pc = "open", !.selected = selected]
  /\ UNCHANGED <<cloud, hints, have, busy, work, pull, faults>>

\* The first connection does not poll: the start has hydrated the workspace.
Opened ==
  /\ client.pc = "open"
  /\ IF client.again
     THEN Goes("polling") /\ work' = [Resting EXCEPT !.step = "decide"]
     ELSE Goes("listening") /\ UNCHANGED work
  /\ UNCHANGED <<cloud, hints, line, have, busy, pull, faults>>

Polled ==
  /\ client.pc = "polling" /\ work = Resting
  /\ Goes("listening")
  /\ UNCHANGED <<cloud, hints, line, have, busy, work, pull, faults>>

\* Mutant of Receive: a message that comes during a decision is dropped.
ReceiveWhenResting ==
  /\ socket /\ wire # <<>> /\ wire' = Tail(wire)
  /\ client' = IF client.pc = "listening" /\ work = Resting
               THEN [client EXCEPT !.queue = Append(@, Head(wire))] ELSE client
  /\ UNCHANGED <<cloud, hints, socket, have, busy, work, pull, faults>>

\* A message comes in: it is queued, or nobody listens.
Receive ==
  /\ socket /\ wire # <<>> /\ wire' = Tail(wire)
  /\ client' = IF client.pc = "listening"
               THEN [client EXCEPT !.queue = Append(@, Head(wire))] ELSE client
  /\ UNCHANGED <<cloud, hints, socket, have, busy, work, pull, faults>>

\* An envelope of another selected state than the one at the connection is dropped.
Foreign(e) == e.selected # client.selected
Old(e) == e.revision <= client.applied

\* handleRemotePushEnvelope, one message after the other.
Handle ==
  /\ client.pc \in {"listening", "closing"} /\ work = Resting /\ client.queue # <<>>
  /\ LET e == Head(client.queue)
         rest == [client EXCEPT !.queue = Tail(@)]
         marked == [rest EXCEPT !.seen = @ \cup {e.id}, !.id = e.id]
     IN  IF e.id \in client.seen \/ Foreign(e)
         THEN client' = rest /\ UNCHANGED work
         ELSE IF Old(e)
         THEN client' = marked /\ UNCHANGED work
         ELSE /\ client' = [marked EXCEPT !.pushed = IF @ < e.revision THEN e.revision ELSE @]
              /\ work' = [Resting EXCEPT !.step = "decide"]
  /\ UNCHANGED <<cloud, hints, line, have, busy, pull, faults>>

\* The connection breaks; the close event is heard by a listening client only.
Drop ==
  /\ socket /\ faults.drops < MaxDrops
  /\ faults' = [faults EXCEPT !.drops = @ + 1]
  /\ socket' = FALSE /\ wire' = <<>>
  /\ IF client.pc = "listening" THEN Goes("closing") ELSE UNCHANGED client
  /\ UNCHANGED <<cloud, hints, have, busy, work, pull>>

\* The queue drains, the connection is given up and the next one polls.
Closed ==
  /\ client.pc = "closing" /\ client.queue = <<>> /\ work = Resting
  /\ client' = [client EXCEPT !.pc = "closed", !.again = TRUE]
  /\ UNCHANGED <<cloud, hints, line, have, busy, work, pull, faults>>

-------------------------------------------------------------------------------
(* runRemotePushDecision; the pull scheduler takes the same decision and refreshes by the *)
(* same function, without a lock between them.                                            *)

\* Mutant of Behind: the client's cursor is asked, not the workspace.
BehindCursor == revision > client.applied

\* remoteRefreshDecision: the index is compared with the head.
Behind == have # revision

Refreshes == ~busy /\ Behind

\* Mutant of Decide: the revision counts as applied before the refresh.
DecideApplied ==
  /\ work.step = "decide"
  /\ IF Refreshes
     THEN /\ work' = Refreshing(revision)
          /\ client' = [client EXCEPT !.applied = revision]
     ELSE work' = Resting /\ UNCHANGED client
  /\ UNCHANGED <<cloud, hints, line, have, busy, pull, faults>>

Decide ==
  /\ work.step = "decide"
  /\ work' = IF Refreshes THEN Refreshing(revision) ELSE Resting
  /\ UNCHANGED <<cloud, hints, line, have, busy, client, pull, faults>>

RefreshReads ==
  /\ work.step = "refresh" /\ ~busy
  /\ work' = [work EXCEPT !.step = "write", !.read = revision]
  /\ UNCHANGED <<cloud, hints, line, have, busy, client, pull, faults>>

\* The index is written and the decision's revision counts as applied.
RefreshWrites ==
  /\ work.step = "write"
  /\ have' = work.read
  /\ client' = [client EXCEPT !.applied = IF @ < work.to THEN work.to ELSE @]
  /\ work' = Resting
  /\ UNCHANGED <<cloud, hints, line, busy, pull, faults>>

\* A request fails or the refresh is blocked: the envelope stays seen.
DecisionFails ==
  /\ work # Resting /\ work' = Resting
  /\ UNCHANGED <<cloud, hints, line, have, busy, client, pull, faults>>

\* A pull that fails before it writes is one that did not begin.
PullDecides ==
  /\ pull = Resting /\ Refreshes
  /\ pull' = [Resting EXCEPT !.step = "write", !.read = revision]
  /\ UNCHANGED <<cloud, hints, line, have, busy, client, work, faults>>

PullWrites ==
  /\ pull.step = "write"
  /\ have' = pull.read /\ pull' = Resting
  /\ UNCHANGED <<cloud, hints, line, busy, client, work, faults>>

-------------------------------------------------------------------------------

Edit ==
  /\ ~busy /\ faults.edits < MaxEdits
  /\ busy' = TRUE /\ faults' = [faults EXCEPT !.edits = @ + 1]
  /\ UNCHANGED <<cloud, hints, line, have, client, work, pull>>

Settle ==
  /\ busy /\ busy' = FALSE
  /\ UNCHANGED <<cloud, hints, line, have, client, work, pull, faults>>

\* readInitialPushState after a restart that hydrated the workspace: the last event need
\* not carry an event id, nor the revision.
Restart ==
  /\ faults.deaths < MaxDeaths /\ faults' = [faults EXCEPT !.deaths = @ + 1]
  /\ socket' = FALSE /\ wire' = <<>>
  /\ \E id \in {client.id, 0}, pushed \in {client.pushed, 0} :
       client' = Started(id, pushed, client.applied)
  /\ have' = revision /\ busy' = FALSE
  /\ work' = Resting /\ pull' = Resting
  /\ UNCHANGED <<cloud, hints>>

Working ==
  \/ Opened \/ Polled \/ Receive \/ Handle \/ Closed
  \/ Decide \/ RefreshReads \/ RefreshWrites

Pulls == PullDecides \/ PullWrites

Next ==
  \/ Commit \/ \E n \in due : Notify(n) \/ NotifyFails(n)
  \/ \E e \in flight : Publish(e)
  \/ Connect \/ Working \/ Drop \/ DecisionFails \/ Pulls
  \/ Edit \/ Settle \/ Restart

\* The client reconnects after its backoff and works off its messages, a sync ends, and
\* the head is reconciled periodically.
Fairness ==
  /\ WF_vars(Connect) /\ WF_vars(Working) /\ WF_vars(Settle)
  /\ WF_vars(PullDecides) /\ WF_vars(PullWrites)

Spec == Init /\ [][Next]_vars /\ Fairness

===============================================================================
