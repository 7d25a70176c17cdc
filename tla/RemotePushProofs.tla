---------------------------- MODULE RemotePushProofs ----------------------------
(***************************************************************************)
(* What the push client counts as applied is held by the workspace, and a  *)
(* client at rest has brought the workspace to the head, for every number  *)
(* of commits, rotations, faults and edits.                                *)
(*                                                                         *)
(* A decision's revision is read before the graph that its refresh writes, *)
(* so that the refresh leaves the workspace at that revision or later; a   *)
(* refresh that read an older graph may take it back, which is the case    *)
(* that the history variable crossed tells.                                *)
(*                                                                         *)
(* Of the head there is always a hint on its way to the workspace, which   *)
(* is not dropped as seen before it has done its work: each commit makes   *)
(* one envelope, and only its copies share its id.                         *)
(***************************************************************************)
EXTENDS MCRemotePush, SequenceTheorems, TLAPS

Decision == [step : {"none", "decide", "refresh", "write"}, to : Nat, read : Nat]

PushTypes ==
  /\ revision \in Nat /\ have \in Nat
  /\ "applied" \in DOMAIN client /\ client.applied \in Nat
  /\ work \in Decision /\ pull \in Decision
  /\ crossed \in BOOLEAN

\* Nothing is known that the cloud has not committed.
KnownIsCommitted == have <= revision /\ work.to <= revision /\ work.read <= revision /\ pull.read <= revision

\* A refresh reads the graph after its decision.
ReadAfterDecided == work.step = "write" => work.to <= work.read

PushInv == PushTypes /\ KnownIsCommitted /\ ReadAfterDecided /\ AppliedIsHeld

LEMMA RestingTypes ==
  /\ Resting \in Decision /\ Resting.to = 0 /\ Resting.read = 0 /\ Resting.step = "none"
  /\ [Resting EXCEPT !.step = "decide"] = [step |-> "decide", to |-> 0, read |-> 0]
BY DEF Resting, Decision

LEMMA InitEstablishes == MCInit => PushInv
<1> SUFFICES ASSUME MCInit PROVE PushInv
  OBVIOUS
<1>1. /\ revision = 0 /\ have = 0 /\ work = Resting /\ pull = Resting /\ crossed = FALSE
      /\ "applied" \in DOMAIN client /\ client.applied = 0
  BY DEF MCInit, Init, Started
<1>2. crossed \in BOOLEAN
  BY <1>1
<1>3. PushTypes
  BY <1>1, <1>2, RestingTypes DEF PushTypes
<1>4. ReadAfterDecided
  BY <1>1, RestingTypes DEF ReadAfterDecided
<1>5. KnownIsCommitted /\ client.applied <= have
  BY <1>1, RestingTypes DEF KnownIsCommitted
<1> QED
  BY <1>3, <1>4, <1>5 DEF PushInv, AppliedIsHeld

-------------------------------------------------------------------------------

\* The steps at which the cursor and the workspace stay as they are and a decision goes at
\* most to its next step.
LEMMA CalmKeeps ==
  ASSUME PushInv, UNCHANGED have, crossed' = (crossed \/ have' < have),
         revision' \in {revision, revision + 1},
         "applied" \in DOMAIN client', client'.applied = client.applied,
         \/ UNCHANGED work
         \/ work' \in Decision /\ work'.to <= revision /\ work'.read <= revision
            /\ (work'.step = "write" => work'.to <= work'.read),
         UNCHANGED pull \/ (pull' \in Decision /\ pull'.read <= revision)
  PROVE  PushInv'
<1>1. /\ revision \in Nat /\ have \in Nat /\ client.applied \in Nat
      /\ work.to \in Nat /\ work.read \in Nat /\ pull.read \in Nat
      /\ work'.to \in Nat /\ work'.read \in Nat /\ pull'.read \in Nat
  BY DEF PushInv, PushTypes, Decision
<1>2. PushTypes'
  BY <1>1 DEF PushInv, PushTypes
<1>3. KnownIsCommitted' /\ ReadAfterDecided'
  BY <1>1 DEF PushInv, KnownIsCommitted, ReadAfterDecided
<1>4. AppliedIsHeld'
  BY <1>1 DEF PushInv, AppliedIsHeld
<1> QED
  BY <1>2, <1>3, <1>4 DEF PushInv

\* The steps of the cloud, of the connection and of the folder's edits.
Outside ==
  \/ Commit \/ (\E n \in due : Notify(n) \/ NotifyFails(n)) \/ (\E e \in flight : Publish(e))
  \/ Edit \/ Settle \/ Drop \/ Connect \/ Polled \/ Receive \/ Closed

LEMMA OutsideKeeps ==
  ASSUME PushInv, Outside, crossed' = (crossed \/ have' < have) PROVE PushInv'
<1>1. UNCHANGED <<have, work, pull>>
  BY DEF Outside, Commit, Notify, NotifyFails, Publish, Edit, Settle, Drop, Connect, Polled, Receive, Closed
<1>2. revision' \in {revision, revision + 1}
  BY DEF Outside, Commit, Notify, NotifyFails, Publish, Edit, Settle, Drop, Connect, Polled, Receive,
         Closed, cloud
<1>3. "applied" \in DOMAIN client' /\ client'.applied = client.applied
  <2>1. UNCHANGED client \/ Drop \/ Connect \/ Polled \/ Receive \/ Closed
    BY DEF Outside, Commit, Notify, NotifyFails, Publish, Edit, Settle
  <2> QED
    BY <2>1 DEF Drop, Connect, Polled, Receive, Closed, Goes, PushInv, PushTypes
<1> QED
  BY <1>1, <1>2, <1>3, CalmKeeps

\* The steps of a decision up to its write, and the pull's read.
Deciding == Opened \/ Handle \/ Decide \/ RefreshReads \/ DecisionFails \/ PullDecides

LEMMA DecidingKeeps ==
  ASSUME PushInv, Deciding, crossed' = (crossed \/ have' < have) PROVE PushInv'
<1>1. UNCHANGED have /\ revision' = revision
  BY DEF Deciding, Opened, Handle, Decide, RefreshReads, DecisionFails, PullDecides, cloud
<1>2. "applied" \in DOMAIN client' /\ client'.applied = client.applied
  <2>1. UNCHANGED client \/ Opened \/ Handle
    BY DEF Deciding, Decide, RefreshReads, DecisionFails, PullDecides
  <2> QED
    BY <2>1 DEF Opened, Handle, Goes, PushInv, PushTypes
<1>3. revision \in Nat /\ work \in Decision /\ pull \in Decision
  BY DEF PushInv, PushTypes
<1>4. \/ UNCHANGED work
      \/ work' \in Decision /\ work'.to <= revision /\ work'.read <= revision
         /\ (work'.step = "write" => work'.to <= work'.read)
  <2>1. CASE Opened \/ Handle
    BY <1>3, <2>1, RestingTypes DEF Opened, Handle, Decision
  <2>2. CASE Decide
    BY <1>3, <2>2, RestingTypes DEF Decide, Refreshing, Decision
  <2>3. CASE RefreshReads
    <3>1. work' = [step |-> "write", to |-> work.to, read |-> revision]
      BY <1>3, <2>3 DEF RefreshReads, Decision
    <3> QED
      BY <1>3, <3>1 DEF Decision, PushInv, KnownIsCommitted
  <2>4. CASE DecisionFails
    BY <1>3, <2>4, RestingTypes DEF DecisionFails
  <2>5. CASE PullDecides
    BY <2>5 DEF PullDecides
  <2> QED
    BY <2>1, <2>2, <2>3, <2>4, <2>5 DEF Deciding
<1>5. UNCHANGED pull \/ (pull' \in Decision /\ pull'.read <= revision)
  <2>1. CASE PullDecides
    <3>1. pull' = [step |-> "write", to |-> 0, read |-> revision]
      BY <2>1 DEF PullDecides, Resting
    <3> QED
      BY <1>3, <3>1 DEF Decision
  <2> QED
    BY <2>1 DEF Deciding, Opened, Handle, Decide, RefreshReads, DecisionFails
<1> QED
  BY <1>1, <1>2, <1>4, <1>5, CalmKeeps

\* The steps that write the workspace.
LEMMA WritingKeeps ==
  ASSUME PushInv, RefreshWrites \/ PullWrites \/ Restart, crossed' = (crossed \/ have' < have)
  PROVE  PushInv'
<1>1. /\ revision \in Nat /\ have \in Nat /\ client.applied \in Nat /\ "applied" \in DOMAIN client
      /\ work.to \in Nat /\ work.read \in Nat /\ pull.read \in Nat /\ crossed \in BOOLEAN
      /\ work \in Decision /\ pull \in Decision
  BY DEF PushInv, PushTypes, Decision
<1>2. CASE RefreshWrites
  <2>1. /\ have' = work.read /\ work.to <= work.read /\ UNCHANGED <<revision, pull>>
        /\ work' = Resting
        /\ client'.applied = IF client.applied < work.to THEN work.to ELSE client.applied
        /\ "applied" \in DOMAIN client'
    BY <1>1, <1>2 DEF RefreshWrites, PushInv, ReadAfterDecided, cloud
  <2>2. AppliedIsHeld'
    <3>1. CASE have' < have
      BY <3>1 DEF AppliedIsHeld
    <3>2. CASE ~(have' < have) /\ client.applied <= have
      <4>1. client'.applied <= have'
        BY <1>1, <2>1, <3>2
      <4> QED
        BY <4>1 DEF AppliedIsHeld
    <3> QED
      BY <3>1, <3>2 DEF PushInv, AppliedIsHeld
  <2>3. PushTypes' /\ KnownIsCommitted' /\ ReadAfterDecided'
    BY <1>1, <2>1, RestingTypes DEF PushInv, PushTypes, KnownIsCommitted, ReadAfterDecided
  <2> QED
    BY <2>2, <2>3 DEF PushInv
<1>3. CASE PullWrites
  <2>1. have' = pull.read /\ pull' = Resting /\ UNCHANGED <<revision, work, client>>
    BY <1>3 DEF PullWrites, cloud
  <2>2. AppliedIsHeld'
    <3>1. CASE have' < have
      BY <3>1 DEF AppliedIsHeld
    <3>2. CASE ~(have' < have) /\ client.applied <= have
      <4>1. client'.applied <= have'
        BY <1>1, <2>1, <3>2
      <4> QED
        BY <4>1 DEF AppliedIsHeld
    <3> QED
      BY <3>1, <3>2 DEF PushInv, AppliedIsHeld
  <2>3. PushTypes' /\ KnownIsCommitted' /\ ReadAfterDecided'
    BY <1>1, <2>1, RestingTypes DEF PushInv, PushTypes, KnownIsCommitted, ReadAfterDecided
  <2> QED
    BY <2>2, <2>3 DEF PushInv
<1>4. CASE Restart
  <2>1. /\ have' = revision /\ work' = Resting /\ pull' = Resting /\ revision' = revision
        /\ "applied" \in DOMAIN client' /\ client'.applied = client.applied
    BY <1>4 DEF Restart, Started, cloud
  <2>2. AppliedIsHeld'
    BY <1>1, <2>1 DEF PushInv, AppliedIsHeld, KnownIsCommitted
  <2>3. PushTypes' /\ KnownIsCommitted' /\ ReadAfterDecided'
    BY <1>1, <2>1, RestingTypes DEF PushInv, PushTypes, KnownIsCommitted, ReadAfterDecided
  <2> QED
    BY <2>2, <2>3 DEF PushInv
<1> QED
  BY <1>2, <1>3, <1>4

LEMMA StepKeeps == PushInv /\ [MCNext]_mcvars => PushInv'
<1> SUFFICES ASSUME PushInv, [MCNext]_mcvars PROVE PushInv'
  OBVIOUS
<1>1. CASE UNCHANGED mcvars
  BY <1>1 DEF mcvars, vars, cloud, PushInv, PushTypes, KnownIsCommitted, ReadAfterDecided, AppliedIsHeld
<1>2. CASE MCNext
  <2>1. Next /\ crossed' = (crossed \/ have' < have)
    BY <1>2 DEF MCNext
  <2>2. Outside \/ Deciding \/ RefreshWrites \/ PullWrites \/ Restart
    BY <2>1 DEF Next, Working, Pulls, Outside, Deciding
  <2> QED
    BY <2>1, <2>2, OutsideKeeps, DecidingKeeps, WritingKeeps
<1> QED
  BY <1>1, <1>2

\* The cursor by which the client drops envelopes as applied names no revision that the
\* workspace has yet to reach, unless two refreshes crossed.
THEOREM AppliedIsAlwaysHeld == MCSpec => []AppliedIsHeld
<1>1. PushInv => AppliedIsHeld
  BY DEF PushInv
<1> QED
  BY <1>1, InitEstablishes, StepKeeps, PTL DEF MCSpec


-------------------------------------------------------------------------------
(* A client at rest is at the head. *)

Hint == [id : Nat, revision : Nat, selected : Nat]

PushClient ==
  [pc : {"closed", "open", "polling", "listening", "closing"}, again : BOOLEAN,
   seen : SUBSET Nat, selected : Nat, queue : Seq(Hint), id : Nat, pushed : Nat, applied : Nat]

HintTypes ==
  /\ selected \in Nat /\ due \subseteq Nat /\ flight \subseteq Hint /\ hub \in Hint
  /\ socket \in BOOLEAN /\ wire \in Seq(Hint) /\ client \in PushClient

Elements(s) == {s[i] : i \in 1 .. Len(s)}

\* The envelopes that will be handled, and all that there are.
Coming == flight \cup Elements(wire) \cup Elements(client.queue)
Nearby == Coming \cup {hub}

\* A commit sends one envelope, and no client has seen it before.
OneHintEach ==
  /\ \A e \in Nearby : e.revision <= revision /\ e.id <= revision /\ e.id \notin due
  /\ \A e, f \in Nearby : e.id = f.id => e = f
  /\ \A n \in due \cup client.seen : n <= revision
  /\ client.seen \cap due = {}

LineOK ==
  /\ socket => client.pc \in {"open", "polling", "listening"}
  /\ ~socket => wire = <<>>

\* The head is in the workspace, or a refresh has read it or is about to.
Reaching ==
  \/ have = revision
  \/ work.step \in {"decide", "refresh"}
  \/ work.step = "write" /\ work.read = revision
  \/ pull.step = "write" /\ pull.read = revision

\* What will make the client look at the head: a hint of it is due or on its way, or the
\* client has lost its connection (one that was lost before it listened stays so).
Hinted ==
  \/ revision \in due
  \/ \E e \in Coming : e.revision = revision
  \/ ~socket /\ (client.again \/ client.pc # "closed")
  \/ client.pc = "open" /\ client.again

\* A hint of the head that would be dropped as seen has done its work.
SeenReaches == \A e \in Nearby : e.id \in client.seen /\ e.revision = revision => Reaching

RestInv ==
  /\ HintTypes /\ OneHintEach /\ LineOK
  /\ missed \/ crossed \/ Reaching \/ (Hinted /\ SeenReaches)

LEMMA ElementsEmpty == Elements(<<>>) = {}
BY DEF Elements

LEMMA ElementsOne == \A e \in Hint : Elements(<<e>>) = {e} /\ <<e>> \in Seq(Hint)
BY DEF Elements

LEMMA ElementsAppend ==
  ASSUME NEW s \in Seq(Hint), NEW e \in Hint
  PROVE  Append(s, e) \in Seq(Hint) /\ Elements(Append(s, e)) = Elements(s) \cup {e}
<1>1. /\ Append(s, e) \in Seq(Hint) /\ Len(Append(s, e)) = Len(s) + 1 /\ Len(s) \in Nat
      /\ \A i \in 1 .. Len(s) : Append(s, e)[i] = s[i]
      /\ Append(s, e)[Len(s) + 1] = e
  OBVIOUS
<1>2. 1 .. Len(s) + 1 = (1 .. Len(s)) \cup {Len(s) + 1}
  BY <1>1
<1> QED
  BY <1>1, <1>2 DEF Elements

LEMMA ElementsTail ==
  ASSUME NEW s \in Seq(Hint), s # <<>>
  PROVE  /\ Head(s) \in Hint /\ Tail(s) \in Seq(Hint)
         /\ Elements(s) = {Head(s)} \cup Elements(Tail(s))
<1>1. /\ Head(s) \in Hint /\ Tail(s) \in Seq(Hint) /\ Len(Tail(s)) = Len(s) - 1
      /\ \A i \in 1 .. Len(Tail(s)) : Tail(s)[i] = s[i + 1]
      /\ Len(s) \in Nat \ {0} /\ Head(s) = s[1]
  BY HeadTailProperties, EmptySeq
<1>2. \A i \in 1 .. Len(s) : i = 1 \/ (i - 1 \in 1 .. Len(Tail(s)) /\ s[i] = Tail(s)[i - 1])
  BY <1>1
<1>3. \A i \in 1 .. Len(Tail(s)) : i + 1 \in 1 .. Len(s)
  BY <1>1
<1>4. 1 \in 1 .. Len(s)
  BY <1>1
<1>5. ASSUME NEW e \in Elements(s) PROVE e \in {Head(s)} \cup Elements(Tail(s))
  <2>1. PICK i \in 1 .. Len(s) : e = s[i]
    BY DEF Elements
  <2> QED
    BY <1>1, <1>2, <2>1 DEF Elements
<1>6. ASSUME NEW e \in Elements(Tail(s)) PROVE e \in Elements(s)
  <2>1. PICK i \in 1 .. Len(Tail(s)) : e = Tail(s)[i]
    BY DEF Elements
  <2> QED
    BY <1>1, <1>3, <2>1 DEF Elements
<1>7. Head(s) \in Elements(s)
  BY <1>1, <1>4 DEF Elements
<1> QED
  BY <1>1, <1>5, <1>6, <1>7

LEMMA RestInit == MCInit => RestInv
<1> SUFFICES ASSUME MCInit PROVE RestInv
  OBVIOUS
<1>1. /\ revision = 0 /\ selected = 0 /\ due = {} /\ flight = {} /\ socket = FALSE /\ wire = <<>>
      /\ hub = [id |-> 0, revision |-> 0, selected |-> 0] /\ have = 0
      /\ client = [pc |-> "closed", again |-> FALSE, seen |-> {}, selected |-> 0, queue |-> <<>>,
                   id |-> 0, pushed |-> 0, applied |-> 0]
  BY DEF MCInit, Init, Started, NoEnvelope
<1>2. HintTypes
  <2>1. hub \in Hint /\ <<>> \in Seq(Hint) /\ {} \in SUBSET Nat
    BY <1>1 DEF Hint
  <2>2. client \in PushClient
    BY <1>1, <2>1 DEF PushClient
  <2> QED
    BY <1>1, <2>1, <2>2 DEF HintTypes
<1>3. Nearby = {hub}
  BY <1>1, ElementsEmpty DEF Nearby, Coming
<1>4. OneHintEach
  BY <1>1, <1>3 DEF OneHintEach
<1>5. LineOK /\ Reaching
  BY <1>1 DEF LineOK, Reaching
<1> QED
  BY <1>2, <1>4, <1>5 DEF RestInv

-------------------------------------------------------------------------------
(* The envelopes. *)

FewerHints ==
  /\ revision' = revision /\ due' \subseteq due /\ Nearby' \subseteq Nearby
  /\ client'.seen \subseteq client.seen \cup {e.id : e \in Nearby}

LEMMA FewerKeep == OneHintEach /\ FewerHints => OneHintEach'
BY DEF OneHintEach, FewerHints

\* The steps of the refreshes and of the folder's edits leave the client's line alone.
Unheard ==
  /\ UNCHANGED <<revision, selected, due, flight, hub, socket, wire>>
  /\ client' \in PushClient /\ client'.pc = client.pc /\ client'.again = client.again
  /\ client'.seen = client.seen /\ client'.queue = client.queue

RefreshStep ==
  \/ Decide \/ RefreshReads \/ RefreshWrites \/ DecisionFails \/ PullDecides \/ PullWrites
  \/ Edit \/ Settle

LEMMA RefreshUnheard == ASSUME PushInv, RestInv, RefreshStep PROVE Unheard
<1>1. /\ client \in PushClient /\ work.to \in Nat
  BY DEF PushInv, PushTypes, Decision, RestInv, HintTypes
<1>2. UNCHANGED <<revision, selected, due, flight, hub, socket, wire>>
  BY DEF RefreshStep, Decide, RefreshReads, RefreshWrites, DecisionFails, PullDecides, PullWrites, Edit,
         Settle, cloud, hints, line
<1>3. UNCHANGED client \/ RefreshWrites
  BY DEF RefreshStep, Decide, RefreshReads, DecisionFails, PullDecides, PullWrites, Edit, Settle
<1>4. CASE UNCHANGED client
  BY <1>1, <1>2, <1>4 DEF Unheard
<1>5. CASE RefreshWrites
  <2>1. client' = [client EXCEPT !.applied = IF @ < work.to THEN work.to ELSE @]
    BY <1>5 DEF RefreshWrites
  <2> QED
    BY <1>1, <1>2, <2>1 DEF Unheard, PushClient
<1> QED
  BY <1>3, <1>4, <1>5

\* What a step that is not a commit does to the hints, with the case that ends here.
Calm == revision' = revision /\ ~missed /\ ~crossed /\ ~Reaching /\ Hinted /\ SeenReaches

\* Without a step of the line nothing that was hinted is forgotten.
LEMMA UnheardKeeps ==
  ASSUME RestInv, Unheard
  PROVE  /\ HintTypes' /\ OneHintEach' /\ LineOK'
         /\ Calm => Reaching' \/ (Hinted' /\ SeenReaches')
<1>1. HintTypes' /\ LineOK'
  BY DEF RestInv, Unheard, HintTypes, LineOK
<1>2. Coming' = Coming /\ Nearby' = Nearby
  BY DEF Unheard, Coming, Nearby
<1>3. OneHintEach'
  BY <1>2, FewerKeep DEF RestInv, FewerHints, Unheard
<1>4. Calm => Hinted' /\ SeenReaches'
  BY <1>2 DEF Calm, Unheard, Hinted, SeenReaches
<1> QED
  BY <1>1, <1>3, <1>4

\* What a step of the line has to show.
Rests ==
  /\ HintTypes' /\ OneHintEach' /\ LineOK'
  /\ Calm /\ ~Misses => Reaching' \/ (Hinted' /\ SeenReaches')

LEMMA CommitRests ==
  ASSUME PushInv, RestInv, Commit
  PROVE  HintTypes' /\ OneHintEach' /\ LineOK' /\ Hinted' /\ SeenReaches'
<1>1. /\ revision \in Nat /\ revision' = revision + 1 /\ due' = due \cup {revision'}
      /\ UNCHANGED <<flight, hub, socket, wire, client>> /\ selected' \in {selected, selected + 1}
  BY DEF Commit, PushInv, PushTypes, line
<1>2. HintTypes' /\ LineOK'
  BY <1>1 DEF RestInv, HintTypes, LineOK
<1>3. Nearby' = Nearby
  BY <1>1 DEF Nearby, Coming
<1>4. \A e \in Nearby : e.id \in Nat /\ e.revision \in Nat
  <2>1. \A e \in Elements(wire) \cup Elements(client.queue) : e \in Hint
    BY DEF RestInv, HintTypes, Elements, PushClient
  <2>2. Nearby \subseteq Hint
    BY <2>1 DEF RestInv, HintTypes, Nearby, Coming
  <2> QED
    BY <2>2 DEF Hint
<1>5. due \cup client.seen \subseteq Nat
  BY DEF RestInv, HintTypes, PushClient
<1>6. OneHintEach'
  BY <1>1, <1>3, <1>4, <1>5 DEF RestInv, OneHintEach
<1>7. Hinted'
  BY <1>1 DEF Hinted
<1>8. SeenReaches'
  BY <1>1, <1>3, <1>4 DEF SeenReaches, RestInv, OneHintEach
<1> QED
  BY <1>2, <1>6, <1>7, <1>8

LEMMA NotifyRests == ASSUME PushInv, RestInv, NEW n \in due, Notify(n) PROVE Rests
<1> DEFINE e == [id |-> n, revision |-> revision, selected |-> selected]
<1>1. /\ due' = due \ {n} /\ flight' = flight \cup {e}
      /\ UNCHANGED <<revision, selected, hub, socket, wire, client, have, work, pull>>
  BY DEF Notify, cloud, line
<1>2. e \in Hint
  BY DEF Hint, PushInv, PushTypes, RestInv, HintTypes
<1>3. HintTypes' /\ LineOK'
  BY <1>1, <1>2 DEF RestInv, HintTypes, LineOK
<1>4. Nearby' = Nearby \cup {e} /\ Coming' = Coming \cup {e}
  BY <1>1 DEF Nearby, Coming
<1>5. OneHintEach'
  BY <1>1, <1>4 DEF RestInv, OneHintEach, PushInv, PushTypes
<1>6. Hinted'
  <2>1. e \in Coming' /\ e.revision = revision'
    BY <1>1, <1>4
  <2> QED
    BY <2>1 DEF Hinted
<1>7. Calm => SeenReaches'
  BY <1>1, <1>4 DEF Calm, SeenReaches, RestInv, OneHintEach
<1> QED
  BY <1>3, <1>5, <1>6, <1>7 DEF Rests

LEMMA NotifyFailsRests == ASSUME PushInv, RestInv, NEW n \in due, NotifyFails(n) PROVE Rests
<1>1. due' \subseteq due /\ UNCHANGED <<revision, selected, flight, hub, socket, wire, client>>
  BY DEF NotifyFails, cloud, line
<1>2. HintTypes' /\ LineOK' /\ Nearby' = Nearby
  BY <1>1 DEF RestInv, HintTypes, LineOK, Nearby, Coming
<1>3. OneHintEach'
  BY <1>1, <1>2, FewerKeep DEF RestInv, FewerHints
<1>4. Misses
  BY DEF Misses
<1> QED
  BY <1>2, <1>3, <1>4 DEF Rests

LEMMA PublishRests == ASSUME PushInv, RestInv, NEW e \in flight, Publish(e) PROVE Rests
<1>1. /\ flight' = flight \ {e} /\ hub' = e
      /\ wire' = IF socket THEN Append(wire, e) ELSE wire
      /\ UNCHANGED <<revision, selected, due, socket, client, have, work, pull>>
  BY DEF Publish, cloud
<1>2. e \in Hint /\ wire \in Seq(Hint)
  BY DEF RestInv, HintTypes
<1>3. wire' \in Seq(Hint) /\ Elements(wire') = Elements(wire) \cup IF socket THEN {e} ELSE {}
  BY <1>1, <1>2, ElementsAppend
<1>4. HintTypes' /\ LineOK'
  BY <1>1, <1>2, <1>3 DEF RestInv, HintTypes, LineOK
<1>5. Nearby' \subseteq Nearby /\ (socket => Coming' = Coming)
  BY <1>1, <1>3 DEF Nearby, Coming
<1>6. OneHintEach'
  BY <1>1, <1>5, FewerKeep DEF RestInv, FewerHints
<1>7. Calm => SeenReaches'
  BY <1>1, <1>5 DEF Calm, SeenReaches
<1>8. CASE socket
  BY <1>1, <1>4, <1>5, <1>6, <1>7, <1>8 DEF Rests, Calm, Hinted
<1>9. CASE ~socket /\ ~client.again
  BY <1>4, <1>6, <1>9 DEF Rests, Misses
<1>10. CASE ~socket /\ client.again
  BY <1>1, <1>4, <1>6, <1>7, <1>10 DEF Rests, Hinted
<1> QED
  BY <1>8, <1>9, <1>10

LEMMA ConnectRests == ASSUME PushInv, RestInv, Connect PROVE Rests
<1>1. /\ client.pc = "closed" /\ ~socket /\ socket' = TRUE
      /\ wire' \in {<<>>, <<hub>>}
      /\ client' = [client EXCEPT !.pc = "open", !.selected = selected]
      /\ UNCHANGED <<revision, selected, due, flight, hub>>
  BY DEF Connect, cloud, hints
<1>2. hub \in Hint /\ client \in PushClient /\ selected \in Nat /\ <<>> \in Seq(Hint)
  BY DEF RestInv, HintTypes
<1>3. wire' \in Seq(Hint) /\ Elements(wire') \subseteq {hub}
  BY <1>1, <1>2, ElementsEmpty, ElementsOne
<1>4. /\ client' \in PushClient /\ client'.pc = "open"
      /\ client'.seen = client.seen /\ client'.queue = client.queue /\ client'.again = client.again
  BY <1>1, <1>2 DEF PushClient
<1>5. HintTypes' /\ LineOK'
  BY <1>1, <1>2, <1>3, <1>4 DEF RestInv, HintTypes, LineOK
<1>6. wire = <<>> /\ Elements(wire) = {}
  BY <1>1, ElementsEmpty DEF RestInv, LineOK
<1>7. Nearby' \subseteq Nearby /\ Coming \subseteq Coming'
  BY <1>1, <1>3, <1>4, <1>6 DEF Nearby, Coming
<1>8. OneHintEach'
  BY <1>1, <1>4, <1>7, FewerKeep DEF RestInv, FewerHints
<1>9. Calm => Hinted' /\ SeenReaches'
  BY <1>1, <1>4, <1>7 DEF Calm, Hinted, SeenReaches
<1> QED
  BY <1>5, <1>8, <1>9 DEF Rests


LEMMA OpenedRests == ASSUME PushInv, RestInv, Opened PROVE Rests
<1>1. /\ client.pc = "open" /\ client \in PushClient
      /\ UNCHANGED <<revision, selected, due, flight, hub, socket, wire, have, pull>>
  BY DEF Opened, cloud, hints, line, RestInv, HintTypes
<1>2. \/ /\ client.again /\ client' = [client EXCEPT !.pc = "polling"]
         /\ work' = [Resting EXCEPT !.step = "decide"]
      \/ ~client.again /\ client' = [client EXCEPT !.pc = "listening"] /\ UNCHANGED work
  BY DEF Opened, Goes
<1>3. /\ client' \in PushClient /\ client'.pc \in {"polling", "listening"}
      /\ client'.seen = client.seen /\ client'.queue = client.queue /\ client'.again = client.again
  BY <1>1, <1>2 DEF PushClient
<1>4. HintTypes' /\ LineOK' /\ Nearby' = Nearby /\ Coming' = Coming
  BY <1>1, <1>3 DEF RestInv, HintTypes, LineOK, Nearby, Coming
<1>5. OneHintEach'
  BY <1>1, <1>3, <1>4, FewerKeep DEF RestInv, FewerHints
<1>6. CASE client.again
  <2>1. Reaching'
    BY <1>2, <1>6, RestingTypes DEF Reaching
  <2> QED
    BY <1>4, <1>5, <2>1 DEF Rests
<1>7. CASE ~client.again
  BY <1>1, <1>3, <1>4, <1>5, <1>7 DEF Rests, Calm, Hinted, SeenReaches
<1> QED
  BY <1>6, <1>7

LEMMA PolledRests == ASSUME PushInv, RestInv, Polled PROVE Rests
<1>1. /\ client.pc = "polling" /\ client \in PushClient /\ client' = [client EXCEPT !.pc = "listening"]
      /\ UNCHANGED <<revision, selected, due, flight, hub, socket, wire, have, pull, work>>
  BY DEF Polled, Goes, cloud, hints, line, RestInv, HintTypes
<1>2. /\ client' \in PushClient /\ client'.pc = "listening"
      /\ client'.seen = client.seen /\ client'.queue = client.queue /\ client'.again = client.again
  BY <1>1 DEF PushClient
<1>3. HintTypes' /\ LineOK' /\ Nearby' = Nearby /\ Coming' = Coming
  BY <1>1, <1>2 DEF RestInv, HintTypes, LineOK, Nearby, Coming
<1>4. OneHintEach'
  BY <1>1, <1>2, <1>3, FewerKeep DEF RestInv, FewerHints
<1>5. Calm => Hinted' /\ SeenReaches'
  BY <1>1, <1>2, <1>3 DEF Calm, Hinted, SeenReaches
<1> QED
  BY <1>3, <1>4, <1>5 DEF Rests

LEMMA ReceiveRests == ASSUME PushInv, RestInv, Receive PROVE Rests
<1>1. /\ socket /\ wire # <<>> /\ wire' = Tail(wire)
      /\ client' = IF client.pc = "listening" THEN [client EXCEPT !.queue = Append(@, Head(wire))]
                   ELSE client
      /\ UNCHANGED <<revision, selected, due, flight, hub, socket>>
  BY DEF Receive, cloud, hints
<1>2. client \in PushClient /\ wire \in Seq(Hint) /\ client.queue \in Seq(Hint)
  BY DEF RestInv, HintTypes, PushClient
<1>3. /\ Head(wire) \in Hint /\ wire' \in Seq(Hint)
      /\ Elements(wire) = {Head(wire)} \cup Elements(wire')
  BY <1>1, <1>2, ElementsTail
<1>4. CASE client.pc = "listening"
  <2>1. /\ Append(client.queue, Head(wire)) \in Seq(Hint)
        /\ Elements(Append(client.queue, Head(wire))) = Elements(client.queue) \cup {Head(wire)}
    BY <1>2, <1>3, ElementsAppend
  <2>2. /\ client' \in PushClient /\ client'.queue = Append(client.queue, Head(wire))
        /\ client'.pc = client.pc /\ client'.again = client.again /\ client'.seen = client.seen
    BY <1>1, <1>2, <1>4, <2>1 DEF PushClient
  <2>3. Coming' = Coming /\ Nearby' = Nearby
    BY <1>1, <1>3, <2>1, <2>2 DEF Coming, Nearby
  <2>4. HintTypes' /\ LineOK'
    BY <1>1, <1>3, <2>2 DEF RestInv, HintTypes, LineOK
  <2>5. OneHintEach'
    BY <1>1, <2>2, <2>3, FewerKeep DEF RestInv, FewerHints
  <2>6. Calm => Hinted' /\ SeenReaches'
    BY <1>1, <2>2, <2>3 DEF Calm, Hinted, SeenReaches
  <2> QED
    BY <2>4, <2>5, <2>6 DEF Rests
<1>5. CASE client.pc # "listening"
  <2>1. Misses
    BY <1>5 DEF Misses
  <2>2. UNCHANGED client
    BY <1>1, <1>5
  <2>3. Nearby' \subseteq Nearby
    BY <1>1, <1>3, <2>2 DEF Coming, Nearby
  <2>4. HintTypes' /\ LineOK'
    BY <1>1, <1>3, <2>2 DEF RestInv, HintTypes, LineOK
  <2>5. OneHintEach'
    BY <1>1, <2>2, <2>3, FewerKeep DEF RestInv, FewerHints
  <2> QED
    BY <2>1, <2>4, <2>5 DEF Rests
<1> QED
  BY <1>4, <1>5

\* A head that is dropped as seen or as old is not of the head of the cloud graph.
LEMMA HandleRests == ASSUME PushInv, RestInv, Handle PROVE Rests
<1> DEFINE e == Head(client.queue)
           rest == [client EXCEPT !.queue = Tail(@)]
           marked == [rest EXCEPT !.seen = @ \cup {e.id}, !.id = e.id]
<1>1. /\ client.pc \in {"listening", "closing"} /\ client.queue # <<>>
      /\ UNCHANGED <<revision, selected, due, flight, hub, socket, wire, have, pull>>
  BY DEF Handle, cloud, hints, line
<1>2. client \in PushClient /\ client.queue \in Seq(Hint)
  BY DEF RestInv, HintTypes, PushClient
<1>3. /\ e \in Hint /\ Tail(client.queue) \in Seq(Hint)
      /\ Elements(client.queue) = {e} \cup Elements(Tail(client.queue))
  BY <1>1, <1>2, ElementsTail
<1>4. /\ client' \in PushClient /\ client'.queue = Tail(client.queue)
      /\ client'.pc = client.pc /\ client'.again = client.again
      /\ client'.seen = client.seen \/ client'.seen = client.seen \cup {e.id}
  <2>1. e.id \in Nat /\ e.revision \in Nat
    BY <1>3 DEF Hint
  <2>2. /\ rest \in PushClient /\ rest.queue = Tail(client.queue)
        /\ rest.pc = client.pc /\ rest.again = client.again /\ rest.seen = client.seen
    BY <1>2, <1>3 DEF PushClient
  <2>3. /\ marked \in PushClient /\ marked.queue = Tail(client.queue)
        /\ marked.pc = client.pc /\ marked.again = client.again
        /\ marked.seen = client.seen \cup {e.id}
    BY <2>1, <2>2 DEF PushClient
  <2>4. \/ client' = rest \/ client' = marked
        \/ client' = [marked EXCEPT !.pushed = IF @ < e.revision THEN e.revision ELSE @]
    BY DEF Handle
  <2>5. CASE client' = [marked EXCEPT !.pushed = IF @ < e.revision THEN e.revision ELSE @]
    <3> HIDE DEF marked
    <3> QED
      BY <2>1, <2>3, <2>5 DEF PushClient
  <2> QED
    BY <2>2, <2>3, <2>4, <2>5
<1>5. Coming = Coming' \cup {e} /\ Nearby = Nearby' \cup {e}
  BY <1>1, <1>3, <1>4 DEF Coming, Nearby
<1>6. HintTypes' /\ LineOK'
  BY <1>1, <1>4 DEF RestInv, HintTypes, LineOK
<1>7. OneHintEach'
  BY <1>1, <1>4, <1>5, FewerKeep DEF RestInv, FewerHints
<1>8. ASSUME Calm, ~Misses PROVE Reaching' \/ (Hinted' /\ SeenReaches')
  <2>1. ~Foreign(e)
    BY <1>8 DEF Misses
  <2>2. CASE e.id \in client.seen
    <3>1. client' = rest /\ e.revision # revision
      BY <1>5, <1>8, <2>2 DEF Handle, Calm, SeenReaches
    <3>2. client'.seen = client.seen
      BY <1>2, <3>1 DEF PushClient
    <3> QED
      BY <1>1, <1>4, <1>5, <1>8, <3>1, <3>2 DEF Calm, Hinted, SeenReaches
  <2>3. CASE e.id \notin client.seen /\ Old(e)
    <3>1. e.revision # revision
      BY <1>3, <1>8, <2>3 DEF Old, Calm, Reaching, PushInv, PushTypes, KnownIsCommitted, AppliedIsHeld, Hint
    <3>2. \A f \in Nearby : f.id = e.id => f = e
      BY <1>5 DEF RestInv, OneHintEach
    <3>3. Hinted'
      BY <1>1, <1>4, <1>5, <1>8, <3>1 DEF Calm, Hinted
    <3>4. SeenReaches'
      BY <1>1, <1>4, <1>5, <1>8, <3>1, <3>2 DEF Calm, SeenReaches
    <3> QED
      BY <3>3, <3>4
  <2>4. CASE e.id \notin client.seen /\ ~Old(e)
    <3>1. work' = [Resting EXCEPT !.step = "decide"]
      BY <2>1, <2>4 DEF Handle
    <3> QED
      BY <3>1, RestingTypes DEF Reaching
  <2> QED
    BY <2>2, <2>3, <2>4
<1> QED
  BY <1>6, <1>7, <1>8 DEF Rests

LEMMA DropRests == ASSUME PushInv, RestInv, Drop PROVE Rests
<1>1. /\ socket /\ socket' = FALSE /\ wire' = <<>> /\ client \in PushClient /\ <<>> \in Seq(Hint)
      /\ client' \in {client, [client EXCEPT !.pc = "closing"]}
      /\ UNCHANGED <<revision, selected, due, flight, hub>>
  BY DEF Drop, Goes, cloud, hints, RestInv, HintTypes
<1>2. /\ client' \in PushClient /\ client'.pc # "closed"
      /\ client'.seen = client.seen /\ client'.queue = client.queue
  BY <1>1 DEF PushClient, RestInv, LineOK
<1>3. HintTypes' /\ LineOK'
  BY <1>1, <1>2 DEF RestInv, HintTypes, LineOK
<1>4. Nearby' \subseteq Nearby
  BY <1>1, <1>2, ElementsEmpty DEF Coming, Nearby
<1>5. OneHintEach'
  BY <1>1, <1>2, <1>4, FewerKeep DEF RestInv, FewerHints
<1>6. Hinted' /\ (Calm => SeenReaches')
  BY <1>1, <1>2, <1>4 DEF Calm, Hinted, SeenReaches
<1> QED
  BY <1>3, <1>5, <1>6 DEF Rests

LEMMA ClosedRests == ASSUME PushInv, RestInv, Closed PROVE Rests
<1>1. /\ client.pc = "closing" /\ client' = [client EXCEPT !.pc = "closed", !.again = TRUE]
      /\ UNCHANGED <<revision, selected, due, flight, hub, socket, wire>> /\ client \in PushClient
  BY DEF Closed, cloud, hints, line, RestInv, HintTypes
<1>2. /\ client' \in PushClient /\ client'.pc = "closed" /\ client'.again
      /\ client'.seen = client.seen /\ client'.queue = client.queue
  BY <1>1 DEF PushClient
<1>3. ~socket
  BY <1>1 DEF RestInv, LineOK
<1>4. HintTypes' /\ LineOK' /\ Nearby' = Nearby
  BY <1>1, <1>2, <1>3 DEF RestInv, HintTypes, LineOK, Nearby, Coming
<1>5. OneHintEach'
  BY <1>1, <1>2, <1>4, FewerKeep DEF RestInv, FewerHints
<1>6. Hinted' /\ (Calm => SeenReaches')
  BY <1>1, <1>2, <1>3, <1>4 DEF Calm, Hinted, SeenReaches
<1> QED
  BY <1>4, <1>5, <1>6 DEF Rests


-------------------------------------------------------------------------------
(* The refreshes. *)

\* A refresh that has read the head, or will, brings the workspace there, unless it fails.
LEMMA ReachingKeeps ==
  ASSUME PushInv, Next, Reaching, revision' = revision, ~Misses, ~(have' < have)
  PROVE  Reaching'
<1>1. /\ revision \in Nat /\ have \in Nat /\ have <= revision /\ work \in Decision /\ pull \in Decision
      /\ work.read \in Nat /\ work.read <= revision /\ pull.read \in Nat /\ pull.read <= revision
  BY DEF PushInv, PushTypes, KnownIsCommitted, Decision
<1>2. \/ UNCHANGED <<have, work, pull>> \/ Opened \/ Handle \/ Decide \/ RefreshReads \/ RefreshWrites
      \/ DecisionFails \/ PullDecides \/ PullWrites \/ Restart
  BY DEF Next, Working, Pulls, Commit, Notify, NotifyFails, Publish, Connect, Polled, Receive, Closed,
         Drop, Edit, Settle
<1>3. CASE UNCHANGED <<have, work, pull>>
  BY <1>3 DEF Reaching
<1>4. CASE Opened \/ Handle
  <2>1. UNCHANGED <<have, pull>> /\ (UNCHANGED work \/ work'.step = "decide")
    BY <1>4, RestingTypes DEF Opened, Handle
  <2> QED
    BY <2>1 DEF Reaching
<1>5. CASE Decide
  <2>1. work.step = "decide" /\ UNCHANGED <<have, pull>>
    BY <1>5 DEF Decide
  <2>2. CASE Refreshes
    BY <1>5, <2>2 DEF Decide, Refreshing, Reaching
  <2>3. CASE ~Refreshes
    <3>1. work' = Resting
      BY <1>5, <2>3 DEF Decide
    <3>2. ~busy
      BY <2>1, <3>1, RestingTypes DEF Misses
    <3> QED
      BY <2>1, <2>3, <3>2 DEF Refreshes, Behind, Reaching
  <2> QED
    BY <2>2, <2>3
<1>6. CASE RefreshReads
  <2>1. work' = [step |-> "write", to |-> work.to, read |-> revision]
    BY <1>1, <1>6 DEF RefreshReads, Decision
  <2> QED
    BY <2>1 DEF Reaching
<1>7. CASE RefreshWrites
  BY <1>1, <1>7 DEF RefreshWrites, Reaching
<1>8. CASE DecisionFails
  BY <1>8 DEF Misses
<1>9. CASE PullDecides
  <2>1. pull' = [step |-> "write", to |-> 0, read |-> revision]
    BY <1>9 DEF PullDecides, Resting
  <2> QED
    BY <2>1 DEF Reaching
<1>10. CASE PullWrites
  BY <1>1, <1>10 DEF PullWrites, Reaching
<1>11. CASE Restart
  BY <1>11 DEF Restart, Reaching
<1> QED
  BY <1>2, <1>3, <1>4, <1>5, <1>6, <1>7, <1>8, <1>9, <1>10, <1>11

\* A decision that reads the head makes up for what was missed before.
LEMMA CatchesReach == ASSUME PushInv, Next, Catches PROVE Reaching'
<1>1. CASE PullDecides
  <2>1. pull' = [step |-> "write", to |-> 0, read |-> revision] /\ revision' = revision
    BY <1>1 DEF PullDecides, Resting, cloud
  <2> QED
    BY <2>1 DEF Reaching
<1>2. CASE work.step = "decide" /\ work'.step = IF Behind THEN "refresh" ELSE "none"
  <2>1. CASE Behind
    BY <1>2, <2>1 DEF Reaching
  <2>2. CASE ~Behind
    <3>1. work' # work /\ work'.step = "none"
      BY <1>2, <2>2
    <3>2. work # Resting
      BY <1>2, RestingTypes
    <3>3. Opened \/ Decide \/ DecisionFails \/ Restart
      BY <1>2, <3>1, <3>2 DEF Next, Working, Pulls, Commit, Notify, NotifyFails, Publish, Connect, Polled,
         Receive, Closed, Drop, Edit, Settle, Handle, RefreshReads, RefreshWrites, PullDecides, PullWrites
    <3>4. ~Opened
      BY <3>1, RestingTypes DEF Opened
    <3>5. UNCHANGED <<have, revision>> \/ have' = revision'
      BY <3>3, <3>4 DEF Decide, DecisionFails, Restart, cloud
    <3> QED
      BY <2>2, <3>5 DEF Behind, Reaching
  <2> QED
    BY <2>1, <2>2
<1> QED
  BY <1>1, <1>2 DEF Catches

LEMMA RestartRests ==
  ASSUME PushInv, RestInv, Restart PROVE HintTypes' /\ OneHintEach' /\ LineOK' /\ Reaching'
<1>1. /\ socket' = FALSE /\ wire' = <<>> /\ have' = revision
      /\ UNCHANGED <<revision, selected, due, flight, hub>>
      /\ client \in PushClient /\ <<>> \in Seq(Hint) /\ {} \in SUBSET Nat
  BY DEF Restart, cloud, hints, RestInv, HintTypes
<1>2. PICK id \in {client.id, 0}, pushed \in {client.pushed, 0} :
        client' = Started(id, pushed, client.applied)
  BY DEF Restart
<1>3. client' \in PushClient /\ client'.seen = {} /\ client'.queue = <<>>
  BY <1>1, <1>2 DEF Started, PushClient
<1>4. HintTypes' /\ LineOK'
  BY <1>1, <1>3 DEF RestInv, HintTypes, LineOK
<1>5. Nearby' \subseteq Nearby
  BY <1>1, <1>3, ElementsEmpty DEF Nearby, Coming
<1>6. OneHintEach'
  BY <1>1, <1>3, <1>5, FewerKeep DEF RestInv, FewerHints
<1> QED
  BY <1>1, <1>4, <1>6 DEF Reaching

LEMMA LineRests ==
  ASSUME PushInv, RestInv, Next, ~Commit, ~Restart PROVE Rests
<1>1. CASE \E n \in due : Notify(n) \/ NotifyFails(n)
  BY <1>1, NotifyRests, NotifyFailsRests
<1>2. CASE \E e \in flight : Publish(e)
  BY <1>2, PublishRests
<1>3. CASE Connect \/ Opened \/ Polled \/ Receive \/ Handle \/ Drop \/ Closed
  BY <1>3, ConnectRests, OpenedRests, PolledRests, ReceiveRests, HandleRests, DropRests, ClosedRests
<1>4. CASE RefreshStep
  BY <1>4, RefreshUnheard, UnheardKeeps DEF Rests
<1> QED
  BY <1>1, <1>2, <1>3, <1>4 DEF Next, Working, Pulls, RefreshStep

LEMMA RestStep == PushInv /\ RestInv /\ [MCNext]_mcvars => RestInv'
<1> SUFFICES ASSUME PushInv, RestInv, [MCNext]_mcvars PROVE RestInv'
  OBVIOUS
<1>1. CASE UNCHANGED mcvars
  <2>1. Nearby' = Nearby /\ Coming' = Coming /\ (Reaching' <=> Reaching)
    BY <1>1 DEF mcvars, vars, cloud, hints, line, Nearby, Coming, Reaching
  <2>2. (Hinted' <=> Hinted) /\ (SeenReaches' <=> SeenReaches)
    BY <1>1, <2>1 DEF mcvars, vars, cloud, hints, line, Hinted, SeenReaches
  <2>3. HintTypes' /\ OneHintEach' /\ LineOK'
    BY <1>1, <2>1 DEF RestInv, mcvars, vars, cloud, hints, line, HintTypes, OneHintEach, LineOK
  <2> QED
    BY <1>1, <2>1, <2>2, <2>3 DEF RestInv, mcvars
<1>2. CASE MCNext
  <2>1. /\ Next /\ crossed' = (crossed \/ have' < have)
        /\ missed' = (~Restart /\ ~Catches /\ (missed \/ Misses))
    BY <1>2 DEF MCNext
  <2>2. CASE Commit
    BY <2>2, CommitRests DEF RestInv
  <2>3. CASE Restart
    BY <2>3, RestartRests DEF RestInv
  <2>4. CASE ~Commit /\ ~Restart
    <3>1. Rests
      BY <2>1, <2>4, LineRests
    <3>2. revision' = revision
      BY <2>1, <2>4 DEF Next, Working, Pulls, Notify, NotifyFails, Publish, Connect, Opened, Polled, Receive,
         Handle, Drop, Closed, Decide, RefreshReads, RefreshWrites, DecisionFails, PullDecides, PullWrites,
         Edit, Settle, cloud
    <3>3. CASE missed' \/ crossed'
      BY <3>1, <3>3 DEF RestInv, Rests
    <3>4. CASE Catches
      BY <2>1, <3>1, <3>4, CatchesReach DEF RestInv, Rests
    <3>5. CASE ~missed' /\ ~crossed' /\ ~Catches
      <4>1. ~missed /\ ~Misses /\ ~crossed /\ ~(have' < have)
        BY <2>1, <2>4, <3>5
      <4>2. CASE Reaching
        BY <2>1, <3>1, <3>2, <4>1, <4>2, ReachingKeeps DEF RestInv, Rests
      <4>3. CASE ~Reaching
        <5>1. Calm
          BY <3>2, <4>1, <4>3 DEF Calm, RestInv
        <5> QED
          BY <3>1, <4>1, <5>1 DEF RestInv, Rests
      <4> QED
        BY <4>2, <4>3
    <3> QED
      BY <3>3, <3>4, <3>5
  <2> QED
    BY <2>2, <2>3, <2>4
<1> QED
  BY <1>1, <1>2

\* A listening client with nothing under way is at the head, whatever was reordered,
\* repeated, cut off or restarted, unless a hint was lost for good or refreshes crossed.
THEOREM UpToDateAlwaysAtRest == MCSpec => []UpToDateAtRest
<1>1. PushInv /\ RestInv => UpToDateAtRest
  <2> SUFFICES ASSUME PushInv, RestInv, socket, client.pc = "listening", Quiet, ~missed, ~crossed
               PROVE  have = revision
    BY DEF UpToDateAtRest
  <2>1. Coming = {}
    BY ElementsEmpty DEF Quiet, Coming
  <2>2. ~Hinted
    BY <2>1 DEF Quiet, Hinted
  <2> QED
    BY <2>2, RestingTypes DEF RestInv, Reaching, Quiet
<1> QED
  BY <1>1, InitEstablishes, StepKeeps, RestInit, RestStep, PTL DEF MCSpec

===============================================================================
