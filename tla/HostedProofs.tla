------------------------------ MODULE HostedProofs ------------------------------
(***************************************************************************)
(* Proofs about what the hosted service does for a codebase: Main under    *)
(* the merge queue, for every number of paths, commands, saves, proposals  *)
(* and decisions, and the action jobs, which implement the queue, for      *)
(* every number of jobs, runners and requeues.                             *)
(***************************************************************************)
EXTENDS MCMergeQueue, ActionJobs, SequenceTheorems, TLAPS

-------------------------------------------------------------------------------
(* The merge queue (MergeQueue).                                           *)
(*                                                                         *)
(* A row is marked merged by the command that has taken Main to its pin.   *)
(*                                                                         *)
(* What lands was approved at its pin: an approved row has a latest review *)
(* or was approved by its own command, decisions are only added to, and a  *)
(* landing compares the pin it holds with that of the latest one.          *)
(*                                                                         *)
(* A run takes no proposal up again: what it has taken up it still has in  *)
(* hand, or the proposal is in the queue only if it was approved since.    *)

Graph == [head : Nat, tip : Nat, main : Nat, active : Nat]

Proposal ==
  [set : Nat, pin : Nat, base : Nat, state : {"proposed", "approved", "stale", "merged"}, merged : Nat]

Requests ==
  {"idle", "find", "upsert", "enqueue", "approve", "decide", "accept", "list", "land", "row",
   "decision", "ci", "stale", "write", "mark"}

MergeTypes ==
  /\ graph \in Graph
  /\ proposals \in Seq(Proposal)
  /\ pc \in [Clients -> Requests]
  /\ copy \in [Clients -> Graph]
  /\ held = [c \in Clients |-> held[c]]
  /\ \A c \in Clients : held[c].pin \in Nat

CommandLanded(at, h) == at = "mark" => <<h.id, h.pin>> \in landed

MergeInv ==
  /\ MergeTypes
  /\ MergedWasLanded
  /\ \A c \in Clients : CommandLanded(pc[c], held[c])

LEMMA InitEstablishes == MCInit => MergeInv
<1> SUFFICES ASSUME MCInit PROVE MergeInv
  OBVIOUS
<1>1. /\ Empty \in Graph /\ NoRow.pin = 0
      /\ At(1) \in Graph
  BY DEF At, Empty, Graph, NoRow
<1>2. graph = Empty \/ graph = At(1)
  BY DEF MCInit, Init, Created, Imported
<1>4. MergeTypes
  <2>2. graph \in Graph /\ proposals \in Seq(Proposal)
    BY <1>1, <1>2 DEF MCInit, Init
  <2>3. pc \in [Clients -> Requests] /\ copy \in [Clients -> Graph]
    BY <1>1 DEF MCInit, Init, Requests
  <2>4. held = [c \in Clients |-> held[c]] /\ \A c \in Clients : held[c].pin \in Nat
    BY <1>1 DEF MCInit, Init
  <2> QED
    BY <2>2, <2>3, <2>4 DEF MergeTypes
<1>6. MergedWasLanded /\ \A c \in Clients : CommandLanded(pc[c], held[c])
  BY DEF MCInit, Init, CommandLanded, MergedWasLanded
<1> QED
  BY <1>4, <1>6 DEF MergeInv

-------------------------------------------------------------------------------
(* The step of one command. *)

LEMMA CommandKeeps ==
  ASSUME MergeInv, NEW c \in Clients, NEW to \in Requests, NEW g \in Graph, NEW h,
         h.pin \in Nat,
         pc' = [pc EXCEPT ![c] = to], copy' = [copy EXCEPT ![c] = g], held' = [held EXCEPT ![c] = h],
         landed \subseteq landed',
         graph' \in Graph, proposals' \in Seq(Proposal),
         MergedWasLanded', CommandLanded(to, h)'
  PROVE  MergeInv'
<1>1. MergeTypes'
  <2>1. held' = [d \in Clients |-> held'[d]]
    BY DEF MergeInv, MergeTypes
  <2>2. \A d \in Clients : held'[d].pin \in Nat
    BY DEF MergeInv, MergeTypes
  <2> QED
    BY <2>1, <2>2 DEF MergeInv, MergeTypes
<1>2. ASSUME NEW d \in Clients
      PROVE  CommandLanded(pc[d], held[d])'
  <2>1. CASE d = c
    <3>1. pc'[d] = to /\ copy'[d] = g /\ held'[d] = h
      BY <2>1 DEF MergeInv, MergeTypes
    <3> QED
      BY <3>1 DEF CommandLanded
  <2>2. CASE d # c
    <3>1. pc'[d] = pc[d] /\ copy'[d] = copy[d] /\ held'[d] = held[d]
      BY <2>2 DEF MergeInv, MergeTypes
    <3>2. CommandLanded(pc[d], held[d])
      BY DEF MergeInv
    <3> QED
      BY <3>1, <3>2 DEF CommandLanded
  <2> QED
    BY <2>1, <2>2
<1> QED
  BY <1>1, <1>2 DEF MergeInv

\* The requests of a command that leave the graph and the proposals alone.
Reads(c) ==
  \/ ProposeReads(c) \/ FindOpen(c) \/ ProposeEnqueues(c)
  \/ ApproveReads(c) \/ DecideReads(c) \/ Decide(c)
  \/ ListReady(c) \/ NothingReady(c) \/ LandReads(c) \/ LandReadsRow(c) \/ LandReviewed(c)
  \/ LandPasses(c) \/ LandWaits(c) \/ Dies(c)

\* Where such a request takes the command, and with what.
Takes(c, to, g, h) ==
  /\ pc' = [pc EXCEPT ![c] = to] /\ copy' = [copy EXCEPT ![c] = g] /\ held' = [held EXCEPT ![c] = h]
  /\ g \in Graph /\ h.pin \in Nat /\ to # "mark"

LEMMA HeldTypes == \A p : Only(p).pin = 0 /\ NoRow.pin = 0
BY DEF Only, NoRow

LEMMA EmptyTypes == Empty \in Graph
BY DEF At, Empty, Graph

LEMMA RowTypes == ASSUME MergeTypes, NEW p \in DOMAIN proposals PROVE proposals[p] \in Proposal
<1>1. proposals \in Seq(Proposal) /\ p \in 1 .. Len(proposals)
  BY DEF MergeTypes
<1> QED
  BY <1>1

\* What a request finds.
LEMMA Found ==
  ASSUME MergeInv, NEW c \in Clients
  PROVE  /\ copy[c] \in Graph /\ held[c].pin \in Nat
         /\ copy = [copy EXCEPT ![c] = copy[c]] /\ held = [held EXCEPT ![c] = held[c]]
BY DEF MergeInv, MergeTypes

LEMMA ReadsTake ==
  ASSUME MergeInv, NEW c \in Clients, Reads(c)
  PROVE  \E to \in Requests : \E g, h : Takes(c, to, g, h)
<1> USE Found DEF Requests
<1>1. ASSUME Over(c) PROVE Takes(c, "idle", Empty, NoRow)
  BY <1>1, HeldTypes, EmptyTypes DEF Over, Takes
<1>2. CASE NothingReady(c) \/ LandWaits(c) \/ Dies(c)
  BY <1>1, <1>2 DEF NothingReady, LandWaits, Dies, Ends
<1>3. CASE ProposeReads(c)
  <2>1. Takes(c, "find", graph, NoRow)
    BY <1>3, HeldTypes DEF ProposeReads, Goes, Takes, MergeInv, MergeTypes, Graph
  <2> QED
    BY <2>1
<1>4. CASE FindOpen(c)
  <2>1. \E h : /\ held' = [held EXCEPT ![c] = h] /\ h.pin \in Nat
    BY <1>4, HeldTypes DEF FindOpen
  <2>2. PICK h : held' = [held EXCEPT ![c] = h] /\ h.pin \in Nat
    BY <2>1
  <2>3. Takes(c, "upsert", copy[c], h)
    BY <1>4, <2>2 DEF FindOpen, Goes, Takes
  <2> QED
    BY <2>3
<1>5. CASE ProposeEnqueues(c)
  <2>1. CASE Ends(c, "enqueue")
    BY <1>1, <2>1 DEF Ends
  <2>2. CASE Goes(c, "enqueue", "approve") /\ UNCHANGED <<copy, held>>
    <3>1. Takes(c, "approve", copy[c], held[c])
      BY <2>2 DEF Goes, Takes
    <3> QED
      BY <3>1
  <2> QED
    BY <1>5, <2>1, <2>2 DEF ProposeEnqueues
<1>6. CASE ApproveReads(c)
  <2>1. PICK p : held' = [held EXCEPT ![c] = Only(p)]
    BY <1>6 DEF ApproveReads
  <2>2. pc' = [pc EXCEPT ![c] = "approve"] /\ UNCHANGED copy
    BY <1>6 DEF ApproveReads, Goes
  <2>3. Takes(c, "approve", copy[c], Only(p))
    BY <2>1, <2>2, HeldTypes DEF Takes
  <2> QED
    BY <2>3
<1>7. CASE DecideReads(c)
  <2>1. PICK p \in DOMAIN proposals : held' = [held EXCEPT ![c] = [Only(p) EXCEPT !.pin = proposals[p].pin]]
    BY <1>7 DEF DecideReads
  <2>2. proposals[p].pin \in Nat
    BY RowTypes DEF MergeInv, Proposal
  <2>3. [Only(p) EXCEPT !.pin = proposals[p].pin].pin \in Nat
    BY <2>2 DEF Only, NoRow
  <2>4. Takes(c, "decide", copy[c], [Only(p) EXCEPT !.pin = proposals[p].pin])
    BY <1>7, <2>1, <2>3 DEF DecideReads, Goes, Takes
  <2> QED
    BY <2>4
<1>8. CASE Decide(c)
  <2>1. CASE Ends(c, "decide")
    BY <1>1, <2>1 DEF Ends
  <2>2. CASE Goes(c, "decide", "accept") /\ UNCHANGED <<copy, held>>
    <3>1. Takes(c, "accept", copy[c], held[c])
      BY <2>2 DEF Goes, Takes
    <3> QED
      BY <3>1
  <2> QED
    BY <1>8, <2>1, <2>2 DEF Decide
<1>9. CASE ListReady(c)
  <2>1. Takes(c, "land", copy[c], Only(Head(queue)))
    BY <1>9, HeldTypes DEF ListReady, Goes, Takes
  <2> QED
    BY <2>1
<1>10. CASE LandReads(c)
  <2>1. Takes(c, "row", graph, held[c])
    BY <1>10 DEF LandReads, Goes, Takes, MergeInv, MergeTypes, Graph
  <2> QED
    BY <2>1
<1>11. CASE LandReadsRow(c)
  <2>1. CASE Ends(c, "row")
    BY <1>1, <2>1 DEF Ends
  <2>2. CASE /\ Goes(c, "row", "decision") /\ Ready(held[c].id)
             /\ held' = [held EXCEPT ![c] = Row(held[c].id)] /\ UNCHANGED copy
    <3>1. PICK p \in DOMAIN proposals : p = held[c].id
      BY <2>2 DEF Ready
    <3>2. Row(p).pin = proposals[p].pin
      BY DEF Row
    <3>3. proposals[p].pin \in Nat
      BY RowTypes DEF MergeInv, Proposal
    <3>4. Takes(c, "decision", copy[c], Row(p))
      BY <2>2, <3>1, <3>2, <3>3 DEF Goes, Takes
    <3> QED
      BY <3>4
  <2> QED
    BY <1>11, <2>1, <2>2 DEF LandReadsRow
<1>12. CASE LandReviewed(c)
  <2>1. PICK to \in {"ci", "stale"} : pc[c] = "decision" /\ pc' = [pc EXCEPT ![c] = to]
    BY <1>12 DEF LandReviewed, Goes
  <2>2. Takes(c, to, copy[c], held[c])
    BY <1>12, <2>1 DEF LandReviewed, Takes
  <2> QED
    BY <2>2
<1>13. CASE LandPasses(c)
  <2>1. PICK to \in {"write", "stale"} : pc' = [pc EXCEPT ![c] = to]
    BY <1>13 DEF LandPasses, Goes
  <2>2. UNCHANGED <<copy, held>>
    BY <1>13 DEF LandPasses
  <2>3. Takes(c, to, copy[c], held[c])
    BY <2>1, <2>2 DEF Takes
  <2> QED
    BY <2>3
<1> QED
  BY <1>2, <1>3, <1>4, <1>5, <1>6, <1>7, <1>8, <1>9, <1>10, <1>11, <1>12, <1>13 DEF Reads

-------------------------------------------------------------------------------
(* The steps that write proposals or the graph. *)

\* A row that is written as merged has landed.
LEMMA RowKeeps ==
  ASSUME MergeInv, NEW p, NEW row \in Proposal, proposals' = [proposals EXCEPT ![p] = row],
         UNCHANGED graph, landed \subseteq landed',
         row.state = "merged" => <<p, row.merged>> \in landed
  PROVE  proposals' \in Seq(Proposal) /\ MergedWasLanded'
<1>1. proposals \in Seq(Proposal) /\ DOMAIN proposals' = DOMAIN proposals
  BY DEF MergeInv, MergeTypes
<1>2. \A q \in DOMAIN proposals : proposals'[q] = IF q = p THEN row ELSE proposals[q]
  BY DEF MergeInv, MergeTypes
<1>3. proposals' \in Seq(Proposal)
  <2>1. Len(proposals) \in Nat /\ proposals \in [1 .. Len(proposals) -> Proposal]
    BY <1>1, LenProperties
  <2>2. proposals' \in [1 .. Len(proposals) -> Proposal]
    BY <2>1
  <2> QED
    BY <2>1, <2>2, SeqDef
<1>4. MergedWasLanded'
  BY <1>1, <1>2 DEF MergeInv, MergedWasLanded
<1> QED
  BY <1>1, <1>2, <1>3, <1>4 DEF MergeInv

LEMMA NoRowKeeps ==
  ASSUME MergeInv, NEW p, NEW row, p \notin DOMAIN proposals, proposals' = [proposals EXCEPT ![p] = row]
  PROVE  proposals' = proposals
<1>1. proposals \in [1 .. Len(proposals) -> Proposal]
  BY LenProperties DEF MergeInv, MergeTypes
<1> QED
  BY <1>1

\* The steps that give a row another state.
LEMMA MarkKeeps ==
  ASSUME MergeInv, NEW p, NEW state \in {"approved", "stale", "merged"}, NEW m \in Nat,
         \/ /\ proposals' = [proposals EXCEPT ![p].state = state]
            /\ state # "merged"
         \/ /\ proposals' = [proposals EXCEPT ![p].state = state, ![p].merged = m]
            /\ <<p, m>> \in landed,
         UNCHANGED graph, landed \subseteq landed'
  PROVE  proposals' \in Seq(Proposal) /\ MergedWasLanded'
<1>1. CASE p \in DOMAIN proposals
  <2>1. proposals[p] \in Proposal
    BY <1>1, RowTypes DEF MergeInv
  <2>2. CASE proposals' = [proposals EXCEPT ![p].state = state] /\ state # "merged"
    <3>1. PICK row : row = [proposals[p] EXCEPT !.state = state]
      OBVIOUS
    <3>2. row \in Proposal /\ row.state = state
      BY <2>1, <3>1 DEF Proposal
    <3>3. proposals' = [proposals EXCEPT ![p] = row]
      BY <2>2, <3>1
    <3> QED
      BY <2>2, <3>2, <3>3, RowKeeps
  <2>3. CASE /\ proposals' = [proposals EXCEPT ![p].state = state, ![p].merged = m]
             /\ <<p, m>> \in landed
    <3>1. PICK row : row = [proposals[p] EXCEPT !.state = state, !.merged = m]
      OBVIOUS
    <3>2. row \in Proposal /\ row.merged = m
      BY <2>1, <3>1 DEF Proposal
    <3>3. proposals' = [proposals EXCEPT ![p] = row]
      BY <1>1, <2>3, <3>1
    <3> QED
      BY <2>3, <3>2, <3>3, RowKeeps
  <2> QED
    BY <2>2, <2>3
<1>2. CASE p \notin DOMAIN proposals
  <2>1. proposals \in [1 .. Len(proposals) -> Proposal] /\ proposals \in Seq(Proposal)
    BY LenProperties DEF MergeInv, MergeTypes
  <2>2. proposals' = proposals
    BY <1>2, <2>1
  <2> QED
    BY <2>1, <2>2 DEF MergeInv, MergedWasLanded
<1> QED
  BY <1>1, <1>2

\* What has landed is never forgotten.
Remembers == landed \subseteq landed'

LEMMA OverTakes == ASSUME NEW c \in Clients, Over(c) \/ \E from : Again(c, from)
  PROVE \E to \in {"idle", "list"} :
          /\ pc' = [pc EXCEPT ![c] = to]
          /\ copy' = [copy EXCEPT ![c] = Empty] /\ held' = [held EXCEPT ![c] = NoRow]
BY DEF Over, Again, Goes

LEMMA UpsertKeeps == ASSUME MergeInv, Remembers, NEW c \in Clients, Upsert(c) PROVE MergeInv'
<1> DEFINE pinned == Pinned(c)
           id == held[c].id
<1>1. /\ pc[c] = "upsert" /\ pc' = [pc EXCEPT ![c] = "enqueue"]
      /\ copy' = [copy EXCEPT ![c] = Empty] /\ UNCHANGED graph
  BY DEF Upsert, Goes, history
<1>2. pinned \in Proposal /\ pinned.state = "proposed"
  BY Found DEF Pinned, Proposal, Graph
<1>4. \E h : held' = [held EXCEPT ![c] = h] /\ h.pin \in Nat
  <2>1. CASE id # 0
    BY <2>1, HeldTypes DEF Upsert
  <2>2. CASE id = 0
    BY <2>2, HeldTypes DEF Upsert
  <2> QED
    BY <2>1, <2>2
<1>5. proposals' \in Seq(Proposal) /\ MergedWasLanded'
  <2>1. CASE id # 0 /\ id \in DOMAIN proposals
    <3>1. proposals[id] \in Proposal
      BY <2>1, RowTypes DEF MergeInv
    <3>2. PICK row : row = [pinned EXCEPT !.merged = proposals[id].merged]
      OBVIOUS
    <3>3. row \in Proposal /\ row.state = "proposed"
      BY <1>2, <3>1, <3>2 DEF Proposal
    <3>4. proposals' = [proposals EXCEPT ![id] = row]
      BY <2>1, <3>2 DEF Upsert
    <3> QED
      BY <1>1, <3>3, <3>4, RowKeeps DEF Remembers
  <2>2. CASE id # 0 /\ id \notin DOMAIN proposals
    <3>1. proposals' = proposals
      BY <2>2, NoRowKeeps DEF Upsert
    <3> QED
      BY <1>1, <3>1 DEF MergeInv, MergeTypes, MergedWasLanded, Remembers
  <2>3. CASE id = 0
    <3>1. proposals' = Append(proposals, pinned)
      BY <2>3 DEF Upsert
    <3>2. /\ proposals \in Seq(Proposal) /\ Len(proposals) \in Nat
          /\ DOMAIN proposals = 1 .. Len(proposals)
      BY LenProperties DEF MergeInv, MergeTypes
    <3>3. /\ proposals' \in Seq(Proposal) /\ DOMAIN proposals' = 1 .. Len(proposals) + 1
          /\ \A q \in 1 .. Len(proposals) : proposals'[q] = proposals[q]
          /\ proposals'[Len(proposals) + 1] = pinned
      BY <1>2, <3>1, <3>2
    <3>4. ASSUME NEW q \in DOMAIN proposals'
          PROVE  proposals'[q].state = "merged" => <<q, proposals'[q].merged>> \in landed
      <4>1. CASE q \in 1 .. Len(proposals)
        BY <3>2, <3>3, <4>1 DEF MergeInv, MergedWasLanded
      <4>2. CASE q = Len(proposals) + 1
        BY <1>2, <3>3, <4>2
      <4> QED
        BY <3>2, <3>3, <4>1, <4>2
    <3> QED
      BY <1>1, <3>3, <3>4 DEF MergeInv, MergedWasLanded, Remembers
  <2> QED
    BY <2>1, <2>2, <2>3
<1>6. PICK h : held' = [held EXCEPT ![c] = h] /\ h.pin \in Nat
  BY <1>4
<1>7. CommandLanded("enqueue", h)'
  BY DEF CommandLanded
<1>8. "enqueue" \in Requests /\ graph' \in Graph
  BY <1>1 DEF MergeInv, MergeTypes, Requests
<1> QED
  BY <1>1, <1>5, <1>6, <1>7, <1>8, EmptyTypes, CommandKeeps DEF Remembers

\* A row gets another state, and the command is over or goes on with the queue.
LEMMA RowWriteKeeps ==
  ASSUME MergeInv, Remembers, NEW c \in Clients, Approve(c) \/ MarkStale(c) \/ MarkMerged(c)
  PROVE  MergeInv'
<1>1. UNCHANGED graph /\ \E to \in {"idle", "list"} :
          /\ pc' = [pc EXCEPT ![c] = to]
          /\ copy' = [copy EXCEPT ![c] = Empty] /\ held' = [held EXCEPT ![c] = NoRow]
  BY OverTakes DEF Approve, MarkStale, MarkMerged, Ends, history
<1>2. PICK to \in {"idle", "list"} :
        /\ pc' = [pc EXCEPT ![c] = to]
        /\ copy' = [copy EXCEPT ![c] = Empty] /\ held' = [held EXCEPT ![c] = NoRow]
  BY <1>1
<1>3. proposals' \in Seq(Proposal) /\ MergedWasLanded'
  <2>1. CASE Approve(c)
    BY <1>1, <2>1, MarkKeeps DEF Approve, Remembers
  <2>2. CASE MarkStale(c)
    BY <1>1, <2>2, MarkKeeps DEF MarkStale, Remembers
  <2>3. CASE MarkMerged(c)
    <3>1. held[c].pin \in Nat /\ <<held[c].id, held[c].pin>> \in landed
      BY <2>3, Found DEF MarkMerged, Again, Goes, MergeInv, CommandLanded
    <3>2. proposals' = [proposals EXCEPT ![held[c].id].state = "merged", ![held[c].id].merged = held[c].pin]
      BY <2>3 DEF MarkMerged
    <3> QED
      BY <1>1, <3>1, <3>2, MarkKeeps DEF Remembers
  <2> QED
    BY <2>1, <2>2, <2>3
<1>4. graph' \in Graph
  BY <1>1 DEF MergeInv, MergeTypes
<1>5. CommandLanded(to, NoRow)' /\ to \in Requests
  BY DEF CommandLanded, Requests
<1>6. NoRow.pin \in Nat
  BY HeldTypes
<1> QED
  BY <1>1, <1>2, <1>3, <1>4, <1>5, <1>6, EmptyTypes, CommandKeeps DEF Remembers

LEMMA ReadsKeep ==
  ASSUME MergeInv, Remembers, NEW c \in Clients, Reads(c), UNCHANGED <<graph, proposals>>
  PROVE  MergeInv'
<1>0. PICK to \in Requests : \E g, h : Takes(c, to, g, h)
  BY ReadsTake
<1>1. PICK g, h : Takes(c, to, g, h)
  BY <1>0
<1>2. /\ pc' = [pc EXCEPT ![c] = to] /\ copy' = [copy EXCEPT ![c] = g] /\ held' = [held EXCEPT ![c] = h]
      /\ g \in Graph /\ h.pin \in Nat
      /\ to # "mark"
  BY <1>1 DEF Takes
<1>3. graph' \in Graph /\ proposals' \in Seq(Proposal)
  BY DEF MergeInv, MergeTypes
<1>4. MergedWasLanded' /\ CommandLanded(to, h)'
  BY <1>2 DEF MergeInv, MergedWasLanded, CommandLanded, Remembers
<1> QED
  BY <1>2, <1>3, <1>4, CommandKeeps DEF Remembers

LEMMA AdvanceKeeps ==
  ASSUME MergeInv, Remembers, NEW c \in Clients, AdvanceMain(c), <<held[c].id, held[c].pin>> \in landed'
  PROVE  MergeInv'
<1>1. /\ pc[c] = "write" /\ pc' = [pc EXCEPT ![c] = "mark"] /\ copy' = [copy EXCEPT ![c] = Empty]
      /\ UNCHANGED <<proposals, held>>
      /\ graph' = Landed(c)
  BY DEF AdvanceMain, Goes, history
<1>2. copy[c] \in Graph /\ held[c].pin \in Nat
  BY Found
<1>3. graph' \in Graph
  <2>1. CASE copy[c].active = held[c].set
    <3>1. At(copy[c].head) \in Graph
      BY <1>2 DEF At, Graph
    <3>2. graph' = [At(copy[c].head) EXCEPT !.main = held[c].pin, !.active = copy[c].active + 1]
      BY <1>1, <2>1 DEF Landed
    <3>3. copy[c].active + 1 \in Nat
      BY <1>2 DEF Graph
    <3> QED
      BY <1>2, <3>1, <3>2, <3>3 DEF Graph
  <2>2. CASE copy[c].active # held[c].set
    <3>1. graph' = [copy[c] EXCEPT !.main = held[c].pin]
      BY <1>1, <2>2 DEF Landed
    <3> QED
      BY <1>2, <3>1 DEF Graph
  <2> QED
    BY <2>1, <2>2
<1>4. proposals' \in Seq(Proposal) /\ MergedWasLanded' /\ "mark" \in Requests
  BY <1>1 DEF MergeInv, MergeTypes, Requests, MergedWasLanded, Remembers
<1>6. PICK h : h = held[c]
  OBVIOUS
<1>7. held' = [held EXCEPT ![c] = h] /\ h.pin \in Nat
  BY <1>1, <1>6, Found
<1>8. CommandLanded("mark", h)'
  BY <1>6 DEF CommandLanded
<1> QED
  BY <1>1, <1>3, <1>4, <1>7, <1>8, EmptyTypes, CommandKeeps DEF Remembers

LEMMA RevisionKeeps == ASSUME MergeInv, Remembers, Save \/ UpdateCodebase PROVE MergeInv'
<1>1. /\ UNCHANGED <<proposals, pc, copy, held>>
      /\ \/ graph' = [graph EXCEPT !.head = @ + 1, !.tip = graph.head + 1]
         \/ graph' = [graph EXCEPT !.head = @ + 1, !.main = graph.head + 1]
  BY DEF Save, UpdateCodebase, local
<1>2. graph' \in Graph
  <2>1. graph \in Graph /\ graph.head + 1 \in Nat
    BY DEF MergeInv, MergeTypes, Graph
  <2> QED
    BY <1>1, <2>1 DEF Graph
<1> QED
  BY <1>1, <1>2 DEF MergeInv, MergeTypes, MergedWasLanded, CommandLanded, Remembers

LEMMA StillKeeps ==
  ASSUME MergeInv, Remembers, UNCHANGED <<graph, proposals, pc, copy, held>> PROVE MergeInv'
BY DEF MergeInv, MergeTypes, MergedWasLanded, CommandLanded, Remembers

-------------------------------------------------------------------------------

\* The step's clauses for the history variables, and the step by its kind.
LEMMA StepSplits ==
  ASSUME MergeInv, MCNext
  PROVE  /\ Remembers
         /\ \A c \in Clients : AdvanceMain(c) => <<held[c].id, held[c].pin>> \in landed'
         /\ \/ Save \/ UpdateCodebase
            \/ UNCHANGED <<graph, proposals, pc, copy, held>>
            \/ \E c \in Clients :
                 \/ Reads(c) /\ UNCHANGED <<graph, proposals>>
                 \/ Upsert(c) \/ Approve(c) \/ MarkStale(c) \/ MarkMerged(c)
                 \/ AdvanceMain(c)
<1>3. landed' = landed \cup {<<held[c].id, held[c].pin>> : c \in {d \in Clients : pc[d] = "write" /\ AdvanceMain(d)}}
  BY DEF MCNext
<1>4. Remembers
  BY <1>3 DEF Remembers
<1>5. \A c \in Clients : AdvanceMain(c) => pc[c] = "write"
  BY DEF AdvanceMain, Goes
<1>6. \A c \in Clients : Reads(c) => UNCHANGED <<graph, proposals>>
  BY DEF Reads, ProposeReads, FindOpen, ProposeEnqueues, ApproveReads, DecideReads, Decide, ListReady,
         NothingReady, LandReads, LandReadsRow, LandReviewed, LandPasses, LandWaits, Dies, cloud, history
<1>7. Next => \/ Save \/ UpdateCodebase \/ Hosted
              \/ \E c \in Clients : \/ Reads(c) \/ Upsert(c) \/ Approve(c) \/ MarkStale(c)
                                     \/ MarkMerged(c) \/ AdvanceMain(c)
  BY DEF Next, Propose, Review, Land, Reads
<1>8. Hosted => UNCHANGED <<graph, proposals, pc, copy, held>>
  BY DEF Hosted, local, history
<1> QED
  BY <1>3, <1>4, <1>5, <1>6, <1>7, <1>8 DEF MCNext

LEMMA StepKeeps == MergeInv /\ [MCNext]_mcvars => MergeInv'
<1> SUFFICES ASSUME MergeInv, [MCNext]_mcvars PROVE MergeInv'
  OBVIOUS
<1>1. CASE UNCHANGED mcvars
  <2>1. Remembers /\ UNCHANGED <<graph, proposals, pc, copy, held>>
    BY <1>1 DEF mcvars, vars, cloud, history, local, Remembers, MergeInv, MergeTypes
  <2> QED
    BY <2>1, StillKeeps
<1>2. CASE MCNext
  BY <1>2, StepSplits, RevisionKeeps, StillKeeps, ReadsKeep, UpsertKeeps, RowWriteKeeps, AdvanceKeeps
<1> QED
  BY <1>1, <1>2

LEMMA InvHolds == MCSpec => []MergeInv
BY InitEstablishes, StepKeeps, PTL DEF MCSpec

\* What a row says was merged is a pin that Main has been at: only a landing that has
\* moved Main marks its row, and a row that is pinned anew is not merged.
THEOREM MergedAlwaysWasLanded == MCSpec => []MergedWasLanded
<1>1. MergeInv => MergedWasLanded
  BY DEF MergeInv
<1> QED
  BY <1>1, InvHolds, PTL

-------------------------------------------------------------------------------
(* What lands was approved at its pin. *)

Decision(X) == [of : X, rev : Nat, ok : BOOLEAN]

\* The decisions are rows, and of those of a proposal one is the latest.
DecisionsInv ==
  /\ \E X : decisions \in Seq(Decision(X))
  /\ \A p : Of(p) = {} \/ Latest(p) # {}

\* An approved row that nobody has reviewed was approved at its pin by a command.
RowsApproved ==
  \A p \in DOMAIN proposals :
    proposals[p].state = "approved" => Of(p) # {} \/ <<p, proposals[p].pin>> \in selfApproved

PinApproved(h) ==
  \/ \E i \in DOMAIN decisions : decisions[i] = [of |-> h.id, rev |-> h.pin, ok |-> TRUE]
  \/ <<h.id, h.pin>> \in selfApproved

\* What has been approved when a command is at a request for a row it has read.
CommandApproved(at, h) ==
  /\ at = "accept" => Of(h.id) # {}
  /\ at = "decision" => Of(h.id) # {} \/ <<h.id, h.pin>> \in selfApproved
  /\ at \in {"ci", "write"} => PinApproved(h)

ApprovalInv ==
  /\ DecisionsInv /\ RowsApproved
  /\ \A c \in Clients : CommandApproved(pc[c], held[c])

\* Decisions and approvals are only added to.
Grows ==
  /\ DOMAIN decisions \subseteq DOMAIN decisions'
  /\ \A i \in DOMAIN decisions : decisions'[i] = decisions[i]
  /\ selfApproved \subseteq selfApproved'

LEMMA OfGrows == ASSUME Grows, NEW p PROVE Of(p) \subseteq Of(p)'
BY DEF Grows, Of

LEMMA ApprovedStays ==
  ASSUME Grows, NEW at, NEW h, CommandApproved(at, h) PROVE CommandApproved(at, h)'
<1>1. Of(h.id) # {} => Of(h.id)' # {}
  BY OfGrows
<1>2. PinApproved(h) => PinApproved(h)'
  BY DEF PinApproved, Grows
<1> QED
  BY <1>1, <1>2 DEF CommandApproved, Grows

LEMMA AllApproved ==
  ASSUME MergeTypes, Grows, \A d \in Clients : CommandApproved(pc[d], held[d]),
         NEW c \in Clients, NEW to, NEW h,
         pc' = [pc EXCEPT ![c] = to], held' = [held EXCEPT ![c] = h], CommandApproved(to, h)'
  PROVE  \A d \in Clients : CommandApproved(pc[d], held[d])'
<1> SUFFICES ASSUME NEW d \in Clients PROVE CommandApproved(pc[d], held[d])'
  OBVIOUS
<1>1. CASE d = c
  <2>1. pc'[d] = to /\ held'[d] = h
    BY <1>1 DEF MergeTypes
  <2> QED
    BY <2>1 DEF CommandApproved, PinApproved
<1>2. CASE d # c
  <2>1. pc'[d] = pc[d] /\ held'[d] = held[d]
    BY <1>2 DEF MergeTypes
  <2>2. CommandApproved(pc[d], held[d])
    OBVIOUS
  <2>3. \A at, g : CommandApproved(at, g) => CommandApproved(at, g)'
    BY ApprovedStays
  <2> QED
    BY <2>1, <2>2, <2>3 DEF CommandApproved, PinApproved
<1> QED
  BY <1>1, <1>2

\* A row that is new or written is not approved, or was reviewed, or approved just now.
LEMMA RowsStayApproved ==
  ASSUME RowsApproved, Grows,
         \A p \in DOMAIN proposals' :
           \/ p \in DOMAIN proposals /\ proposals'[p] = proposals[p]
           \/ proposals'[p].state # "approved"
           \/ Of(p) # {} \/ <<p, proposals'[p].pin>> \in selfApproved'
  PROVE  RowsApproved'
<1>1. \A p : Of(p) # {} => Of(p)' # {}
  BY OfGrows
<1> QED
  BY <1>1 DEF RowsApproved, Grows

\* A decision is inserted.
LEMMA DecisionInserted ==
  ASSUME DecisionsInv, NEW d, NEW p, d.of = p, d.rev \in Nat, d.ok \in BOOLEAN,
         d = [of |-> p, rev |-> d.rev, ok |-> d.ok],
         decisions' = Append(decisions, d)
  PROVE  /\ DecisionsInv'
         /\ DOMAIN decisions \subseteq DOMAIN decisions'
         /\ \A i \in DOMAIN decisions : decisions'[i] = decisions[i]
         /\ Of(p)' # {}
<1>1. PICK X : decisions \in Seq(Decision(X))
  BY DEF DecisionsInv
<1> DEFINE n == Len(decisions)
           Y == X \cup {p}
<1>2. n \in Nat /\ DOMAIN decisions = 1 .. n /\ decisions \in [1 .. n -> Decision(X)]
  BY <1>1, LenProperties
<1>3. Decision(X) \subseteq Decision(Y) /\ d \in Decision(Y)
  BY DEF Decision
<1>4. decisions \in Seq(Decision(Y))
  <2>1. decisions \in [1 .. n -> Decision(Y)]
    BY <1>2, <1>3
  <2> QED
    BY <1>2, <2>1, SeqDef
<1>5. /\ decisions' \in Seq(Decision(Y)) /\ DOMAIN decisions' = 1 .. n + 1
      /\ \A i \in 1 .. n : decisions'[i] = decisions[i]
      /\ decisions'[n + 1] = d
  BY <1>2, <1>3, <1>4
<1>6. Of(p)' # {} /\ Latest(p)' # {}
  <2>1. n + 1 \in Of(p)' /\ \A j \in Of(p)' : j <= n + 1
    BY <1>2, <1>5 DEF Of
  <2> QED
    BY <2>1 DEF Latest
<1>7. ASSUME NEW q, q # p PROVE Of(q)' = {} \/ Latest(q)' # {}
  <2>1. Of(q)' = Of(q)
    BY <1>2, <1>5, <1>7 DEF Of
  <2>2. Latest(q)' = Latest(q)
    BY <2>1 DEF Latest
  <2> QED
    BY <2>1, <2>2 DEF DecisionsInv
<1>8. DecisionsInv'
  BY <1>5, <1>6, <1>7 DEF DecisionsInv
<1> QED
  BY <1>2, <1>5, <1>6, <1>8

\* The latest decision on a proposal approves the pin, or nobody has reviewed it.
LEMMA ReviewedApproves ==
  ASSUME DecisionsInv, NEW c \in Clients, Reviewed(c), CommandApproved("decision", held[c])
  PROVE  PinApproved(held[c])
<1> DEFINE h == held[c]
<1>1. CASE Of(h.id) = {}
  BY <1>1 DEF CommandApproved, PinApproved
<1>2. CASE Of(h.id) # {}
  <2>1. PICK i : i \in Latest(h.id)
    BY <1>2 DEF DecisionsInv
  <2>2. i \in DOMAIN decisions /\ decisions[i].of = h.id /\ decisions[i].ok /\ decisions[i].rev = h.pin
    BY <2>1 DEF Latest, Of, Reviewed
  <2>3. PICK X : decisions \in Seq(Decision(X))
    BY DEF DecisionsInv
  <2>4. decisions[i] \in Decision(X)
    <3>1. DOMAIN decisions = 1 .. Len(decisions) /\ decisions \in [1 .. Len(decisions) -> Decision(X)]
      BY <2>3, LenProperties
    <3> QED
      BY <2>2, <3>1
  <2>5. decisions[i] = [of |-> h.id, rev |-> h.pin, ok |-> TRUE]
    BY <2>2, <2>4 DEF Decision
  <2> QED
    BY <2>2, <2>5 DEF PinApproved
<1> QED
  BY <1>1, <1>2

\* Where a step takes a command, with what has been approved.
Follows(c, to, h) ==
  pc' = [pc EXCEPT ![c] = to] /\ held' = [held EXCEPT ![c] = h] /\ CommandApproved(to, h)'

LEMMA NothingToApprove ==
  ASSUME NEW at, NEW h, at \notin {"accept", "decision", "ci", "write"} PROVE CommandApproved(at, h)'
BY DEF CommandApproved

LEMMA StepFollows ==
  ASSUME MergeInv, ApprovalInv, Grows, NEW c \in Clients,
         Reads(c) \/ Upsert(c) \/ Approve(c) \/ MarkStale(c) \/ MarkMerged(c) \/ AdvanceMain(c)
  PROVE  \E to, h : Follows(c, to, h)
<1>0. held = [held EXCEPT ![c] = held[c]] /\ CommandApproved(pc[c], held[c])
  BY Found DEF ApprovalInv
<1>1. ASSUME Over(c) \/ \E from : Again(c, from) PROVE \E to, h : Follows(c, to, h)
  <2>1. PICK to \in {"idle", "list"} : pc' = [pc EXCEPT ![c] = to] /\ held' = [held EXCEPT ![c] = NoRow]
    BY <1>1, OverTakes
  <2>2. Follows(c, to, NoRow)
    BY <2>1, NothingToApprove DEF Follows
  <2> QED
    BY <2>2
<1>2. CASE \/ NothingReady(c) \/ LandWaits(c) \/ Dies(c)
           \/ Approve(c) \/ MarkStale(c) \/ MarkMerged(c)
  BY <1>1, <1>2 DEF NothingReady, LandWaits, Dies, Ends, Approve, MarkStale, MarkMerged
<1>3. ASSUME NEW from, NEW to, to \notin {"accept", "decision", "ci", "write"},
             Goes(c, from, to), \E h : held' = [held EXCEPT ![c] = h]
      PROVE  \E at, h : Follows(c, at, h)
  <2>1. PICK h : held' = [held EXCEPT ![c] = h]
    BY <1>3
  <2>2. Follows(c, to, h)
    BY <1>3, <2>1, NothingToApprove DEF Follows, Goes
  <2> QED
    BY <2>2
<1>4. CASE \/ ProposeReads(c) \/ FindOpen(c) \/ Upsert(c) \/ ApproveReads(c) \/ DecideReads(c)
           \/ ListReady(c) \/ LandReads(c) \/ AdvanceMain(c)
  <2>1. CASE ProposeReads(c)
    BY <1>3, <2>1 DEF ProposeReads
  <2>2. CASE FindOpen(c)
    BY <1>0, <1>3, <2>2 DEF FindOpen
  <2>3. CASE Upsert(c)
    BY <1>3, <2>3 DEF Upsert
  <2>4. CASE ApproveReads(c)
    BY <1>3, <2>4 DEF ApproveReads
  <2>5. CASE DecideReads(c)
    BY <1>3, <2>5 DEF DecideReads
  <2>6. CASE ListReady(c)
    BY <1>3, <2>6 DEF ListReady
  <2>7. CASE LandReads(c) \/ AdvanceMain(c)
    BY <1>0, <1>3, <2>7 DEF LandReads, AdvanceMain
  <2> QED
    BY <1>4, <2>1, <2>2, <2>3, <2>4, <2>5, <2>6, <2>7
<1>5. CASE ProposeEnqueues(c)
  BY <1>0, <1>1, <1>3, <1>5 DEF ProposeEnqueues, Ends
<1>6. CASE Decide(c)
  <2>1. CASE Ends(c, "decide")
    BY <1>1, <2>1 DEF Ends
  <2>2. CASE Goes(c, "decide", "accept") /\ UNCHANGED <<copy, held>>
    <3>1. PICK h : h = held[c]
      OBVIOUS
    <3>2. PICK d : /\ d.of = h.id /\ d.rev = h.pin /\ d.ok \in BOOLEAN
                   /\ d = [of |-> h.id, rev |-> d.rev, ok |-> d.ok]
                   /\ decisions' = Append(decisions, d)
      BY <1>6, <3>1 DEF Decide
    <3>3. d.rev \in Nat
      BY <3>1, <3>2, Found
    <3>4. Of(h.id)' # {}
      BY <3>2, <3>3, DecisionInserted DEF ApprovalInv
    <3>5. CommandApproved("accept", h)'
      BY <3>4 DEF CommandApproved
    <3>6. pc' = [pc EXCEPT ![c] = "accept"] /\ held' = [held EXCEPT ![c] = h]
      BY <1>0, <2>2, <3>1 DEF Goes
    <3>7. Follows(c, "accept", h)
      BY <3>5, <3>6 DEF Follows
    <3> QED
      BY <3>7
  <2> QED
    BY <1>6, <2>1, <2>2 DEF Decide
<1>7. CASE LandReadsRow(c)
  <2>1. CASE Ends(c, "row")
    BY <1>1, <2>1 DEF Ends
  <2>2. CASE /\ Goes(c, "row", "decision") /\ Ready(held[c].id)
             /\ held' = [held EXCEPT ![c] = Row(held[c].id)]
    <3>1. PICK h : h = Row(held[c].id)
      OBVIOUS
    <3>2. CommandApproved("decision", h)
      BY <2>2, <3>1 DEF Ready, Row, ApprovalInv, RowsApproved, CommandApproved
    <3>3. Follows(c, "decision", h)
      BY <2>2, <3>1, <3>2, ApprovedStays DEF Follows, Goes
    <3> QED
      BY <3>3
  <2> QED
    BY <1>7, <2>1, <2>2 DEF LandReadsRow
<1>8. ASSUME NEW to, pc' = [pc EXCEPT ![c] = to], UNCHANGED held, CommandApproved(to, held[c])
      PROVE  \E at, h : Follows(c, at, h)
  <2>1. PICK h : h = held[c]
    OBVIOUS
  <2>2. Follows(c, to, h)
    BY <1>0, <1>8, <2>1, ApprovedStays DEF Follows
  <2> QED
    BY <2>2
<1>9. CASE LandReviewed(c)
  <2>1. /\ pc[c] = "decision" /\ UNCHANGED held
        /\ pc' = [pc EXCEPT ![c] = IF Reviewed(c) THEN "ci" ELSE "stale"]
    BY <1>9 DEF LandReviewed, Goes
  <2>2. Reviewed(c) => CommandApproved("ci", held[c])
    BY <1>0, <2>1, ReviewedApproves DEF ApprovalInv, CommandApproved
  <2>3. CommandApproved("stale", held[c])
    BY DEF CommandApproved
  <2> QED
    BY <1>8, <2>1, <2>2, <2>3
<1>10. CASE LandPasses(c)
  <2>1. /\ pc[c] = "ci" /\ UNCHANGED held
        /\ pc' = [pc EXCEPT ![c] = IF Overlaps(c) THEN "stale" ELSE "write"]
    BY <1>10 DEF LandPasses, Goes
  <2>2. CommandApproved("stale", held[c]) /\ CommandApproved("write", held[c])
    BY <1>0, <2>1 DEF CommandApproved
  <2> QED
    BY <1>8, <2>1, <2>2
<1> QED
  BY <1>2, <1>4, <1>5, <1>6, <1>7, <1>9, <1>10 DEF Reads

\* A step inserts at most one decision, and keeps what was approved.
LEMMA StepGrows == ASSUME MergeInv, ApprovalInv, MCNext PROVE Grows /\ DecisionsInv'
<1>1. selfApproved \subseteq selfApproved'
  BY DEF MCNext
<1>2. CASE UNCHANGED decisions
  <2>1. DecisionsInv'
    BY <1>2 DEF ApprovalInv, DecisionsInv, Of, Latest
  <2> QED
    BY <1>1, <1>2, <2>1 DEF Grows
<1>3. ASSUME NEW c \in Clients, Decide(c) PROVE Grows /\ DecisionsInv'
  <2>1. PICK d, p : /\ d.of = p /\ d.rev = held[c].pin /\ d.ok \in BOOLEAN
                    /\ d = [of |-> p, rev |-> d.rev, ok |-> d.ok]
                    /\ decisions' = Append(decisions, d)
    BY <1>3 DEF Decide
  <2>2. d.rev \in Nat
    BY <2>1, Found
  <2> QED
    BY <1>1, <2>1, <2>2, DecisionInserted DEF Grows, ApprovalInv
<1>4. UNCHANGED decisions \/ \E c \in Clients : Decide(c)
  BY DEF MCNext, Next, Save, Hosted, Propose, Review, Land, ProposeReads, FindOpen, Upsert, ProposeEnqueues,
         ApproveReads, DecideReads, Approve, ListReady, NothingReady, LandReads, LandReadsRow,
         LandReviewed, LandPasses, LandWaits, MarkStale, AdvanceMain, MarkMerged, Dies, cloud, UpdateCodebase
<1> QED
  BY <1>2, <1>3, <1>4

LEMMA UpsertRows == ASSUME MergeInv, ApprovalInv, Grows, NEW c \in Clients, Upsert(c) PROVE RowsApproved'
<1> DEFINE id == held[c].id
<1>1. Pinned(c).state = "proposed"
  BY DEF Pinned
<1>2. CASE id # 0
  <2>1. PICK row : row = [Pinned(c) EXCEPT !.merged = proposals[id].merged]
    OBVIOUS
  <2>2. proposals' = [proposals EXCEPT ![id] = row] /\ row.state = "proposed"
    BY <1>2, <2>1 DEF Upsert, Pinned
  <2>3. \A p \in DOMAIN proposals' :
          \/ p \in DOMAIN proposals /\ proposals'[p] = proposals[p]
          \/ proposals'[p].state # "approved"
    BY <2>2 DEF MergeInv, MergeTypes
  <2> QED
    BY <2>3, RowsStayApproved DEF ApprovalInv
<1>3. CASE id = 0
  <2>1. proposals' = Append(proposals, Pinned(c)) /\ proposals \in Seq(Proposal)
    BY <1>3 DEF Upsert, MergeInv, MergeTypes
  <2>2. /\ Len(proposals) \in Nat /\ DOMAIN proposals = 1 .. Len(proposals)
    BY <2>1, LenProperties
  <2>3. /\ DOMAIN proposals' = 1 .. Len(proposals) + 1
        /\ \A q \in 1 .. Len(proposals) : proposals'[q] = proposals[q]
        /\ proposals'[Len(proposals) + 1] = Pinned(c)
    BY <2>1, <2>2, Found DEF Pinned, Proposal, Graph
  <2>4. \A p \in DOMAIN proposals' :
          \/ p \in DOMAIN proposals /\ proposals'[p] = proposals[p]
          \/ proposals'[p].state # "approved"
    <3> SUFFICES ASSUME NEW p \in DOMAIN proposals', p \notin 1 .. Len(proposals)
                 PROVE  proposals'[p].state # "approved"
      BY <2>2, <2>3
    <3>1. p = Len(proposals) + 1
      BY <2>2, <2>3
    <3> QED
      BY <1>1, <2>3, <3>1
  <2> QED
    BY <2>4, RowsStayApproved DEF ApprovalInv
<1> QED
  BY <1>2, <1>3

LEMMA ApproveRows ==
  ASSUME MergeInv, ApprovalInv, Grows, MCNext, NEW c \in Clients, Approve(c) PROVE RowsApproved'
<1> DEFINE id == held[c].id
<1>1. proposals' = [proposals EXCEPT ![id].state = "approved"]
  BY DEF Approve
<1>2. pc[c] \in {"approve", "accept"}
  BY DEF Approve, Ends, Again, Goes
<1>3. CommandApproved(pc[c], held[c])
  BY DEF ApprovalInv
<1>4. Of(id) # {} \/ <<id, proposals[id].pin>> \in selfApproved'
  <2>1. CASE pc[c] = "accept"
    BY <1>3, <2>1 DEF CommandApproved
  <2>2. CASE pc[c] = "approve" /\ Of(id) = {}
    BY <2>2 DEF MCNext
  <2> QED
    BY <1>2, <2>1, <2>2
<1>5. proposals \in Seq(Proposal) /\ DOMAIN proposals' = DOMAIN proposals
  BY <1>1 DEF MergeInv, MergeTypes
<1>6. ASSUME NEW p \in DOMAIN proposals'
      PROVE  \/ proposals'[p] = proposals[p]
             \/ Of(p) # {} \/ <<p, proposals'[p].pin>> \in selfApproved'
  <2>1. CASE p = id
    <3>1. proposals[p] \in Proposal
      BY <1>5, <1>6, RowTypes DEF MergeInv
    <3>2. proposals'[p].pin = proposals[p].pin
      BY <1>1, <1>5, <2>1, <3>1 DEF Proposal
    <3> QED
      BY <1>4, <2>1, <3>2
  <2>2. CASE p # id
    BY <1>1, <1>5, <2>2
  <2> QED
    BY <2>1, <2>2
<1> QED
  BY <1>5, <1>6, RowsStayApproved DEF ApprovalInv

LEMMA MarkRows ==
  ASSUME MergeInv, ApprovalInv, Grows, NEW c \in Clients, MarkStale(c) \/ MarkMerged(c)
  PROVE  RowsApproved'
<1> DEFINE id == held[c].id
<1>1. PICK state \in {"stale", "merged"}, m \in {held[c].pin} :
        \/ proposals' = [proposals EXCEPT ![id].state = state]
        \/ proposals' = [proposals EXCEPT ![id].state = state, ![id].merged = m]
  BY DEF MarkStale, MarkMerged
<1>2. proposals \in Seq(Proposal) /\ DOMAIN proposals' = DOMAIN proposals
  BY <1>1 DEF MergeInv, MergeTypes
<1>3. ASSUME NEW p \in DOMAIN proposals'
      PROVE  proposals'[p] = proposals[p] \/ proposals'[p].state # "approved"
  <2>1. CASE p = id
    <3>1. proposals[p] \in Proposal
      BY <1>2, <1>3, RowTypes DEF MergeInv
    <3>2. \/ proposals'[p] = [proposals[p] EXCEPT !.state = state]
          \/ proposals'[p] = [proposals[p] EXCEPT !.state = state, !.merged = m]
      BY <1>1, <1>2, <1>3, <2>1
    <3> QED
      BY <3>1, <3>2 DEF Proposal
  <2>2. CASE p # id
    BY <1>1, <1>2, <2>2
  <2> QED
    BY <2>1, <2>2
<1> QED
  BY <1>2, <1>3, RowsStayApproved DEF ApprovalInv

LEMMA ApprovalStep == MergeInv /\ ApprovalInv /\ [MCNext]_mcvars => ApprovalInv'
<1> SUFFICES ASSUME MergeInv, ApprovalInv, [MCNext]_mcvars PROVE ApprovalInv'
  OBVIOUS
<1>1. CASE UNCHANGED mcvars
  <2>1. UNCHANGED <<proposals, decisions, pc, held, selfApproved>>
    BY <1>1 DEF mcvars, vars, cloud, local
  <2> QED
    BY <2>1 DEF ApprovalInv, DecisionsInv, RowsApproved, CommandApproved, PinApproved, Of, Latest
<1>2. CASE MCNext
  <2>1. Grows /\ DecisionsInv'
    BY <1>2, StepGrows
  <2>2. ASSUME UNCHANGED proposals PROVE RowsApproved'
    BY <2>1, <2>2, RowsStayApproved DEF ApprovalInv
  <2>3. CASE Save \/ UpdateCodebase \/ UNCHANGED <<graph, proposals, pc, copy, held>>
    <3>1. UNCHANGED <<proposals, pc, held>>
      BY <2>3 DEF Save, UpdateCodebase, local
    <3>2. \A c \in Clients : CommandApproved(pc[c], held[c])'
      <4> SUFFICES ASSUME NEW c \in Clients PROVE CommandApproved(pc[c], held[c])'
        OBVIOUS
      <4>1. \A at, h : CommandApproved(at, h) => CommandApproved(at, h)'
        BY <2>1, ApprovedStays
      <4> QED
        BY <3>1, <4>1 DEF ApprovalInv, CommandApproved, PinApproved
    <3> QED
      BY <2>1, <2>2, <3>1, <3>2 DEF ApprovalInv
  <2>4. ASSUME NEW c \in Clients,
               \/ Reads(c) /\ UNCHANGED <<graph, proposals>>
               \/ Upsert(c) \/ Approve(c) \/ MarkStale(c) \/ MarkMerged(c)
               \/ AdvanceMain(c)
        PROVE  ApprovalInv'
    <3>1. PICK to, h : Follows(c, to, h)
      BY <2>1, <2>4, StepFollows
    <3>2. \A d \in Clients : CommandApproved(pc[d], held[d])'
      BY <2>1, <3>1, AllApproved DEF Follows, ApprovalInv, MergeInv
    <3>3. RowsApproved'
      BY <1>2, <2>1, <2>2, <2>4, UpsertRows, ApproveRows, MarkRows DEF AdvanceMain
    <3> QED
      BY <2>1, <3>2, <3>3 DEF ApprovalInv
  <2> QED
    BY <1>2, <2>3, <2>4, StepSplits
<1> QED
  BY <1>1, <1>2

\* A landing takes to Main only a revision that was approved at this pin, by its latest
\* review or before there was any, whatever is pinned anew between the requests.
THEOREM OnlyApprovedPinsAlwaysLand == MCSpec => OnlyApprovedPinsLand
<1>1. MCInit => ApprovalInv
  <2> SUFFICES ASSUME MCInit PROVE ApprovalInv
    OBVIOUS
  <2>1. decisions = <<>> /\ proposals = <<>> /\ \A c \in Clients : pc[c] = "idle"
    BY DEF MCInit, Init
  <2>2. \E X : decisions \in Seq(Decision(X))
    BY <2>1
  <2>3. \A p : Of(p) = {}
    BY <2>1 DEF Of
  <2> QED
    BY <2>1, <2>2, <2>3 DEF ApprovalInv, DecisionsInv, RowsApproved, CommandApproved
<1>2. MergeInv /\ ApprovalInv /\ [MCNext]_mcvars =>
        [\A c \in Clients : pc[c] = "write" /\ AdvanceMain(c) =>
           \/ \E i \in DOMAIN decisions :
                decisions[i] = [of |-> held[c].id, rev |-> graph'.main, ok |-> TRUE]
           \/ <<held[c].id, graph'.main>> \in selfApproved]_mcvars
  <2> SUFFICES ASSUME MergeInv, ApprovalInv, NEW c \in Clients, pc[c] = "write", AdvanceMain(c)
               PROVE  \/ \E i \in DOMAIN decisions :
                           decisions[i] = [of |-> held[c].id, rev |-> graph'.main, ok |-> TRUE]
                      \/ <<held[c].id, graph'.main>> \in selfApproved
    OBVIOUS
  <2>1. graph'.main = held[c].pin
    <3>1. graph' = Landed(c) /\ copy[c] \in Graph
      BY Found DEF AdvanceMain
    <3> QED
      BY <3>1 DEF Landed, At, Graph
  <2>2. PinApproved(held[c])
    BY DEF ApprovalInv, CommandApproved
  <2> QED
    BY <2>1, <2>2 DEF PinApproved
<1> QED
  BY <1>1, <1>2, InvHolds, ApprovalStep, PTL DEF MCSpec, OnlyApprovedPinsLand

-------------------------------------------------------------------------------
(* No run of the queue takes a proposal up again. *)

\* A proposal is in the queue once.
QueueOnce ==
  /\ \E X : queue \in Seq(X)
  /\ \A i, j \in DOMAIN queue : queue[i] = queue[j] => i = j

\* The requests of a run between two listings.
Landing == {"land", "row", "decision", "ci", "stale", "write", "mark"}

\* What a run has taken up is no longer in the queue, or the run is still about it.
TakenInv ==
  /\ QueueOnce
  /\ taken = [c \in Clients |-> taken[c]]
  /\ \A c \in Clients : \A p \in taken[c] : Queued(p) => pc[c] \in Landing /\ held[c].id = p

LEMMA WithoutIt ==
  ASSUME QueueOnce, NEW p, NEW X, queue \in Seq(X)
  PROVE  /\ Without(p) \in Seq(X)
         /\ \A i \in DOMAIN Without(p) : Without(p)[i] # p /\ Queued(Without(p)[i])
         /\ \A i, j \in DOMAIN Without(p) : Without(p)[i] = Without(p)[j] => i = j
<1> DEFINE n == Len(queue)
           k == Place(p)
<1>1. n \in Nat /\ DOMAIN queue = 1 .. n /\ queue \in [1 .. n -> X]
  BY LenProperties
<1>2. CASE ~Queued(p)
  <2>1. Without(p) = queue
    BY <1>2 DEF Without
  <2> QED
    BY <1>2, <2>1 DEF Queued, QueueOnce
<1>3. CASE Queued(p)
  <2>1. k \in 1 .. n /\ queue[k] = p
    BY <1>1, <1>3 DEF Queued, Place
  <2>2. Without(p) = SubSeq(queue, 1, k - 1) \o SubSeq(queue, k + 1, n)
    BY <1>3 DEF Without
  <2> HIDE DEF k
  <2>3. /\ SubSeq(queue, 1, k - 1) \in Seq(X) /\ Len(SubSeq(queue, 1, k - 1)) = k - 1
        /\ \A i \in 1 .. k - 1 : SubSeq(queue, 1, k - 1)[i] = queue[i]
    BY <1>1, <2>1
  <2>4. /\ SubSeq(queue, k + 1, n) \in Seq(X) /\ Len(SubSeq(queue, k + 1, n)) = n - k
        /\ \A i \in 1 .. n - k : SubSeq(queue, k + 1, n)[i] = queue[k + i]
    <3>1. k + 1 \in 1 .. n + 1 /\ n \in k .. n /\ n - (k + 1) + 1 = n - k
      BY <1>1, <2>1
    <3>2. /\ SubSeq(queue, k + 1, n) \in Seq(X)
          /\ Len(SubSeq(queue, k + 1, n)) = IF k + 1 <= n THEN n - (k + 1) + 1 ELSE 0
          /\ \A i \in 1 .. n - (k + 1) + 1 : SubSeq(queue, k + 1, n)[i] = queue[(k + 1) + i - 1]
      BY <1>1, <3>1, SubSeqProperties
    <3>3. Len(SubSeq(queue, k + 1, n)) = n - k
      <4>1. CASE k + 1 <= n
        BY <3>1, <3>2, <4>1
      <4>2. CASE ~(k + 1 <= n)
        <5>1. n \in Int /\ k \in Int /\ k <= n
          BY <1>1, <2>1
        <5>2. n - k = 0
          BY <4>2, <5>1
        <5> QED
          BY <3>2, <4>2, <5>2
      <4> QED
        BY <4>1, <4>2
    <3>4. ASSUME NEW i \in 1 .. n - k PROVE SubSeq(queue, k + 1, n)[i] = queue[k + i]
      <4>1. (k + 1) + i - 1 = k + i
        BY <1>1, <2>1
      <4>2. SubSeq(queue, k + 1, n)[i] = queue[(k + 1) + i - 1]
        BY <3>1, <3>2
      <4> QED
        BY <4>1, <4>2
    <3> QED
      BY <3>2, <3>3, <3>4
  <2>5. /\ Without(p) \in Seq(X) /\ Len(Without(p)) = n - 1
        /\ \A i \in 1 .. n - 1 : Without(p)[i] = IF i < k THEN queue[i] ELSE queue[i + 1]
    <3> DEFINE a == SubSeq(queue, 1, k - 1)
               b == SubSeq(queue, k + 1, n)
    <3> HIDE DEF a, b
    <3>1. /\ a \o b \in Seq(X) /\ Len(a \o b) = Len(a) + Len(b)
          /\ \A i \in 1 .. Len(a) + Len(b) : (a \o b)[i] = IF i <= Len(a) THEN a[i] ELSE b[i - Len(a)]
      BY <2>3, <2>4, ConcatProperties DEF a, b
    <3>2. /\ Len(a) = k - 1 /\ Len(b) = n - k
          /\ \A i \in 1 .. k - 1 : a[i] = queue[i]
          /\ \A i \in 1 .. n - k : b[i] = queue[k + i]
      BY <2>3, <2>4 DEF a, b
    <3>3. ASSUME NEW i \in 1 .. n - 1 PROVE (a \o b)[i] = IF i < k THEN queue[i] ELSE queue[i + 1]
      <4>1. CASE i < k
        BY <1>1, <2>1, <3>1, <3>2, <4>1
      <4>2. CASE ~(i < k)
        <5>1. i - (k - 1) \in 1 .. n - k /\ k + (i - (k - 1)) = i + 1 /\ ~(i <= Len(a))
          BY <1>1, <2>1, <3>2, <4>2
        <5>2. b[i - (k - 1)] = queue[i + 1]
          BY <3>2, <5>1
        <5>3. i \in 1 .. Len(a) + Len(b)
          BY <1>1, <2>1, <3>2
        <5> QED
          BY <3>1, <3>2, <4>2, <5>1, <5>2, <5>3
      <4> QED
        BY <4>1, <4>2
    <3>4. Without(p) = a \o b
      BY <2>2 DEF a, b
    <3>5. Len(a \o b) = n - 1
      BY <1>1, <2>1, <3>1, <3>2
    <3> QED
      BY <3>1, <3>3, <3>4, <3>5
  <2>6. DOMAIN Without(p) = 1 .. n - 1
    BY <1>1, <2>1, <2>5, LenProperties
  <2>7. ASSUME NEW i \in 1 .. n - 1
        PROVE  \E at \in 1 .. n : Without(p)[i] = queue[at] /\ at # k /\ at = IF i < k THEN i ELSE i + 1
    BY <1>1, <2>1, <2>5, <2>7
  <2>8. ASSUME NEW i \in 1 .. n - 1 PROVE Without(p)[i] # p /\ Queued(Without(p)[i])
    BY <1>1, <2>1, <2>7, <2>8 DEF QueueOnce, Queued
  <2>9. ASSUME NEW i \in 1 .. n - 1, NEW j \in 1 .. n - 1, Without(p)[i] = Without(p)[j] PROVE i = j
    <3>1. PICK a \in 1 .. n : Without(p)[i] = queue[a] /\ a = IF i < k THEN i ELSE i + 1
      BY <2>7
    <3>2. PICK b \in 1 .. n : Without(p)[j] = queue[b] /\ b = IF j < k THEN j ELSE j + 1
      BY <2>7
    <3>3. a = b
      BY <1>1, <2>9, <3>1, <3>2 DEF QueueOnce
    <3> QED
      BY <1>1, <2>1, <3>1, <3>2, <3>3
  <2> QED
    BY <2>5, <2>6, <2>8, <2>9
<1> QED
  BY <1>2, <1>3

\* The row is appended that has been taken out.
LEMMA AppendedOnce ==
  ASSUME QueueOnce, NEW p, queue' = Append(Without(p), p)
  PROVE  QueueOnce' /\ \A q : Queued(q)' => q = p \/ Queued(q)
<1>1. PICK X : queue \in Seq(X)
  BY DEF QueueOnce
<1> DEFINE s == Without(p)
           n == Len(s)
<1>2. /\ s \in Seq(X) /\ n \in Nat /\ DOMAIN s = 1 .. n /\ s \in [1 .. n -> X]
      /\ \A i \in 1 .. n : s[i] # p /\ Queued(s[i])
      /\ \A i, j \in 1 .. n : s[i] = s[j] => i = j
  BY <1>1, WithoutIt, LenProperties
<1> HIDE DEF s
<1>3. s \in Seq(X \cup {p})
  <2>1. s \in [1 .. n -> X \cup {p}]
    BY <1>2
  <2> QED
    BY <1>2, <2>1, SeqDef
<1>4. /\ queue' \in Seq(X \cup {p}) /\ DOMAIN queue' = 1 .. n + 1
      /\ \A i \in 1 .. n : queue'[i] = s[i]
      /\ queue'[n + 1] = p
  BY <1>2, <1>3 DEF s
<1>5. ASSUME NEW i \in 1 .. n + 1, NEW j \in 1 .. n + 1, queue'[i] = queue'[j] PROVE i = j
  BY <1>2, <1>4, <1>5
<1>6. ASSUME NEW q, Queued(q)' PROVE q = p \/ Queued(q)
  <2>1. PICK i \in 1 .. n + 1 : queue'[i] = q
    BY <1>4, <1>6 DEF Queued
  <2>2. i = n + 1 \/ i \in 1 .. n
    BY <1>2
  <2> QED
    BY <1>2, <1>4, <2>1, <2>2
<1> QED
  BY <1>4, <1>5, <1>6 DEF QueueOnce

\* A row comes into the queue by an approval only.
LEMMA QueueKeeps ==
  ASSUME QueueOnce, MCNext PROVE QueueOnce' /\ \A q : Queued(q)' => q \in Approved \/ Queued(q)
<1>1. CASE UNCHANGED queue
  BY <1>1 DEF QueueOnce, Queued
<1>2. ASSUME NEW p, queue' = Without(p) PROVE QueueOnce' /\ \A q : Queued(q)' => Queued(q)
  <2>1. PICK X : queue \in Seq(X)
    BY DEF QueueOnce
  <2>2. /\ queue' \in Seq(X)
        /\ \A i \in DOMAIN queue' : Queued(queue'[i])
        /\ \A i, j \in DOMAIN queue' : queue'[i] = queue'[j] => i = j
    BY <1>2, <2>1, WithoutIt
  <2>3. QueueOnce'
    BY <2>2 DEF QueueOnce
  <2>4. ASSUME NEW q, Queued(q)' PROVE Queued(q)
    <3>1. PICK i \in DOMAIN queue' : queue'[i] = q
      BY <2>4 DEF Queued
    <3> QED
      BY <2>2, <3>1
  <2> QED
    BY <2>3, <2>4
<1>3. ASSUME NEW c \in Clients, Approve(c)
      PROVE  QueueOnce' /\ \A q : Queued(q)' => q \in Approved \/ Queued(q)
  <2>1. held[c].id \in Approved
    BY <1>3 DEF Approved
  <2>2. queue' = Append(Without(held[c].id), held[c].id)
    BY <1>3 DEF Approve
  <2> QED
    BY <2>1, <2>2, AppendedOnce
<1>4. \/ UNCHANGED queue
      \/ \E p : queue' = Without(p)
      \/ \E c \in Clients : Approve(c)
  <2>1. ASSUME NEW c \in Clients, Upsert(c) \/ MarkStale(c) \/ MarkMerged(c)
        PROVE  UNCHANGED queue \/ \E p : queue' = Without(p)
    BY <2>1 DEF Upsert, MarkStale, MarkMerged
  <2>2. ASSUME NEW c \in Clients, Reads(c) \/ AdvanceMain(c) PROVE UNCHANGED queue
    BY <2>2 DEF Reads, ProposeReads, FindOpen, ProposeEnqueues, ApproveReads, DecideReads, Decide, ListReady,
         NothingReady, LandReads, LandReadsRow, LandReviewed, LandPasses, LandWaits, Dies, cloud, AdvanceMain
  <2>3. Save \/ UpdateCodebase \/ Hosted => UNCHANGED queue
    BY DEF Save, UpdateCodebase, Hosted
  <2>4. Next => \/ Save \/ UpdateCodebase \/ Hosted
                \/ \E c \in Clients : \/ Reads(c) \/ Upsert(c) \/ Approve(c) \/ MarkStale(c)
                                       \/ MarkMerged(c) \/ AdvanceMain(c)
    BY DEF Next, Propose, Review, Land, Reads
  <2> QED
    BY <2>1, <2>2, <2>3, <2>4 DEF MCNext
<1> QED
  BY <1>1, <1>2, <1>3, <1>4

\* A run goes on with what it has taken up, is over, or takes it out of the queue.
LEMMA LandingStep ==
  ASSUME MergeInv, MCNext, NEW d \in Clients, pc[d] \in Landing
  PROVE  \/ pc'[d] = "idle"
         \/ pc'[d] \in Landing /\ held'[d].id = held[d].id
         \/ queue' = Without(held[d].id)
<1>1. CASE UNCHANGED <<pc, held>>
  BY <1>1
<1>2. ASSUME NEW c \in Clients, c # d,
             \E to, h : pc' = [pc EXCEPT ![c] = to] /\ held' = [held EXCEPT ![c] = h]
      PROVE  pc'[d] = pc[d] /\ held'[d] = held[d]
  BY <1>2 DEF MergeInv, MergeTypes
<1>3. ASSUME Over(d) PROVE pc'[d] = "idle"
  BY <1>3 DEF Over, MergeInv, MergeTypes
<1>4. ASSUME Propose(d) \/ Review(d) PROVE FALSE
  BY <1>4 DEF Propose, Review, ProposeReads, FindOpen, Upsert, ProposeEnqueues, ApproveReads, DecideReads, Decide,
              Approve, Ends, Again, Goes, Landing
<1>5. ASSUME Land(d)
      PROVE  \/ pc'[d] = "idle"
             \/ pc'[d] \in Landing /\ held'[d].id = held[d].id
             \/ queue' = Without(held[d].id)
  <2>1. ASSUME NEW from, NEW to \in Landing, Goes(d, from, to) PROVE pc'[d] \in Landing
    BY <2>1 DEF Goes, MergeInv, MergeTypes
  <2>2. CASE MarkStale(d) \/ MarkMerged(d)
    BY <2>2 DEF MarkStale, MarkMerged
  <2>3. CASE NothingReady(d) \/ LandWaits(d)
    BY <1>3, <2>3 DEF NothingReady, LandWaits, Ends
  <2>4. CASE ListReady(d)
    BY <2>4 DEF ListReady, Goes, Landing
  <2>5. CASE LandReads(d) \/ LandReviewed(d) \/ LandPasses(d) \/ AdvanceMain(d)
    <3>1. UNCHANGED held
      BY <2>5 DEF LandReads, LandReviewed, LandPasses, AdvanceMain
    <3>2. \E from : \E to \in Landing : Goes(d, from, to)
      BY <2>5 DEF LandReads, LandReviewed, LandPasses, AdvanceMain, Landing
    <3> QED
      BY <2>1, <3>1, <3>2
  <2>6. CASE LandReadsRow(d)
    <3>1. CASE Ends(d, "row")
      BY <1>3, <3>1 DEF Ends
    <3>2. CASE Goes(d, "row", "decision") /\ held' = [held EXCEPT ![d] = Row(held[d].id)]
      <4>1. pc'[d] \in Landing
        BY <2>1, <3>2 DEF Landing
      <4>2. held'[d] = Row(held[d].id)
        BY <3>2 DEF MergeInv, MergeTypes
      <4> QED
        BY <4>1, <4>2 DEF Row
    <3> QED
      BY <2>6, <3>1, <3>2 DEF LandReadsRow
  <2> QED
    BY <1>5, <2>2, <2>3, <2>4, <2>5, <2>6 DEF Land
<1>6. ASSUME NEW c \in Clients,
             Reads(c) \/ Upsert(c) \/ Approve(c) \/ MarkStale(c) \/ MarkMerged(c) \/ AdvanceMain(c)
      PROVE  \E to, h : pc' = [pc EXCEPT ![c] = to] /\ held' = [held EXCEPT ![c] = h]
  <2>1. CASE Reads(c)
    BY <2>1, ReadsTake DEF Takes
  <2>2. CASE Upsert(c)
    BY <2>2 DEF Upsert, Goes
  <2>3. CASE Approve(c) \/ MarkStale(c) \/ MarkMerged(c)
    BY <2>3, OverTakes DEF Approve, MarkStale, MarkMerged, Ends
  <2>4. CASE AdvanceMain(c)
    BY <2>4, Found DEF AdvanceMain, Goes
  <2> QED
    BY <1>6, <2>1, <2>2, <2>3, <2>4
<1>7. Save \/ UpdateCodebase \/ Hosted => UNCHANGED <<pc, held>>
  BY DEF Save, UpdateCodebase, Hosted, local
<1>8. \/ Save \/ UpdateCodebase \/ Hosted
      \/ \E c \in Clients : Propose(c) \/ Review(c) \/ Land(c) \/ Dies(c)
  BY DEF MCNext, Next
<1>9. ASSUME NEW c \in Clients, Propose(c) \/ Review(c) \/ Land(c) \/ Dies(c)
      PROVE  Reads(c) \/ Upsert(c) \/ Approve(c) \/ MarkStale(c) \/ MarkMerged(c) \/ AdvanceMain(c)
  BY <1>9 DEF Propose, Review, Land, Reads
<1> QED
  BY <1>1, <1>2, <1>3, <1>4, <1>5, <1>6, <1>7, <1>8, <1>9 DEF Dies

LEMMA TakenKeeps == ASSUME MergeInv, TakenInv, MCNext PROVE TakenInv'
<1>1. taken' = [c \in Clients |-> IF pc'[c] = "idle" THEN {} ELSE (taken[c] \ Approved) \cup TakesUp(c)]
  BY DEF MCNext
<1>2. ASSUME NEW c \in Clients, NEW p \in taken'[c], Queued(p)' PROVE pc'[c] \in Landing /\ held'[c].id = p
  <2>1. pc'[c] # "idle" /\ p \in (taken[c] \ Approved) \cup TakesUp(c)
    BY <1>1, <1>2
  <2>2. CASE p \in TakesUp(c)
    BY <2>2 DEF TakesUp, Landing
  <2>3. CASE p \in taken[c] /\ p \notin Approved
    <3>1. Queued(p)
      BY <1>2, <2>3, QueueKeeps DEF TakenInv
    <3>2. pc[c] \in Landing /\ held[c].id = p
      BY <2>3, <3>1 DEF TakenInv
    <3>3. ASSUME queue' = Without(p) PROVE FALSE
      <4>1. PICK X : queue \in Seq(X)
        BY DEF TakenInv, QueueOnce
      <4>2. \A i \in DOMAIN queue' : queue'[i] # p
        BY <3>3, <4>1, WithoutIt DEF TakenInv
      <4> QED
        BY <1>2, <4>2 DEF Queued
    <3> QED
      BY <2>1, <3>2, <3>3, LandingStep
  <2> QED
    BY <2>1, <2>2, <2>3
<1>3. taken' = [c \in Clients |-> taken'[c]]
  BY <1>1
<1> QED
  BY <1>2, <1>3, QueueKeeps DEF TakenInv

\* A run of the queue takes no proposal up again unless it was approved since, whatever
\* other commands do to its row, for any number of them: what a run goes on from is out
\* of the queue, and only an approval brings it back.
THEOREM NoneIsEverTakenUpAgain == MCSpec => NoneIsTakenUpAgain
<1>1. MCInit => TakenInv
  BY DEF MCInit, Init, TakenInv, QueueOnce
<1>2. MergeInv /\ TakenInv /\ [MCNext]_mcvars => TakenInv'
  <2>1. ASSUME TakenInv, UNCHANGED mcvars PROVE TakenInv'
    BY <2>1 DEF mcvars, vars, cloud, local, TakenInv, QueueOnce, Queued
  <2> QED
    BY <2>1, TakenKeeps
<1>3. MergeInv /\ TakenInv /\ [MCNext]_mcvars =>
        [\A c \in Clients : pc[c] = "list" /\ pc'[c] = "land" => held'[c].id \notin taken[c]]_mcvars
  <2> SUFFICES ASSUME MergeInv, TakenInv, MCNext, NEW c \in Clients, pc[c] = "list", pc'[c] = "land"
               PROVE  held'[c].id \notin taken[c]
    OBVIOUS
  <2>1. Queued(held'[c].id)
    <3>1. PICK d \in Clients : Propose(d) \/ Review(d) \/ Land(d) \/ Dies(d)
      BY DEF MCNext, Next, Save, UpdateCodebase, Hosted, local
    <3>2. d = c
      <4>1. \E to : pc' = [pc EXCEPT ![d] = to]
        BY <3>1 DEF Propose, Review, Land, ProposeReads, FindOpen, Upsert, ProposeEnqueues, ApproveReads,
                 DecideReads, Decide, Approve, ListReady, NothingReady, LandReads, LandReadsRow, LandReviewed,
                 LandPasses, LandWaits, MarkStale, AdvanceMain, MarkMerged, Dies, Ends, Again, Over, Goes
      <4> QED
        BY <4>1 DEF MergeInv, MergeTypes
    <3>3. ListReady(c)
      <4>1. ~Over(c)
        BY DEF Over, MergeInv, MergeTypes
      <4> QED
        BY <3>1, <3>2, <4>1 DEF Propose, Review, Land, ProposeReads, FindOpen, Upsert, ProposeEnqueues,
                 ApproveReads, DecideReads, Decide, Approve, NothingReady, LandReads, LandReadsRow, LandReviewed,
                 LandPasses, LandWaits, MarkStale, AdvanceMain, MarkMerged, Dies, Ends, Again, Goes
    <3>4. held'[c].id = Head(queue)
      BY <3>3 DEF ListReady, Only, NoRow, MergeInv, MergeTypes
    <3>5. PICK X : queue \in Seq(X)
      BY DEF TakenInv, QueueOnce
    <3>6. Head(queue) = queue[1] /\ 1 \in DOMAIN queue
      BY <3>3, <3>5 DEF ListReady
    <3> QED
      BY <3>4, <3>6 DEF Queued
  <2> QED
    BY <2>1 DEF TakenInv, Landing
<1> QED
  BY <1>1, <1>2, <1>3, InvHolds, PTL DEF MCSpec, NoneIsTakenUpAgain

-------------------------------------------------------------------------------
(* The jobs (ActionJobs).                                                  *)
(*                                                                         *)
(* A runner's unguarded update is harmless because what its check found    *)
(* stays true until then.  This holds because a row that is running leaves *)
(* that state by such an update only, of its own runner.                   *)


\* A runner past the selection has a job in hand.
HandsFull == \A r \in Runners : request[r] \notin {"poll", "dead"} => job[r] \in Jobs

\* A row that is running or done names its runner.
TakenIsClaimed == \A j \in Jobs : status[j] \in {"running"} \cup Verdict => runner_id[j] \in Runners

JobsInv == JobsTypeOK /\ HandsFull /\ TakenIsClaimed /\ CheckStaysTrue

LEMMA JobsInitEstablishes == JobsInit => JobsInv
BY JobsAssumption
   DEF JobsInit, JobsInv, JobsTypeOK, HandsFull, TakenIsClaimed, CheckStaysTrue, Jobs, Verdict

-------------------------------------------------------------------------------
(* The steps, by what they do to the rows. *)

\* The steps of a runner that leave the rows alone.
Quiet(r) ==
  Select(r) \/ Reread(r) \/ ClaimFails(r) \/ Execute(r) \/ Check(r) \/ ReportFails(r) \/ CycleFails(r)
  \/ Answer(r) \/ Die(r)

LEMMA JobsNextSplits ==
  JobsNext =>
    \/ Enqueue
    \/ \E r \in Runners : Quiet(r) \/ Claim(r) \/ Write(r)
    \/ \E j \in Jobs : Cancel(j) \/ Requeue(j)
BY DEF JobsNext, Works, Refused, Quiet

\* What such a step does: it takes its runner somewhere, with a job in hand.
LEMMA QuietGoes ==
  ASSUME JobsInv, NEW r \in Runners, Quiet(r)
  PROVE  \E to \in {"poll", "claim", "execute", "check", "write", "answer", "check again",
                   "write again", "dead"}, j \in Jobs \cup {0}, v \in Verdict :
           /\ UNCHANGED <<status, runner_id, requeues>>
           /\ request' = [request EXCEPT ![r] = to]
           /\ job' = [job EXCEPT ![r] = j]
           /\ result' = [result EXCEPT ![r] = v]
           /\ to \notin {"poll", "dead"} => j \in Jobs
           /\ to \in {"write", "write again"} => status[j] = "running" /\ runner_id[j] \in {r, Nobody}
<1>1. job = [job EXCEPT ![r] = job[r]] /\ job[r] \in Jobs \cup {0}
  BY DEF JobsInv, JobsTypeOK
<1>2. result = [result EXCEPT ![r] = result[r]] /\ result[r] \in Verdict
  BY DEF JobsInv, JobsTypeOK
<1>3. request[r] \notin {"poll", "dead"} => job[r] \in Jobs
  BY DEF JobsInv, HandsFull
<1>4. CASE Select(r)
  <2>1. PICK j \in Jobs : job' = [job EXCEPT ![r] = j]
    BY <1>4 DEF Select
  <2> QED
    BY <1>2, <1>4, <2>1 DEF Select, Moves, rows
<1>5. CASE Execute(r)
  <2>1. PICK v \in Verdict : result' = [result EXCEPT ![r] = v]
    BY <1>5 DEF Execute
  <2> QED
    BY <1>1, <1>3, <1>5, <2>1 DEF Execute, Moves, rows
<1>6. CASE Check(r)
  <2>1. \E to \in {"write", "write again"} : request' = [request EXCEPT ![r] = to]
    BY <1>6 DEF Check, Moves
  <2>2. /\ UNCHANGED <<status, runner_id, requeues, job, result>>
        /\ status[job[r]] = "running" /\ runner_id[job[r]] \in {r, Nobody}
        /\ job[r] \in Jobs
    BY <1>3, <1>6 DEF Check, Completable, Moves, rows
  <2>3. PICK to \in {"write", "write again"} : request' = [request EXCEPT ![r] = to]
    BY <2>1
  <2> QED
    BY <1>1, <1>2, <2>2, <2>3
<1>7. CASE ReportFails(r)
  BY <1>1, <1>3, <1>7 DEF ReportFails, Verdict, rows
<1>8. CASE Reread(r) \/ ClaimFails(r) \/ CycleFails(r) \/ Answer(r) \/ Die(r)
  <2>1. UNCHANGED <<status, runner_id, requeues, job, result>>
    BY <1>8 DEF Reread, ClaimFails, CycleFails, Answer, Die, rows
  <2>2. \E to \in {"poll", "execute", "dead"} :
          request' = [request EXCEPT ![r] = to] /\ (to = "execute" => request[r] = "reread")
    BY <1>8 DEF Reread, ClaimFails, CycleFails, Answer, Die, Moves
  <2>3. PICK to \in {"poll", "execute", "dead"} :
          request' = [request EXCEPT ![r] = to] /\ (to = "execute" => request[r] = "reread")
    BY <2>2
  <2>4. to \notin {"poll", "dead"} => job[r] \in Jobs
    BY <1>3, <2>3
  <2> QED
    BY <1>1, <1>2, <2>1, <2>3, <2>4
<1> QED
  BY <1>4, <1>5, <1>6, <1>7, <1>8 DEF Quiet

LEMMA QuietKeeps ==
  ASSUME JobsInv, NEW r \in Runners, Quiet(r) PROVE JobsInv' /\ UNCHANGED <<status, runner_id>>
<1> USE DEF JobsInv
<1>1. PICK to \in {"poll", "claim", "execute", "check", "write", "answer", "check again",
                  "write again", "dead"}, j \in Jobs \cup {0}, v \in Verdict :
        /\ UNCHANGED <<status, runner_id, requeues>>
        /\ request' = [request EXCEPT ![r] = to]
        /\ job' = [job EXCEPT ![r] = j]
        /\ result' = [result EXCEPT ![r] = v]
        /\ to \notin {"poll", "dead"} => j \in Jobs
        /\ to \in {"write", "write again"} => status[j] = "running" /\ runner_id[j] \in {r, Nobody}
  BY QuietGoes
<1>2. JobsTypeOK'
  BY <1>1 DEF JobsTypeOK
<1>3. HandsFull'
  BY <1>1 DEF JobsTypeOK, HandsFull
<1>4. TakenIsClaimed'
  BY <1>1 DEF TakenIsClaimed
<1>5. to \in {"write", "write again"} => status[j] = "running" /\ runner_id[j] = r
  BY <1>1, JobsAssumption DEF TakenIsClaimed
<1>6. CheckStaysTrue'
  BY <1>1, <1>5 DEF JobsTypeOK, CheckStaysTrue
<1> QED
  BY <1>1, <1>2, <1>3, <1>4, <1>6

\* A claim that finds the row queued takes it: nobody has passed a check on it.
LEMMA ClaimKeeps == ASSUME JobsInv, NEW r \in Runners, Claim(r) PROVE JobsInv'
<1> USE DEF JobsInv
<1>1. job[r] \in Jobs /\ request[r] = "claim" /\ request' = [request EXCEPT ![r] = "reread"]
  BY DEF Claim, Moves, HandsFull
<1>2. JobsTypeOK' /\ HandsFull'
  BY <1>1 DEF Claim, JobsTypeOK, HandsFull, rows
<1>3. TakenIsClaimed'
  BY <1>1 DEF Claim, JobsTypeOK, TakenIsClaimed, Verdict, rows
<1>4. ASSUME NEW q \in Runners, request'[q] \in {"write", "write again"}
      PROVE  status'[job'[q]] = "running" /\ runner_id'[job'[q]] = q
  <2>1. q # r /\ request[q] \in {"write", "write again"}
    BY <1>1, <1>4 DEF JobsTypeOK
  <2>2. job[q] \in Jobs /\ status[job[q]] = "running" /\ runner_id[job[q]] = q
    BY <2>1 DEF HandsFull, CheckStaysTrue
  <2> QED
    BY <1>1, <2>2 DEF Claim, JobsTypeOK, rows
<1> QED
  BY <1>2, <1>3, <1>4 DEF CheckStaysTrue

\* The row is the writer's own, so that no other runner has passed a check on it.
LEMMA WriteKeeps == ASSUME JobsInv, NEW r \in Runners, Write(r) PROVE JobsInv'
<1> USE DEF JobsInv
<1>1. /\ job[r] \in Jobs
      /\ request[r] \in {"write", "write again"}
      /\ \E to \in {"answer", "poll"} : request' = [request EXCEPT ![r] = to]
      /\ status[job[r]] = "running" /\ runner_id[job[r]] = r
  BY DEF Write, Moves, HandsFull, CheckStaysTrue
<1>2. /\ status' = [status EXCEPT ![job[r]] = result[r]]
      /\ runner_id' = [runner_id EXCEPT ![job[r]] = r]
      /\ result[r] \in Verdict
      /\ UNCHANGED <<job, result, requeues>>
  BY DEF Write, JobsTypeOK
<1>3. JobsTypeOK'
  BY <1>1, <1>2 DEF JobsTypeOK
<1>4. HandsFull'
  BY <1>1, <1>2 DEF HandsFull, JobsTypeOK
<1>5. TakenIsClaimed'
  BY <1>1, <1>2 DEF JobsTypeOK, TakenIsClaimed
<1>6. ASSUME NEW q \in Runners, request'[q] \in {"write", "write again"}
      PROVE  status'[job'[q]] = "running" /\ runner_id'[job'[q]] = q
  <2>1. q # r /\ request[q] \in {"write", "write again"}
    BY <1>1, <1>6 DEF JobsTypeOK
  <2>2. job[q] \in Jobs /\ status[job[q]] = "running" /\ runner_id[job[q]] = q
    BY <2>1 DEF HandsFull, CheckStaysTrue
  <2>3. job[q] # job[r]
    BY <1>1, <2>1, <2>2
  <2> QED
    BY <1>1, <1>2, <2>2, <2>3 DEF JobsTypeOK
<1> QED
  BY <1>3, <1>4, <1>5, <1>6 DEF CheckStaysTrue

\* The steps on rows that no runner has: none of them has passed a check.
LEMMA OwnerKeeps ==
  JobsInv /\ (Enqueue \/ \E j \in Jobs : Cancel(j) \/ Requeue(j)) => JobsInv'
<1> SUFFICES ASSUME JobsInv, Enqueue \/ \E j \in Jobs : Cancel(j) \/ Requeue(j) PROVE JobsInv'
  OBVIOUS
<1> USE DEF JobsInv
<1>1. PICK j \in Jobs, to \in {"queued", "cancelled"}, by \in Runners \cup {Nobody} :
        /\ status[j] # "running"
        /\ status' = [status EXCEPT ![j] = to]
        /\ runner_id' = [runner_id EXCEPT ![j] = by]
        /\ UNCHANGED runner
        /\ requeues' \in 0 .. MaxRequeues
  <2>1. CASE Enqueue
    <3>1. PICK j \in Jobs : status[j] = "none" /\ status' = [status EXCEPT ![j] = "queued"]
      BY <2>1 DEF Enqueue
    <3>2. runner_id' = [runner_id EXCEPT ![j] = runner_id[j]] /\ runner_id[j] \in Runners \cup {Nobody}
      BY <2>1 DEF Enqueue, JobsTypeOK
    <3> QED
      BY <2>1, <3>1, <3>2 DEF Enqueue, JobsTypeOK
  <2>2. ASSUME NEW j \in Jobs, Cancel(j)
        PROVE  /\ status[j] = "queued"
               /\ status' = [status EXCEPT ![j] = "cancelled"]
               /\ runner_id' = [runner_id EXCEPT ![j] = runner_id[j]]
               /\ runner_id[j] \in Runners \cup {Nobody}
               /\ UNCHANGED runner
               /\ requeues' \in 0 .. MaxRequeues
    BY <2>2 DEF Cancel, JobsTypeOK
  <2>3. ASSUME NEW j \in Jobs, Requeue(j)
        PROVE  /\ status[j] = "failed"
               /\ status' = [status EXCEPT ![j] = "queued"]
               /\ runner_id' = [runner_id EXCEPT ![j] = Nobody]
               /\ UNCHANGED runner
               /\ requeues' \in 0 .. MaxRequeues
    <3>1. requeues \in 0 .. MaxRequeues /\ MaxRequeues \in Nat
      BY JobsAssumption DEF JobsTypeOK
    <3>2. requeues < MaxRequeues /\ requeues' = requeues + 1
      BY <2>3 DEF Requeue
    <3>3. requeues' \in 0 .. MaxRequeues
      BY <3>1, <3>2
    <3> QED
      BY <2>3, <3>3 DEF Requeue
  <2> QED
    BY <2>1, <2>2, <2>3
<1>2. JobsTypeOK' /\ HandsFull'
  BY <1>1 DEF JobsTypeOK, HandsFull, runner
<1>3. TakenIsClaimed'
  BY <1>1 DEF JobsTypeOK, TakenIsClaimed, Verdict
<1>4. CheckStaysTrue'
  BY <1>1 DEF JobsTypeOK, HandsFull, CheckStaysTrue, runner
<1> QED
  BY <1>2, <1>3, <1>4

LEMMA JobsStepKeeps == JobsInv /\ [JobsNext]_jobsVars => JobsInv'
<1> SUFFICES ASSUME JobsInv, [JobsNext]_jobsVars PROVE JobsInv'
  OBVIOUS
<1>1. CASE UNCHANGED jobsVars
  BY <1>1 DEF JobsInv, JobsTypeOK, HandsFull, TakenIsClaimed, CheckStaysTrue, jobsVars, rows, runner
<1>2. CASE JobsNext
  BY <1>2, JobsNextSplits, QuietKeeps, ClaimKeeps, WriteKeeps, OwnerKeeps
<1> QED
  BY <1>1, <1>2

LEMMA JobsInvHolds == JobsSpec => []JobsInv
BY JobsInitEstablishes, JobsStepKeeps, PTL DEF JobsSpec

\* The table and the runners have the states the code gives them.
THEOREM JobsTypes == JobsSpec => []JobsTypeOK
BY JobsInvHolds, PTL DEF JobsInv

\* What completeActionJob checked is still so when its unguarded update is made.
THEOREM CheckAlwaysStaysTrue == JobsSpec => []CheckStaysTrue
BY JobsInvHolds, PTL DEF JobsInv

-------------------------------------------------------------------------------
(* The refinement. *)

Table == [j \in Jobs |-> Promised(j)]

\* A step on one row is a step of one job of the queue.
LEMMA OneRow ==
  ASSUME JobsTypeOK, NEW k \in Jobs, NEW to, NEW by,
         status' = [status EXCEPT ![k] = to], runner_id' = [runner_id EXCEPT ![k] = by]
  PROVE  Table' = [Table EXCEPT ![k] = Promised(k)'] /\ status'[k] = to /\ runner_id'[k] = by
<1>1. status'[k] = to /\ runner_id'[k] = by
  BY DEF JobsTypeOK
<1>2. \A j \in Jobs : j # k => status'[j] = status[j] /\ runner_id'[j] = runner_id[j]
  BY DEF JobsTypeOK
<1>3. \A j \in Jobs : j # k => Promised(j)' = Promised(j)
  BY <1>2 DEF Promised
<1> QED
  BY <1>1, <1>3 DEF Table

LEMMA InitImplements == JobsInit => Queue!QueueInit
<1> SUFFICES ASSUME JobsInit PROVE Queue!QueueInit
  OBVIOUS
<1>1. ASSUME NEW j \in Jobs PROVE Promised(j) = Queue!NoJob
  <2>1. status[j] = "none"
    BY DEF JobsInit
  <2> QED
    BY <2>1 DEF Promised, Queue!NoJob, Verdict
<1> QED
  BY <1>1 DEF Queue!QueueInit

LEMMA EnqueueImplements == ASSUME JobsInv, Enqueue PROVE Queue!QueueNext
<1>1. PICK k \in Jobs : status[k] = "none" /\ status' = [status EXCEPT ![k] = "queued"]
  BY DEF Enqueue
<1>2. runner_id' = [runner_id EXCEPT ![k] = runner_id[k]]
  BY DEF Enqueue, JobsInv, JobsTypeOK
<1>3. Table' = [Table EXCEPT ![k] = Promised(k)'] /\ status'[k] = "queued"
  BY <1>1, <1>2, OneRow DEF JobsInv
<1>4. Promised(k) = Queue!NoJob /\ Promised(k)' = Queue!Waiting
  BY <1>1, <1>3 DEF Promised, Queue!NoJob, Queue!Waiting, Verdict
<1>5. Queue!Add(k)
  BY <1>3, <1>4 DEF Queue!Add, Queue!Becomes, Table
<1> QED
  BY <1>5 DEF Queue!QueueNext

LEMMA ClaimImplements ==
  ASSUME JobsInv, NEW r \in Runners, Claim(r)
  PROVE  Queue!QueueNext \/ UNCHANGED <<status, runner_id>>
<1>1. PICK k \in Jobs : k = job[r]
  BY DEF Claim, Moves, JobsInv, HandsFull
<1>2. CASE status[k] = "queued"
  <2>1. status' = [status EXCEPT ![k] = "running"] /\ runner_id' = [runner_id EXCEPT ![k] = r]
    BY <1>1, <1>2 DEF Claim
  <2>2. Table' = [Table EXCEPT ![k] = Promised(k)'] /\ status'[k] = "running" /\ runner_id'[k] = r
    BY <2>1, OneRow DEF JobsInv
  <2>3. Promised(k) = Queue!Waiting
    BY <1>2 DEF Promised, Queue!Waiting, Verdict
  <2>4. Promised(k)' = Queue!TakenBy(r)
    BY <2>2 DEF Promised, Queue!TakenBy, Verdict
  <2>5. Queue!TakeUp(k, r)
    BY <2>2, <2>3, <2>4 DEF Queue!TakeUp, Queue!Becomes, Table
  <2> QED
    BY <2>5 DEF Queue!QueueNext
<1> QED
  BY <1>1, <1>2 DEF Claim, rows

LEMMA WriteImplements == ASSUME JobsInv, NEW r \in Runners, Write(r) PROVE Queue!QueueNext
<1>1. PICK k \in Jobs : k = job[r]
  BY DEF Write, Moves, JobsInv, HandsFull
<1>2. PICK v \in Verdict : v = result[r]
  BY DEF JobsInv, JobsTypeOK
<1>3. status[k] = "running" /\ runner_id[k] = r
  BY <1>1 DEF Write, Moves, JobsInv, CheckStaysTrue
<1>4. status' = [status EXCEPT ![k] = v] /\ runner_id' = [runner_id EXCEPT ![k] = r]
  BY <1>1, <1>2 DEF Write
<1>5. Table' = [Table EXCEPT ![k] = Promised(k)'] /\ status'[k] = v /\ runner_id'[k] = r
  BY <1>4, OneRow DEF JobsInv
<1>6. Promised(k) = Queue!TakenBy(r)
  BY <1>3 DEF Promised, Queue!TakenBy, Verdict
<1>7. Promised(k)' = Queue!DoneBy(r, v = "succeeded")
  BY <1>5 DEF Promised, Queue!DoneBy, Verdict
<1>8. Queue!Finish(k, r, v = "succeeded")
  BY <1>5, <1>6, <1>7 DEF Queue!Finish, Queue!Becomes, Table
<1> QED
  BY <1>8 DEF Queue!QueueNext

LEMMA CancelImplements == ASSUME JobsInv, NEW k \in Jobs, Cancel(k) PROVE Queue!QueueNext
<1>1. status[k] = "queued" /\ status' = [status EXCEPT ![k] = "cancelled"]
  BY DEF Cancel
<1>2. runner_id' = [runner_id EXCEPT ![k] = runner_id[k]]
  BY DEF Cancel, JobsInv, JobsTypeOK
<1>3. Table' = [Table EXCEPT ![k] = Promised(k)'] /\ status'[k] = "cancelled"
  BY <1>1, <1>2, OneRow DEF JobsInv
<1>4. Promised(k) = Queue!Waiting /\ Promised(k)' = Queue!Cancelled
  BY <1>1, <1>3 DEF Promised, Queue!Waiting, Queue!Cancelled, Verdict
<1>5. Queue!Withdraw(k)
  BY <1>3, <1>4 DEF Queue!Withdraw, Queue!Becomes, Table
<1> QED
  BY <1>5 DEF Queue!QueueNext

LEMMA RequeueImplements == ASSUME JobsInv, NEW k \in Jobs, Requeue(k) PROVE Queue!QueueNext
<1>1. /\ status[k] = "failed"
      /\ status' = [status EXCEPT ![k] = "queued"]
      /\ runner_id' = [runner_id EXCEPT ![k] = Nobody]
  BY DEF Requeue
<1>2. PICK r \in Runners : runner_id[k] = r
  BY <1>1 DEF JobsInv, TakenIsClaimed, Verdict
<1>3. Table' = [Table EXCEPT ![k] = Promised(k)'] /\ status'[k] = "queued"
  BY <1>1, OneRow DEF JobsInv
<1>4. Promised(k) = Queue!DoneBy(r, FALSE)
  BY <1>1, <1>2 DEF Promised, Queue!DoneBy, Verdict
<1>5. Promised(k)' = Queue!Waiting
  BY <1>3 DEF Promised, Queue!Waiting, Verdict
<1>6. Queue!Again(k, r)
  BY <1>3, <1>4, <1>5 DEF Queue!Again, Queue!Becomes, Table
<1> QED
  BY <1>6 DEF Queue!QueueNext

LEMMA SameRows == UNCHANGED <<status, runner_id>> => UNCHANGED Table
BY DEF Table, Promised

LEMMA StepImplements == JobsInv /\ [JobsNext]_jobsVars => [Queue!QueueNext]_Table
<1> SUFFICES ASSUME JobsInv, [JobsNext]_jobsVars PROVE Queue!QueueNext \/ UNCHANGED Table
  OBVIOUS
<1>1. CASE UNCHANGED jobsVars
  BY <1>1, SameRows DEF jobsVars, rows
<1>2. ASSUME NEW r \in Runners, Quiet(r) \/ Claim(r) \/ Write(r)
      PROVE  Queue!QueueNext \/ UNCHANGED Table
  BY <1>2, QuietKeeps, SameRows, ClaimImplements, WriteImplements
<1>3. CASE JobsNext
  BY <1>2, <1>3, JobsNextSplits, EnqueueImplements, CancelImplements, RequeueImplements
<1> QED
  BY <1>1, <1>3

\* The requests of the runners and of the owner, each on its own, implement the queue: a
\* job is taken by one runner and gets its outcome from that runner, once.
THEOREM Refinement == JobsSpec => ImplementsQueue
<1>1. JobsInv /\ [JobsNext]_jobsVars => [Queue!QueueNext]_([j \in Jobs |-> Promised(j)])
  BY StepImplements DEF Table
<1> QED
  BY <1>1, InitImplements, JobsInvHolds, PTL DEF JobsSpec, ImplementsQueue, Queue!QueueSpec

===============================================================================
