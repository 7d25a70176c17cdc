------------------------ MODULE DeviceAuthorizationProofs ------------------------
(***************************************************************************)
(* The tokens a terminal is handed work, for every number of tabs,         *)
(* accounts, projects and approvals.                                       *)
(*                                                                         *)
(* A claim has one approval that works on it, the owner's, unless another  *)
(* tab of the same account takes it for its own.  So nobody else registers *)
(* a session between the owner's registrations and its finish, and what    *)
(* the row has when it is approved are the tokens of these sessions.       *)
(*                                                                         *)
(* And the row is only marked approved when it has all of them: what is    *)
(* stored by then is what the approval registered, one for each project,   *)
(* and only an approval that failed clears it.                             *)
(***************************************************************************)
EXTENDS MCDeviceAuthorization, SequenceTheorems, FiniteSetTheorems, FunctionTheorems, TLAPS

Registering == {"session", "insert", "update", "batch"}
Working == Registering \cup {"finish", "reread", "clear", "undo"}

Slot == [index : Nat, token : Nat]

Session ==
  [user : {Account(t) : t \in Tabs} \cup {Nobody}, of : Nat, token : Nat,
   status : {"none", "active", "revoked"}]

Approval ==
  [pc : {"idle", "claim", "confirm"} \cup Working, wants : Selections \cup {<<>>}, has : Seq(Nat)]

\* What an approval has registered so far, of what it wants.
ApprovalOK(a) ==
  /\ a.pc \in {"claim", "confirm", "finish"} \cup Registering => a.wants \in Selections
  /\ a.pc \in {"claim", "confirm"} => a.has = <<>>
  /\ a.pc \in {"session", "insert", "update"} => Len(a.has) < Len(a.wants)
  /\ a.pc \in {"batch", "finish"} => Len(a.has) = Len(a.wants)

TabsOK == tab \in [Tabs -> Approval] /\ \A t \in Tabs : ApprovalOK(tab[t])

DeviceTypes ==
  /\ status \in {"pending", "approving", "approved", "expired"}
  /\ first \in Slot /\ stored \in [Projects -> Slot] /\ sessions \in [Projects -> Session]
  /\ minted \in Nat /\ TabsOK

\* An entry has the token of a session of the account.
FitsFor(e, account) ==
  e.index \in Projects /\ e.token = sessions[e.index].token /\ sessions[e.index].user = account

Cleared == \A p \in Projects : stored[p] = NoEntry
StoredFit(account) == \A p \in Projects : stored[p] = NoEntry \/ FitsFor(stored[p], account)

OneClaim ==
  /\ status \in {"approving", "approved"} => owner \in Tabs /\ user = Account(owner)
  /\ status = "approving" => tab[owner].pc # "claim"
  /\ \A t \in Tabs : tab[t].pc \in Working => t = owner /\ status # "pending"
  /\ status = "approved" => tab[owner].pc \notin Registering \cup {"finish"}

HeldFit ==
  \A t \in Tabs : tab[t].pc \in Registering \cup {"finish"} =>
    \A i \in 1 .. Len(tab[t].has) : sessions[i].token = tab[t].has[i] /\ sessions[i].user = Account(t)

StoredInv ==
  /\ status = "pending" => Cleared
  /\ \A t \in Tabs : tab[t].pc \in Registering \cup {"undo"} => Cleared
  /\ status = "approving" /\ tab[owner].pc = "confirm" => Cleared
  /\ \A t \in Tabs : tab[t].pc = "finish" => StoredFit(Account(t))
  /\ status = "approved" => FitsFor(first, user) /\ StoredFit(user)

AnswerInv ==
  /\ polling = "tokens" => status = "approved"
  /\ answer # {} => status = "approved" /\ \A e \in answer : FitsFor(e, user)

TokensInv == OneClaim /\ HeldFit /\ StoredInv /\ AnswerInv

DeviceInv == DeviceTypes /\ (twins \/ TokensInv)

LEMMA SelectionFacts ==
  ASSUME NEW s \in Selections
  PROVE  /\ Len(s) \in Projects /\ DOMAIN s = 1 .. Len(s) /\ \A i \in 1 .. Len(s) : s[i] \in Projects
         /\ s \in Seq(Projects)
<1>1. PICK n \in Projects : s \in [1 .. n -> Projects]
  BY DEF Selections
<1>2. n \in Nat
  BY <1>1, DeviceAssumption DEF Projects
<1> QED
  BY <1>1, <1>2

LEMMA EmptyEntry == NoEntry \in Slot /\ NoEntry.index = 0 /\ 0 \notin Projects
BY DeviceAssumption DEF NoEntry, Entry, Slot, Projects

LEMMA IdleApproval == Idle \in Approval /\ ApprovalOK(Idle) /\ Idle.pc = "idle"
<1>1. <<>> \in Seq(Nat)
  OBVIOUS
<1> QED
  BY <1>1 DEF Idle, Approval, ApprovalOK, Registering

LEMMA InitDevice == MCInit => DeviceInv
<1> SUFFICES ASSUME MCInit PROVE DeviceInv
  OBVIOUS
<1>1. /\ status = "pending" /\ first = NoEntry /\ stored = [p \in Projects |-> NoEntry]
      /\ sessions = [i \in Projects |-> NoSession] /\ minted = 0 /\ tab = [t \in Tabs |-> Idle]
      /\ polling = "row" /\ answer = {}
  BY DEF MCInit, Init
<1>2. NoSession \in Session
  BY DEF NoSession, Session
<1>3. DeviceTypes
  BY <1>1, <1>2, EmptyEntry, IdleApproval DEF DeviceTypes, TabsOK
<1>4. TokensInv
  BY <1>1, IdleApproval
     DEF TokensInv, OneClaim, HeldFit, StoredInv, AnswerInv, Cleared, Registering, Working
<1> QED
  BY <1>3, <1>4 DEF DeviceInv

-------------------------------------------------------------------------------
(* The types. *)

LEMMA TabMoves ==
  ASSUME TabsOK, NEW t \in Tabs, NEW new \in Approval, ApprovalOK(new), Becomes(t, new)
  PROVE  TabsOK'
BY DEF TabsOK, Becomes

LEMMA GoesMoves ==
  ASSUME TabsOK, NEW t \in Tabs, NEW from, NEW to \in {"idle", "claim", "confirm"} \cup Working,
         Goes(t, from, to)
  PROVE  LET new == [pc |-> to, wants |-> tab[t].wants, has |-> tab[t].has]
         IN  /\ tab[t].pc = from /\ ApprovalOK(tab[t]) /\ tab[t] \in Approval
             /\ new \in Approval /\ Becomes(t, new)
<1> DEFINE new == [pc |-> to, wants |-> tab[t].wants, has |-> tab[t].has]
<1>1. tab[t].pc = from /\ ApprovalOK(tab[t]) /\ tab[t] \in Approval
  BY DEF TabsOK, Goes
<1>2. new \in Approval
  BY <1>1 DEF Approval
<1>3. [tab[t] EXCEPT !.pc = to] = new
  BY <1>1 DEF Approval
<1>4. tab' = [tab EXCEPT ![t] = [tab[t] EXCEPT !.pc = to]]
  BY DEF Goes
<1> QED
  BY <1>1, <1>2, <1>3, <1>4 DEF Becomes

LEMMA ClearApproval == [Idle EXCEPT !.pc = "clear"] = [pc |-> "clear", wants |-> <<>>, has |-> <<>>]
BY DEF Idle

\* The steps of an approval that only move it on.
LEMMA MovesTypes ==
  ASSUME TabsOK, NEW t \in Tabs,
         Claim(t) \/ Confirm(t) \/ RegisterReads(t) \/ StoreTokens(t) \/ Finish(t) \/ Reread(t) \/ Fails(t)
           \/ ClearTokens(t) \/ Undo(t) \/ Dies(t)
  PROVE  TabsOK'
<1>1. ASSUME NEW from, NEW to \in {"confirm", "session", "insert", "update", "finish", "reread", "undo"},
             Goes(t, from, to),
             \/ from = "claim" /\ to = "confirm"
             \/ from = "confirm" /\ to = "session"
             \/ from = "session" /\ to \in {"insert", "update"}
             \/ from = "batch" /\ to = "finish"
             \/ to \in {"reread", "undo"}
      PROVE  TabsOK'
  <2> DEFINE new == [pc |-> to, wants |-> tab[t].wants, has |-> tab[t].has]
  <2>1. /\ tab[t].pc = from /\ ApprovalOK(tab[t]) /\ tab[t] \in Approval
        /\ new \in Approval /\ Becomes(t, new)
    BY <1>1, GoesMoves DEF Working, Registering
  <2>2. from = "confirm" => Len(<<>>) < Len(tab[t].wants)
    BY <2>1, SelectionFacts, DeviceAssumption DEF ApprovalOK, Projects
  <2>3. ApprovalOK(new)
    BY <1>1, <2>1, <2>2 DEF ApprovalOK, Registering
  <2> QED
    BY <2>1, <2>3, TabMoves
<1>2. ASSUME NEW from, Stops(t, from) PROVE TabsOK'
  BY <1>2, IdleApproval, TabMoves DEF Stops
<1>3. CASE Fails(t)
  <2> DEFINE new == [pc |-> "clear", wants |-> <<>>, has |-> <<>>]
  <2>1. new \in Approval /\ ApprovalOK(new)
    BY EmptySeq DEF Approval, ApprovalOK, Working, Registering
  <2> QED
    BY <1>3, <2>1, ClearApproval, TabMoves DEF Fails
<1>4. CASE Dies(t)
  BY <1>4, IdleApproval, TabMoves DEF Dies
<1> QED
  BY <1>1, <1>2, <1>3, <1>4 DEF Claim, Confirm, RegisterReads, StoreTokens, Finish, Reread, ClearTokens, Undo

LEMMA ApprovalEdit ==
  ASSUME NEW a \in Approval, NEW go, NEW has
  PROVE  [a EXCEPT !.pc = go, !.has = has] = [pc |-> go, wants |-> a.wants, has |-> has]
<1>1. [a EXCEPT !.pc = go, !.has = has] = [[a EXCEPT !.pc = go] EXCEPT !.has = has]
  BY DEF Approval
<1>2. [a EXCEPT !.pc = go] = [pc |-> go, wants |-> a.wants, has |-> a.has]
  BY DEF Approval
<1>3. [[pc |-> go, wants |-> a.wants, has |-> a.has] EXCEPT !.has = has]
        = [pc |-> go, wants |-> a.wants, has |-> has]
  OBVIOUS
<1> QED
  BY <1>1, <1>2, <1>3

\* A registration writes one session and takes its token.
LEMMA RegisterFacts ==
  ASSUME DeviceTypes, NEW t \in Tabs, RegisterWrites(t)
  PROVE  LET n == Len(tab[t].has) + 1
             new == [pc |-> tab'[t].pc, wants |-> tab[t].wants, has |-> Append(tab[t].has, minted')]
         IN  /\ n \in Projects /\ n \in Nat /\ tab[t].has \in Seq(Nat) /\ minted' \in Nat
             /\ sessions'[n].token = minted' /\ sessions'[n].user = Account(t)
             /\ \A i \in Projects : i # n => sessions'[i] = sessions[i]
             /\ sessions' \in [Projects -> Session]
             /\ new.pc \in {"session", "batch"} /\ new \in Approval /\ ApprovalOK(new)
             /\ Becomes(t, new)
<1> DEFINE n == Len(tab[t].has) + 1
           go == IF n = Len(tab[t].wants) THEN "batch" ELSE "session"
           made == [user |-> Account(t), of |-> Project(t), token |-> minted', status |-> "active"]
           new == [pc |-> go, wants |-> tab[t].wants, has |-> Append(tab[t].has, minted')]
<1>1. /\ tab \in [Tabs -> Approval] /\ tab[t] \in Approval /\ ApprovalOK(tab[t])
      /\ tab[t].pc \in {"insert", "update"} /\ minted \in Nat /\ minted' = minted + 1
      /\ sessions' = [sessions EXCEPT ![n] = made]
      /\ tab' = [tab EXCEPT ![t] = [tab[t] EXCEPT !.pc = go, !.has = Append(@, minted')]]
  BY DEF DeviceTypes, TabsOK, RegisterWrites, Becomes, Index
<1>2. /\ tab[t].wants \in Selections /\ tab[t].has \in Seq(Nat) /\ minted' \in Nat
      /\ Len(tab[t].has) < Len(tab[t].wants) /\ Len(tab[t].has) \in Nat
  BY <1>1 DEF ApprovalOK, Approval, Registering
<1>3. /\ Len(tab[t].wants) \in Projects /\ Len(tab[t].wants) \in Nat /\ n \in Nat
      /\ n \in 1 .. Len(tab[t].wants) /\ n \in Projects /\ tab[t].wants[n] \in Nat
  <2>1. /\ Len(tab[t].wants) \in Projects
        /\ \A i \in 1 .. Len(tab[t].wants) : tab[t].wants[i] \in Projects
    BY <1>2, SelectionFacts
  <2>2. Len(tab[t].wants) \in Nat /\ Len(tab[t].has) \in Nat /\ Len(tab[t].has) < Len(tab[t].wants)
    BY <1>2, <2>1, DeviceAssumption DEF Projects
  <2>3. n \in Nat /\ n \in 1 .. Len(tab[t].wants)
    BY <2>2
  <2>4. n \in Projects
    BY <2>1, <2>3, DeviceAssumption DEF Projects
  <2>5. tab[t].wants[n] \in Nat
    BY <2>1, <2>3, DeviceAssumption DEF Projects
  <2> QED
    BY <2>1, <2>2, <2>3, <2>4, <2>5
<1>4. made \in Session
  BY <1>2, <1>3 DEF Session, Project, Index
<1>5. /\ Append(tab[t].has, minted') \in Seq(Nat)
      /\ Len(Append(tab[t].has, minted')) = n
  BY <1>2
<1>6. new \in Approval
  BY <1>1, <1>5 DEF Approval, Working, Registering
<1>7. ApprovalOK(new)
  BY <1>2, <1>3, <1>5 DEF ApprovalOK, Registering
<1>8. Becomes(t, new)
  <2>1. ASSUME NEW to, NEW has
        PROVE  [tab[t] EXCEPT !.pc = to, !.has = has] = [pc |-> to, wants |-> tab[t].wants, has |-> has]
    BY <1>1, ApprovalEdit, Zenon
  <2>2. [tab[t] EXCEPT !.pc = go, !.has = Append(tab[t].has, minted')] = new
    BY <2>1, Zenon
  <2>3. tab' = [tab EXCEPT ![t] = [tab[t] EXCEPT !.pc = go, !.has = Append(tab[t].has, minted')]]
    BY <1>1, Zenon
  <2> QED
    BY <2>2, <2>3, Zenon DEF Becomes
<1>9. tab'[t] = new
  BY <1>1, <1>8 DEF Becomes
<1>10. /\ sessions'[n] = made /\ sessions' \in [Projects -> Session]
       /\ \A i \in Projects : i # n => sessions'[i] = sessions[i]
  BY <1>1, <1>3, <1>4 DEF DeviceTypes
<1> QED
  BY <1>2, <1>3, <1>6, <1>7, <1>8, <1>9, <1>10

\* The tokens are stored for the projects in the order of the selection.
LEMMA StoreFacts ==
  ASSUME DeviceTypes, NEW t \in Tabs, StoreTokens(t)
  PROVE  /\ stored' \in [Projects -> Slot]
         /\ \A p \in Projects :
              \/ stored'[p] = stored[p]
              \/ \E i \in 1 .. Len(tab[t].has) : i \in Projects /\ stored'[p] = Entry(i, tab[t].has[i])
<1>1. /\ tab[t] \in Approval /\ ApprovalOK(tab[t]) /\ tab[t].pc = "batch" /\ stored \in [Projects -> Slot]
  BY DEF DeviceTypes, TabsOK, StoreTokens, Goes
<1>2. /\ tab[t].wants \in Selections /\ tab[t].has \in Seq(Nat) /\ Len(tab[t].has) = Len(tab[t].wants)
  BY <1>1 DEF ApprovalOK, Approval, Registering
<1>3. DOMAIN tab[t].wants = 1 .. Len(tab[t].has) /\ Len(tab[t].wants) \in Projects
  BY <1>2, SelectionFacts
<1>4. \A i \in 1 .. Len(tab[t].has) : i \in Projects /\ tab[t].has[i] \in Nat /\ i \in Nat
  BY <1>2, <1>3, DeviceAssumption DEF Projects
<1>5. ASSUME NEW p \in Projects
      PROVE  /\ stored'[p] \in Slot
             /\ \/ stored'[p] = stored[p]
                \/ \E i \in 1 .. Len(tab[t].has) : i \in Projects /\ stored'[p] = Entry(i, tab[t].has[i])
  <2>1. CASE \E i \in DOMAIN tab[t].wants : tab[t].wants[i] = p
    <3> DEFINE j == CHOOSE i \in DOMAIN tab[t].wants : tab[t].wants[i] = p
    <3>1. j \in 1 .. Len(tab[t].has)
      BY <1>3, <2>1
    <3>2. stored'[p] = Entry(j, tab[t].has[j])
      BY <2>1 DEF StoreTokens
    <3>3. Entry(j, tab[t].has[j]) \in Slot
      BY <1>4, <3>1 DEF Entry, Slot
    <3> QED
      BY <1>4, <3>1, <3>2, <3>3
  <2>2. CASE ~\E i \in DOMAIN tab[t].wants : tab[t].wants[i] = p
    <3>1. stored'[p] = stored[p]
      BY <2>2 DEF StoreTokens
    <3> QED
      BY <1>1, <3>1
  <2> QED
    BY <2>1, <2>2
<1>6. stored' \in [Projects -> Slot]
  <2>1. stored' = [p \in Projects |-> stored'[p]]
    BY DEF StoreTokens
  <2> QED
    BY <1>5, <2>1
<1> QED
  BY <1>5, <1>6

LEMMA TypesStep == DeviceTypes /\ Next => DeviceTypes'
<1> SUFFICES ASSUME DeviceTypes, Next PROVE DeviceTypes'
  OBVIOUS
<1>0. status \in {"pending", "approving", "approved", "expired"} /\ Swept \in {status, "expired"}
  BY DEF DeviceTypes, Swept
<1>1. ASSUME NEW t \in Tabs, Approve(t) PROVE DeviceTypes'
  <2>1. status' \in {status, "expired"} /\ UNCHANGED <<first, stored, sessions, minted>>
    BY <1>0, <1>1 DEF Approve
  <2>2. CASE UNCHANGED tab
    BY <1>0, <2>1, <2>2 DEF DeviceTypes, TabsOK
  <2>3. ASSUME NEW s \in Selections, Becomes(t, [pc |-> "claim", wants |-> s, has |-> <<>>])
        PROVE  DeviceTypes'
    <3> DEFINE new == [pc |-> "claim", wants |-> s, has |-> <<>>]
    <3>1. new \in Approval /\ ApprovalOK(new)
      BY EmptySeq DEF Approval, ApprovalOK, Registering
    <3>2. TabsOK'
      BY <2>3, <3>1, TabMoves DEF DeviceTypes
    <3> QED
      BY <1>0, <2>1, <3>2 DEF DeviceTypes
  <2> QED
    BY <1>1, <2>2, <2>3 DEF Approve
<1>2. ASSUME NEW t \in Tabs,
             Claim(t) \/ Confirm(t) \/ RegisterReads(t) \/ StoreTokens(t) \/ Finish(t) \/ Reread(t) \/ Fails(t)
               \/ ClearTokens(t) \/ Undo(t) \/ Dies(t)
      PROVE  DeviceTypes'
  <2>1. TabsOK'
    BY <1>2, MovesTypes DEF DeviceTypes
  <2>2. UNCHANGED <<sessions, minted>>
    BY <1>2 DEF Claim, Confirm, RegisterReads, StoreTokens, Finish, Reread, Fails, ClearTokens, Undo, Dies, tables
  <2>3. status' \in {"pending", "approving", "approved", "expired"}
    BY <1>0, <1>2
       DEF Claim, Confirm, RegisterReads, StoreTokens, Finish, Reread, Fails, ClearTokens, Undo, Dies, tables, row
  <2>4. stored' \in [Projects -> Slot]
    <3>1. CASE StoreTokens(t)
      BY <3>1, StoreFacts
    <3>2. CASE ClearTokens(t)
      BY <3>2, EmptyEntry DEF ClearTokens
    <3>3. CASE UNCHANGED stored
      BY <3>3 DEF DeviceTypes
    <3> QED
      BY <1>2, <3>1, <3>2, <3>3 DEF Claim, Confirm, RegisterReads, Finish, Reread, Fails, Undo, Dies, tables
  <2>5. first' \in Slot
    <3>1. CASE Finish(t)
      <4>1. tab[t].pc = "finish" /\ tab[t] \in Approval /\ ApprovalOK(tab[t])
        BY <3>1 DEF Finish, Goes, DeviceTypes, TabsOK
      <4>2. Len(tab[t].has) = Len(tab[t].wants) /\ tab[t].wants \in Selections /\ tab[t].has \in Seq(Nat)
        BY <4>1 DEF ApprovalOK, Approval
      <4>3. Len(tab[t].has) \in Nat \ {0}
        BY <4>2, SelectionFacts, DeviceAssumption DEF Projects
      <4>4. tab[t].has[1] \in Nat
        BY <4>2, <4>3
      <4> QED
        BY <3>1, <4>4 DEF Finish, Entry, Slot, DeviceTypes
    <3>2. CASE first' \in {first, NoEntry}
      BY <3>2, EmptyEntry DEF DeviceTypes
    <3> QED
      BY <1>2, <3>1, <3>2
         DEF Claim, Confirm, RegisterReads, StoreTokens, Reread, Fails, ClearTokens, Undo, Dies, tables, row
  <2> QED
    BY <2>1, <2>2, <2>3, <2>4, <2>5 DEF DeviceTypes
<1>3. ASSUME NEW t \in Tabs, RegisterWrites(t) PROVE DeviceTypes'
  <2>1. TabsOK' /\ sessions' \in [Projects -> Session] /\ minted' \in Nat
    BY <1>3, RegisterFacts, TabMoves DEF DeviceTypes
  <2> QED
    BY <1>3, <2>1 DEF DeviceTypes, RegisterWrites, row
<1>4. CASE PollRow \/ PollTokens \/ PollLost \/ ExpireByOwner \/ Deadline
  BY <1>0, <1>4 DEF PollRow, PollTokens, PollLost, ExpireByOwner, Deadline, tables, row, DeviceTypes, TabsOK
<1>5. ASSUME NEW i \in Projects, RevokeSession(i) PROVE DeviceTypes'
  <2>1. sessions[i] \in Session
    BY DEF DeviceTypes
  <2>2. [sessions[i] EXCEPT !.status = "revoked"] \in Session
    BY <2>1 DEF Session
  <2>3. sessions' = [sessions EXCEPT ![i] = [sessions[i] EXCEPT !.status = "revoked"]]
    BY <1>5 DEF RevokeSession
  <2>4. sessions' \in [Projects -> Session]
    BY <2>2, <2>3 DEF DeviceTypes
  <2> QED
    BY <1>5, <2>4 DEF RevokeSession, row, DeviceTypes, TabsOK
<1> QED
  BY <1>1, <1>2, <1>3, <1>4, <1>5 DEF Next, GoesOn, Poll, Refused

\* What an approval has registered has the indices of projects.
LEMMA HeldIndices ==
  ASSUME DeviceTypes, NEW t \in Tabs, tab[t].pc \in Registering \cup {"finish"},
         NEW i \in 1 .. Len(tab[t].has)
  PROVE  i \in Projects
<1>1. /\ tab[t] \in Approval /\ ApprovalOK(tab[t])
  BY DEF DeviceTypes, TabsOK
<1>2. /\ tab[t].wants \in Selections /\ tab[t].has \in Seq(Nat) /\ Len(tab[t].has) <= Len(tab[t].wants)
  BY <1>1, SelectionFacts, DeviceAssumption DEF ApprovalOK, Approval, Registering, Projects
<1> QED
  BY <1>2, SelectionFacts, DeviceAssumption DEF Projects

-------------------------------------------------------------------------------
(* The steps of one approval. *)

\* A step that changes nothing but one approval.
LEMMA LocalKeeps ==
  ASSUME DeviceTypes, TokensInv, NEW t \in Tabs, NEW new \in Approval, Becomes(t, new),
         UNCHANGED <<status, user, first, stored, sessions, owner, polling, answer>>,
         new.pc \in Working => t = owner /\ status # "pending",
         new.pc \in {"claim", "confirm"} => t # owner \/ status # "approving",
         new.pc \in Registering => status # "approved" /\ Cleared,
         new.pc \in Registering => new.has = <<>> \/ (tab[t].pc \in Registering /\ new.has = tab[t].has),
         new.pc = "undo" => Cleared,
         new.pc # "finish"
  PROVE  TokensInv'
<1>1. /\ tab'[t] = new
      /\ \A s \in Tabs : s # t => tab'[s] = tab[s]
  BY DEF Becomes, DeviceTypes, TabsOK
<1>2. OneClaim'
  BY <1>1 DEF TokensInv, OneClaim, Registering
<1>3. HeldFit'
  BY <1>1 DEF TokensInv, HeldFit
<1>4. Cleared' = Cleared /\ \A account : StoredFit(account)' = StoredFit(account)
  BY DEF Cleared, StoredFit, FitsFor
<1>5. StoredInv'
  BY <1>1, <1>4 DEF TokensInv, OneClaim, StoredInv, FitsFor
<1>6. AnswerInv'
  BY DEF TokensInv, AnswerInv, FitsFor
<1> QED
  BY <1>2, <1>3, <1>5, <1>6 DEF TokensInv

\* A step that leaves the approvals alone, and the tokens and accounts of the sessions.
LEMMA OutsideKeeps ==
  ASSUME DeviceTypes, TokensInv, UNCHANGED <<tab, user, first, stored, owner, answer>>,
         \A p \in Projects : sessions'[p].token = sessions[p].token /\ sessions'[p].user = sessions[p].user,
         status' = status \/ (status' = "expired" /\ status # "approved"),
         polling' = "tokens" => status' = "approved"
  PROVE  TokensInv'
<1>1. \A e, account : FitsFor(e, account)' = FitsFor(e, account)
  BY DEF FitsFor
<1>2. OneClaim'
  BY DEF TokensInv, OneClaim
<1>3. HeldFit'
  <2> SUFFICES ASSUME NEW t \in Tabs, tab[t].pc \in Registering \cup {"finish"}, NEW i \in 1 .. Len(tab[t].has)
               PROVE  sessions'[i].token = tab[t].has[i] /\ sessions'[i].user = Account(t)
    BY DEF HeldFit
  <2>1. i \in Projects
    BY HeldIndices
  <2> QED
    BY <2>1 DEF TokensInv, HeldFit
<1>4. Cleared' = Cleared /\ \A account : StoredFit(account)' = StoredFit(account)
  BY <1>1 DEF Cleared, StoredFit
<1>5. StoredInv'
  BY <1>1, <1>4 DEF TokensInv, StoredInv
<1>6. AnswerInv'
  BY <1>1 DEF TokensInv, AnswerInv
<1> QED
  BY <1>2, <1>3, <1>5, <1>6 DEF TokensInv

\* Only the claim of a pending row makes its tab the owner.
LEMMA OwnerKept ==
  ASSUME MCNext, status # "pending" \/ status' # "approving"
  PROVE  owner' = owner
BY DEF MCNext

LEMMA ClaimKeeps ==
  ASSUME DeviceTypes, TokensInv, MCNext, NEW t \in Tabs, Claim(t)
  PROVE  TokensInv'
<1> DEFINE new == [pc |-> "confirm", wants |-> tab[t].wants, has |-> tab[t].has]
<1>1. /\ tab[t].pc = "claim" /\ new \in Approval /\ Becomes(t, new)
      /\ tab'[t] = new /\ \A s \in Tabs : s # t => tab'[s] = tab[s]
  <2>1. tab[t].pc = "claim" /\ new \in Approval /\ Becomes(t, new)
    BY GoesMoves DEF Claim, DeviceTypes
  <2> QED
    BY <2>1 DEF Becomes, DeviceTypes, TabsOK
<1>2. UNCHANGED <<first, stored, sessions, polling, answer>>
  BY DEF Claim, Elsewhere
<1>3. CASE status # "pending"
  <2>1. UNCHANGED <<status, user>>
    BY <1>3 DEF Claim
  <2>2. owner' = owner
    BY <1>3, OwnerKept
  <2>3. t # owner \/ status # "approving"
    BY <1>1 DEF TokensInv, OneClaim
  <2> QED
    BY <1>1, <1>2, <2>1, <2>2, <2>3, LocalKeeps DEF Working, Registering
<1>4. CASE status = "pending"
  <2>1. status' = "approving" /\ user' = Account(t)
    BY <1>4 DEF Claim
  <2>2. owner' = t
    <3>1. owner' = CHOOSE s \in Tabs : tab[s].pc = "claim" /\ tab'[s].pc = "confirm"
      BY <1>4, <2>1 DEF MCNext
    <3>2. \A s \in Tabs : tab[s].pc = "claim" /\ tab'[s].pc = "confirm" => s = t
      BY <1>1
    <3>3. tab[t].pc = "claim" /\ tab'[t].pc = "confirm"
      BY <1>1
    <3> QED
      BY <3>1, <3>2, <3>3
  <2>3. \A s \in Tabs : tab[s].pc \notin Working /\ tab'[s].pc \notin Working
    BY <1>1, <1>4 DEF TokensInv, OneClaim, Working, Registering
  <2>4. OneClaim'
    BY <1>1, <2>1, <2>2, <2>3 DEF OneClaim
  <2>5. Cleared'
    BY <1>2, <1>4 DEF TokensInv, StoredInv, Cleared
  <2>6. HeldFit' /\ StoredInv'
    BY <2>1, <2>3, <2>5 DEF HeldFit, StoredInv, Working
  <2>7. AnswerInv'
    BY <1>2, <1>4 DEF TokensInv, AnswerInv
  <2> QED
    BY <2>4, <2>6, <2>7 DEF TokensInv
<1> QED
  BY <1>3, <1>4

\* Confirming makes only the owner go on, unless the claim is shared.
LEMMA ConfirmKeeps ==
  ASSUME DeviceTypes, TokensInv, MCNext, ~twins', NEW t \in Tabs, Confirm(t)
  PROVE  TokensInv'
<1>1. UNCHANGED <<status, user, first, stored, sessions, polling, answer>>
  BY DEF Confirm, tables, row, Elsewhere
<1>2. owner' = owner
  BY <1>1, OwnerKept
<1>3. CASE Claimed(t)
  <2> DEFINE new == [pc |-> "session", wants |-> tab[t].wants, has |-> tab[t].has]
  <2>1. /\ tab[t].pc = "confirm" /\ ApprovalOK(tab[t]) /\ new \in Approval /\ Becomes(t, new)
    BY <1>3, GoesMoves DEF Confirm, DeviceTypes, Working, Registering
  <2>2. tab[t].has = <<>>
    BY <2>1 DEF ApprovalOK
  <2>3. tab'[t].pc = "session"
    BY <2>1 DEF Becomes, DeviceTypes, TabsOK
  <2>4. status = "approving" /\ Account(t) = Account(owner)
    BY <1>3 DEF Claimed, TokensInv, OneClaim
  <2>5. t = owner
    BY <2>1, <2>3, <2>4 DEF MCNext
  <2>6. Cleared
    BY <2>1, <2>4, <2>5 DEF TokensInv, StoredInv
  <2> QED
    BY <1>1, <1>2, <2>1, <2>2, <2>4, <2>5, <2>6, LocalKeeps DEF Working, Registering
<1>4. CASE ~Claimed(t)
  <2>1. Becomes(t, Idle)
    BY <1>4 DEF Confirm, Stops
  <2> QED
    BY <1>1, <1>2, <2>1, IdleApproval, LocalKeeps DEF Working, Registering
<1> QED
  BY <1>3, <1>4

LEMMA RegisterReadsKeeps ==
  ASSUME DeviceTypes, TokensInv, MCNext, NEW t \in Tabs, RegisterReads(t)
  PROVE  TokensInv'
<1>1. UNCHANGED <<status, user, first, stored, sessions, polling, answer>>
  BY DEF RegisterReads, tables, row, Elsewhere
<1>2. owner' = owner
  BY <1>1, OwnerKept
<1>3. ASSUME NEW to \in {"insert", "update"}, Goes(t, "session", to)
      PROVE  TokensInv'
  <2> DEFINE new == [pc |-> to, wants |-> tab[t].wants, has |-> tab[t].has]
  <2>1. tab[t].pc = "session" /\ new \in Approval /\ Becomes(t, new)
    BY <1>3, GoesMoves DEF DeviceTypes, Working, Registering
  <2>2. t = owner /\ status \notin {"pending", "approved"} /\ Cleared
    BY <2>1 DEF TokensInv, OneClaim, StoredInv, Working, Registering
  <2> QED
    BY <1>1, <1>2, <2>1, <2>2, LocalKeeps DEF Working, Registering
<1> QED
  BY <1>3 DEF RegisterReads

\* The approval stops, or turns to clearing up.
LEMMA LeavingKeeps ==
  ASSUME DeviceTypes, TokensInv, MCNext, NEW t \in Tabs, Reread(t) \/ Fails(t) \/ Dies(t)
  PROVE  TokensInv'
<1>1. UNCHANGED <<status, user, first, stored, sessions, polling, answer>>
  BY DEF Reread, Fails, Dies, tables, row, Elsewhere
<1>2. owner' = owner
  BY <1>1, OwnerKept
<1>3. CASE Becomes(t, Idle)
  BY <1>1, <1>2, <1>3, IdleApproval, LocalKeeps DEF Working, Registering
<1>4. CASE Fails(t)
  <2> DEFINE new == [pc |-> "clear", wants |-> <<>>, has |-> <<>>]
  <2>1. new \in Approval
    BY EmptySeq DEF Approval, Working
  <2>2. Becomes(t, new)
    BY <1>4, ClearApproval DEF Fails
  <2>3. t = owner /\ status # "pending"
    BY <1>4 DEF Fails, TokensInv, OneClaim, Working, Registering
  <2> QED
    BY <1>1, <1>2, <2>1, <2>2, <2>3, LocalKeeps DEF Registering
<1> QED
  BY <1>3, <1>4 DEF Reread, Dies, Stops

\* While one approval registers or undoes, no other does, and nobody has been answered.
LEMMA Alone ==
  ASSUME DeviceTypes, TokensInv, NEW t \in Tabs, tab[t].pc \in Working
  PROVE  /\ t = owner /\ status # "pending"
         /\ \A s \in Tabs : tab[s].pc \in Working => s = t
         /\ status = "approving" => user = Account(t)
         /\ status # "approved" => polling # "tokens" /\ answer = {}
         /\ tab[t].pc \in Registering \cup {"finish"} => status # "approved"
BY DEF TokensInv, OneClaim, AnswerInv

LEMMA RegisterWritesKeeps ==
  ASSUME DeviceTypes, TokensInv, MCNext, NEW t \in Tabs, RegisterWrites(t)
  PROVE  TokensInv'
<1> DEFINE n == Len(tab[t].has) + 1
           new == [pc |-> tab'[t].pc, wants |-> tab[t].wants, has |-> Append(tab[t].has, minted')]
<1>1. /\ n \in Projects /\ n \in Nat /\ tab[t].has \in Seq(Nat) /\ minted' \in Nat
      /\ sessions'[n].token = minted' /\ sessions'[n].user = Account(t)
      /\ \A i \in Projects : i # n => sessions'[i] = sessions[i]
      /\ new.pc \in {"session", "batch"} /\ Becomes(t, new)
  BY RegisterFacts
<1>2. UNCHANGED <<status, user, first, stored, polling, answer>>
  BY DEF RegisterWrites, row, Elsewhere
<1>3. owner' = owner
  BY <1>2, OwnerKept
<1>4. tab[t].pc \in Working /\ tab[t].pc \in Registering
  BY DEF RegisterWrites, Working, Registering
<1>5. /\ t = owner /\ status \notin {"pending", "approved"} /\ answer = {} /\ polling # "tokens"
      /\ \A s \in Tabs : tab[s].pc \in Working => s = t
  BY <1>4, Alone
<1>6. tab'[t] = new /\ \A s \in Tabs : s # t => tab'[s] = tab[s]
  BY <1>1 DEF Becomes, DeviceTypes, TabsOK
<1>7. OneClaim'
  BY <1>1, <1>2, <1>3, <1>5, <1>6 DEF TokensInv, OneClaim, Working
<1>8. HeldFit'
  <2> SUFFICES ASSUME NEW s \in Tabs, tab'[s].pc \in Registering \cup {"finish"},
                      NEW i \in 1 .. Len(tab'[s].has)
               PROVE  sessions'[i].token = tab'[s].has[i] /\ sessions'[i].user = Account(s)
    BY DEF HeldFit
  <2>0. s = t
    BY <1>5, <1>6 DEF Working
  <2>1. tab'[s].has = Append(tab[t].has, minted')
    BY <1>6, <2>0
  <2>2. CASE i = n
    BY <1>1, <2>0, <2>1, <2>2
  <2>3. CASE i # n
    <3>1. i \in 1 .. Len(tab[t].has) /\ tab'[s].has[i] = tab[t].has[i]
      BY <1>1, <2>1, <2>3
    <3>2. i \in Projects
      BY <1>4, <3>1, HeldIndices
    <3>3. sessions[i].token = tab[t].has[i] /\ sessions[i].user = Account(t)
      BY <1>4, <3>1 DEF TokensInv, HeldFit
    <3> QED
      BY <1>1, <2>0, <2>3, <3>1, <3>2, <3>3
  <2> QED
    BY <2>2, <2>3
<1>9. StoredInv'
  <2>1. Cleared /\ Cleared' = Cleared
    BY <1>2, <1>4 DEF TokensInv, StoredInv, Cleared
  <2>2. \A s \in Tabs : tab'[s].pc # "finish"
    BY <1>1, <1>5, <1>6 DEF Working
  <2> QED
    BY <1>2, <1>5, <2>1, <2>2 DEF StoredInv
<1>10. AnswerInv'
  BY <1>2, <1>5 DEF AnswerInv
<1> QED
  BY <1>7, <1>8, <1>9, <1>10 DEF TokensInv

LEMMA StoreTokensKeeps ==
  ASSUME DeviceTypes, TokensInv, MCNext, NEW t \in Tabs, StoreTokens(t)
  PROVE  TokensInv'
<1> DEFINE new == [pc |-> "finish", wants |-> tab[t].wants, has |-> tab[t].has]
<1>1. tab[t].pc = "batch" /\ Becomes(t, new)
  BY GoesMoves DEF StoreTokens, DeviceTypes, Working
<1>2. UNCHANGED <<status, user, first, sessions, polling, answer>>
  BY DEF StoreTokens, row, Elsewhere
<1>3. owner' = owner
  BY <1>2, OwnerKept
<1>4. /\ t = owner /\ status \notin {"pending", "approved"} /\ answer = {} /\ polling # "tokens"
      /\ \A s \in Tabs : tab[s].pc \in Working => s = t
  BY <1>1, Alone DEF Working, Registering
<1>5. tab'[t] = new /\ \A s \in Tabs : s # t => tab'[s] = tab[s]
  BY <1>1 DEF Becomes, DeviceTypes, TabsOK
<1>6. OneClaim'
  BY <1>2, <1>3, <1>4, <1>5 DEF TokensInv, OneClaim, Working
<1>7. HeldFit'
  BY <1>1, <1>2, <1>4, <1>5 DEF TokensInv, HeldFit, Working, Registering
<1>8. StoredFit(Account(t))'
  <2> SUFFICES ASSUME NEW p \in Projects
               PROVE  stored'[p] = NoEntry \/ FitsFor(stored[p], Account(t))'
    BY DEF StoredFit
  <2>1. stored[p] = NoEntry
    BY <1>1 DEF TokensInv, StoredInv, Cleared, Registering
  <2>2. ASSUME NEW i \in 1 .. Len(tab[t].has), i \in Projects, stored'[p] = Entry(i, tab[t].has[i])
        PROVE  FitsFor(stored[p], Account(t))'
    <3>1. sessions[i].token = tab[t].has[i] /\ sessions[i].user = Account(t)
      BY <1>1 DEF TokensInv, HeldFit, Registering
    <3> QED
      BY <1>2, <2>2, <3>1 DEF FitsFor, Entry
  <2> QED
    BY <2>1, <2>2, StoreFacts
<1>9. StoredInv'
  BY <1>2, <1>3, <1>4, <1>5, <1>8 DEF StoredInv, Working, Registering
<1>10. AnswerInv'
  BY <1>2, <1>4 DEF AnswerInv
<1> QED
  BY <1>6, <1>7, <1>9, <1>10 DEF TokensInv

LEMMA FinishKeeps ==
  ASSUME DeviceTypes, TokensInv, MCNext, NEW t \in Tabs, Finish(t)
  PROVE  TokensInv'
<1> DEFINE new == [pc |-> "reread", wants |-> tab[t].wants, has |-> tab[t].has]
<1>1. /\ tab[t].pc = "finish" /\ tab[t] \in Approval /\ ApprovalOK(tab[t])
      /\ new \in Approval /\ Becomes(t, new)
  BY GoesMoves DEF Finish, DeviceTypes, Working
<1>2. UNCHANGED <<user, stored, sessions, polling, answer>>
  BY DEF Finish, Elsewhere
<1>3. owner' = owner
  BY OwnerKept DEF Finish, Claimed
<1>4. /\ t = owner /\ status \notin {"pending", "approved"} /\ answer = {} /\ polling # "tokens"
      /\ \A s \in Tabs : tab[s].pc \in Working => s = t
  BY <1>1, Alone DEF Working
<1>5. CASE ~Claimed(t)
  <2>1. UNCHANGED <<status, first>>
    BY <1>5 DEF Finish
  <2> QED
    BY <1>1, <1>2, <1>3, <1>4, <2>1, LocalKeeps DEF Registering
<1>6. CASE Claimed(t)
  <2>1. status' = "approved" /\ first' = Entry(1, tab[t].has[1]) /\ user = Account(t)
    BY <1>6 DEF Finish, Claimed
  <2>2. tab'[t] = new /\ \A s \in Tabs : s # t => tab'[s] = tab[s]
    BY <1>1 DEF Becomes, DeviceTypes, TabsOK
  <2>3. \A s \in Tabs : tab'[s].pc \notin Registering \cup {"finish", "undo"}
    BY <1>4, <2>2 DEF Working, Registering
  <2>4. OneClaim'
    BY <1>2, <1>3, <1>4, <2>1, <2>2, <2>3 DEF OneClaim, Working
  <2>5. 1 \in 1 .. Len(tab[t].has) /\ 1 \in Projects
    BY <1>1, SelectionFacts, DeviceAssumption DEF ApprovalOK, Approval, Projects
  <2>6. sessions[1].token = tab[t].has[1] /\ sessions[1].user = Account(t)
    BY <1>1, <2>5 DEF TokensInv, HeldFit
  <2>7. FitsFor(first, user)'
    BY <1>2, <2>1, <2>5, <2>6 DEF FitsFor, Entry
  <2>8. StoredFit(user)'
    BY <1>1, <1>2, <2>1 DEF TokensInv, StoredInv, StoredFit, FitsFor
  <2>9. StoredInv'
    BY <2>1, <2>3, <2>7, <2>8 DEF StoredInv
  <2>10. HeldFit' /\ AnswerInv'
    BY <1>2, <1>4, <2>1, <2>3 DEF HeldFit, AnswerInv
  <2> QED
    BY <2>4, <2>9, <2>10 DEF TokensInv
<1> QED
  BY <1>5, <1>6

LEMMA ClearTokensKeeps ==
  ASSUME DeviceTypes, TokensInv, MCNext, NEW t \in Tabs, ClearTokens(t)
  PROVE  TokensInv'
<1> DEFINE new == [pc |-> "undo", wants |-> tab[t].wants, has |-> tab[t].has]
<1>1. tab[t].pc = "clear" /\ Becomes(t, new)
  BY GoesMoves DEF ClearTokens, DeviceTypes, Working
<1>2. UNCHANGED <<status, user, first, sessions, polling, answer>>
  BY DEF ClearTokens, row, Elsewhere
<1>3. owner' = owner
  BY <1>2, OwnerKept
<1>4. t = owner /\ status # "pending" /\ \A s \in Tabs : tab[s].pc \in Working => s = t
  BY <1>1, Alone DEF Working
<1>5. tab'[t] = new /\ \A s \in Tabs : s # t => tab'[s] = tab[s]
  BY <1>1 DEF Becomes, DeviceTypes, TabsOK
<1>6. OneClaim' /\ HeldFit'
  BY <1>2, <1>3, <1>4, <1>5 DEF TokensInv, OneClaim, HeldFit, Working, Registering
<1>7. Cleared' /\ \A account : StoredFit(account)'
  BY DEF ClearTokens, Cleared, StoredFit
<1>8. StoredInv' /\ AnswerInv'
  BY <1>2, <1>7 DEF TokensInv, StoredInv, AnswerInv, FitsFor
<1> QED
  BY <1>6, <1>8 DEF TokensInv

LEMMA UndoKeeps ==
  ASSUME DeviceTypes, TokensInv, MCNext, NEW t \in Tabs, Undo(t)
  PROVE  TokensInv'
<1>1. tab[t].pc = "undo" /\ Becomes(t, Idle)
  BY DEF Undo, Stops
<1>2. UNCHANGED <<stored, sessions, polling, answer>>
  BY DEF Undo, Elsewhere
<1>3. owner' = owner
  BY OwnerKept DEF Undo, Claimed, row
<1>4. /\ t = owner /\ \A s \in Tabs : tab[s].pc \in Working => s = t
      /\ status # "approved" => polling # "tokens" /\ answer = {}
  BY <1>1, Alone DEF Working
<1>5. CASE ~Claimed(t)
  <2>1. UNCHANGED <<status, user, first>>
    BY <1>5 DEF Undo, row
  <2> QED
    BY <1>1, <1>2, <1>3, <2>1, IdleApproval, LocalKeeps DEF Working, Registering
<1>6. CASE Claimed(t)
  <2>1. status = "approving" /\ status' = "pending"
    BY <1>6 DEF Undo, Claimed
  <2>2. tab'[t] = Idle /\ \A s \in Tabs : s # t => tab'[s] = tab[s]
    BY <1>1 DEF Becomes, DeviceTypes, TabsOK
  <2>3. \A s \in Tabs : tab'[s].pc \notin Working
    BY <1>4, <2>2, IdleApproval DEF Working, Registering
  <2>4. Cleared'
    BY <1>1, <1>2 DEF TokensInv, StoredInv, Cleared
  <2>5. OneClaim' /\ HeldFit' /\ StoredInv' /\ AnswerInv'
    BY <1>2, <1>4, <2>1, <2>3, <2>4 DEF OneClaim, HeldFit, StoredInv, AnswerInv, Working
  <2> QED
    BY <2>5 DEF TokensInv
<1> QED
  BY <1>5, <1>6

-------------------------------------------------------------------------------
(* The other steps. *)

LEMMA ApproveKeeps ==
  ASSUME DeviceTypes, TokensInv, MCNext, NEW t \in Tabs, Approve(t)
  PROVE  TokensInv'
<1>1. UNCHANGED <<user, first, stored, sessions, polling, answer>>
  BY DEF Approve
<1>2. owner' = owner
  BY OwnerKept DEF Approve, Swept
<1>3. CASE status = "pending" /\ ~late
  <2>1. status' = status
    BY <1>3 DEF Approve, Swept
  <2>2. ASSUME NEW s \in Selections, Becomes(t, [pc |-> "claim", wants |-> s, has |-> <<>>])
        PROVE  TokensInv'
    <3> DEFINE new == [pc |-> "claim", wants |-> s, has |-> <<>>]
    <3>1. new \in Approval
      BY EmptySeq DEF Approval
    <3> QED
      BY <1>1, <1>2, <1>3, <2>1, <2>2, <3>1, LocalKeeps DEF Working, Registering
  <2> QED
    BY <1>3, <2>2 DEF Approve
<1>4. CASE ~(status = "pending" /\ ~late)
  BY <1>1, <1>2, <1>4, OutsideKeeps DEF Approve, Swept, TokensInv, AnswerInv
<1> QED
  BY <1>3, <1>4

LEMMA PollTokensKeeps ==
  ASSUME DeviceTypes, TokensInv, MCNext, PollTokens
  PROVE  TokensInv'
<1>1. UNCHANGED <<status, user, first, stored, sessions, tab>> /\ polling = "tokens" /\ polling' = "over"
  BY DEF PollTokens, tables, row
<1>2. owner' = owner
  BY <1>1, OwnerKept
<1>3. OneClaim' /\ HeldFit' /\ StoredInv'
  BY <1>1, <1>2
     DEF TokensInv, OneClaim, HeldFit, StoredInv, Cleared, StoredFit, FitsFor
<1>4. status = "approved" /\ FitsFor(first, user) /\ StoredFit(user)
  BY <1>1 DEF TokensInv, AnswerInv, StoredInv
<1>5. \A e \in answer' : FitsFor(e, user)
  <2> DEFINE entries == {stored[p] : p \in Projects} \ {NoEntry}
  <2>1. answer' \in {{first}, entries}
    BY DEF PollTokens
  <2>2. \A e \in entries : FitsFor(e, user)
    BY <1>4 DEF StoredFit
  <2> QED
    BY <1>4, <2>1, <2>2
<1>6. AnswerInv'
  BY <1>1, <1>4, <1>5 DEF AnswerInv, FitsFor
<1> QED
  BY <1>3, <1>6 DEF TokensInv

LEMMA PollAndExpireKeep ==
  ASSUME DeviceTypes, TokensInv, MCNext, PollRow \/ PollLost \/ ExpireByOwner \/ Deadline
  PROVE  TokensInv'
<1>1. /\ UNCHANGED <<tab, user, first, stored, sessions, answer>>
      /\ status' = status \/ (status' = "expired" /\ status # "approved")
  BY DEF PollRow, PollLost, ExpireByOwner, Deadline, Swept, tables, row
<1>2. owner' = owner
  BY <1>1, OwnerKept
<1>3. polling' = "tokens" => status' = "approved"
  BY DEF PollRow, PollLost, ExpireByOwner, Deadline, Swept, tables, row, TokensInv, AnswerInv
<1> QED
  BY <1>1, <1>2, <1>3, OutsideKeeps

LEMMA RevokeSessionKeeps ==
  ASSUME DeviceTypes, TokensInv, MCNext, NEW i \in Projects, RevokeSession(i)
  PROVE  TokensInv'
<1>1. UNCHANGED <<status, tab, user, first, stored, polling, answer>>
  BY DEF RevokeSession, row
<1>2. owner' = owner
  BY <1>1, OwnerKept
<1>3. ASSUME NEW p \in Projects
      PROVE  sessions'[p].token = sessions[p].token /\ sessions'[p].user = sessions[p].user
  <2>1. sessions[p] \in Session
    BY DEF DeviceTypes
  <2>2. sessions'[p] = IF p = i THEN [sessions[p] EXCEPT !.status = "revoked"] ELSE sessions[p]
    BY DEF RevokeSession, DeviceTypes
  <2> QED
    BY <2>1, <2>2 DEF Session
<1>4. polling' = "tokens" => status' = "approved"
  BY <1>1 DEF TokensInv, AnswerInv
<1> QED
  BY <1>1, <1>2, <1>3, <1>4, OutsideKeeps

LEMMA DeviceStep == DeviceInv /\ [MCNext]_mcvars => DeviceInv'
<1> SUFFICES ASSUME DeviceInv, [MCNext]_mcvars PROVE DeviceInv'
  OBVIOUS
<1>1. CASE UNCHANGED mcvars
  <2>1. UNCHANGED <<status, user, first, stored, sessions, minted, tab, polling, answer, owner, twins>>
    BY <1>1 DEF mcvars, vars, tables, row
  <2> QED
    BY <2>1
       DEF DeviceInv, DeviceTypes, TabsOK, TokensInv, OneClaim, HeldFit, StoredInv, AnswerInv, Cleared,
           StoredFit, FitsFor
<1>2. CASE MCNext
  <2>1. DeviceTypes'
    BY <1>2, TypesStep DEF DeviceInv, MCNext
  <2>2. ASSUME ~twins' PROVE TokensInv'
    <3>1. DeviceTypes /\ TokensInv
      BY <1>2, <2>2 DEF DeviceInv, MCNext
    <3>2. ASSUME NEW t \in Tabs, Approve(t) \/ GoesOn(t) \/ Fails(t) \/ Dies(t)
          PROVE  TokensInv'
      BY <1>2, <2>2, <3>1, <3>2, ApproveKeeps, ClaimKeeps, ConfirmKeeps, RegisterReadsKeeps,
         RegisterWritesKeeps, StoreTokensKeeps, FinishKeeps, LeavingKeeps, ClearTokensKeeps, UndoKeeps
         DEF GoesOn, Refused
    <3>3. CASE Poll \/ PollLost \/ ExpireByOwner \/ Deadline
      BY <1>2, <3>1, <3>3, PollTokensKeeps, PollAndExpireKeep DEF Poll
    <3>4. ASSUME NEW i \in Projects, RevokeSession(i) PROVE TokensInv'
      BY <1>2, <3>1, <3>4, RevokeSessionKeeps
    <3> QED
      BY <1>2, <3>2, <3>3, <3>4 DEF MCNext, Next
  <2> QED
    BY <2>1, <2>2 DEF DeviceInv
<1> QED
  BY <1>1, <1>2

\* The tokens a terminal has been handed are, then and later, the current tokens of
\* sessions of the account that approved it, unless two tabs of one account approve on
\* one claim: through failed approvals and repeated ones, the death of a server between
\* two requests, lost answers, other accounts that try and sessions that are revoked.
THEOREM HandedTokensAlwaysWork == MCSpec => []HandedTokensWork
<1>1. DeviceInv => HandedTokensWork
  BY EmptyEntry DEF DeviceInv, TokensInv, AnswerInv, FitsFor, HandedTokensWork
<1> QED
  BY <1>1, InitDevice, DeviceStep, PTL DEF MCSpec

-------------------------------------------------------------------------------
(* What the terminal is handed is whole. *)

Entries == {stored[p] : p \in Projects} \ {NoEntry}
Held(t) == {Entry(i, tab[t].has[i]) : i \in 1 .. Len(tab[t].has)}

\* About to mark the row, an approval has stored all it registered and nothing else is
\* there.  Then nothing clears what is stored but an approval that fails after all.
WholeInv ==
  lost \/
    /\ \A t \in Tabs : tab[t].pc = "finish" => Entries = Held(t)
    /\ status = "approved" =>
         /\ \A t \in Tabs : tab[t].pc \notin Working \ {"reread"}
         /\ Entries # {} /\ Cardinality(Entries) = chosen
    /\ answer # {} => Cardinality(answer) = chosen

LEMMA InitWhole == MCInit => WholeInv
BY IdleApproval DEF MCInit, Init, WholeInv

\* The tokens of an approval are as many as its projects.
LEMMA HeldCount ==
  ASSUME NEW n \in Nat, NEW has
  PROVE  Cardinality({Entry(i, has[i]) : i \in 1 .. n}) = n
<1> DEFINE S == {Entry(i, has[i]) : i \in 1 .. n}
           f == [i \in 1 .. n |-> Entry(i, has[i])]
<1>1. \A i, j \in 1 .. n : Entry(i, has[i]) = Entry(j, has[j]) => i = j
  BY DEF Entry
<1>2. f \in Bijection(1 .. n, S)
  <2>1. f \in Injection(1 .. n, S)
    BY <1>1, Fun_IsInj
  <2>2. f \in Surjection(1 .. n, S)
    BY Fun_IsSurj
  <2> QED
    BY <2>1, <2>2 DEF Bijection
<1>3. IsFiniteSet(1 .. n) /\ Cardinality(1 .. n) = n
  BY FS_Interval
<1>4. ExistsBijection(1 .. n, S)
  BY <1>2, Fun_ExistsBij
<1>5. ASSUME NEW T, ExistsBijection(1 .. n, T) PROVE Cardinality(T) = n
  BY <1>3, <1>5, FS_Bijection
<1> QED
  BY <1>4, <1>5

\* What is chosen is set when the row is marked, and the row stays marked.
LEMMA ChosenKept ==
  ASSUME MCNext, status = "approved" \/ status' # "approved"
  PROVE  chosen' = chosen
BY DEF MCNext

\* A step that does not store, clear, mark or hand over.
LEMMA QuietKeeps ==
  ASSUME WholeInv, MCNext, ~lost', UNCHANGED <<stored, answer>>,
         status' = "approved" <=> status = "approved",
         \A t \in Tabs : \/ tab'[t] = tab[t]
                         \/ /\ tab'[t].pc # "finish"
                            /\ tab'[t].pc \in Working \ {"reread"} =>
                                 status # "approved" \/ tab[t].pc \in Working \ {"reread"}
  PROVE  WholeInv'
<1>1. ~lost
  BY DEF MCNext
<1>2. chosen' = chosen
  BY ChosenKept
<1>3. Entries' = Entries
  BY DEF Entries
<1>4. \A t \in Tabs : tab'[t].pc = "finish" => Entries' = Held(t)'
  BY <1>1, <1>3 DEF WholeInv, Held
<1>5. status' = "approved" => \A t \in Tabs : tab'[t].pc \notin Working \ {"reread"}
  BY <1>1 DEF WholeInv
<1> QED
  BY <1>1, <1>2, <1>3, <1>4, <1>5 DEF WholeInv

LEMMA QuietSteps ==
  ASSUME DeviceTypes, TokensInv, WholeInv, MCNext, ~lost', NEW t \in Tabs,
         Approve(t) \/ Claim(t) \/ Confirm(t) \/ RegisterReads(t) \/ RegisterWrites(t) \/ Reread(t)
           \/ Fails(t) \/ Undo(t) \/ Dies(t)
  PROVE  WholeInv'
<1>0. UNCHANGED <<stored, answer>>
  BY DEF Approve, Claim, Confirm, RegisterReads, RegisterWrites, Reread, Fails, Undo, Dies, tables, Elsewhere
<1>1. status' = "approved" <=> status = "approved"
  BY DEF Approve, Swept, Claim, Confirm, RegisterReads, RegisterWrites, Reread, Fails, Undo, Dies,
         Claimed, tables, row
<1> DEFINE Quiet == /\ \A s \in Tabs : s # t => tab'[s] = tab[s]
                    /\ tab'[t].pc # "finish"
                    /\ tab'[t].pc \in Working \ {"reread"} =>
                         status # "approved" \/ tab[t].pc \in Working \ {"reread"}
<1>2. ASSUME NEW new, Becomes(t, new)
      PROVE  tab'[t] = new /\ \A s \in Tabs : s # t => tab'[s] = tab[s]
  BY <1>2 DEF Becomes, DeviceTypes, TabsOK
<1>3. ASSUME NEW from, NEW to \in {"idle", "claim", "confirm"} \cup Working, Goes(t, from, to)
      PROVE  tab[t].pc = from /\ tab'[t].pc = to /\ \A s \in Tabs : s # t => tab'[s] = tab[s]
  <2> DEFINE new == [pc |-> to, wants |-> tab[t].wants, has |-> tab[t].has]
  <2>1. tab[t].pc = from /\ Becomes(t, new)
    BY <1>3, GoesMoves DEF DeviceTypes
  <2> QED
    BY <1>2, <2>1
<1>4. CASE Approve(t)
  <2>1. CASE UNCHANGED tab
    BY <1>0, <1>1, <2>1, QuietKeeps
  <2>2. ASSUME NEW s \in Selections, Becomes(t, [pc |-> "claim", wants |-> s, has |-> <<>>])
        PROVE  Quiet
    BY <1>2, <2>2 DEF Working, Registering
  <2>3. CASE Quiet
    BY <1>0, <1>1, <2>3, QuietKeeps
  <2> QED
    BY <1>4, <2>1, <2>2, <2>3 DEF Approve
<1>5. CASE Claim(t)
  BY <1>0, <1>1, <1>3, <1>5, QuietKeeps DEF Claim, Working, Registering
<1>6. CASE Becomes(t, Idle)
  BY <1>0, <1>1, <1>2, <1>6, IdleApproval, QuietKeeps DEF Working, Registering
<1>7. CASE Confirm(t)
  <2>1. CASE Claimed(t)
    <3>1. Goes(t, "confirm", "session") /\ status # "approved"
      BY <1>7, <2>1 DEF Confirm, Claimed
    <3> QED
      BY <1>0, <1>1, <1>3, <3>1, QuietKeeps DEF Working, Registering
  <2> QED
    BY <1>6, <1>7, <2>1 DEF Confirm, Stops
<1>8. CASE RegisterReads(t)
  <2>1. PICK to \in {"insert", "update"} : Goes(t, "session", to)
    BY <1>8 DEF RegisterReads
  <2> QED
    BY <1>0, <1>1, <1>3, <2>1, QuietKeeps DEF Working, Registering
<1>9. CASE RegisterWrites(t)
  <2>1. tab'[t].pc \in {"session", "batch"} /\ \A s \in Tabs : s # t => tab'[s] = tab[s]
    BY <1>2, <1>9, RegisterFacts
  <2>2. tab[t].pc \in Working \ {"reread"}
    BY <1>9 DEF RegisterWrites, Working, Registering
  <2> QED
    BY <1>0, <1>1, <2>1, <2>2, QuietKeeps
<1>10. CASE Fails(t)
  <2>1. tab'[t].pc = "clear" /\ \A s \in Tabs : s # t => tab'[s] = tab[s]
    BY <1>2, <1>10, ClearApproval DEF Fails
  <2>2. tab[t].pc # "reread"
    BY <2>1 DEF MCNext
  <2>3. tab[t].pc \in Working \ {"reread"}
    BY <1>10, <2>2 DEF Fails, Working, Registering
  <2> QED
    BY <1>0, <1>1, <2>1, <2>3, QuietKeeps
<1> QED
  BY <1>4, <1>5, <1>6, <1>7, <1>8, <1>9, <1>10 DEF Reread, Undo, Dies, Stops

\* Into cleared rows, the tokens are stored one for each project selected.
LEMMA StoredWhole ==
  ASSUME DeviceTypes, TokensInv, NEW t \in Tabs, StoreTokens(t)
  PROVE  Entries' = Held(t)
<1> DEFINE w == tab[t].wants
<1>1. /\ tab[t] \in Approval /\ ApprovalOK(tab[t]) /\ tab[t].pc = "batch"
  BY DEF DeviceTypes, TabsOK, StoreTokens, Goes
<1>2. w \in Selections /\ Len(tab[t].has) = Len(w) /\ Cleared
  BY <1>1 DEF ApprovalOK, Registering, TokensInv, StoredInv
<1>3. DOMAIN w = 1 .. Len(w) /\ Len(w) \in Nat /\ \A i \in 1 .. Len(w) : w[i] \in Projects
  BY <1>2, SelectionFacts, DeviceAssumption DEF Projects
<1>4. \A i, j \in 1 .. Len(w) : w[i] = w[j] => i = j
  <2>1. \A i, j \in 1 .. Len(w) : i < j => w[i] < w[j]
    BY <1>2, <1>3 DEF Selections
  <2>2. \A i \in 1 .. Len(w) : w[i] \in Nat
    BY <1>3, DeviceAssumption DEF Projects
  <2>3. ASSUME NEW i \in 1 .. Len(w), NEW j \in 1 .. Len(w), w[i] = w[j] PROVE i = j
    <3>1. ~(i < j) /\ ~(j < i)
      BY <2>1, <2>2, <2>3
    <3> QED
      BY <1>3, <3>1
  <2> QED
    BY <2>3
<1>5. ASSUME NEW i \in 1 .. Len(w) PROVE stored'[w[i]] = Entry(i, tab[t].has[i])
  <2>1. w[i] \in Projects /\ \E j \in DOMAIN w : w[j] = w[i]
    BY <1>3
  <2>2. stored'[w[i]] = LET j == CHOOSE j \in DOMAIN w : w[j] = w[i]
                        IN  Entry(j, tab[t].has[j])
    BY <2>1 DEF StoreTokens
  <2>3. (CHOOSE j \in DOMAIN w : w[j] = w[i]) = i
    BY <1>3, <1>4
  <2> QED
    BY <2>2, <2>3
<1>6. ASSUME NEW p \in Projects, ~\E i \in 1 .. Len(w) : w[i] = p PROVE stored'[p] = NoEntry
  BY <1>2, <1>3, <1>6 DEF StoreTokens, Cleared
<1>7. \A i \in 1 .. Len(w) : Entry(i, tab[t].has[i]) # NoEntry
  BY <1>3 DEF Entry, NoEntry
<1>8. Entries' \subseteq Held(t)
  <2> SUFFICES ASSUME NEW p \in Projects, stored'[p] # NoEntry PROVE stored'[p] \in Held(t)
    BY DEF Entries
  <2>1. PICK i \in 1 .. Len(w) : w[i] = p
    BY <1>6
  <2> QED
    BY <1>2, <1>5, <2>1 DEF Held
<1>9. Held(t) \subseteq Entries'
  <2> SUFFICES ASSUME NEW i \in 1 .. Len(w) PROVE Entry(i, tab[t].has[i]) \in Entries'
    BY <1>2 DEF Held
  <2> QED
    BY <1>3, <1>5, <1>7 DEF Entries
<1> QED
  BY <1>8, <1>9

LEMMA StoreTokensWhole ==
  ASSUME DeviceTypes, TokensInv, WholeInv, MCNext, ~lost', NEW t \in Tabs, StoreTokens(t)
  PROVE  WholeInv'
<1> DEFINE new == [pc |-> "finish", wants |-> tab[t].wants, has |-> tab[t].has]
<1>1. tab[t].pc = "batch" /\ Becomes(t, new)
  BY GoesMoves DEF StoreTokens, DeviceTypes, Working
<1>2. tab'[t] = new /\ \A s \in Tabs : s # t => tab'[s] = tab[s]
  BY <1>1 DEF Becomes, DeviceTypes, TabsOK
<1>3. status' = status /\ status # "approved" /\ answer' = {}
      /\ \A s \in Tabs : tab[s].pc \in Working => s = t
  <2>1. status' = status /\ answer' = answer
    BY DEF StoreTokens, row, Elsewhere
  <2> QED
    BY <1>1, <2>1, Alone DEF Working, Registering
<1>4. \A s \in Tabs : tab'[s].pc = "finish" => s = t
  BY <1>2, <1>3 DEF Working
<1>5. Entries' = Held(t)'
  BY <1>2, StoredWhole DEF Held
<1> QED
  BY <1>3, <1>4, <1>5 DEF WholeInv

LEMMA FinishWhole ==
  ASSUME DeviceTypes, TokensInv, WholeInv, MCNext, ~lost', NEW t \in Tabs, Finish(t)
  PROVE  WholeInv'
<1> DEFINE new == [pc |-> "reread", wants |-> tab[t].wants, has |-> tab[t].has]
<1>1. /\ tab[t].pc = "finish" /\ tab[t] \in Approval /\ ApprovalOK(tab[t]) /\ Becomes(t, new)
  BY GoesMoves DEF Finish, DeviceTypes, Working
<1>2. tab'[t] = new /\ \A s \in Tabs : s # t => tab'[s] = tab[s]
  BY <1>1 DEF Becomes, DeviceTypes, TabsOK
<1>3. UNCHANGED <<stored, answer>>
  BY DEF Finish, Elsewhere
<1>4. /\ status # "approved" /\ answer = {}
      /\ \A s \in Tabs : tab[s].pc \in Working => s = t
  BY <1>1, Alone DEF Working
<1>5. CASE ~Claimed(t)
  <2>1. status' = status
    BY <1>5 DEF Finish
  <2> QED
    BY <1>2, <1>3, <1>4, <2>1, QuietKeeps
<1>6. CASE Claimed(t)
  <2>1. status' = "approved"
    BY <1>6 DEF Finish
  <2>2. \A s \in Tabs : tab'[s].pc \notin Working \ {"reread"}
    BY <1>2, <1>4
  <2>3. Entries' = Held(t)
    <3>1. Entries' = Entries
      BY <1>3 DEF Entries
    <3> QED
      BY <1>1, <3>1 DEF WholeInv, MCNext
  <2>4. tab[t].wants \in Selections /\ Len(tab[t].has) = Len(tab[t].wants)
    BY <1>1 DEF ApprovalOK
  <2>5. Len(tab[t].wants) \in Nat \ {0}
    BY <2>4, SelectionFacts, DeviceAssumption DEF Projects
  <2>6. Cardinality(Held(t)) = Len(tab[t].wants)
    BY <2>4, <2>5, HeldCount DEF Held
  <2>7. Held(t) # {}
    <3>1. 1 \in 1 .. Len(tab[t].has)
      BY <2>4, <2>5
    <3> QED
      BY <3>1 DEF Held
  <2>8. chosen' = Len(tab[t].wants)
    <3>1. tab[t].pc = "finish" /\ tab'[t].pc = "reread"
      BY <1>1, <1>2
    <3>2. \A s \in Tabs : tab[s].pc = "finish" /\ tab'[s].pc = "reread" => s = t
      BY <1>4 DEF Working
    <3>3. (CHOOSE s \in Tabs : tab[s].pc = "finish" /\ tab'[s].pc = "reread") = t
      BY <3>1, <3>2
    <3>4. chosen' = LET s == CHOOSE s \in Tabs : tab[s].pc = "finish" /\ tab'[s].pc = "reread"
                    IN  Len(tab[s].wants)
      BY <1>4, <2>1 DEF MCNext
    <3> QED
      BY <3>3, <3>4
  <2>9. \A s \in Tabs : tab'[s].pc # "finish"
    BY <2>2 DEF Working
  <2> QED
    BY <1>3, <1>4, <2>1, <2>2, <2>3, <2>6, <2>7, <2>8, <2>9 DEF WholeInv
<1> QED
  BY <1>5, <1>6

LEMMA ClearTokensWhole ==
  ASSUME DeviceTypes, TokensInv, WholeInv, MCNext, ~lost', NEW t \in Tabs, ClearTokens(t)
  PROVE  WholeInv'
<1> DEFINE new == [pc |-> "undo", wants |-> tab[t].wants, has |-> tab[t].has]
<1>1. tab[t].pc = "clear" /\ Becomes(t, new)
  BY GoesMoves DEF ClearTokens, DeviceTypes, Working
<1>2. tab'[t] = new /\ \A s \in Tabs : s # t => tab'[s] = tab[s]
  BY <1>1 DEF Becomes, DeviceTypes, TabsOK
<1>3. UNCHANGED <<status, answer>>
  BY DEF ClearTokens, row, Elsewhere
<1>4. status # "approved"
  BY <1>1 DEF WholeInv, MCNext, Working
<1>5. answer = {} /\ \A s \in Tabs : tab[s].pc \in Working => s = t
  BY <1>1, <1>4, Alone DEF Working
<1>6. \A s \in Tabs : tab'[s].pc # "finish"
  BY <1>2, <1>5 DEF Working
<1> QED
  BY <1>3, <1>4, <1>5, <1>6 DEF WholeInv

LEMMA PollTokensWhole ==
  ASSUME DeviceTypes, TokensInv, WholeInv, MCNext, ~lost', PollTokens
  PROVE  WholeInv'
<1>1. UNCHANGED <<tab, status, stored>> /\ status = "approved"
  BY DEF PollTokens, tables, row, TokensInv, AnswerInv
<1>2. ~lost /\ chosen' = chosen
  BY <1>1, ChosenKept DEF MCNext
<1>3. Entries' = Entries /\ \A t \in Tabs : Held(t)' = Held(t)
  BY <1>1 DEF Entries, Held
<1>4. Entries # {} /\ Cardinality(Entries) = chosen
  BY <1>1, <1>2 DEF WholeInv
<1>5. answer' = Entries
  BY <1>4 DEF PollTokens, Entries
<1> QED
  BY <1>1, <1>2, <1>3, <1>4, <1>5 DEF WholeInv

LEMMA WholeStep ==
  ASSUME DeviceInv, twins \/ WholeInv, [MCNext]_mcvars
  PROVE  twins' \/ WholeInv'
<1>1. CASE UNCHANGED mcvars
  <2>1. UNCHANGED <<status, stored, tab, answer, twins, lost, chosen>>
    BY <1>1 DEF mcvars, vars, tables, row
  <2>2. Entries' = Entries /\ \A t \in Tabs : Held(t)' = Held(t)
    BY <2>1 DEF Entries, Held
  <2>3. CASE twins
    BY <2>1, <2>3
  <2>4. CASE WholeInv
    BY <2>1, <2>2, <2>4 DEF WholeInv
  <2> QED
    BY <2>3, <2>4
<1>2. ASSUME MCNext, ~twins', ~lost' PROVE WholeInv'
  <2>1. ~twins /\ DeviceTypes /\ TokensInv /\ WholeInv
    BY <1>2 DEF MCNext, DeviceInv
  <2>2. ASSUME NEW t \in Tabs, Approve(t) \/ GoesOn(t) \/ Fails(t) \/ Dies(t)
        PROVE  WholeInv'
    BY <1>2, <2>1, <2>2, QuietSteps, StoreTokensWhole, FinishWhole, ClearTokensWhole DEF GoesOn, Refused
  <2>3. CASE PollTokens
    BY <1>2, <2>1, <2>3, PollTokensWhole
  <2>4. CASE PollRow \/ PollLost \/ ExpireByOwner \/ Deadline \/ \E i \in Projects : RevokeSession(i)
    <3>1. UNCHANGED <<stored, answer, tab>> /\ (status' = "approved" <=> status = "approved")
      BY <2>4 DEF PollRow, PollLost, ExpireByOwner, Deadline, RevokeSession, Swept, tables, row
    <3> QED
      BY <1>2, <2>1, <3>1, QuietKeeps
  <2> QED
    BY <1>2, <2>2, <2>3, <2>4 DEF MCNext, Next, Poll
<1>3. CASE lost'
  BY <1>3 DEF WholeInv
<1>4. twins' \/ lost' \/ (~twins' /\ ~lost')
  OBVIOUS
<1> QED
  BY <1>1, <1>2, <1>3, <1>4

\* A terminal is handed the tokens of one whole approval, and of no other: one for each
\* project it selected, unless the approval failed after it marked the row or shared its
\* claim.
THEOREM HandedIsAlwaysWhole == MCSpec => []HandedWhole
<1>1. MCInit => DeviceInv /\ (twins \/ WholeInv)
  BY InitDevice, InitWhole
<1>2. DeviceInv /\ (twins \/ WholeInv) /\ [MCNext]_mcvars => (DeviceInv /\ (twins \/ WholeInv))'
  BY DeviceStep, WholeStep
<1>3. DeviceInv /\ (twins \/ WholeInv) => HandedWhole
  BY DEF WholeInv, HandedWhole
<1> QED
  BY <1>1, <1>2, <1>3, PTL DEF MCSpec

===============================================================================
