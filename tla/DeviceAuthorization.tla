--------------------------- MODULE DeviceAuthorization ---------------------------
(***************************************************************************)
(* The device-code flow, for one authorization that a terminal has         *)
(* created: browser tabs approve it for the projects they select, with one *)
(* agent session for each, and the terminal polls until it has the tokens  *)
(* of the sessions or the authorization is over.                           *)
(*                                                                         *)
(* An approval claims the row, registers the sessions, stores their tokens *)
(* in a batch and marks the row approved, each in a request of its own; it *)
(* undoes what it stored when one of them fails.  Tabs of one account or   *)
(* of several may approve at once, close in between, and lose answers.     *)
(*                                                                         *)
(* Left out: the rate limit, the device's key and its wrapping, access to  *)
(* a project and capabilities (a refusal is a failure of the registration) *)
(* and the deletion of the row a day later.                                *)
(***************************************************************************)
EXTENDS Naturals, Sequences

CONSTANTS
  Tabs,          \* browser tabs, each a pair of its account and a number
  MaxProjects,
  Nobody,
  MaxApprovals   \* bound on the approvals that are started

ASSUME DeviceAssumption ==
  /\ MaxProjects \in Nat \ {0} /\ MaxApprovals \in Nat
  /\ \A t \in Tabs : t[1] # Nobody

Account(t) == t[1]

\* Projects are numbered in the order of the browser's checklist.
Projects == 1 .. MaxProjects

\* normalizeApprovalSelections: distinct projects, at least one.
Selections ==
  {s \in UNION {[1 .. n -> Projects] : n \in Projects} :
     \A i, j \in DOMAIN s : i < j => s[i] < s[j]}

VARIABLES
  status,    \* of the row of device_authorizations
  user,      \* ... its user_id
  first,     \* ... and its scalar columns: the token of the first project
  stored,    \* the child rows: what each project has stored
  sessions,  \* agent_sessions, by the index that their id ends in
  minted,    \* counts the tokens created
  late,      \* expires_at has passed
  tab,       \* the approval a tab has under way: its next request, the projects it
             \* selected and the tokens it registered for them, in this order
  polling,   \* what the terminal is about to do
  answer,    \* what the terminal has been handed
  approvals  \* counts the approvals, for the bound

row == <<status, user, first>>
tables == <<row, stored, sessions, minted>>
vars == <<tables, late, tab, polling, answer, approvals>>

Entry(i, token) == [index |-> i, token |-> token]
NoEntry == Entry(0, 0)
NoSession == [user |-> Nobody, of |-> 0, token |-> 0, status |-> "none"]
Idle == [pc |-> "idle", wants |-> <<>>, has |-> <<>>]

\* createDeviceAuthorization.
Init ==
  /\ status = "pending" /\ user = Nobody /\ first = NoEntry
  /\ stored = [p \in Projects |-> NoEntry]
  /\ sessions = [i \in Projects |-> NoSession]
  /\ minted = 0
  /\ late = FALSE
  /\ tab = [t \in Tabs |-> Idle]
  /\ polling = "row"
  /\ answer = {}
  /\ approvals = 0

\* expireDeviceAuthorizations, which each request starts with.
Swept == IF late /\ status = "pending" THEN "expired" ELSE status

Deadline == ~late /\ late' = TRUE /\ UNCHANGED <<tables, tab, polling, answer, approvals>>

-------------------------------------------------------------------------------
(* approveDeviceAuthorization. *)

Becomes(t, new) == tab' = [tab EXCEPT ![t] = new]
Goes(t, from, to) == tab[t].pc = from /\ tab' = [tab EXCEPT ![t].pc = to]
Stops(t, from) == tab[t].pc = from /\ Becomes(t, Idle)
Elsewhere == UNCHANGED <<late, polling, answer, approvals>>

\* The row is read; it must be pending and in time.
Approve(t) ==
  /\ tab[t] = Idle
  /\ approvals < MaxApprovals /\ approvals' = approvals + 1
  /\ status' = Swept
  /\ IF status = "pending" /\ ~late
     THEN \E s \in Selections : Becomes(t, [pc |-> "claim", wants |-> s, has |-> <<>>])
     ELSE UNCHANGED tab
  /\ UNCHANGED <<user, first, stored, sessions, minted, late, polling, answer>>

\* The update is void unless the row is still pending.
Claim(t) ==
  /\ Goes(t, "claim", "confirm")
  /\ IF status = "pending"
     THEN status' = "approving" /\ user' = Account(t)
     ELSE UNCHANGED <<status, user>>
  /\ UNCHANGED <<first, stored, sessions, minted>> /\ Elsewhere

\* Mutant of Claimed: whose claim it is is not asked.
ClaimedByAnyone(t) == status = "approving"

\* The claim is known by its account, not by the request that made it.
Claimed(t) == status = "approving" /\ user = Account(t)

Confirm(t) ==
  /\ IF Claimed(t) THEN Goes(t, "confirm", "session") ELSE Stops(t, "confirm")
  /\ UNCHANGED tables /\ Elsewhere

Index(t) == Len(tab[t].has) + 1
Project(t) == tab[t].wants[Index(t)]

\* registerAgentSession: a session that exists must be the account's, of this project, and
\* not revoked.
Reusable(t) ==
  LET s == sessions[Index(t)]
  IN  s.status = "active" /\ s.user = Account(t) /\ s.of = Project(t)

RegisterReads(t) ==
  /\ \/ Goes(t, "session", "insert") /\ sessions[Index(t)] = NoSession
     \/ Goes(t, "session", "update") /\ Reusable(t)
  /\ UNCHANGED tables /\ Elsewhere

\* The new token takes the place of the one the session had; an insert of a session that
\* exists by now fails.
RegisterWrites(t) ==
  /\ tab[t].pc \in {"insert", "update"}
  /\ tab[t].pc = "insert" => sessions[Index(t)] = NoSession
  /\ minted' = minted + 1
  /\ sessions' = [sessions EXCEPT ![Index(t)] =
       [user |-> Account(t), of |-> Project(t), token |-> minted', status |-> "active"]]
  /\ Becomes(t, [tab[t] EXCEPT
       !.pc = IF Index(t) = Len(tab[t].wants) THEN "batch" ELSE "session",
       !.has = Append(@, minted')])
  /\ UNCHANGED <<row, stored>> /\ Elsewhere

StoreTokens(t) ==
  /\ Goes(t, "batch", "finish")
  /\ stored' = [p \in Projects |->
       IF \E i \in DOMAIN tab[t].wants : tab[t].wants[i] = p
       THEN LET i == CHOOSE i \in DOMAIN tab[t].wants : tab[t].wants[i] = p
            IN  Entry(i, tab[t].has[i])
       ELSE stored[p]]
  /\ UNCHANGED <<row, sessions, minted>> /\ Elsewhere

\* The update is void unless the row is still being approved by this account.
Finish(t) ==
  /\ Goes(t, "finish", "reread")
  /\ IF Claimed(t)
     THEN status' = "approved" /\ first' = Entry(1, tab[t].has[1])
     ELSE UNCHANGED <<status, first>>
  /\ UNCHANGED <<user, stored, sessions, minted>> /\ Elsewhere

Reread(t) == Stops(t, "reread") /\ UNCHANGED tables /\ Elsewhere

\* A request fails, or its answer is lost.
Fails(t) ==
  /\ tab[t].pc \in {"session", "insert", "update", "batch", "finish", "reread"}
  /\ Becomes(t, [Idle EXCEPT !.pc = "clear"])
  /\ UNCHANGED tables /\ Elsewhere

\* The session exists and is revoked, another's or another project's.
Refused(t) ==
  /\ tab[t].pc \in {"session", "insert"}
  /\ sessions[Index(t)] # NoSession
  /\ tab[t].pc = "session" => ~Reusable(t)
  /\ Fails(t)

\* Mutant of ClearTokens: what was stored stays.
ClearTokensNot(t) == Goes(t, "clear", "undo") /\ UNCHANGED tables /\ Elsewhere

\* The child rows are cleared, whatever the row says by now.
ClearTokens(t) ==
  /\ Goes(t, "clear", "undo")
  /\ stored' = [p \in Projects |-> NoEntry]
  /\ UNCHANGED <<row, sessions, minted>> /\ Elsewhere

\* Mutant of Undo: the columns are cleared, the status is not set back.
UndoColumns(t) ==
  /\ Stops(t, "undo")
  /\ IF Claimed(t)
     THEN status' = status /\ user' = Nobody /\ first' = NoEntry
     ELSE UNCHANGED row
  /\ UNCHANGED <<stored, sessions, minted>> /\ Elsewhere

Undo(t) ==
  /\ Stops(t, "undo")
  /\ IF Claimed(t)
     THEN status' = "pending" /\ user' = Nobody /\ first' = NoEntry
     ELSE UNCHANGED row
  /\ UNCHANGED <<stored, sessions, minted>> /\ Elsewhere

\* The server that handles the approval stops.
Dies(t) ==
  /\ tab[t] # Idle /\ Becomes(t, Idle)
  /\ UNCHANGED tables /\ Elsewhere

-------------------------------------------------------------------------------
(* pollDeviceAuthorization, and the loop of the terminal around it. *)

PollRow ==
  /\ polling = "row"
  /\ status' = Swept
  /\ polling' = CASE Swept \in {"pending", "approving"} -> IF late THEN "over" ELSE "row"
                  [] Swept = "approved" /\ ~late -> "tokens"
                  [] OTHER -> "over"
  /\ UNCHANGED <<user, first, stored, sessions, minted, late, tab, answer, approvals>>

\* The child rows are read in a second query; without any, the scalars count.
PollTokens ==
  /\ polling = "tokens"
  /\ polling' = "over"
  /\ answer' = LET entries == {stored[p] : p \in Projects} \ {NoEntry}
               IN  IF entries = {} THEN {first} ELSE entries
  /\ UNCHANGED <<tables, late, tab, approvals>>

\* A poll fails or its answer is lost; the terminal polls again until the deadline.
PollLost ==
  /\ polling = "tokens"
  /\ polling' = IF late THEN "over" ELSE "row"
  /\ UNCHANGED <<tables, late, tab, answer, approvals>>

-------------------------------------------------------------------------------
(* revokeAgentSession, and the owner's expire_device_authorization. *)

RevokeSession(i) ==
  /\ sessions[i].status = "active"
  /\ sessions' = [sessions EXCEPT ![i].status = "revoked"]
  /\ UNCHANGED <<row, stored, minted, late, tab, polling, answer, approvals>>

ExpireByOwner ==
  /\ status \in {"pending", "approving"}
  /\ status' = "expired"
  /\ UNCHANGED <<user, first, stored, sessions, minted, late, tab, polling, answer, approvals>>

-------------------------------------------------------------------------------

GoesOn(t) ==
  \/ Claim(t) \/ Confirm(t) \/ RegisterReads(t) \/ RegisterWrites(t) \/ StoreTokens(t)
  \/ Finish(t) \/ Reread(t) \/ Refused(t) \/ ClearTokens(t) \/ Undo(t)

Poll == PollRow \/ PollTokens

Next ==
  \/ \E t \in Tabs : Approve(t) \/ GoesOn(t) \/ Fails(t) \/ Dies(t)
  \/ Poll \/ PollLost
  \/ \E i \in Projects : RevokeSession(i)
  \/ ExpireByOwner
  \/ Deadline

\* An approval that has begun takes its next request, and the terminal polls at its
\* interval.  Whether to approve is the user's decision.
Fairness == WF_vars(Poll) /\ \A t \in Tabs : WF_vars(GoesOn(t))

Spec == Init /\ [][Next]_vars /\ Fairness

===============================================================================
