-------------------------- MODULE MCDeviceAuthorization --------------------------
(***************************************************************************)
(* TLC instance of DeviceAuthorization, with history variables: what has   *)
(* gone wrong, and how many projects the completed approval selected.      *)
(***************************************************************************)
EXTENDS DeviceAuthorization, FiniteSets

CONSTANTS u, v

\* Two tabs of one account and one of another.
MCTabs == {<<u, 1>>, <<u, 2>>, <<v, 1>>}

VARIABLES
  owner,      \* the tab whose update claimed the row last
  twins,      \* another tab of the same account has taken this claim for its own
  lost,       \* an approval has failed after it marked the row
  abandoned,  \* an approval has died, or failed while it undid its work
  chosen

mcvars == <<vars, owner, twins, lost, abandoned, chosen>>

MCInit ==
  /\ Init
  /\ owner = Nobody /\ twins = FALSE /\ lost = FALSE /\ abandoned = FALSE /\ chosen = 0

MCNext ==
  /\ Next
  /\ owner' = IF status = "pending" /\ status' = "approving"
              THEN CHOOSE t \in Tabs : tab[t].pc = "claim" /\ tab'[t].pc = "confirm"
              ELSE owner
  /\ twins' = (twins \/ \E t \in Tabs : t # owner /\ tab[t].pc = "confirm" /\
       tab'[t].pc = "session" /\ Account(t) = Account(owner))
  /\ lost' = (lost \/ \E t \in Tabs : tab[t].pc = "reread" /\ tab'[t].pc = "clear")
  /\ abandoned' = (abandoned \/ \E t \in Tabs : Claimed(t) /\ UNCHANGED row /\
       tab[t] # Idle /\ tab'[t] = Idle)
  /\ chosen' = IF status # "approved" /\ status' = "approved"
               THEN LET t == CHOOSE t \in Tabs : tab[t].pc = "finish" /\ tab'[t].pc = "reread"
                    IN  Len(tab[t].wants)
               ELSE chosen

MCSpec == MCInit /\ [][MCNext]_mcvars /\ Fairness

\* The tokens a terminal has been handed are, then and later, the current tokens of
\* sessions of the account that approved it, through failed approvals and repeated
\* ones, lost answers and other accounts that try, unless two tabs of one account
\* approve on one claim: each registers the sessions anew.
HandedTokensWork ==
  twins \/ \A e \in answer :
    e # NoEntry /\ sessions[e.index].token = e.token /\ sessions[e.index].user = user

\* A terminal that is handed tokens gets one for each project of the approval that was
\* completed and none of an earlier one that failed, unless the completed approval
\* failed after all or shared its claim.
HandedWhole ==
  answer # {} => twins \/ lost \/ Cardinality(answer) = chosen

\* A claimed row does not stay claimed: the approval is completed, undone or expired by
\* the owner, unless its process died on the way.
ApprovingEnds == status = "approving" ~> (status # "approving" \/ abandoned)

===============================================================================
