------------------------------ MODULE StatusRule ------------------------------
(***************************************************************************)
(* The status roll-up of a task, api/src/tasks/task-status.ts.             *)
(*                                                                         *)
(* A task's status is derived from its claimant slots.  `states` is a      *)
(* function whose domain is the set of users who hold a slot; it gives the *)
(* state of the latest live submission of each, or "none" when the slot    *)
(* has no submission yet.                                                  *)
(***************************************************************************)
EXTENDS Integers, FiniteSets

SubmissionState == {"review", "revising", "approved", "rejected"}
SlotState       == SubmissionState \cup {"none"}
RolledStatus    == {"open", "claimed", "revising", "review", "approved"}

STATUS_RANK == [open |-> 0, claimed |-> 1, revising |-> 2, review |-> 3, approved |-> 4]

-----------------------------------------------------------------------------

\* The rule used when a task is created: no submission can exist yet.
computeStatusCache(activeClaimants, openings, claimsClosed) ==
  IF ~claimsClosed /\ activeClaimants < openings THEN "open" ELSE "claimed"

HasOpenSpot(openings, claimsClosed, states) ==
  ~claimsClosed /\ Cardinality(DOMAIN states) < openings

\* Rejected submissions are left out of the minimum.
Counted(states) == {u \in DOMAIN states : states[u] # "rejected"}

Contribution(state) == IF state = "none" THEN "claimed" ELSE state

Contributions(openings, claimsClosed, states) ==
  {Contribution(states[u]) : u \in Counted(states)}
    \cup {s \in {"open"} : HasOpenSpot(openings, claimsClosed, states)}

LowestRanked(S) == CHOOSE s \in S : \A t \in S : STATUS_RANK[s] <= STATUS_RANK[t]

\* Empty contributing set floor: nothing to count is "claimed", never a
\* vacuous "approved".
computeMinRuleStatus(openings, claimsClosed, states) ==
  LET all == Contributions(openings, claimsClosed, states)
  IN  IF all = {} THEN "claimed" ELSE LowestRanked(all)

-----------------------------------------------------------------------------

(***************************************************************************)
(* The rule as the product documentation words it, one clause per status   *)
(* (docs/slices/05-submissions-review-lifecycle.md:89-98).  It mentions    *)
(* neither a rank nor a minimum, so that it can be compared with the code. *)
(***************************************************************************)
StatusLadder(openings, claimsClosed, states) ==
  LET some(s) == \E u \in DOMAIN states : states[u] = s
      free    == ~claimsClosed /\ Cardinality(DOMAIN states) < openings
  IN  CASE free               -> "open"
        [] ~free /\ some("none") -> "claimed"
        [] ~free /\ ~some("none") /\ some("revising") -> "revising"
        [] ~free /\ ~some("none") /\ ~some("revising") /\ some("review") -> "review"
        [] ~free /\ (\A u \in DOMAIN states : states[u] \in {"approved", "rejected"})
                 /\ some("approved") -> "approved"
        [] OTHER -> "claimed"
=============================================================================
