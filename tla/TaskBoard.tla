------------------------------- MODULE TaskBoard -------------------------------
(***************************************************************************)
(* One task, its claimant slots and its submissions, under concurrent HTTP *)
(* requests: api/src/tasks/tasks.service.ts, tasks/task-status.service.ts  *)
(* and submissions/submissions.service.ts.                                 *)
(*                                                                         *)
(* Every handler has the same shape.  It first reads rows with no          *)
(* transaction open and answers 404/409 from what it saw; it then opens a  *)
(* PostgreSQL transaction at READ COMMITTED and writes.  The model keeps   *)
(* the gap: a request remembers in req[r] what it read, and its            *)
(* transaction is a later step.                                            *)
(*                                                                         *)
(* Row locks decide which transactions interleave.                         *)
(*  - claim, leave, removeClaimant, manageClaims and submit start with     *)
(*    SELECT ... FROM task ... FOR UPDATE.  Everything else that commits   *)
(*    changes to this task needs a lock on that row that conflicts with    *)
(*    it, so such a transaction is ONE step, enabled while no other open   *)
(*    transaction holds the row.                                           *)
(*  - review and retireSubmission insert a message; its foreign key takes  *)
(*    FOR KEY SHARE on the task row, which excludes FOR UPDATE and nothing *)
(*    else.  They also hold the row lock of the submission they update.    *)
(*    Two of them can be open at once, so each is TWO steps: the locks and *)
(*    the reads of the status recompute, then the writes, all published at *)
(*    commit.                                                              *)
(*  - complete, retire and revive update the task row without reading      *)
(*    anything they use: one step.                                         *)
(* A handler's own 404/409 inside the transaction, a Prisma timeout and a  *)
(* crash all roll the transaction back: Abandon.                           *)
(*                                                                         *)
(* Left out: names, descriptions, the requester and the version column of  *)
(* the task (no handler reads it), answers and attachments, and the append *)
(* only activity, message and notification rows.  openings_locked only     *)
(* refuses an openings change, which Abandon covers.                       *)
(***************************************************************************)
EXTENDS StatusRule, Sequences

CONSTANTS
  User,            \* people who may hold a slot
  ClaimReq,        \* concurrent requests of claimants
  DeskReq,         \* concurrent requests of the requester's desk
  DefaultOpenings, \* openings a division may seed a new task with
  Deltas,          \* openingsDelta values a request may carry
  MaxOpenings,     \* bound on openings
  MaxSubmissions   \* bound on the versions one claimant hands in

ASSUME UserAssumption       == IsFiniteSet(User)
ASSUME RequestAssumption    == ClaimReq \cap DeskReq = {}
ASSUME OpeningsAssumption   == /\ DefaultOpenings \subseteq Nat
                               /\ Deltas \subseteq Int
                               /\ MaxOpenings \in Nat
ASSUME SubmissionAssumption == MaxSubmissions \in Nat

Request == ClaimReq \cup DeskReq

VARIABLES
  openings, claimsClosed, lifecycle, statusCache,   \* the task row
  slot,            \* slot[u]: "none" (no row), "active", or "left" (left_at set)
  hasSubmitted,    \* has_submitted of u's slot row
  submissions,     \* submissions[u]: u's submission rows by submission_no
  rowVersion,      \* rowVersion[u][n]: optimistic-lock column of that row
  req,             \* what each request has read so far
  peak,            \* history: the most openings the task ever had
  drift            \* history: the reasons status_cache may differ from the rule

taskRow == <<openings, claimsClosed, lifecycle, statusCache>>
slots   == <<slot, hasSubmitted>>
work    == <<submissions, rowVersion>>
vars    == <<openings, claimsClosed, lifecycle, statusCache, slot, hasSubmitted,
             submissions, rowVersion, req, peak, drift>>

-----------------------------------------------------------------------------
(* Requests and what they carry *)

Idle == [op |-> "idle"]
Decision == {"approved", "revising", "rejected"}

Context ==
  {Idle}
  \cup [op : {"claim"}, user : User, openings : Nat]
  \cup [op : {"leave", "submit", "remove"}, user : User]
  \cup [op : {"manage"}, openings : Nat]
  \cup [op : {"complete", "retire", "revive"}]
  \cup [op : {"review"}, user : User, no : Nat \ {0}, version : Nat]
  \cup [op : {"retireSubmission"}, user : User, no : Nat \ {0}]
  \cup [op : {"reviewing"}, user : User, no : Nat \ {0}, decision : Decision,
        status : RolledStatus]
  \cup [op : {"retiringSubmission"}, user : User, no : Nat \ {0}, status : RolledStatus]

\* Requests whose transaction is open between two steps.
Open == {r \in Request : req[r].op \in {"reviewing", "retiringSubmission"}}

\* Mutant: the handler forgets SELECT ... FOR UPDATE.
TaskRowNotLocked == TRUE

\* FOR UPDATE on the task row is granted when no open transaction has it.
TaskRowFree == Open = {}

SubmissionRowFree(u, n) == \A r \in Open : req[r].user # u \/ req[r].no # n

\* retireSubmission also updates the slot row of the claimant, before it
\* recomputes: a second one for the same claimant waits for the first.
SlotRowFree(u) == \A r \in Open : req[r].op = "retiringSubmission" => req[r].user # u

Loads(r, context)  == req[r] = Idle /\ req' = [req EXCEPT ![r] = context]
Answers(r)         == req' = [req EXCEPT ![r] = Idle]

-----------------------------------------------------------------------------
(* The status recompute *)

ActiveOf(theSlots) == {u \in User : theSlots[u] = "active"}
Active == ActiveOf(slot)

\* State of the latest live submission, "none" without one.
LatestState(versions) ==
  LET live == {n \in DOMAIN versions : versions[n].lifecycle = "active"}
  IN  IF live = {} THEN "none"
      ELSE versions[CHOOSE n \in live : \A m \in live : m <= n].state

StatesOf(theSlots, theWork) == [u \in ActiveOf(theSlots) |-> LatestState(theWork[u])]

\* TaskStatusService.recompute, on the rows its transaction sees.
Recompute(open, closed, theSlots, theWork) ==
  computeMinRuleStatus(open, closed, StatesOf(theSlots, theWork))

\* The recompute of a transaction that holds the task row alone.
RecomputeStatus ==
  /\ statusCache' = Recompute(openings', claimsClosed', slot', submissions')
  /\ drift' = {}

-----------------------------------------------------------------------------
(* Claimants *)

LoadForClaim(r, u) ==
  /\ lifecycle = "active" /\ ~claimsClosed
  /\ Loads(r, [op |-> "claim", user |-> u, openings |-> openings])
  /\ UNCHANGED <<taskRow, slots, work, peak, drift>>

\* Mutant: the capacity check lets one claimant too many in.
SpotLeftOrOne(seenOpenings) == Cardinality(Active) <= seenOpenings

\* The check uses the openings read before the transaction.
SpotLeft(seenOpenings) == Cardinality(Active) < seenOpenings

Claim(r) ==
  LET u == req[r].user IN
  /\ req[r].op = "claim" /\ TaskRowFree
  /\ slot[u] # "active"
  /\ SpotLeft(req[r].openings)
  /\ slot' = [slot EXCEPT ![u] = "active"]
  /\ hasSubmitted' = [hasSubmitted EXCEPT ![u] = FALSE]
  /\ Answers(r)
  /\ UNCHANGED <<openings, claimsClosed, lifecycle, work, peak>>
  /\ RecomputeStatus

LoadForLeave(r, u) ==
  /\ lifecycle = "active"
  /\ Loads(r, [op |-> "leave", user |-> u])
  /\ UNCHANGED <<taskRow, slots, work, peak, drift>>

LoadForRemoval(r, u) ==
  /\ lifecycle = "active"
  /\ Loads(r, [op |-> "remove", user |-> u])
  /\ UNCHANGED <<taskRow, slots, work, peak, drift>>

\* leave and removeClaimant differ only in who may call them.
GiveUpSlot(r) ==
  LET u == req[r].user IN
  /\ req[r].op \in {"leave", "remove"} /\ TaskRowFree
  /\ slot[u] = "active"
  /\ slot' = [slot EXCEPT ![u] = "left"]
  /\ Answers(r)
  /\ UNCHANGED <<openings, claimsClosed, lifecycle, hasSubmitted, work, peak>>
  /\ RecomputeStatus

LoadForSubmit(r, u) ==
  /\ lifecycle = "active" /\ slot[u] = "active"
  /\ Loads(r, [op |-> "submit", user |-> u])
  /\ UNCHANGED <<taskRow, slots, work, peak, drift>>

\* Mutant: any live version may be followed by another.
MayResubmitAlways(versions) == TRUE

\* ALREADY_SUBMITTED unless the last version was returned or retired.
MayResubmit(versions) ==
  \A n \in DOMAIN versions : n = Len(versions) =>
    versions[n].lifecycle # "active" \/ versions[n].state = "revising"

NextVersion(versions) ==
  [state     |-> "review",
   lifecycle |-> "active",
   prev      |-> IF versions # << >> /\ versions[Len(versions)].lifecycle = "active"
                 THEN Len(versions) ELSE 0]

Submit(r) ==
  LET u == req[r].user IN
  /\ req[r].op = "submit" /\ TaskRowFree
  /\ Len(submissions[u]) < MaxSubmissions
  /\ MayResubmit(submissions[u])
  /\ submissions' = [submissions EXCEPT ![u] = Append(@, NextVersion(@))]
  /\ hasSubmitted' = [hasSubmitted EXCEPT ![u] = TRUE]
  /\ Answers(r)
  /\ UNCHANGED <<openings, claimsClosed, lifecycle, slot, rowVersion, peak>>
  /\ RecomputeStatus

-----------------------------------------------------------------------------
(* The requester's desk *)

LoadForManage(r) ==
  /\ lifecycle = "active"
  /\ Loads(r, [op |-> "manage", openings |-> openings])
  /\ UNCHANGED <<taskRow, slots, work, peak, drift>>

\* Mutant: the new count is not checked at all.
FitsAnyone(newOpenings) == TRUE

FitsClaimants(newOpenings) == newOpenings >= 0 /\ newOpenings >= Cardinality(Active)

\* The delta is added to the openings read before the transaction.
ManageClaims(r, delta, closed) ==
  LET newOpenings == req[r].openings + delta IN
  /\ req[r].op = "manage" /\ TaskRowFree
  /\ IF delta = 0 THEN openings' = openings
     ELSE /\ FitsClaimants(newOpenings) /\ newOpenings <= MaxOpenings
          /\ openings' = newOpenings
  /\ claimsClosed' = closed
  /\ peak' = IF openings' > peak THEN openings' ELSE peak
  /\ Answers(r)
  /\ UNCHANGED <<lifecycle, slot, hasSubmitted, work>>
  /\ RecomputeStatus

LoadForTask(r, op) ==
  /\ IF op = "revive" THEN lifecycle = "retired" ELSE lifecycle = "active"
  /\ Loads(r, [op |-> op])
  /\ UNCHANGED <<taskRow, slots, work, peak, drift>>

Complete(r) ==
  /\ req[r].op = "complete"
  /\ statusCache' = "approved"
  /\ drift' = drift \cup {"manual"}
  /\ Answers(r)
  /\ UNCHANGED <<openings, claimsClosed, lifecycle, slots, work, peak>>

RetireTask(r) ==
  /\ req[r].op = "retire"
  /\ lifecycle' = "retired"
  /\ Answers(r)
  /\ UNCHANGED <<openings, claimsClosed, statusCache, slots, work, peak, drift>>

ReviveTask(r) ==
  /\ req[r].op = "revive"
  /\ lifecycle' = "active"
  /\ Answers(r)
  /\ UNCHANGED <<openings, claimsClosed, statusCache, slots, work, peak, drift>>

\* No conjunct on the task's lifecycle: neither review nor retireSubmission
\* looks at it, and the route guard that refuses a retired task
\* (authorize.decorator.ts) reads it earlier, so a retirement may overtake it.
LoadForReview(r, u, n) ==
  /\ submissions[u][n].lifecycle = "active"
  /\ submissions[u][n].state = "review"
  /\ Loads(r, [op |-> "review", user |-> u, no |-> n, version |-> rowVersion[u][n]])
  /\ UNCHANGED <<taskRow, slots, work, peak, drift>>

\* A second recompute while one is open may write what the first made stale.
NoteOverlap == drift' = IF Open = {} THEN drift ELSE drift \cup {"overlap"}
SettleDrift == drift' = drift \ {"manual"}

\* Mutant: the UPDATE is not guarded by the version that was read.
VersionIgnored(r) == TRUE

VersionMatches(r) == rowVersion[req[r].user][req[r].no] = req[r].version

\* UPDATE submission ... WHERE version = <read>, the system reply, and the
\* reads of the recompute, which see this transaction's own update.
BeginReview(r, decision) ==
  LET u == req[r].user
      n == req[r].no
  IN
  /\ req[r].op = "review"
  /\ SubmissionRowFree(u, n) /\ VersionMatches(r)
  /\ req' = [req EXCEPT ![r] =
       [op |-> "reviewing", user |-> u, no |-> n, decision |-> decision,
        status |-> Recompute(openings, claimsClosed, slot,
                     [submissions EXCEPT ![u][n].state = decision])]]
  /\ NoteOverlap
  /\ UNCHANGED <<taskRow, slots, work, peak>>

CommitReview(r) ==
  LET u == req[r].user
      n == req[r].no
  IN
  /\ req[r].op = "reviewing"
  /\ submissions' = [submissions EXCEPT ![u][n].state = req[r].decision]
  /\ rowVersion' = [rowVersion EXCEPT ![u][n] = @ + 1]
  /\ statusCache' = req[r].status
  /\ SettleDrift
  /\ Answers(r)
  /\ UNCHANGED <<openings, claimsClosed, lifecycle, slots, peak>>

LoadForRetireSubmission(r, u, n) ==
  /\ submissions[u][n].lifecycle = "active"
  /\ Loads(r, [op |-> "retireSubmission", user |-> u, no |-> n])
  /\ UNCHANGED <<taskRow, slots, work, peak, drift>>

\* The audit message, UPDATE submission (no version guard), UPDATE of the slot
\* row and the reads of the recompute.
BeginRetireSubmission(r) ==
  LET u == req[r].user
      n == req[r].no
  IN
  /\ req[r].op = "retireSubmission"
  /\ SubmissionRowFree(u, n) /\ SlotRowFree(u)
  /\ req' = [req EXCEPT ![r] =
       [op |-> "retiringSubmission", user |-> u, no |-> n,
        status |-> Recompute(openings, claimsClosed, slot,
                     [submissions EXCEPT ![u][n].lifecycle = "retired"])]]
  /\ NoteOverlap
  /\ UNCHANGED <<taskRow, slots, work, peak>>

\* Mutant: retiring a submission leaves has_submitted alone.
SlotStaysSubmitted(u) == hasSubmitted' = hasSubmitted

SlotReverts(u) == hasSubmitted' = [hasSubmitted EXCEPT ![u] = FALSE]

CommitRetireSubmission(r) ==
  LET u == req[r].user
      n == req[r].no
  IN
  /\ req[r].op = "retiringSubmission"
  /\ submissions' = [submissions EXCEPT ![u][n].lifecycle = "retired"]
  /\ rowVersion' = [rowVersion EXCEPT ![u][n] = @ + 1]
  /\ SlotReverts(u)
  /\ statusCache' = req[r].status
  /\ SettleDrift
  /\ Answers(r)
  /\ UNCHANGED <<openings, claimsClosed, lifecycle, slot, peak>>

\* The request ends without committing: a check of its own transaction
\* refuses, the transaction times out, or the process goes away.
Abandon(r) ==
  /\ req[r] # Idle
  /\ Answers(r)
  /\ UNCHANGED <<taskRow, slots, work, peak, drift>>

-----------------------------------------------------------------------------

Init ==
  /\ openings \in DefaultOpenings
  /\ claimsClosed = FALSE
  /\ lifecycle = "active"
  /\ statusCache = computeStatusCache(0, openings, FALSE)
  /\ slot = [u \in User |-> "none"]
  /\ hasSubmitted = [u \in User |-> FALSE]
  /\ submissions = [u \in User |-> << >>]
  /\ rowVersion = [u \in User |-> [n \in 1..MaxSubmissions |-> 0]]
  /\ req = [r \in Request |-> Idle]
  /\ peak = openings
  /\ drift = {}

ClaimantStep(r) ==
  \/ \E u \in User : LoadForClaim(r, u) \/ LoadForLeave(r, u) \/ LoadForSubmit(r, u)
  \/ Claim(r)
  \/ Submit(r)

ReviewStep(r) ==
  \/ \E u \in User : \E n \in DOMAIN submissions[u] :
       LoadForReview(r, u, n) \/ LoadForRetireSubmission(r, u, n)
  \/ \E decision \in Decision : BeginReview(r, decision)
  \/ BeginRetireSubmission(r)
  \/ CommitReview(r)
  \/ CommitRetireSubmission(r)

DeskStep(r) ==
  \/ \E u \in User : LoadForRemoval(r, u)
  \/ LoadForManage(r)
  \/ \E delta \in Deltas \cup {0}, closed \in BOOLEAN : ManageClaims(r, delta, closed)
  \/ \E op \in {"complete", "retire", "revive"} : LoadForTask(r, op)
  \/ Complete(r)
  \/ RetireTask(r)
  \/ ReviveTask(r)

Next ==
  \/ \E r \in ClaimReq : ClaimantStep(r)
  \/ \E r \in DeskReq : DeskStep(r) \/ ReviewStep(r)
  \/ \E r \in Request : GiveUpSlot(r) \/ Abandon(r)

Spec == Init /\ [][Next]_vars

-----------------------------------------------------------------------------
(* Properties *)

SubmissionRow ==
  [state : SubmissionState, lifecycle : {"active", "retired"}, prev : Nat]

TaskRowOK == /\ openings \in Nat /\ claimsClosed \in BOOLEAN
             /\ lifecycle \in {"active", "retired"}
             /\ statusCache \in RolledStatus

SlotsOK == /\ slot \in [User -> {"none", "active", "left"}]
           /\ hasSubmitted \in [User -> BOOLEAN]

WorkOK == /\ submissions \in [User -> Seq(SubmissionRow)]
          /\ \A u \in User : Len(submissions[u]) <= MaxSubmissions
          /\ rowVersion \in [User -> [1..MaxSubmissions -> Nat]]

RowOps == {"review", "reviewing", "retireSubmission", "retiringSubmission"}

RequestsOK == /\ req \in [Request -> Context]
              /\ \A r \in Request : req[r].op \in RowOps
                   => req[r].no \in DOMAIN submissions[req[r].user]

HistoryOK == peak \in Nat /\ drift \subseteq {"manual", "overlap"}

\* Every variable holds a value of its column's type, and every request that
\* is about a submission points at an existing row.
TypeOK == TaskRowOK /\ SlotsOK /\ WorkOK /\ RequestsOK /\ HistoryOK

\* No interleaving of claims, departures and openings changes ever seats more
\* claimants than the task once had openings: the FOR UPDATE of claim and
\* manageClaims serialises the counts (tasks.service.ts:424-440, 544-568).
NeverAbovePeak == Cardinality(Active) <= peak

\* The submission rows behave as the ledger promises although each review and
\* retirement is split over a read, a locked update and a commit.
Ledger == INSTANCE SubmissionLedger WITH ledger <- submissions
LedgerSpec == Ledger!Spec

\* At most one version of a claimant still counts (submissions.service.ts:189-202).
OnlyLastVersionCounts == Ledger!OnlyLastVersionCounts

\* prev_submission_id only ever names the version that was returned.
ChainOfReturned == Ledger!ChainOfReturned

\* has_submitted is never left standing without a live latest version: the
\* revert of retireSubmission and the reset of a re-claim win every race.
HasSubmittedMeansLive ==
  \A u \in User : hasSubmitted[u] =>
    /\ submissions[u] # << >>
    /\ submissions[u][Len(submissions[u])].lifecycle = "active"

CurrentLadder == StatusLadder(openings, claimsClosed, StatesOf(slot, submissions))

\* The stored status is the documented one at every moment, except after a
\* manual completion and after two recomputes overlapped; the next claim,
\* departure, submission or claims change repairs both.
StatusIsDerived == drift = {} => statusCache = CurrentLadder
=============================================================================
