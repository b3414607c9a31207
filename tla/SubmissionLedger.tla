--------------------------- MODULE SubmissionLedger ---------------------------
(***************************************************************************)
(* What the submission lifecycle promises, with no request, transaction or *)
(* lock in sight (docs/slices/05-submissions-review-lifecycle.md:56-104):  *)
(* each claimant has a chain of numbered versions; a version is handed in  *)
(* for review, is decided once, and may be retired for good at any time; a *)
(* new version is only accepted when the last one was returned or retired. *)
(***************************************************************************)
EXTENDS Integers, Sequences

CONSTANT User
VARIABLE ledger      \* ledger[u]: the versions handed in by u, oldest first

LastOf(versions) == versions[Len(versions)]

\* The last version blocks a resubmission unless it was returned or retired.
AwaitsNewVersion(versions) ==
  versions # << >> => \/ LastOf(versions).lifecycle = "retired"
                      \/ LastOf(versions).state = "revising"

\* A new version names its predecessor only when that one is still live.
Successor(versions) ==
  [state     |-> "review",
   lifecycle |-> "active",
   prev      |-> IF versions # << >> /\ LastOf(versions).lifecycle = "active"
                 THEN Len(versions) ELSE 0]

Init == ledger = [u \in User |-> << >>]

HandIn(u) ==
  /\ AwaitsNewVersion(ledger[u])
  /\ ledger' = [ledger EXCEPT ![u] = Append(@, Successor(ledger[u]))]

Decide(u, n, decision) ==
  /\ ledger[u][n].lifecycle = "active"
  /\ ledger[u][n].state = "review"
  /\ ledger' = [ledger EXCEPT ![u][n].state = decision]

Retire(u, n) == ledger' = [ledger EXCEPT ![u][n].lifecycle = "retired"]

Next ==
  \E u \in User :
    \/ HandIn(u)
    \/ \E n \in DOMAIN ledger[u] :
         \/ Retire(u, n)
         \/ \E decision \in {"approved", "revising", "rejected"} : Decide(u, n, decision)

Spec == Init /\ [][Next]_ledger

-----------------------------------------------------------------------------

Version == [state : {"review", "revising", "approved", "rejected"},
            lifecycle : {"active", "retired"},
            prev : Nat]

LedgerTypeOK == ledger \in [User -> Seq(Version)]

\* A claimant never has two versions that both still count: every live
\* version before the last one was returned for revision.
OnlyLastVersionCounts ==
  \A u \in User : \A n \in DOMAIN ledger[u] :
    (n < Len(ledger[u]) /\ ledger[u][n].lifecycle = "active") => ledger[u][n].state = "revising"

\* The resubmission chain only ever leads back to a version that was returned.
ChainOfReturned ==
  \A u \in User : \A n \in DOMAIN ledger[u] :
    ledger[u][n].prev # 0 => /\ ledger[u][n].prev = n - 1
                             /\ ledger[u][n - 1].state = "revising"
=============================================================================
