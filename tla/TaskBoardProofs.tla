--------------------------- MODULE TaskBoardProofs ---------------------------
(***************************************************************************)
(* Proofs about TaskBoard and the two modules it is built from, for any    *)
(* finite set of users, any number of concurrent requests and any bounds:  *)
(* the status roll-up (StatusRule), the abstract ledger and its            *)
(* implementation by the handlers (SubmissionLedger), and the types, the   *)
(* seats, the stored status and the flags of the board itself.             *)
(***************************************************************************)
EXTENDS TaskBoard, FiniteSetTheorems, WellFoundedInduction, TLAPS

-----------------------------------------------------------------------------
(* The status roll-up, for any number of openings and any slot holders *)

\* The ranks are distinct, so a minimum is the only one.
LEMMA LowestRankedIs ==
  ASSUME NEW S \in SUBSET RolledStatus, NEW x \in S,
         \A t \in S : STATUS_RANK[x] <= STATUS_RANK[t]
  PROVE  LowestRanked(S) = x
<1>1. \A t \in RolledStatus : STATUS_RANK[t] \in Int
  BY DEF RolledStatus, STATUS_RANK
<1>2. \A s, t \in RolledStatus : STATUS_RANK[s] = STATUS_RANK[t] => s = t
  BY DEF RolledStatus, STATUS_RANK
<1>3. \A s \in S : (\A t \in S : STATUS_RANK[s] <= STATUS_RANK[t]) => s = x
  BY <1>1, <1>2
<1> QED BY <1>3 DEF LowestRanked

LEMMA ContributionTyped ==
  ASSUME NEW seats, NEW closed, NEW states,
         \A u \in DOMAIN states : states[u] \in SlotState
  PROVE  Contributions(seats, closed, states) \subseteq RolledStatus
BY DEF Contributions, Counted, Contribution, SlotState, SubmissionState, RolledStatus

\* The minimum rule of task-status.ts and the ladder of the documentation are
\* the same function: whatever the openings and the slots, the code computes
\* the documented status (task-status.ts:70-90).
THEOREM MinRuleIsLadder ==
  ASSUME NEW seats, NEW closed, NEW states,
         \A u \in DOMAIN states : states[u] \in SlotState
  PROVE  computeMinRuleStatus(seats, closed, states)
           = StatusLadder(seats, closed, states)
<1> DEFINE free    == ~closed /\ Cardinality(DOMAIN states) < seats
           some(s) == \E u \in DOMAIN states : states[u] = s
           all     == Contributions(seats, closed, states)
           rule    == computeMinRuleStatus(seats, closed, states)
           ladder  == StatusLadder(seats, closed, states)
<1>1. all \subseteq RolledStatus
  BY ContributionTyped
<1>2. /\ "open" \in all <=> free
      /\ "claimed" \in all <=> some("none")
      /\ "revising" \in all <=> some("revising")
      /\ "review" \in all <=> some("review")
      /\ "approved" \in all <=> some("approved")
  BY DEF Contributions, Counted, Contribution, HasOpenSpot, SlotState, SubmissionState
<1>3. \A x \in all : (\A t \in all : STATUS_RANK[x] <= STATUS_RANK[t]) => rule = x
  <2> TAKE x \in all
  <2> HAVE \A t \in all : STATUS_RANK[x] <= STATUS_RANK[t]
  <2>1. LowestRanked(all) = x
    BY <1>1, LowestRankedIs
  <2> QED BY <2>1 DEF computeMinRuleStatus
<1>4. CASE free
  <2>1. rule = "open"
    BY <1>1, <1>2, <1>3, <1>4 DEF RolledStatus, STATUS_RANK
  <2>2. ladder = "open"
    BY <1>4 DEF StatusLadder
  <2> QED BY <2>1, <2>2
<1>5. CASE ~free /\ some("none")
  <2>1. rule = "claimed"
    BY <1>1, <1>2, <1>3, <1>5 DEF RolledStatus, STATUS_RANK
  <2>2. ladder = "claimed"
    BY <1>5 DEF StatusLadder
  <2> QED BY <2>1, <2>2
<1>6. CASE ~free /\ ~some("none") /\ some("revising")
  <2>1. rule = "revising"
    BY <1>1, <1>2, <1>3, <1>6 DEF RolledStatus, STATUS_RANK
  <2>2. ladder = "revising"
    BY <1>6 DEF StatusLadder
  <2> QED BY <2>1, <2>2
<1>7. CASE ~free /\ ~some("none") /\ ~some("revising") /\ some("review")
  <2>1. rule = "review"
    BY <1>1, <1>2, <1>3, <1>7 DEF RolledStatus, STATUS_RANK
  <2>2. ladder = "review"
    BY <1>7 DEF StatusLadder
  <2> QED BY <2>1, <2>2
<1>8. CASE ~free /\ ~some("none") /\ ~some("revising") /\ ~some("review") /\ some("approved")
  <2>1. rule = "approved"
    BY <1>1, <1>2, <1>3, <1>8 DEF RolledStatus, STATUS_RANK
  <2>2. \A u \in DOMAIN states : states[u] \in {"approved", "rejected"}
    BY <1>8 DEF SlotState, SubmissionState
  <2>3. ladder = "approved"
    BY <1>8, <2>2 DEF StatusLadder
  <2> QED BY <2>1, <2>3
<1>9. CASE ~free /\ ~some("none") /\ ~some("revising") /\ ~some("review") /\ ~some("approved")
  <2>1. all = {}
    BY <1>1, <1>2, <1>9 DEF RolledStatus
  <2>2. rule = "claimed"
    BY <2>1 DEF computeMinRuleStatus
  <2>3. ladder = "claimed"
    BY <1>9 DEF StatusLadder
  <2> QED BY <2>2, <2>3
<1> QED BY <1>4, <1>5, <1>6, <1>7, <1>8, <1>9

\* A recompute always yields a status.
LEMMA RuleTyped ==
  ASSUME NEW seats, NEW closed, NEW states,
         \A u \in DOMAIN states : states[u] \in SlotState
  PROVE  computeMinRuleStatus(seats, closed, states) \in RolledStatus
<1>1. StatusLadder(seats, closed, states) \in RolledStatus
  BY DEF StatusLadder, RolledStatus
<1> QED BY <1>1, MinRuleIsLadder

\* The rule used at creation is the general rule with nobody in a slot, so a
\* new task starts with the status a recompute would give it (task-status.ts:22-26).
THEOREM CreationRuleAgrees ==
  ASSUME NEW seats, NEW closed
  PROVE  computeStatusCache(0, seats, closed)
           = computeMinRuleStatus(seats, closed, << >>)
<1> DEFINE nobody == << >>
<1>1. DOMAIN nobody = {}
  OBVIOUS
<1>2. Cardinality(DOMAIN nobody) = 0
  BY <1>1, FS_EmptySet
<1>3. \A u \in DOMAIN nobody : nobody[u] \in SlotState
  BY <1>1
<1>4. computeMinRuleStatus(seats, closed, nobody)
        = StatusLadder(seats, closed, nobody)
  BY <1>3, MinRuleIsLadder
<1>5. StatusLadder(seats, closed, nobody)
        = IF ~closed /\ 0 < seats THEN "open" ELSE "claimed"
  BY <1>1, <1>2 DEF StatusLadder
<1> QED BY <1>4, <1>5 DEF computeStatusCache

-----------------------------------------------------------------------------
(* The abstract ledger *)

(***************************************************************************)
(* Both promises of the ledger are inductive beside its type: what keeps   *)
(* the chain of returned versions intact is that a returned version can    *)
(* never be decided again, and what keeps at most one version counting is  *)
(* that a new version is accepted only after a returned or retired one.    *)
(***************************************************************************)
LedgerInv == Ledger!LedgerTypeOK /\ Ledger!OnlyLastVersionCounts /\ Ledger!ChainOfReturned

LEMMA LedgerInit == Ledger!Init => LedgerInv
BY DEF Ledger!Init, LedgerInv, Ledger!LedgerTypeOK, Ledger!OnlyLastVersionCounts, Ledger!ChainOfReturned, Ledger!Version

LEMMA SuccessorTyped ==
  ASSUME NEW versions \in Seq(Ledger!Version)
  PROVE  /\ Ledger!Successor(versions) \in Ledger!Version
         /\ Append(versions, Ledger!Successor(versions)) \in Seq(Ledger!Version)
<1>1. Ledger!Successor(versions) \in Ledger!Version
  BY DEF Ledger!Successor, Ledger!Version
<1> QED BY <1>1

\* Rewriting one element of a sequence of versions.
LEMMA PatchTyped ==
  ASSUME NEW S, NEW s \in Seq(S), NEW n \in DOMAIN s, NEW e \in S
  PROVE  LET t == [s EXCEPT ![n] = e]
         IN  /\ t \in Seq(S)
             /\ DOMAIN t = DOMAIN s
             /\ Len(t) = Len(s)
             /\ t[n] = e
             /\ \A m \in DOMAIN s : m # n => t[m] = s[m]
<1> DEFINE t == [s EXCEPT ![n] = e]
<1>1. Len(s) \in Nat /\ DOMAIN s = 1..Len(s) /\ s \in [1..Len(s) -> S]
  OBVIOUS
<1>2. t \in [1..Len(s) -> S]
  BY <1>1
<1>3. t \in Seq(S) /\ Len(t) = Len(s)
  BY <1>1, <1>2
<1> QED BY <1>1, <1>2, <1>3

LEMMA HandInKeeps ==
  ASSUME LedgerInv, NEW u \in User, Ledger!HandIn(u)
  PROVE  LedgerInv'
<1> DEFINE old == submissions[u]
           new == Append(old, Ledger!Successor(old))
<1>1. /\ old \in Seq(Ledger!Version)
      /\ submissions' = [submissions EXCEPT ![u] = new]
  BY DEF LedgerInv, Ledger!LedgerTypeOK, Ledger!HandIn
<1>2. /\ Ledger!Successor(old) \in Ledger!Version
      /\ new \in Seq(Ledger!Version)
  BY <1>1, SuccessorTyped
<1>3. Ledger!LedgerTypeOK'
  BY <1>1, <1>2 DEF LedgerInv, Ledger!LedgerTypeOK
<1>4. /\ DOMAIN new = 1..(Len(old) + 1)
      /\ Len(new) = Len(old) + 1
      /\ new[Len(old) + 1] = Ledger!Successor(old)
      /\ \A n \in 1..Len(old) : new[n] = old[n]
      /\ DOMAIN old = 1..Len(old)
      /\ Len(old) \in Nat
  BY <1>1, <1>2
<1>5. submissions' \in [User -> Seq(Ledger!Version)]
  BY <1>3 DEF Ledger!LedgerTypeOK
<1>6. Ledger!OnlyLastVersionCounts'
  <2> SUFFICES ASSUME NEW v \in User, NEW n \in DOMAIN submissions'[v],
                      n < Len(submissions'[v]), submissions'[v][n].lifecycle = "active"
               PROVE  submissions'[v][n].state = "revising"
    BY DEF Ledger!OnlyLastVersionCounts
  <2>1. CASE v # u
    BY <1>1, <2>1 DEF LedgerInv, Ledger!LedgerTypeOK, Ledger!OnlyLastVersionCounts
  <2>2. CASE v = u
    <3>1. n \in 1..Len(old) /\ submissions'[v][n] = old[n]
      BY <1>1, <1>4, <2>2 DEF LedgerInv, Ledger!LedgerTypeOK
    <3>2. CASE n < Len(old)
      BY <3>1, <3>2, <1>4, <2>2 DEF LedgerInv, Ledger!OnlyLastVersionCounts
    <3>3. CASE n = Len(old)
      BY <3>1, <3>3, <1>4 DEF Ledger!HandIn, Ledger!AwaitsNewVersion, Ledger!LastOf
    <3> QED BY <3>1, <3>2, <3>3, <1>4
  <2> QED BY <2>1, <2>2
<1>7. Ledger!ChainOfReturned'
  <2> SUFFICES ASSUME NEW v \in User, NEW n \in DOMAIN submissions'[v], submissions'[v][n].prev # 0
               PROVE  submissions'[v][n].prev = n - 1 /\ submissions'[v][n - 1].state = "revising"
    BY DEF Ledger!ChainOfReturned
  <2>1. CASE v # u
    BY <1>1, <2>1 DEF LedgerInv, Ledger!LedgerTypeOK, Ledger!ChainOfReturned
  <2>2. CASE v = u /\ n \in 1..Len(old)
    <3>1. submissions'[v] = new
      BY <1>1, <2>2 DEF LedgerInv, Ledger!LedgerTypeOK
    <3>2. old[n].prev = n - 1 /\ old[n - 1].state = "revising"
      BY <1>4, <2>2, <3>1 DEF LedgerInv, Ledger!ChainOfReturned
    <3>3. n - 1 \in 1..Len(old)
      BY <3>2, <2>2, <1>4, <3>1
    <3> QED BY <3>1, <3>2, <3>3, <1>4, <2>2
  <2>3. CASE v = u /\ n = Len(old) + 1
    <3>1. submissions'[v] = new
      BY <1>1, <2>3 DEF LedgerInv, Ledger!LedgerTypeOK
    <3>2. /\ old # << >>
          /\ Ledger!LastOf(old).lifecycle = "active"
          /\ Ledger!Successor(old).prev = Len(old)
      BY <3>1, <2>3, <1>4 DEF Ledger!Successor
    <3>3. old[Len(old)].state = "revising"
      BY <3>2 DEF Ledger!HandIn, Ledger!AwaitsNewVersion, Ledger!LastOf
    <3>4. Len(old) \in 1..Len(old)
      BY <3>2, <1>1, <1>4
    <3> QED BY <3>1, <3>2, <3>3, <3>4, <1>4, <2>3
  <2> QED BY <2>1, <2>2, <2>3, <1>1, <1>4 DEF LedgerInv, Ledger!LedgerTypeOK
<1> QED BY <1>3, <1>6, <1>7 DEF LedgerInv

LEMMA DecideKeeps ==
  ASSUME LedgerInv, NEW u \in User, NEW n \in DOMAIN submissions[u],
         NEW decision \in {"approved", "revising", "rejected"}, Ledger!Decide(u, n, decision)
  PROVE  LedgerInv'
<1> DEFINE old == submissions[u]
           new == [old EXCEPT ![n].state = decision]
<1>1. /\ old \in Seq(Ledger!Version)
      /\ submissions' = [submissions EXCEPT ![u] = new]
      /\ DOMAIN old = 1..Len(old)
  BY DEF LedgerInv, Ledger!LedgerTypeOK, Ledger!Decide
<1>2. /\ new \in Seq(Ledger!Version)
      /\ DOMAIN new = DOMAIN old
      /\ Len(new) = Len(old)
      /\ \A m \in DOMAIN old : /\ new[m].lifecycle = old[m].lifecycle
                               /\ new[m].prev = old[m].prev
                               /\ m # n => new[m].state = old[m].state
  <2> DEFINE row == [old[n] EXCEPT !.state = decision]
  <2>1. old[n] \in Ledger!Version
    BY <1>1
  <2>2. /\ row \in Ledger!Version
        /\ row.lifecycle = old[n].lifecycle
        /\ row.prev = old[n].prev
    BY <2>1 DEF Ledger!Version
  <2>3. new = [old EXCEPT ![n] = row]
    OBVIOUS
  <2> HIDE DEF row, new, old
  <2> QED BY <1>1, <2>2, <2>3, PatchTyped DEF old
<1>3. old[n].state = "review" /\ old[n].lifecycle = "active"
  BY DEF Ledger!Decide
<1>4. Ledger!LedgerTypeOK'
  BY <1>1, <1>2 DEF LedgerInv, Ledger!LedgerTypeOK
<1>5. Ledger!OnlyLastVersionCounts'
  <2> SUFFICES ASSUME NEW v \in User, NEW m \in DOMAIN submissions'[v],
                      m < Len(submissions'[v]), submissions'[v][m].lifecycle = "active"
               PROVE  submissions'[v][m].state = "revising"
    BY DEF Ledger!OnlyLastVersionCounts
  <2>1. CASE v # u
    BY <1>1, <2>1 DEF LedgerInv, Ledger!LedgerTypeOK, Ledger!OnlyLastVersionCounts
  <2>2. CASE v = u
    <3>1. submissions'[v] = new /\ m \in DOMAIN old /\ m < Len(old)
      BY <1>1, <1>2, <2>2 DEF LedgerInv, Ledger!LedgerTypeOK
    <3>2. old[m].state = "revising"
      BY <3>1, <1>2 DEF LedgerInv, Ledger!OnlyLastVersionCounts
    <3> QED BY <3>1, <3>2, <1>2, <1>3
  <2> QED BY <2>1, <2>2
<1>6. Ledger!ChainOfReturned'
  <2> SUFFICES ASSUME NEW v \in User, NEW m \in DOMAIN submissions'[v], submissions'[v][m].prev # 0
               PROVE  submissions'[v][m].prev = m - 1 /\ submissions'[v][m - 1].state = "revising"
    BY DEF Ledger!ChainOfReturned
  <2>1. CASE v # u
    BY <1>1, <2>1 DEF LedgerInv, Ledger!LedgerTypeOK, Ledger!ChainOfReturned
  <2>2. CASE v = u
    <3>1. submissions'[v] = new /\ m \in DOMAIN old /\ old[m].prev # 0
      BY <1>1, <1>2, <2>2 DEF LedgerInv, Ledger!LedgerTypeOK
    <3>2. old[m].prev = m - 1 /\ old[m - 1].state = "revising"
      BY <3>1 DEF LedgerInv, Ledger!ChainOfReturned
    <3>3. m - 1 \in DOMAIN old
      BY <3>1, <3>2, <1>1
    <3> QED BY <3>1, <3>2, <3>3, <1>2, <1>3
  <2> QED BY <2>1, <2>2
<1> QED BY <1>4, <1>5, <1>6 DEF LedgerInv

LEMMA RetireKeeps ==
  ASSUME LedgerInv, NEW u \in User, NEW n \in DOMAIN submissions[u], Ledger!Retire(u, n)
  PROVE  LedgerInv'
<1> DEFINE old == submissions[u]
           new == [old EXCEPT ![n].lifecycle = "retired"]
<1>1. /\ old \in Seq(Ledger!Version)
      /\ submissions' = [submissions EXCEPT ![u] = new]
      /\ DOMAIN old = 1..Len(old)
  BY DEF LedgerInv, Ledger!LedgerTypeOK, Ledger!Retire
<1>2. /\ new \in Seq(Ledger!Version)
      /\ DOMAIN new = DOMAIN old
      /\ Len(new) = Len(old)
      /\ \A m \in DOMAIN old : /\ new[m].state = old[m].state
                               /\ new[m].prev = old[m].prev
                               /\ new[m].lifecycle = "active" => old[m].lifecycle = "active"
  <2> DEFINE row == [old[n] EXCEPT !.lifecycle = "retired"]
  <2>1. old[n] \in Ledger!Version
    BY <1>1
  <2>2. /\ row \in Ledger!Version
        /\ row.lifecycle = "retired"
        /\ row.state = old[n].state
        /\ row.prev = old[n].prev
    BY <2>1 DEF Ledger!Version
  <2>3. new = [old EXCEPT ![n] = row]
    OBVIOUS
  <2> HIDE DEF row, new, old
  <2> QED BY <1>1, <2>2, <2>3, PatchTyped DEF old
<1>3. Ledger!LedgerTypeOK'
  BY <1>1, <1>2 DEF LedgerInv, Ledger!LedgerTypeOK
<1>4. \A v \in User : v # u => submissions'[v] = submissions[v]
  BY <1>1 DEF LedgerInv, Ledger!LedgerTypeOK
<1>5. submissions'[u] = new
  BY <1>1 DEF LedgerInv, Ledger!LedgerTypeOK
<1>6. Ledger!OnlyLastVersionCounts'
  <2> SUFFICES ASSUME NEW v \in User, NEW m \in DOMAIN submissions'[v],
                      m < Len(submissions'[v]), submissions'[v][m].lifecycle = "active"
               PROVE  submissions'[v][m].state = "revising"
    BY DEF Ledger!OnlyLastVersionCounts
  <2>1. CASE v # u
    BY <1>4, <2>1 DEF LedgerInv, Ledger!OnlyLastVersionCounts
  <2>2. CASE v = u
    <3>1. m \in DOMAIN old /\ m < Len(old) /\ old[m].lifecycle = "active"
      BY <1>2, <1>5, <2>2
    <3>2. old[m].state = "revising"
      BY <3>1 DEF LedgerInv, Ledger!OnlyLastVersionCounts
    <3> QED BY <3>1, <3>2, <1>2, <1>5, <2>2
  <2> QED BY <2>1, <2>2
<1>7. Ledger!ChainOfReturned'
  <2> SUFFICES ASSUME NEW v \in User, NEW m \in DOMAIN submissions'[v], submissions'[v][m].prev # 0
               PROVE  submissions'[v][m].prev = m - 1 /\ submissions'[v][m - 1].state = "revising"
    BY DEF Ledger!ChainOfReturned
  <2>1. CASE v # u
    BY <1>4, <2>1 DEF LedgerInv, Ledger!ChainOfReturned
  <2>2. CASE v = u
    <3>1. m \in DOMAIN old /\ old[m].prev # 0
      BY <1>2, <1>5, <2>2
    <3>2. old[m].prev = m - 1 /\ old[m - 1].state = "revising"
      BY <3>1 DEF LedgerInv, Ledger!ChainOfReturned
    <3>3. m - 1 \in DOMAIN old
      BY <3>1, <3>2, <1>1
    <3> QED BY <3>1, <3>2, <3>3, <1>2, <1>5, <2>2
  <2> QED BY <2>1, <2>2
<1> QED BY <1>3, <1>6, <1>7 DEF LedgerInv

LEMMA LedgerStep == LedgerInv /\ [Ledger!Next]_submissions => LedgerInv'
<1> SUFFICES ASSUME LedgerInv, [Ledger!Next]_submissions PROVE LedgerInv'
  OBVIOUS
<1>1. CASE UNCHANGED submissions
  BY <1>1 DEF LedgerInv, Ledger!LedgerTypeOK, Ledger!OnlyLastVersionCounts, Ledger!ChainOfReturned
<1>2. ASSUME NEW u \in User, Ledger!HandIn(u) PROVE LedgerInv'
  BY <1>2, HandInKeeps
<1>3. ASSUME NEW u \in User, NEW n \in DOMAIN submissions[u], Ledger!Retire(u, n) PROVE LedgerInv'
  BY <1>3, RetireKeeps
<1>4. ASSUME NEW u \in User, NEW n \in DOMAIN submissions[u],
             NEW decision \in {"approved", "revising", "rejected"}, Ledger!Decide(u, n, decision)
      PROVE  LedgerInv'
  BY <1>4, DecideKeeps
<1> QED BY <1>1, <1>2, <1>3, <1>4 DEF Ledger!Next

\* The ledger keeps its type and both of its promises for any number of users
\* and versions: at most one version of a claimant still counts, and a chain
\* of resubmissions leads back through returned versions only.
THEOREM LedgerSafe == LedgerSpec => []LedgerInv
BY LedgerInit, LedgerStep, PTL DEF LedgerSpec, Ledger!Spec

-----------------------------------------------------------------------------
(* Lemmas about the operators *)

\* A nonempty set of row numbers has a largest one.
LEMMA HasMaximum ==
  ASSUME NEW N \in Nat, NEW S \in SUBSET (1..N), S # {}
  PROVE  \E n \in S : \A m \in S : m <= n
<1> DEFINE T == {N - n : n \in S}
<1>1. \A n \in S : n \in Nat /\ N - n \in Nat
  OBVIOUS
<1>2. T \subseteq Nat /\ T # {}
  BY <1>1
<1>3. PICK x \in T : \A y \in T : <<y, x>> \notin OpToRel(<, Nat)
  BY <1>2, WFMin, NatLessThanWellFounded
<1>4. \A y \in T : ~(y < x)
  BY <1>2, <1>3 DEF OpToRel
<1>5. PICK n \in S : x = N - n
  BY <1>3
<1>6. \A m \in S : m <= n
  <2> TAKE m \in S
  <2>1. N - m \in T
    OBVIOUS
  <2>2. ~(N - m < N - n)
    BY <2>1, <1>4, <1>5
  <2> QED BY <2>2, <1>1
<1> QED BY <1>6

\* The latest live submission of a claimant has a state.
LEMMA LatestTyped ==
  ASSUME NEW versions \in Seq(SubmissionRow)
  PROVE  LatestState(versions) \in SlotState
<1> DEFINE live == {n \in DOMAIN versions : versions[n].lifecycle = "active"}
<1>1. CASE live = {}
  BY <1>1 DEF LatestState, SlotState
<1>2. CASE live # {}
  <2>1. Len(versions) \in Nat /\ live \in SUBSET (1..Len(versions))
    OBVIOUS
  <2>2. \E n \in live : \A m \in live : m <= n
    BY <2>1, <1>2, HasMaximum
  <2> DEFINE top == CHOOSE n \in live : \A m \in live : m <= n
  <2>3. top \in live
    BY <2>2
  <2>4. versions[top] \in SubmissionRow
    BY <2>3
  <2>5. LatestState(versions) = versions[top].state
    BY <1>2 DEF LatestState
  <2> QED BY <2>4, <2>5 DEF SubmissionRow, SlotState
<1> QED BY <1>1, <1>2

LEMMA StatesTyped ==
  ASSUME NEW theSlots, NEW theWork \in [User -> Seq(SubmissionRow)]
  PROVE  \A u \in DOMAIN StatesOf(theSlots, theWork) : StatesOf(theSlots, theWork)[u] \in SlotState
BY LatestTyped DEF StatesOf, ActiveOf

LEMMA RecomputeTyped ==
  ASSUME NEW open, NEW closed, NEW theSlots, NEW theWork \in [User -> Seq(SubmissionRow)]
  PROVE  Recompute(open, closed, theSlots, theWork) \in RolledStatus
BY StatesTyped, RuleTyped DEF Recompute

\* What each kind of request remembers.
LEMMA ContextFields ==
  ASSUME NEW c \in Context
  PROVE  /\ c.op \in {"claim", "leave", "submit", "remove"} \cup RowOps => c.user \in User
         /\ c.op \in {"claim", "manage"} => c.openings \in Nat
         /\ c.op \in RowOps => c.no \in Nat \ {0}
         /\ c.op = "review" => c.version \in Nat
         /\ c.op = "reviewing" => c.decision \in Decision
         /\ c.op \in {"reviewing", "retiringSubmission"} => c.status \in RolledStatus
BY DEF Context, Idle, RowOps

-----------------------------------------------------------------------------
(* Type correctness *)

LEMMA InitTyped == Init => TypeOK
<1> SUFFICES ASSUME Init PROVE TypeOK
  OBVIOUS
<1>1. statusCache \in RolledStatus
  BY DEF Init, computeStatusCache, RolledStatus
<1>2. TaskRowOK /\ HistoryOK
  BY <1>1, OpeningsAssumption DEF Init, TaskRowOK, HistoryOK
<1>3. SlotsOK
  BY DEF Init, SlotsOK
<1>4. WorkOK
  <2>1. << >> \in Seq(SubmissionRow) /\ Len(<< >>) = 0
    OBVIOUS
  <2>2. submissions \in [User -> Seq(SubmissionRow)]
    BY <2>1 DEF Init
  <2>3. \A u \in User : Len(submissions[u]) <= MaxSubmissions
    BY <2>1, SubmissionAssumption DEF Init
  <2>4. rowVersion \in [User -> [1..MaxSubmissions -> Nat]]
    BY DEF Init
  <2> QED BY <2>2, <2>3, <2>4 DEF WorkOK
<1>5. RequestsOK
  BY DEF Init, RequestsOK, Context, Idle, RowOps
<1> QED BY <1>2, <1>3, <1>4, <1>5 DEF TypeOK

\* A step that only changes what one request remembers.
LEMMA RemembersTyped ==
  ASSUME TypeOK, NEW r \in Request, NEW c \in Context,
         c.op \in RowOps => c.no \in DOMAIN submissions[c.user],
         req' = [req EXCEPT ![r] = c],
         UNCHANGED <<taskRow, slots, work>>, HistoryOK'
  PROVE  TypeOK'
<1>1. RequestsOK'
  BY DEF TypeOK, RequestsOK, work
<1> QED BY <1>1 DEF TypeOK, TaskRowOK, SlotsOK, WorkOK, taskRow, slots, work

\* A step that ends a request and may add submission rows, never drops one.
LEMMA AnswersTyped ==
  ASSUME TypeOK, NEW r \in Request, Answers(r),
         TaskRowOK', SlotsOK', WorkOK', HistoryOK',
         \A u \in User : DOMAIN submissions[u] \subseteq DOMAIN submissions'[u]
  PROVE  TypeOK'
<1>1. Idle \in Context /\ Idle.op \notin RowOps
  BY DEF Idle, Context, RowOps
<1>2. RequestsOK'
  <2>1. req' \in [Request -> Context]
    BY <1>1 DEF TypeOK, RequestsOK, Answers
  <2>2. ASSUME NEW s \in Request, req'[s].op \in RowOps
        PROVE  req'[s].no \in DOMAIN submissions'[req'[s].user]
    <3>1. req'[s] = req[s]
      BY <1>1, <2>2 DEF TypeOK, RequestsOK, Answers
    <3>2. req[s].user \in User
      BY <2>2, <3>1, ContextFields DEF TypeOK, RequestsOK
    <3> QED BY <2>2, <3>1, <3>2 DEF TypeOK, RequestsOK
  <2> QED BY <2>1, <2>2 DEF RequestsOK
<1> QED BY <1>2 DEF TypeOK

LEMMA LoadsTyped ==
  ASSUME TypeOK, NEW r \in Request, NEW c \in Context,
         c.op \in RowOps => c.no \in DOMAIN submissions[c.user],
         Loads(r, c), UNCHANGED <<taskRow, slots, work, peak, drift>>
  PROVE  TypeOK'
<1>1. HistoryOK'
  BY DEF TypeOK, HistoryOK
<1> QED BY <1>1, RemembersTyped DEF Loads

\* A locked transaction recomputes the status as its last write.
LEMMA RecomputeStatusTyped ==
  ASSUME WorkOK', RecomputeStatus
  PROVE  statusCache' \in RolledStatus /\ drift' = {}
<1>1. submissions' \in [User -> Seq(SubmissionRow)]
  BY DEF WorkOK
<1>2. Recompute(openings', claimsClosed', slot', submissions') \in RolledStatus
  BY <1>1, RecomputeTyped
<1> QED BY <1>2 DEF RecomputeStatus

LEMMA ClaimTyped == ASSUME TypeOK, NEW r \in Request, Claim(r) PROVE TypeOK'
<1>1. req[r].user \in User
  BY ContextFields DEF TypeOK, RequestsOK, Claim
<1>2. WorkOK' /\ SlotsOK'
  BY <1>1 DEF TypeOK, WorkOK, SlotsOK, Claim, work
<1>3. TaskRowOK' /\ HistoryOK'
  BY <1>2, RecomputeStatusTyped DEF TypeOK, TaskRowOK, HistoryOK, Claim
<1> QED BY <1>1, <1>2, <1>3, AnswersTyped DEF Claim, work

LEMMA GiveUpSlotTyped == ASSUME TypeOK, NEW r \in Request, GiveUpSlot(r) PROVE TypeOK'
<1>1. req[r].user \in User
  BY ContextFields DEF TypeOK, RequestsOK, GiveUpSlot
<1>2. WorkOK' /\ SlotsOK'
  BY <1>1 DEF TypeOK, WorkOK, SlotsOK, GiveUpSlot, work
<1>3. TaskRowOK' /\ HistoryOK'
  BY <1>2, RecomputeStatusTyped DEF TypeOK, TaskRowOK, HistoryOK, GiveUpSlot
<1> QED BY <1>1, <1>2, <1>3, AnswersTyped DEF GiveUpSlot, work

LEMMA NextVersionTyped ==
  ASSUME NEW versions \in Seq(SubmissionRow)
  PROVE  /\ NextVersion(versions) \in SubmissionRow
         /\ Append(versions, NextVersion(versions)) \in Seq(SubmissionRow)
         /\ Len(Append(versions, NextVersion(versions))) = Len(versions) + 1
         /\ DOMAIN versions \subseteq DOMAIN Append(versions, NextVersion(versions))
<1>1. NextVersion(versions) \in SubmissionRow
  BY DEF NextVersion, SubmissionRow, SubmissionState
<1> QED BY <1>1

LEMMA SubmitTyped == ASSUME TypeOK, NEW r \in Request, Submit(r) PROVE TypeOK'
<1> DEFINE u == req[r].user
           new == Append(submissions[u], NextVersion(submissions[u]))
<1>1. u \in User
  BY ContextFields DEF TypeOK, RequestsOK, Submit
<1>2. /\ submissions[u] \in Seq(SubmissionRow)
      /\ Len(submissions[u]) < MaxSubmissions
      /\ submissions' = [submissions EXCEPT ![u] = new]
  BY <1>1 DEF TypeOK, WorkOK, Submit
<1>3. /\ new \in Seq(SubmissionRow)
      /\ Len(new) <= MaxSubmissions
      /\ DOMAIN submissions[u] \subseteq DOMAIN new
  BY <1>2, NextVersionTyped, SubmissionAssumption
<1> HIDE DEF new
<1>4. WorkOK'
  BY <1>1, <1>2, <1>3 DEF TypeOK, WorkOK, Submit
<1>5. SlotsOK'
  BY <1>1 DEF TypeOK, SlotsOK, Submit
<1>6. TaskRowOK' /\ HistoryOK'
  BY <1>4, RecomputeStatusTyped DEF TypeOK, TaskRowOK, HistoryOK, Submit
<1>7. \A v \in User : DOMAIN submissions[v] \subseteq DOMAIN submissions'[v]
  BY <1>1, <1>2, <1>3 DEF TypeOK, WorkOK
<1> QED BY <1>1, <1>4, <1>5, <1>6, <1>7, AnswersTyped DEF Submit

LEMMA ManageClaimsTyped ==
  ASSUME TypeOK, NEW r \in Request, NEW delta \in Deltas \cup {0}, NEW closed \in BOOLEAN,
         ManageClaims(r, delta, closed)
  PROVE  TypeOK'
<1>1. req[r].openings \in Nat
  BY ContextFields DEF TypeOK, RequestsOK, ManageClaims
<1>2. WorkOK' /\ SlotsOK'
  BY DEF TypeOK, WorkOK, SlotsOK, ManageClaims, work
<1>3. delta \in Int
  BY OpeningsAssumption
<1>4. openings' \in Nat
  BY <1>1, <1>3 DEF TypeOK, TaskRowOK, ManageClaims, FitsClaimants
<1>5. TaskRowOK' /\ HistoryOK'
  BY <1>2, <1>4, RecomputeStatusTyped DEF TypeOK, TaskRowOK, HistoryOK, ManageClaims
<1> QED BY <1>1, <1>2, <1>5, AnswersTyped DEF ManageClaims, work

LEMMA TaskWriteTyped ==
  ASSUME TypeOK, NEW r \in Request, Complete(r) \/ RetireTask(r) \/ ReviveTask(r)
  PROVE  TypeOK'
<1>1. Answers(r)
  BY DEF Complete, RetireTask, ReviveTask
<1>2. WorkOK' /\ SlotsOK'
  BY DEF TypeOK, WorkOK, SlotsOK, Complete, RetireTask, ReviveTask, work, slots
<1>3. TaskRowOK' /\ HistoryOK'
  BY DEF TypeOK, TaskRowOK, HistoryOK, Complete, RetireTask, ReviveTask, RolledStatus
<1>4. UNCHANGED submissions
  BY DEF Complete, RetireTask, ReviveTask, work
<1> QED BY <1>1, <1>2, <1>3, <1>4, AnswersTyped

\* Rewriting one submission row keeps the rows typed, in place and as many.
Patched(u, n, row) == [submissions EXCEPT ![u] = [submissions[u] EXCEPT ![n] = row]]

\* Row by row, `rows` is `submissions` with `row` at number n of u.
DiffersAt(rows, u, n, row) ==
  /\ rows \in [User -> Seq(SubmissionRow)]
  /\ \A v \in User : /\ Len(rows[v]) = Len(submissions[v])
                     /\ DOMAIN rows[v] = DOMAIN submissions[v]
  /\ rows[u][n] = row
  /\ \A v \in User : \A m \in DOMAIN submissions[v] :
       (v # u \/ m # n) => rows[v][m] = submissions[v][m]

LEMMA PatchedRows ==
  ASSUME WorkOK, NEW u \in User, NEW n \in DOMAIN submissions[u], NEW row \in SubmissionRow
  PROVE  DiffersAt(Patched(u, n, row), u, n, row)
<1> DEFINE rows == Patched(u, n, row)
           old == submissions[u]
           new == [old EXCEPT ![n] = row]
<1>1. /\ old \in Seq(SubmissionRow)
      /\ Len(old) \in Nat
      /\ DOMAIN old = 1..Len(old)
      /\ rows = [submissions EXCEPT ![u] = new]
  BY DEF WorkOK, Patched
<1>2. new \in [1..Len(old) -> SubmissionRow]
  BY <1>1
<1>3. new \in Seq(SubmissionRow) /\ Len(new) = Len(old)
  BY <1>1, <1>2
<1>4. new[n] = row /\ \A m \in DOMAIN old : m # n => new[m] = old[m]
  BY <1>1
<1>5. DOMAIN new = DOMAIN old
  OBVIOUS
<1> HIDE DEF new, rows
<1>6. rows[u] = new /\ \A v \in User : v # u => rows[v] = submissions[v]
  BY <1>1 DEF WorkOK
<1>7. DiffersAt(rows, u, n, row)
  BY <1>1, <1>3, <1>4, <1>5, <1>6 DEF WorkOK, DiffersAt
<1> QED BY <1>7 DEF rows

\* The rows as a review or a retirement rewrites them.
Reviewed(u, n, decision) == [submissions EXCEPT ![u][n].state = decision]
Retired(u, n) == [submissions EXCEPT ![u][n].lifecycle = "retired"]

LEMMA ReviewedRows ==
  ASSUME WorkOK, NEW u \in User, NEW n \in DOMAIN submissions[u], NEW decision \in Decision
  PROVE  DiffersAt(Reviewed(u, n, decision), u, n, [submissions[u][n] EXCEPT !.state = decision])
<1> DEFINE row == [submissions[u][n] EXCEPT !.state = decision]
<1>1. submissions[u][n] \in SubmissionRow
  BY DEF WorkOK
<1>2. row \in SubmissionRow
  BY <1>1 DEF SubmissionRow, SubmissionState, Decision
<1>3. Reviewed(u, n, decision) = Patched(u, n, row)
  BY DEF Reviewed, Patched
<1> HIDE DEF row
<1>4. DiffersAt(Patched(u, n, row), u, n, row)
  BY <1>2, PatchedRows
<1> QED BY <1>3, <1>4 DEF row

LEMMA RetiredRows ==
  ASSUME WorkOK, NEW u \in User, NEW n \in DOMAIN submissions[u]
  PROVE  DiffersAt(Retired(u, n), u, n, [submissions[u][n] EXCEPT !.lifecycle = "retired"])
<1> DEFINE row == [submissions[u][n] EXCEPT !.lifecycle = "retired"]
<1>1. submissions[u][n] \in SubmissionRow
  BY DEF WorkOK
<1>2. row \in SubmissionRow
  BY <1>1 DEF SubmissionRow
<1>3. Retired(u, n) = Patched(u, n, row)
  BY DEF Retired, Patched
<1> HIDE DEF row
<1>4. DiffersAt(Patched(u, n, row), u, n, row)
  BY <1>2, PatchedRows
<1> QED BY <1>3, <1>4 DEF row

\* The row a request is about exists, and so does its version column.
LEMMA RowOfRequest ==
  ASSUME TypeOK, NEW r \in Request, req[r].op \in RowOps
  PROVE  /\ req[r].user \in User
         /\ req[r].no \in Nat \ {0}
         /\ req[r].no \in DOMAIN submissions[req[r].user]
         /\ req[r].no \in 1..MaxSubmissions
         /\ rowVersion[req[r].user][req[r].no] \in Nat
<1>1. req[r] \in Context
  BY DEF TypeOK, RequestsOK
<1>2. req[r].user \in User /\ req[r].no \in Nat \ {0}
  BY <1>1, ContextFields
<1>3. req[r].no \in DOMAIN submissions[req[r].user]
  BY <1>1 DEF TypeOK, RequestsOK
<1>4. /\ submissions[req[r].user] \in Seq(SubmissionRow)
      /\ Len(submissions[req[r].user]) <= MaxSubmissions
  BY <1>2 DEF TypeOK, WorkOK
<1>5. req[r].no \in 1..MaxSubmissions
  BY <1>3, <1>4, SubmissionAssumption
<1> QED BY <1>1, <1>2, <1>3, <1>5 DEF TypeOK, WorkOK

LEMMA BeginReviewTyped ==
  ASSUME TypeOK, NEW r \in Request, NEW decision \in Decision, BeginReview(r, decision)
  PROVE  TypeOK'
<1> DEFINE u == req[r].user
           n == req[r].no
           status == Recompute(openings, claimsClosed, slot, Reviewed(u, n, decision))
           c == [op |-> "reviewing", user |-> u, no |-> n, decision |-> decision,
                 status |-> status]
<1>1. req[r].op \in RowOps
  BY DEF BeginReview, RowOps
<1>2. u \in User /\ n \in Nat \ {0} /\ n \in DOMAIN submissions[u]
  BY <1>1, RowOfRequest
<1>3. Reviewed(u, n, decision) \in [User -> Seq(SubmissionRow)]
  BY <1>2, ReviewedRows DEF TypeOK, DiffersAt
<1>4. status \in RolledStatus
  BY <1>3, RecomputeTyped
<1>5. req' = [req EXCEPT ![r] = c]
  BY DEF BeginReview, Reviewed
<1> HIDE DEF status
<1>6. c \in Context
  BY <1>2, <1>4 DEF Context
<1>7. HistoryOK'
  BY DEF TypeOK, HistoryOK, BeginReview, NoteOverlap
<1> QED BY <1>2, <1>5, <1>6, <1>7, RemembersTyped DEF BeginReview

LEMMA BeginRetireSubmissionTyped ==
  ASSUME TypeOK, NEW r \in Request, BeginRetireSubmission(r)
  PROVE  TypeOK'
<1> DEFINE u == req[r].user
           n == req[r].no
           status == Recompute(openings, claimsClosed, slot, Retired(u, n))
           c == [op |-> "retiringSubmission", user |-> u, no |-> n, status |-> status]
<1>1. req[r].op \in RowOps
  BY DEF BeginRetireSubmission, RowOps
<1>2. u \in User /\ n \in Nat \ {0} /\ n \in DOMAIN submissions[u]
  BY <1>1, RowOfRequest
<1>3. Retired(u, n) \in [User -> Seq(SubmissionRow)]
  BY <1>2, RetiredRows DEF TypeOK, DiffersAt
<1>4. status \in RolledStatus
  BY <1>3, RecomputeTyped
<1>5. req' = [req EXCEPT ![r] = c]
  BY DEF BeginRetireSubmission, Retired
<1> HIDE DEF status
<1>6. c \in Context
  BY <1>2, <1>4 DEF Context
<1>7. HistoryOK'
  BY DEF TypeOK, HistoryOK, BeginRetireSubmission, NoteOverlap
<1> QED BY <1>2, <1>5, <1>6, <1>7, RemembersTyped DEF BeginRetireSubmission

LEMMA CommitReviewTyped ==
  ASSUME TypeOK, NEW r \in Request, CommitReview(r)
  PROVE  TypeOK'
<1> DEFINE u == req[r].user
           n == req[r].no
           rows == Reviewed(u, n, req[r].decision)
<1>1. req[r].op \in RowOps /\ req[r].op = "reviewing"
  BY DEF CommitReview, RowOps
<1>2. /\ u \in User /\ n \in DOMAIN submissions[u]
      /\ n \in 1..MaxSubmissions /\ rowVersion[u][n] \in Nat
  BY <1>1, RowOfRequest
<1>3. req[r].decision \in Decision /\ req[r].status \in RolledStatus
  BY <1>1, <1>2, ContextFields DEF TypeOK, RequestsOK
<1>4. /\ rows \in [User -> Seq(SubmissionRow)]
      /\ \A v \in User : /\ Len(rows[v]) = Len(submissions[v])
                         /\ DOMAIN rows[v] = DOMAIN submissions[v]
  <2>1. DiffersAt(rows, u, n, [submissions[u][n] EXCEPT !.state = req[r].decision])
    BY <1>2, <1>3, ReviewedRows DEF TypeOK
  <2> QED BY <2>1 DEF DiffersAt
<1>5. submissions' = rows
  BY DEF CommitReview, Reviewed
<1> HIDE DEF rows
<1>6. rowVersion' \in [User -> [1..MaxSubmissions -> Nat]]
  BY <1>2 DEF TypeOK, WorkOK, CommitReview
<1>7. WorkOK'
  BY <1>4, <1>5, <1>6 DEF TypeOK, WorkOK
<1>8. TaskRowOK' /\ SlotsOK' /\ HistoryOK'
  BY <1>3 DEF TypeOK, TaskRowOK, SlotsOK, HistoryOK, CommitReview, SettleDrift, slots
<1>9. Answers(r)
  BY DEF CommitReview
<1> QED BY <1>2, <1>4, <1>5, <1>7, <1>8, <1>9, AnswersTyped

LEMMA CommitRetireSubmissionTyped ==
  ASSUME TypeOK, NEW r \in Request, CommitRetireSubmission(r)
  PROVE  TypeOK'
<1> DEFINE u == req[r].user
           n == req[r].no
           rows == Retired(u, n)
<1>1. req[r].op \in RowOps /\ req[r].op = "retiringSubmission"
  BY DEF CommitRetireSubmission, RowOps
<1>2. /\ u \in User /\ n \in DOMAIN submissions[u]
      /\ n \in 1..MaxSubmissions /\ rowVersion[u][n] \in Nat
  BY <1>1, RowOfRequest
<1>3. req[r].status \in RolledStatus
  BY <1>1, <1>2, ContextFields DEF TypeOK, RequestsOK
<1>4. /\ rows \in [User -> Seq(SubmissionRow)]
      /\ \A v \in User : /\ Len(rows[v]) = Len(submissions[v])
                         /\ DOMAIN rows[v] = DOMAIN submissions[v]
  BY <1>2, RetiredRows DEF TypeOK, DiffersAt
<1>5. submissions' = rows
  BY DEF CommitRetireSubmission, Retired
<1> HIDE DEF rows
<1>6. rowVersion' \in [User -> [1..MaxSubmissions -> Nat]]
  BY <1>2 DEF TypeOK, WorkOK, CommitRetireSubmission
<1>7. WorkOK'
  BY <1>4, <1>5, <1>6 DEF TypeOK, WorkOK
<1>8. TaskRowOK' /\ SlotsOK' /\ HistoryOK'
  BY <1>2, <1>3 DEF TypeOK, TaskRowOK, SlotsOK, HistoryOK, CommitRetireSubmission,
                    SettleDrift, SlotReverts
<1>9. Answers(r)
  BY DEF CommitRetireSubmission
<1> QED BY <1>2, <1>4, <1>5, <1>7, <1>8, <1>9, AnswersTyped

LEMMA AbandonTyped == ASSUME TypeOK, NEW r \in Request, Abandon(r) PROVE TypeOK'
<1>1. TaskRowOK' /\ SlotsOK' /\ WorkOK' /\ HistoryOK'
  BY DEF TypeOK, TaskRowOK, SlotsOK, WorkOK, HistoryOK, Abandon, taskRow, slots, work
<1> QED BY <1>1, AnswersTyped DEF Abandon, work

-----------------------------------------------------------------------------
(* The steps of one request, loads gathered *)

LoadStep(r) ==
  \/ \E u \in User : \/ LoadForClaim(r, u) \/ LoadForLeave(r, u)
                     \/ LoadForSubmit(r, u) \/ LoadForRemoval(r, u)
  \/ LoadForManage(r)
  \/ \E op \in {"complete", "retire", "revive"} : LoadForTask(r, op)
  \/ \E u \in User : \E n \in DOMAIN submissions[u] :
       LoadForReview(r, u, n) \/ LoadForRetireSubmission(r, u, n)

Step(r) ==
  \/ LoadStep(r)
  \/ Claim(r) \/ GiveUpSlot(r) \/ Submit(r)
  \/ \E delta \in Deltas \cup {0}, closed \in BOOLEAN : ManageClaims(r, delta, closed)
  \/ Complete(r) \/ RetireTask(r) \/ ReviveTask(r)
  \/ \E decision \in Decision : BeginReview(r, decision)
  \/ BeginRetireSubmission(r)
  \/ CommitReview(r)
  \/ CommitRetireSubmission(r)
  \/ Abandon(r)

LEMMA NextIsStep == ASSUME Next PROVE \E r \in Request : Step(r)
<1>1. ASSUME NEW r \in ClaimReq, ClaimantStep(r) PROVE Step(r)
  BY <1>1 DEF ClaimantStep, Step, LoadStep
<1>2. ASSUME NEW r \in DeskReq, DeskStep(r) PROVE Step(r)
  BY <1>2 DEF DeskStep, Step, LoadStep
<1>3. ASSUME NEW r \in DeskReq, ReviewStep(r) PROVE Step(r)
  BY <1>3 DEF ReviewStep, Step, LoadStep
<1>4. ASSUME NEW r \in Request, GiveUpSlot(r) \/ Abandon(r) PROVE Step(r)
  BY <1>4 DEF Step
<1> QED BY <1>1, <1>2, <1>3, <1>4 DEF Next, Request

\* What a load writes into its request, and that it writes nothing else.
LoadedContext(r, c) ==
  /\ c \in Context
  /\ Loads(r, c)
  /\ UNCHANGED <<taskRow, slots, work, peak, drift>>
  /\ c.op \notin {"reviewing", "retiringSubmission"}
  /\ c.op \in RowOps => c.no \in DOMAIN submissions[c.user]
  /\ c.op = "claim" => c.openings = openings
  /\ c.op = "review" => /\ submissions[c.user][c.no].lifecycle = "active"
                        /\ submissions[c.user][c.no].state = "review"
                        /\ c.version = rowVersion[c.user][c.no]

LEMMA LoadStepContext ==
  ASSUME TypeOK, NEW r \in Request, LoadStep(r)
  PROVE  \E c \in Context : LoadedContext(r, c)
<1>1. ASSUME NEW u \in User, LoadForClaim(r, u)
      PROVE  LoadedContext(r, [op |-> "claim", user |-> u, openings |-> openings])
  BY <1>1 DEF LoadForClaim, LoadedContext, Context, RowOps, TypeOK, TaskRowOK
<1>2. ASSUME NEW u \in User, LoadForLeave(r, u)
      PROVE  LoadedContext(r, [op |-> "leave", user |-> u])
  BY <1>2 DEF LoadForLeave, LoadedContext, Context, RowOps
<1>3. ASSUME NEW u \in User, LoadForSubmit(r, u)
      PROVE  LoadedContext(r, [op |-> "submit", user |-> u])
  BY <1>3 DEF LoadForSubmit, LoadedContext, Context, RowOps
<1>4. ASSUME NEW u \in User, LoadForRemoval(r, u)
      PROVE  LoadedContext(r, [op |-> "remove", user |-> u])
  BY <1>4 DEF LoadForRemoval, LoadedContext, Context, RowOps
<1>5. ASSUME LoadForManage(r)
      PROVE  LoadedContext(r, [op |-> "manage", openings |-> openings])
  BY <1>5 DEF LoadForManage, LoadedContext, Context, RowOps, TypeOK, TaskRowOK
<1>6. ASSUME NEW op \in {"complete", "retire", "revive"}, LoadForTask(r, op)
      PROVE  LoadedContext(r, [op |-> op])
  BY <1>6 DEF LoadForTask, LoadedContext, Context, RowOps
<1>7. ASSUME NEW u \in User, NEW n \in DOMAIN submissions[u], LoadForReview(r, u, n)
      PROVE  LoadedContext(r, [op |-> "review", user |-> u, no |-> n,
                               version |-> rowVersion[u][n]])
  <2>1. n \in Nat \ {0} /\ n \in 1..MaxSubmissions
    BY SubmissionAssumption DEF TypeOK, WorkOK
  <2>2. rowVersion[u][n] \in Nat
    BY <2>1 DEF TypeOK, WorkOK
  <2> QED BY <1>7, <2>1, <2>2 DEF LoadForReview, LoadedContext, Context, RowOps
<1>8. ASSUME NEW u \in User, NEW n \in DOMAIN submissions[u], LoadForRetireSubmission(r, u, n)
      PROVE  LoadedContext(r, [op |-> "retireSubmission", user |-> u, no |-> n])
  <2>1. n \in Nat \ {0}
    BY DEF TypeOK, WorkOK
  <2> QED BY <1>8, <2>1 DEF LoadForRetireSubmission, LoadedContext, Context, RowOps
<1>9. \A c : LoadedContext(r, c) => c \in Context
  BY DEF LoadedContext
<1> QED BY <1>1, <1>2, <1>3, <1>4, <1>5, <1>6, <1>7, <1>8, <1>9 DEF LoadStep

\* What the first step of a review or a retirement writes into its request.
Reviewing(u, n, decision) ==
  [op |-> "reviewing", user |-> u, no |-> n, decision |-> decision,
   status |-> Recompute(openings, claimsClosed, slot, Reviewed(u, n, decision))]

Retiring(u, n) ==
  [op |-> "retiringSubmission", user |-> u, no |-> n,
   status |-> Recompute(openings, claimsClosed, slot, Retired(u, n))]

LEMMA BeginsContext ==
  ASSUME NEW r
  PROVE  /\ \A decision : BeginReview(r, decision)
              => req' = [req EXCEPT ![r] = Reviewing(req[r].user, req[r].no, decision)]
         /\ BeginRetireSubmission(r)
              => req' = [req EXCEPT ![r] = Retiring(req[r].user, req[r].no)]
BY DEF BeginReview, BeginRetireSubmission, Reviewing, Retiring, Reviewed, Retired

LEMMA StepTyped == ASSUME TypeOK, NEW r \in Request, Step(r) PROVE TypeOK'
<1>1. CASE LoadStep(r)
  <2>1. PICK c \in Context : LoadedContext(r, c)
    BY <1>1, LoadStepContext
  <2> QED BY <2>1, LoadsTyped DEF LoadedContext
<1>2. CASE Claim(r)
  BY <1>2, ClaimTyped
<1>3. CASE GiveUpSlot(r)
  BY <1>3, GiveUpSlotTyped
<1>4. CASE Submit(r)
  BY <1>4, SubmitTyped
<1>5. CASE \E delta \in Deltas \cup {0}, closed \in BOOLEAN : ManageClaims(r, delta, closed)
  BY <1>5, ManageClaimsTyped
<1>6. CASE Complete(r) \/ RetireTask(r) \/ ReviveTask(r)
  BY <1>6, TaskWriteTyped
<1>7. CASE \E decision \in Decision : BeginReview(r, decision)
  BY <1>7, BeginReviewTyped
<1>8. CASE BeginRetireSubmission(r)
  BY <1>8, BeginRetireSubmissionTyped
<1>9. CASE CommitReview(r)
  BY <1>9, CommitReviewTyped
<1>10. CASE CommitRetireSubmission(r)
  BY <1>10, CommitRetireSubmissionTyped
<1>11. CASE Abandon(r)
  BY <1>11, AbandonTyped
<1> QED BY <1>1, <1>2, <1>3, <1>4, <1>5, <1>6, <1>7, <1>8, <1>9, <1>10, <1>11 DEF Step

LEMMA StutterTyped == TypeOK /\ UNCHANGED vars => TypeOK'
BY DEF TypeOK, TaskRowOK, SlotsOK, WorkOK, RequestsOK, HistoryOK, vars

\* Every reachable state is well typed.
THEOREM TypeCorrect == Spec => []TypeOK
<1>1. TypeOK /\ [Next]_vars => TypeOK'
  BY NextIsStep, StepTyped, StutterTyped
<1> QED BY <1>1, InitTyped, PTL DEF Spec

-----------------------------------------------------------------------------
(* Seats *)

(***************************************************************************)
(* NeverAbovePeak is not inductive: a claim compares the seats with the    *)
(* openings its request read earlier.  What it needs is that no request    *)
(* ever remembers more openings than the peak.                             *)
(***************************************************************************)
SeatsInv ==
  /\ NeverAbovePeak
  /\ openings <= peak
  /\ \A r \in Request : req[r].op = "claim" => req[r].openings <= peak

LEMMA ActiveFinite ==
  ASSUME NEW theSlots
  PROVE  IsFiniteSet(ActiveOf(theSlots)) /\ Cardinality(ActiveOf(theSlots)) \in Nat
<1>1. ActiveOf(theSlots) \in SUBSET User
  BY DEF ActiveOf
<1>2. IsFiniteSet(ActiveOf(theSlots))
  BY <1>1, FS_Subset, UserAssumption
<1> QED BY <1>2, FS_CardinalityType

LEMMA SeatsFrame ==
  ASSUME TypeOK, SeatsInv, UNCHANGED <<slot, openings, peak>>,
         \A s \in Request : req'[s].op = "claim" => req'[s] = req[s]
  PROVE  SeatsInv'
BY DEF SeatsInv, NeverAbovePeak, Active

LEMMA SeatsClaim == ASSUME TypeOK, SeatsInv, NEW r \in Request, Claim(r) PROVE SeatsInv'
<1> DEFINE u == req[r].user
<1>1. u \in User /\ req[r].openings \in Nat
  BY ContextFields DEF TypeOK, RequestsOK, Claim
<1>2. ActiveOf(slot') = Active \cup {u}
  BY <1>1 DEF TypeOK, SlotsOK, Claim, ActiveOf, Active
<1>3. u \notin Active
  BY DEF Claim, Active, ActiveOf
<1>4. IsFiniteSet(Active) /\ Cardinality(Active) \in Nat
  BY ActiveFinite DEF Active
<1>5. Cardinality(ActiveOf(slot')) = Cardinality(Active) + 1
  BY <1>2, <1>3, <1>4, FS_AddElement
<1>6. Cardinality(Active) < req[r].openings /\ req[r].openings <= peak /\ peak \in Nat
  BY DEF Claim, SpotLeft, SeatsInv, TypeOK, HistoryOK
<1>7. Cardinality(ActiveOf(slot')) <= peak
  BY <1>1, <1>4, <1>5, <1>6
<1>8. UNCHANGED <<openings, peak>>
  BY DEF Claim
<1>9. \A s \in Request : req'[s].op = "claim" => req'[s] = req[s]
  BY DEF Claim, Answers, Idle, TypeOK, RequestsOK
<1> QED BY <1>7, <1>8, <1>9 DEF SeatsInv, NeverAbovePeak, Active

LEMMA SeatsGiveUp == ASSUME TypeOK, SeatsInv, NEW r \in Request, GiveUpSlot(r) PROVE SeatsInv'
<1> DEFINE u == req[r].user
<1>1. ActiveOf(slot') \in SUBSET Active
  BY DEF TypeOK, SlotsOK, GiveUpSlot, ActiveOf, Active
<1>2. IsFiniteSet(Active) /\ Cardinality(Active) \in Nat /\ Cardinality(ActiveOf(slot')) \in Nat
  BY ActiveFinite DEF Active
<1>3. Cardinality(ActiveOf(slot')) <= Cardinality(Active)
  BY <1>1, <1>2, FS_Subset
<1>4. Cardinality(Active) <= peak /\ peak \in Nat
  BY DEF SeatsInv, NeverAbovePeak, TypeOK, HistoryOK
<1>5. Cardinality(ActiveOf(slot')) <= peak
  BY <1>2, <1>3, <1>4
<1>6. UNCHANGED <<openings, peak>>
  BY DEF GiveUpSlot
<1>7. \A s \in Request : req'[s].op = "claim" => req'[s] = req[s]
  BY DEF GiveUpSlot, Answers, Idle, TypeOK, RequestsOK
<1> QED BY <1>5, <1>6, <1>7 DEF SeatsInv, NeverAbovePeak, Active

LEMMA SeatsManage ==
  ASSUME TypeOK, TypeOK', SeatsInv, NEW r \in Request, NEW delta \in Deltas \cup {0},
         NEW closed \in BOOLEAN, ManageClaims(r, delta, closed)
  PROVE  SeatsInv'
<1>1. peak \in Nat /\ peak' \in Nat /\ openings' \in Nat
  BY DEF TypeOK, TaskRowOK, HistoryOK
<1>2. peak <= peak' /\ openings' <= peak'
  BY <1>1 DEF ManageClaims
<1>3. UNCHANGED slot
  BY DEF ManageClaims
<1>4. Cardinality(Active) \in Nat /\ Cardinality(Active) <= peak
  BY ActiveFinite DEF Active, SeatsInv, NeverAbovePeak
<1>5. Cardinality(ActiveOf(slot')) <= peak'
  BY <1>1, <1>2, <1>3, <1>4 DEF Active
<1>6. ASSUME NEW s \in Request, req'[s].op = "claim" PROVE req'[s].openings <= peak'
  <2>1. req'[s] = req[s]
    BY <1>6 DEF ManageClaims, Answers, Idle, TypeOK, RequestsOK
  <2>2. req[s].openings \in Nat /\ req[s].openings <= peak
    BY <1>6, <2>1, ContextFields DEF SeatsInv, TypeOK, RequestsOK
  <2> QED BY <1>1, <1>2, <2>1, <2>2
<1> QED BY <1>2, <1>5, <1>6 DEF SeatsInv, NeverAbovePeak, Active

LEMMA SeatsLoad ==
  ASSUME TypeOK, SeatsInv, NEW r \in Request, LoadStep(r) PROVE SeatsInv'
<1>1. PICK c \in Context : LoadedContext(r, c)
  BY LoadStepContext
<1>2. UNCHANGED <<slot, openings, peak>>
  BY <1>1 DEF LoadedContext, taskRow, slots
<1>3. req' = [req EXCEPT ![r] = c] /\ (c.op = "claim" => c.openings = openings)
  BY <1>1 DEF LoadedContext, Loads
<1>4. \A s \in Request : req'[s].op = "claim" => req'[s].openings <= peak'
  BY <1>2, <1>3 DEF SeatsInv, TypeOK, RequestsOK
<1> QED BY <1>2, <1>4 DEF SeatsInv, NeverAbovePeak, Active

LEMMA SeatsStep ==
  ASSUME TypeOK, SeatsInv, NEW r \in Request, Step(r)
  PROVE  SeatsInv'
<1>1. CASE LoadStep(r)
  BY <1>1, SeatsLoad
<1>2. CASE Claim(r)
  BY <1>2, SeatsClaim
<1>3. CASE GiveUpSlot(r)
  BY <1>3, SeatsGiveUp
<1>4. CASE \E delta \in Deltas \cup {0}, closed \in BOOLEAN : ManageClaims(r, delta, closed)
  BY <1>4, SeatsManage, ManageClaimsTyped
<1>5. CASE Submit(r) \/ Complete(r) \/ RetireTask(r) \/ ReviveTask(r) \/ CommitReview(r)
            \/ CommitRetireSubmission(r) \/ Abandon(r)
  <2>1. UNCHANGED <<slot, openings, peak>> /\ Answers(r)
    BY <1>5 DEF Submit, Complete, RetireTask, ReviveTask, CommitReview, CommitRetireSubmission,
                Abandon, taskRow, slots
  <2>2. \A s \in Request : req'[s].op = "claim" => req'[s] = req[s]
    BY <2>1 DEF Answers, Idle, TypeOK, RequestsOK
  <2> QED BY <2>1, <2>2, SeatsFrame
<1>6. CASE (\E decision \in Decision : BeginReview(r, decision)) \/ BeginRetireSubmission(r)
  <2>1. UNCHANGED <<slot, openings, peak>>
    BY <1>6 DEF BeginReview, BeginRetireSubmission, taskRow, slots
  <2>2. \A s \in Request : req'[s].op = "claim" => req'[s] = req[s]
    BY <1>6, BeginsContext DEF Reviewing, Retiring, TypeOK, RequestsOK
  <2> QED BY <2>1, <2>2, SeatsFrame
<1> QED BY <1>1, <1>2, <1>3, <1>4, <1>5, <1>6 DEF Step

LEMMA SeatsInit == Init => SeatsInv
<1> SUFFICES ASSUME Init PROVE SeatsInv
  OBVIOUS
<1>1. Active = {}
  BY DEF Init, Active, ActiveOf
<1>2. Cardinality(Active) = 0
  BY <1>1, FS_EmptySet
<1>3. openings \in Nat /\ peak = openings
  BY OpeningsAssumption DEF Init
<1>4. \A r \in Request : req[r].op # "claim"
  BY DEF Init, Idle
<1> QED BY <1>2, <1>3, <1>4 DEF SeatsInv, NeverAbovePeak

\* The seats taken never exceed the most openings the task ever had, however
\* claims, departures and openings changes interleave (tasks.service.ts:424-440).
THEOREM SeatsBounded == Spec => []NeverAbovePeak
<1>1. TypeOK /\ SeatsInv /\ [Next]_vars => SeatsInv'
  <2>1. TypeOK /\ SeatsInv /\ UNCHANGED vars => SeatsInv'
    BY DEF SeatsInv, NeverAbovePeak, Active, vars
  <2> QED BY <2>1, NextIsStep, SeatsStep
<1>2. SeatsInv => NeverAbovePeak
  BY DEF SeatsInv
<1> QED BY <1>1, <1>2, SeatsInit, TypeCorrect, PTL DEF Spec

-----------------------------------------------------------------------------
(* The ledger *)

UnderReview(rows, u, n) == rows[u][n].lifecycle = "active" /\ rows[u][n].state = "review"

OpenOps == {"reviewing", "retiringSubmission"}

(***************************************************************************)
(* Why a decision is only ever recorded on a submission that is live and   *)
(* under review, although it was checked two steps earlier: each change of *)
(* a row raises its version, so a review whose version still matches saw   *)
(* the current row, and between the update and the commit the row lock     *)
(* keeps every other review and retirement of that row out.                *)
(***************************************************************************)
ReviewSeen(context, rows, version) ==
  /\ context.version <= version[context.user][context.no]
  /\ context.version = version[context.user][context.no]
       => UnderReview(rows, context.user, context.no)

LockInv ==
  /\ \A r \in Request : req[r].op = "review" => ReviewSeen(req[r], submissions, rowVersion)
  /\ \A r \in Request : req[r].op = "reviewing"
                        => UnderReview(submissions, req[r].user, req[r].no)
  /\ \A r, s \in Request :
       (r # s /\ req[r].op \in OpenOps /\ req[s].op \in OpenOps)
         => req[r].user # req[s].user \/ req[r].no # req[s].no

\* Requests that may matter to LockInv keep what they remember.
Remembers(s) == req'[s].op \in {"review", "reviewing", "retiringSubmission"} => req'[s] = req[s]

LEMMA AnswersRemembers ==
  ASSUME TypeOK, NEW r \in Request, Answers(r)
  PROVE  \A s \in Request : Remembers(s) /\ (s # r => req'[s] = req[s]) /\ req'[r] = Idle
BY DEF Answers, Remembers, Idle, TypeOK, RequestsOK

LEMMA LockFrame ==
  ASSUME LockInv, UNCHANGED work, \A s \in Request : Remembers(s)
  PROVE  LockInv'
<1>1. UNCHANGED <<submissions, rowVersion>>
  BY DEF work
<1> QED BY <1>1 DEF LockInv, Remembers, OpenOps

LEMMA LockLoad == ASSUME TypeOK, LockInv, NEW r \in Request, LoadStep(r) PROVE LockInv'
<1>1. PICK c \in Context : LoadedContext(r, c)
  BY LoadStepContext
<1>2. UNCHANGED <<submissions, rowVersion>> /\ req' = [req EXCEPT ![r] = c]
  BY <1>1 DEF LoadedContext, Loads, work
<1>3. c.op \notin OpenOps
  BY <1>1 DEF LoadedContext, OpenOps
<1>4. ASSUME c.op = "review" PROVE ReviewSeen(c, submissions, rowVersion)
  <2>1. c.user \in User /\ c.no \in 1..MaxSubmissions
    BY <1>1, <1>4, ContextFields, SubmissionAssumption DEF LoadedContext, RowOps, TypeOK, WorkOK
  <2>2. rowVersion[c.user][c.no] \in Nat
    BY <2>1 DEF TypeOK, WorkOK
  <2> QED BY <1>1, <1>4, <2>2 DEF LoadedContext, ReviewSeen, UnderReview
<1>5. \A s \in Request : req'[s] = IF s = r THEN c ELSE req[s]
  BY <1>2 DEF TypeOK, RequestsOK
<1> QED BY <1>2, <1>3, <1>4, <1>5 DEF LockInv, OpenOps

\* A handed in version is a new row: no request is about it yet.
LEMMA LockSubmit == ASSUME TypeOK, LockInv, NEW r \in Request, Submit(r) PROVE LockInv'
<1> DEFINE u == req[r].user
           new == Append(submissions[u], NextVersion(submissions[u]))
<1>1. u \in User
  BY ContextFields DEF TypeOK, RequestsOK, Submit
<1>2. submissions[u] \in Seq(SubmissionRow) /\ submissions' = [submissions EXCEPT ![u] = new]
  BY <1>1 DEF TypeOK, WorkOK, Submit
<1>3. \A n \in DOMAIN submissions[u] : new[n] = submissions[u][n]
  BY <1>2, NextVersionTyped
<1> HIDE DEF new
<1>4. \A v \in User : \A n \in DOMAIN submissions[v] : submissions'[v][n] = submissions[v][n]
  BY <1>1, <1>2, <1>3 DEF TypeOK, WorkOK
<1>5. \A s \in Request : Remembers(s)
  BY AnswersRemembers DEF Submit
<1>6. \A s \in Request : req[s].op \in RowOps =>
        req[s].user \in User /\ req[s].no \in DOMAIN submissions[req[s].user]
  BY RowOfRequest
<1>7. UNCHANGED rowVersion
  BY DEF Submit
<1> QED BY <1>4, <1>5, <1>6, <1>7 DEF LockInv, Remembers, OpenOps, ReviewSeen, UnderReview, RowOps

LEMMA LockBeginReview ==
  ASSUME TypeOK, LockInv, NEW r \in Request, NEW decision \in Decision, BeginReview(r, decision)
  PROVE  LockInv'
<1> DEFINE u == req[r].user
           n == req[r].no
           c == Reviewing(u, n, decision)
<1>1. req' = [req EXCEPT ![r] = c] /\ UNCHANGED <<submissions, rowVersion>>
  BY BeginsContext DEF BeginReview, work
<1>2. c.op = "reviewing" /\ c.user = u /\ c.no = n
  BY DEF Reviewing
<1>3. UnderReview(submissions, u, n)
  BY DEF BeginReview, VersionMatches, LockInv, ReviewSeen
<1>4. \A s \in Request : req[s].op \in OpenOps => req[s].user # u \/ req[s].no # n
  BY DEF BeginReview, SubmissionRowFree, Open, OpenOps
<1> HIDE DEF c
<1>5. \A s \in Request : req'[s] = IF s = r THEN c ELSE req[s]
  BY <1>1 DEF TypeOK, RequestsOK
<1> QED BY <1>1, <1>2, <1>3, <1>4, <1>5 DEF LockInv, OpenOps

LEMMA LockBeginRetire ==
  ASSUME TypeOK, LockInv, NEW r \in Request, BeginRetireSubmission(r)
  PROVE  LockInv'
<1> DEFINE u == req[r].user
           n == req[r].no
           c == Retiring(u, n)
<1>1. req' = [req EXCEPT ![r] = c] /\ UNCHANGED <<submissions, rowVersion>>
  BY BeginsContext DEF BeginRetireSubmission, work
<1>2. c.op = "retiringSubmission" /\ c.user = u /\ c.no = n
  BY DEF Retiring
<1>3. \A s \in Request : req[s].op \in OpenOps => req[s].user # u \/ req[s].no # n
  BY DEF BeginRetireSubmission, SubmissionRowFree, Open, OpenOps
<1> HIDE DEF c
<1>4. \A s \in Request : req'[s] = IF s = r THEN c ELSE req[s]
  BY <1>1 DEF TypeOK, RequestsOK
<1> QED BY <1>1, <1>2, <1>3, <1>4 DEF LockInv, OpenOps

\* A commit rewrites the one row it has locked and raises its version.
LEMMA LockCommit ==
  ASSUME TypeOK, LockInv, NEW r \in Request, req[r].op \in OpenOps, Answers(r), NEW row,
         DiffersAt(submissions', req[r].user, req[r].no, row),
         rowVersion' = [rowVersion EXCEPT ![req[r].user][req[r].no] = @ + 1]
  PROVE  LockInv'
<1> DEFINE u == req[r].user
           n == req[r].no
<1>1. u \in User /\ n \in 1..MaxSubmissions /\ rowVersion[u][n] \in Nat
  BY RowOfRequest DEF OpenOps, RowOps
<1>2. \A s \in Request : Remembers(s) /\ (s # r => req'[s] = req[s]) /\ req'[r] = Idle
  BY AnswersRemembers
<1>3. ASSUME NEW s \in Request, req'[s].op \in RowOps
      PROVE  /\ s # r /\ req'[s] = req[s]
             /\ req[s].user \in User /\ req[s].no \in DOMAIN submissions[req[s].user]
             /\ req[s].no \in 1..MaxSubmissions
  BY <1>2, <1>3, RowOfRequest DEF Idle, RowOps
<1>4. /\ rowVersion'[u][n] = rowVersion[u][n] + 1
      /\ \A v \in User : \A m \in 1..MaxSubmissions :
           (v # u \/ m # n) => rowVersion'[v][m] = rowVersion[v][m]
  BY <1>1 DEF TypeOK, WorkOK
<1>5. ASSUME NEW s \in Request, req'[s].op = "review"
      PROVE  ReviewSeen(req'[s], submissions', rowVersion')
  <2>1. req'[s] = req[s] /\ ReviewSeen(req[s], submissions, rowVersion) /\ req[s].version \in Nat
    BY <1>3, <1>5, ContextFields DEF LockInv, RowOps, TypeOK, RequestsOK
  <2>2. CASE req[s].user = u /\ req[s].no = n
    <3>1. req[s].version < rowVersion'[u][n]
      BY <1>1, <1>4, <2>1, <2>2 DEF ReviewSeen
    <3> QED BY <1>1, <1>4, <2>1, <2>2, <3>1 DEF ReviewSeen
  <2>3. CASE req[s].user # u \/ req[s].no # n
    BY <1>3, <1>4, <1>5, <2>1, <2>3 DEF ReviewSeen, UnderReview, DiffersAt, RowOps
  <2> QED BY <2>2, <2>3
<1>6. ASSUME NEW s \in Request, req'[s].op = "reviewing"
      PROVE  UnderReview(submissions', req'[s].user, req'[s].no)
  <2>1. s # r /\ req'[s] = req[s] /\ UnderReview(submissions, req[s].user, req[s].no)
    BY <1>3, <1>6 DEF LockInv, RowOps
  <2>2. req[s].user # u \/ req[s].no # n
    BY <1>6, <2>1 DEF LockInv, OpenOps
  <2> QED BY <1>3, <1>6, <2>1, <2>2 DEF UnderReview, DiffersAt, RowOps
<1>7. \A s, t \in Request :
        (s # t /\ req'[s].op \in OpenOps /\ req'[t].op \in OpenOps)
          => req'[s].user # req'[t].user \/ req'[s].no # req'[t].no
  BY <1>3 DEF LockInv, OpenOps, RowOps
<1> QED BY <1>5, <1>6, <1>7 DEF LockInv

LEMMA LockStep ==
  ASSUME TypeOK, LockInv, NEW r \in Request, Step(r)
  PROVE  LockInv'
<1>1. CASE LoadStep(r)
  BY <1>1, LockLoad
<1>2. CASE Submit(r)
  BY <1>2, LockSubmit
<1>3. CASE Claim(r) \/ GiveUpSlot(r) \/ Complete(r) \/ RetireTask(r) \/ ReviveTask(r) \/ Abandon(r)
           \/ (\E delta \in Deltas \cup {0}, closed \in BOOLEAN : ManageClaims(r, delta, closed))
  <2>1. UNCHANGED work /\ Answers(r)
    BY <1>3 DEF Claim, GiveUpSlot, Complete, RetireTask, ReviveTask, Abandon, ManageClaims
  <2> QED BY <2>1, AnswersRemembers, LockFrame
<1>4. CASE \E decision \in Decision : BeginReview(r, decision)
  BY <1>4, LockBeginReview
<1>5. CASE BeginRetireSubmission(r)
  BY <1>5, LockBeginRetire
<1>6. CASE CommitReview(r)
  <2>1. req[r].op \in OpenOps /\ req[r].op \in RowOps /\ req[r].op = "reviewing"
    BY <1>6 DEF CommitReview, OpenOps, RowOps
  <2>2. submissions' = Reviewed(req[r].user, req[r].no, req[r].decision)
    BY <1>6 DEF CommitReview, Reviewed
  <2>3. req[r].decision \in Decision
    BY <2>1, ContextFields DEF TypeOK, RequestsOK
  <2>4. DiffersAt(submissions', req[r].user, req[r].no,
          [submissions[req[r].user][req[r].no] EXCEPT !.state = req[r].decision])
    BY <2>1, <2>2, <2>3, RowOfRequest, ReviewedRows DEF TypeOK
  <2>5. Answers(r) /\ rowVersion' = [rowVersion EXCEPT ![req[r].user][req[r].no] = @ + 1]
    BY <1>6 DEF CommitReview
  <2> QED BY <2>1, <2>4, <2>5, LockCommit
<1>7. CASE CommitRetireSubmission(r)
  <2>1. req[r].op \in OpenOps /\ req[r].op \in RowOps
    BY <1>7 DEF CommitRetireSubmission, OpenOps, RowOps
  <2>2. submissions' = Retired(req[r].user, req[r].no)
    BY <1>7 DEF CommitRetireSubmission, Retired
  <2>3. DiffersAt(submissions', req[r].user, req[r].no,
          [submissions[req[r].user][req[r].no] EXCEPT !.lifecycle = "retired"])
    BY <2>1, <2>2, RowOfRequest, RetiredRows DEF TypeOK
  <2>4. Answers(r) /\ rowVersion' = [rowVersion EXCEPT ![req[r].user][req[r].no] = @ + 1]
    BY <1>7 DEF CommitRetireSubmission
  <2> QED BY <2>1, <2>3, <2>4, LockCommit
<1> QED BY <1>1, <1>2, <1>3, <1>4, <1>5, <1>6, <1>7 DEF Step

LEMMA LockInit == Init => LockInv
BY DEF Init, LockInv, Idle, OpenOps

\* Each step of the handlers is one step of the ledger, or none.
LEMMA LedgerStepOrStutter ==
  ASSUME TypeOK, LockInv, NEW r \in Request, Step(r)
  PROVE  Ledger!Next \/ UNCHANGED submissions
<1>1. CASE LoadStep(r)
  <2>1. PICK c \in Context : LoadedContext(r, c)
    BY <1>1, LoadStepContext
  <2> QED BY <2>1 DEF LoadedContext, work
<1>2. CASE Submit(r)
  <2> DEFINE u == req[r].user
  <2>1. u \in User
    BY <1>2, ContextFields DEF TypeOK, RequestsOK, Submit
  <2>2. submissions[u] \in Seq(SubmissionRow)
    BY <2>1 DEF TypeOK, WorkOK
  <2>3. NextVersion(submissions[u]) = Ledger!Successor(submissions[u])
    BY DEF NextVersion, Ledger!Successor, Ledger!LastOf
  <2>4. submissions[u] # << >> => Len(submissions[u]) \in DOMAIN submissions[u]
    BY <2>2
  <2>5. Ledger!AwaitsNewVersion(submissions[u])
    <3> SUFFICES ASSUME submissions[u] # << >>
                 PROVE  \/ submissions[u][Len(submissions[u])].lifecycle = "retired"
                        \/ submissions[u][Len(submissions[u])].state = "revising"
      BY DEF Ledger!AwaitsNewVersion, Ledger!LastOf
    <3>1. submissions[u][Len(submissions[u])] \in SubmissionRow
      BY <2>2, <2>4
    <3> QED BY <1>2, <2>4, <3>1 DEF Submit, MayResubmit, SubmissionRow
  <2>6. submissions' = [submissions EXCEPT ![u] = Append(submissions[u], NextVersion(submissions[u]))]
    BY <1>2 DEF Submit
  <2>7. Ledger!HandIn(u)
    BY <2>3, <2>5, <2>6 DEF Ledger!HandIn
  <2> QED BY <2>1, <2>7 DEF Ledger!Next
<1>3. CASE Claim(r) \/ GiveUpSlot(r) \/ Complete(r) \/ RetireTask(r) \/ ReviveTask(r) \/ Abandon(r)
           \/ (\E delta \in Deltas \cup {0}, closed \in BOOLEAN : ManageClaims(r, delta, closed))
           \/ (\E decision \in Decision : BeginReview(r, decision)) \/ BeginRetireSubmission(r)
  BY <1>3 DEF Claim, GiveUpSlot, Complete, RetireTask, ReviveTask, Abandon, ManageClaims,
              BeginReview, BeginRetireSubmission, work
<1>4. CASE CommitReview(r)
  <2> DEFINE u == req[r].user
             n == req[r].no
             d == req[r].decision
  <2>1. req[r].op \in RowOps /\ req[r].op = "reviewing"
    BY <1>4 DEF CommitReview, RowOps
  <2>2. u \in User /\ n \in DOMAIN submissions[u]
    BY <2>1, RowOfRequest
  <2>3. d \in {"approved", "revising", "rejected"}
    BY <2>1, ContextFields DEF TypeOK, RequestsOK, Decision
  <2>4. UnderReview(submissions, u, n)
    BY <2>1 DEF LockInv
  <2>5. Ledger!Decide(u, n, d)
    BY <1>4, <2>4 DEF CommitReview, UnderReview, Ledger!Decide
  <2> QED BY <2>2, <2>3, <2>5 DEF Ledger!Next
<1>5. CASE CommitRetireSubmission(r)
  <2> DEFINE u == req[r].user
             n == req[r].no
  <2>1. req[r].op \in RowOps
    BY <1>5 DEF CommitRetireSubmission, RowOps
  <2>2. u \in User /\ n \in DOMAIN submissions[u]
    BY <2>1, RowOfRequest
  <2>3. Ledger!Retire(u, n)
    BY <1>5 DEF CommitRetireSubmission, Ledger!Retire
  <2> QED BY <2>2, <2>3 DEF Ledger!Next
<1> QED BY <1>1, <1>2, <1>3, <1>4, <1>5 DEF Step

\* The review and retirement protocol implements the ledger: for any number of
\* concurrent requests, each decision lands once, on a live submission that is
\* still under review (submissions.service.ts:117-534).
THEOREM LedgerImplemented == Spec => LedgerSpec
<1>1. Init => Ledger!Init
  BY DEF Init, Ledger!Init
<1>2. TypeOK /\ LockInv /\ [Next]_vars => LockInv'
  <2>1. TypeOK /\ LockInv /\ UNCHANGED vars => LockInv'
    BY DEF LockInv, vars
  <2> QED BY <2>1, NextIsStep, LockStep
<1>3. TypeOK /\ LockInv /\ [Next]_vars => [Ledger!Next]_submissions
  <2>1. UNCHANGED vars => UNCHANGED submissions
    BY DEF vars
  <2> QED BY <2>1, NextIsStep, LedgerStepOrStutter
<1> QED BY <1>1, <1>2, <1>3, LockInit, TypeCorrect, PTL DEF Spec, LedgerSpec, Ledger!Spec

\* What is proved of the ledger holds of the handlers: at most one version of
\* a claimant counts, and resubmissions follow returned versions only.
THEOREM LedgerPromisesKept == Spec => [](OnlyLastVersionCounts /\ ChainOfReturned)
<1>1. LedgerInv => OnlyLastVersionCounts /\ ChainOfReturned
  BY DEF LedgerInv, OnlyLastVersionCounts, ChainOfReturned
<1> QED BY <1>1, LedgerSafe, LedgerImplemented, PTL

-----------------------------------------------------------------------------
(* The derived status *)

\* The rows an open transaction will have committed.
WriteOf(c, rows) ==
  IF c.op = "reviewing" THEN [rows EXCEPT ![c.user][c.no].state = c.decision]
  ELSE [rows EXCEPT ![c.user][c.no].lifecycle = "retired"]

(***************************************************************************)
(* The status an open transaction computed is right for as long as it is   *)
(* alone: locked transactions wait for it, and a second review or          *)
(* retirement is noted in drift.                                           *)
(***************************************************************************)
StatusInv ==
  /\ drift = {} => statusCache = Recompute(openings, claimsClosed, slot, submissions)
  /\ "overlap" \notin drift =>
       /\ \A r, s \in Request : (req[r].op \in OpenOps /\ req[s].op \in OpenOps) => r = s
       /\ \A r \in Request : req[r].op \in OpenOps =>
            req[r].status = Recompute(openings, claimsClosed, slot, WriteOf(req[r], submissions))

LEMMA StatusInit == Init => StatusInv
<1> SUFFICES ASSUME Init PROVE StatusInv
  OBVIOUS
<1>1. StatesOf(slot, submissions) = << >>
  <2>1. ActiveOf(slot) = {}
    BY DEF Init, ActiveOf
  <2> QED BY <2>1 DEF StatesOf
<1>2. Recompute(openings, FALSE, slot, submissions) = computeStatusCache(0, openings, FALSE)
  BY <1>1, CreationRuleAgrees DEF Recompute
<1> QED BY <1>2 DEF Init, StatusInv, Idle, OpenOps

LEMMA StatusLoad == ASSUME TypeOK, StatusInv, NEW r \in Request, LoadStep(r) PROVE StatusInv'
<1>1. PICK c \in Context : LoadedContext(r, c)
  BY LoadStepContext
<1>2. /\ UNCHANGED <<openings, claimsClosed, statusCache, slot, submissions, drift>>
      /\ req' = [req EXCEPT ![r] = c]
      /\ c.op \notin OpenOps
  BY <1>1 DEF LoadedContext, Loads, taskRow, slots, work, OpenOps
<1>3. \A s \in Request : req'[s].op \in OpenOps => req'[s] = req[s]
  BY <1>2 DEF TypeOK, RequestsOK
<1> QED BY <1>2, <1>3 DEF StatusInv

\* A transaction that locks the task row finds none open and recomputes.
LEMMA StatusLocked ==
  ASSUME TypeOK, NEW r \in Request, TaskRowFree, Answers(r), RecomputeStatus
  PROVE  StatusInv'
<1>1. \A s \in Request : req'[s].op \notin OpenOps
  BY DEF TaskRowFree, Open, OpenOps, Answers, Idle, TypeOK, RequestsOK
<1> QED BY <1>1 DEF StatusInv, RecomputeStatus

LEMMA StatusTaskWrite ==
  ASSUME TypeOK, StatusInv, NEW r \in Request,
         Complete(r) \/ RetireTask(r) \/ ReviveTask(r) \/ Abandon(r)
  PROVE  StatusInv'
<1>1. /\ UNCHANGED <<openings, claimsClosed, slot, submissions>>
      /\ \/ UNCHANGED <<statusCache, drift>>
         \/ drift' = drift \cup {"manual"}
  BY DEF Complete, RetireTask, ReviveTask, Abandon, taskRow, slots, work
<1>2. Answers(r)
  BY DEF Complete, RetireTask, ReviveTask, Abandon
<1>3. \A s \in Request : req'[s].op \in OpenOps => req'[s] = req[s]
  BY <1>2 DEF Answers, Idle, OpenOps, TypeOK, RequestsOK
<1> QED BY <1>1, <1>3 DEF StatusInv

LEMMA StatusBegin ==
  ASSUME TypeOK, StatusInv, NEW r \in Request, NEW c,
         c.op \in OpenOps,
         c.status = Recompute(openings, claimsClosed, slot, WriteOf(c, submissions)),
         req' = [req EXCEPT ![r] = c], NoteOverlap,
         UNCHANGED <<taskRow, slots, work>>
  PROVE  StatusInv'
<1>1. UNCHANGED <<openings, claimsClosed, statusCache, slot, submissions>>
  BY DEF taskRow, slots, work
<1>2. drift' = {} => drift = {}
  BY DEF NoteOverlap
<1>3. "overlap" \notin drift' => \A s \in Request : req[s].op \notin OpenOps
  BY DEF NoteOverlap, Open, OpenOps
<1>4. \A s \in Request : req'[s] = IF s = r THEN c ELSE req[s]
  BY DEF TypeOK, RequestsOK
<1> QED BY <1>1, <1>2, <1>3, <1>4 DEF StatusInv

LEMMA StatusCommit ==
  ASSUME TypeOK, StatusInv, NEW r \in Request, req[r].op \in OpenOps,
         submissions' = WriteOf(req[r], submissions), statusCache' = req[r].status,
         UNCHANGED <<openings, claimsClosed, slot>>, SettleDrift, Answers(r)
  PROVE  StatusInv'
<1>1. "overlap" \in drift' <=> "overlap" \in drift
  BY DEF SettleDrift
<1>2. "overlap" \notin drift => \A s \in Request : req'[s].op \notin OpenOps
  BY DEF StatusInv, Answers, Idle, OpenOps, TypeOK, RequestsOK
<1>3. "overlap" \notin drift =>
        req[r].status = Recompute(openings, claimsClosed, slot, WriteOf(req[r], submissions))
  BY DEF StatusInv
<1>4. "overlap" \notin drift =>
        statusCache' = Recompute(openings', claimsClosed', slot', submissions')
  BY <1>3
<1> QED BY <1>1, <1>2, <1>4 DEF StatusInv

LEMMA StatusStep ==
  ASSUME TypeOK, StatusInv, NEW r \in Request, Step(r)
  PROVE  StatusInv'
<1>1. CASE LoadStep(r)
  BY <1>1, StatusLoad
<1>2. CASE Claim(r) \/ GiveUpSlot(r) \/ Submit(r)
           \/ (\E delta \in Deltas \cup {0}, closed \in BOOLEAN : ManageClaims(r, delta, closed))
  BY <1>2, StatusLocked DEF Claim, GiveUpSlot, Submit, ManageClaims
<1>3. CASE Complete(r) \/ RetireTask(r) \/ ReviveTask(r) \/ Abandon(r)
  BY <1>3, StatusTaskWrite
<1>4. ASSUME NEW decision \in Decision, BeginReview(r, decision) PROVE StatusInv'
  <2> DEFINE c == Reviewing(req[r].user, req[r].no, decision)
  <2>1. req' = [req EXCEPT ![r] = c]
    BY <1>4, BeginsContext
  <2>2. c.op \in OpenOps
    BY DEF Reviewing, OpenOps
  <2>3. c.status = Recompute(openings, claimsClosed, slot, WriteOf(c, submissions))
    BY DEF Reviewing, WriteOf, Reviewed
  <2>4. NoteOverlap /\ UNCHANGED <<taskRow, slots, work>>
    BY <1>4 DEF BeginReview
  <2> HIDE DEF c
  <2> QED BY <2>1, <2>2, <2>3, <2>4, StatusBegin
<1>5. ASSUME BeginRetireSubmission(r) PROVE StatusInv'
  <2> DEFINE c == Retiring(req[r].user, req[r].no)
  <2>1. req' = [req EXCEPT ![r] = c]
    BY <1>5, BeginsContext
  <2>2. c.op \in OpenOps
    BY DEF Retiring, OpenOps
  <2>3. c.status = Recompute(openings, claimsClosed, slot, WriteOf(c, submissions))
    BY DEF Retiring, WriteOf, Retired
  <2>4. NoteOverlap /\ UNCHANGED <<taskRow, slots, work>>
    BY <1>5 DEF BeginRetireSubmission
  <2> HIDE DEF c
  <2> QED BY <2>1, <2>2, <2>3, <2>4, StatusBegin
<1>6. ASSUME CommitReview(r) PROVE StatusInv'
  <2>1. req[r].op \in OpenOps /\ submissions' = WriteOf(req[r], submissions)
    BY <1>6 DEF CommitReview, WriteOf, OpenOps
  <2>2. /\ statusCache' = req[r].status
        /\ UNCHANGED <<openings, claimsClosed, slot>>
        /\ SettleDrift
        /\ Answers(r)
    BY <1>6 DEF CommitReview, slots
  <2> QED BY <2>1, <2>2, StatusCommit
<1>7. ASSUME CommitRetireSubmission(r) PROVE StatusInv'
  <2>1. req[r].op \in OpenOps /\ submissions' = WriteOf(req[r], submissions)
    BY <1>7 DEF CommitRetireSubmission, WriteOf, OpenOps
  <2>2. /\ statusCache' = req[r].status
        /\ UNCHANGED <<openings, claimsClosed, slot>>
        /\ SettleDrift
        /\ Answers(r)
    BY <1>7 DEF CommitRetireSubmission
  <2> QED BY <2>1, <2>2, StatusCommit
<1> QED BY <1>1, <1>2, <1>3, <1>4, <1>5, <1>6, <1>7 DEF Step

\* Whatever runs concurrently, the stored status is the documented one unless
\* someone completed the task by hand or two recomputes overlapped
\* (task-status.service.ts:18-49).
THEOREM StatusDerived == Spec => []StatusIsDerived
<1>1. TypeOK /\ StatusInv /\ [Next]_vars => StatusInv'
  <2>1. TypeOK /\ StatusInv /\ UNCHANGED vars => StatusInv'
    BY DEF StatusInv, vars
  <2> QED BY <2>1, NextIsStep, StatusStep
<1>2. TypeOK /\ StatusInv => StatusIsDerived
  <2> SUFFICES ASSUME TypeOK, StatusInv, drift = {} PROVE statusCache = CurrentLadder
    BY DEF StatusIsDerived
  <2>1. submissions \in [User -> Seq(SubmissionRow)]
    BY DEF TypeOK, WorkOK
  <2>2. CurrentLadder = Recompute(openings, claimsClosed, slot, submissions)
    BY <2>1, StatesTyped, MinRuleIsLadder DEF CurrentLadder, Recompute
  <2> QED BY <2>2 DEF StatusInv
<1> QED BY <1>1, <1>2, StatusInit, TypeCorrect, PTL DEF Spec

-----------------------------------------------------------------------------
(* The submitted flag of a slot *)

LEMMA FlagStep ==
  ASSUME TypeOK, TypeOK', HasSubmittedMeansLive, NEW r \in Request, Step(r)
  PROVE  HasSubmittedMeansLive'
<1>1. CASE LoadStep(r)
  <2>1. PICK c \in Context : LoadedContext(r, c)
    BY <1>1, LoadStepContext
  <2> QED BY <2>1 DEF LoadedContext, HasSubmittedMeansLive, slots, work
<1>2. CASE GiveUpSlot(r) \/ Complete(r) \/ RetireTask(r) \/ ReviveTask(r) \/ Abandon(r)
           \/ (\E delta \in Deltas \cup {0}, closed \in BOOLEAN : ManageClaims(r, delta, closed))
           \/ (\E decision \in Decision : BeginReview(r, decision)) \/ BeginRetireSubmission(r)
  <2>1. UNCHANGED <<hasSubmitted, submissions>>
    BY <1>2 DEF GiveUpSlot, Complete, RetireTask, ReviveTask, Abandon, ManageClaims, BeginReview,
                BeginRetireSubmission, slots, work
  <2> QED BY <2>1 DEF HasSubmittedMeansLive
<1>3. CASE Claim(r)
  <2>1. UNCHANGED submissions /\ \A v \in User : hasSubmitted'[v] => hasSubmitted[v]
    BY <1>3 DEF Claim, work, TypeOK, SlotsOK
  <2> QED BY <2>1 DEF HasSubmittedMeansLive
<1>4. CASE Submit(r)
  <2> DEFINE u == req[r].user
             new == Append(submissions[u], NextVersion(submissions[u]))
  <2>1. u \in User
    BY <1>4, ContextFields DEF TypeOK, RequestsOK, Submit
  <2>2. /\ submissions[u] \in Seq(SubmissionRow)
        /\ submissions' = [submissions EXCEPT ![u] = new]
        /\ \A v \in User : v # u => hasSubmitted'[v] = hasSubmitted[v]
    BY <1>4, <2>1 DEF TypeOK, WorkOK, SlotsOK, Submit
  <2>3. new # << >> /\ new[Len(new)].lifecycle = "active"
    BY <2>2 DEF NextVersion
  <2> HIDE DEF new
  <2>4. submissions'[u] = new /\ \A v \in User : v # u => submissions'[v] = submissions[v]
    BY <2>1, <2>2 DEF TypeOK, WorkOK
  <2> QED BY <2>2, <2>3, <2>4 DEF HasSubmittedMeansLive
<1>5. CASE CommitReview(r)
  <2> DEFINE u == req[r].user
             n == req[r].no
             d == req[r].decision
  <2>1. req[r].op \in RowOps /\ req[r].op = "reviewing"
    BY <1>5 DEF CommitReview, RowOps
  <2>2. u \in User /\ n \in DOMAIN submissions[u] /\ d \in Decision
    BY <2>1, RowOfRequest, ContextFields DEF TypeOK, RequestsOK
  <2>3. DiffersAt(Reviewed(u, n, d), u, n, [submissions[u][n] EXCEPT !.state = d])
    BY <2>2, ReviewedRows DEF TypeOK
  <2>4. submissions' = Reviewed(u, n, d) /\ UNCHANGED hasSubmitted
    BY <1>5 DEF CommitReview, Reviewed, slots
  <2>5. submissions[u][n] \in SubmissionRow
    BY <2>2 DEF TypeOK, WorkOK
  <2>6. \A v \in User : \A m \in DOMAIN submissions[v] :
          submissions'[v][m].lifecycle = submissions[v][m].lifecycle
    BY <2>2, <2>3, <2>4, <2>5 DEF DiffersAt, SubmissionRow
  <2>7. \A v \in User : /\ Len(submissions'[v]) = Len(submissions[v])
                        /\ submissions[v] \in Seq(SubmissionRow)
                        /\ submissions'[v] \in Seq(SubmissionRow)
    BY <2>3, <2>4 DEF DiffersAt, TypeOK, WorkOK
  <2>8. \A v \in User : submissions[v] # << >> =>
          submissions'[v] # << >> /\ Len(submissions[v]) \in DOMAIN submissions[v]
    BY <2>7
  <2> QED BY <2>4, <2>6, <2>7, <2>8 DEF HasSubmittedMeansLive
<1>6. CASE CommitRetireSubmission(r)
  <2> DEFINE u == req[r].user
             n == req[r].no
  <2>1. req[r].op \in RowOps
    BY <1>6 DEF CommitRetireSubmission, RowOps
  <2>2. u \in User /\ n \in DOMAIN submissions[u]
    BY <2>1, RowOfRequest
  <2>3. DiffersAt(Retired(u, n), u, n, [submissions[u][n] EXCEPT !.lifecycle = "retired"])
    BY <2>2, RetiredRows DEF TypeOK
  <2>4. submissions' = Retired(u, n)
    BY <1>6 DEF CommitRetireSubmission, Retired
  <2>5. /\ ~hasSubmitted'[u]
        /\ \A v \in User : v # u => hasSubmitted'[v] = hasSubmitted[v]
    BY <1>6, <2>2 DEF CommitRetireSubmission, SlotReverts, TypeOK, SlotsOK
  <2>6. \A v \in User : v # u => submissions'[v] = submissions[v]
    BY <2>2, <2>4 DEF Retired, TypeOK, WorkOK
  <2> QED BY <2>5, <2>6 DEF HasSubmittedMeansLive
<1> QED BY <1>1, <1>2, <1>3, <1>4, <1>5, <1>6 DEF Step

\* has_submitted never outlives the live latest version of its slot
\* (submissions.service.ts:246-249 and 508-511).
THEOREM FlagMeansLive == Spec => []HasSubmittedMeansLive
<1>1. Init => HasSubmittedMeansLive
  BY DEF Init, HasSubmittedMeansLive
<1>2. TypeOK /\ TypeOK' /\ HasSubmittedMeansLive /\ [Next]_vars => HasSubmittedMeansLive'
  <2>1. HasSubmittedMeansLive /\ UNCHANGED vars => HasSubmittedMeansLive'
    BY DEF HasSubmittedMeansLive, vars
  <2> QED BY <2>1, NextIsStep, FlagStep
<1> QED BY <1>1, <1>2, TypeCorrect, PTL DEF Spec
=============================================================================
