---------------------------- MODULE RoleSyncProofs ----------------------------
(***************************************************************************)
(* Type correctness of the synchronisation, what it promises to native     *)
(* memberships, and what one undisturbed job achieves, for any members,    *)
(* mappings and roles and any number of events.  Only the last of these    *)
(* asks that no two mappings share a role.                                 *)
(*                                                                         *)
(* NativeGrantsStand speaks of one step.  That step is the Revoke of a job *)
(* that derived its revocations earlier, so what has to be invariant is    *)
(* what became of those since: a membership a job is about to revoke was   *)
(* the integration's when the job read it, and if it is native by now, an  *)
(* administrator granted it after that reading.                            *)
(*                                                                         *)
(* UndisturbedJobSettles speaks of what a job leaves behind, so what has   *)
(* to be invariant is what it is about to do: for a member whom nobody     *)
(* touched, what the job read still stands (ReadingStands), and an edge    *)
(* that does not agree has exactly the operations that make it agree still *)
(* to come (OperationsStand).  A later job finds nothing to do for a       *)
(* member who is settled.                                                  *)
(***************************************************************************)
EXTENDS RoleSync, TLAPS

\* The phase tells what a job carries.
LEMMA PhaseCarries ==
  ASSUME job \in Job
  PROVE  /\ In("started")  => job \in Started
         /\ In("fetched")  => job \in Fetched
         /\ In("applying") => job \in Applying
         /\ In("saving")   => job \in Saving
         /\ In("idle")     => job = NoJob
BY DEF In, Job, NoJob, Started, Fetched, Applying, Saving

LEMMA RoleEdgeTyped == ASSUME NEW e \in Edge PROVE RoleEdge(e) \in Member \X Role
BY MappingAssumption DEF Edge, RoleEdge

LEMMA SyncTypeInit == Init => TypeOK
BY DEF Init, TypeOK, Job, Membership, Connection

-----------------------------------------------------------------------------
(* Type correctness of a job's steps *)

LEMMA StartTyped ==
  ASSUME TypeOK, NEW members \in SUBSET Member, NEW full \in BOOLEAN, Start(members, full)
  PROVE  TypeOK'
<1>1. [m \in Mapping \ broken |-> direction[m]] \in JobDirs
  <2>1. [m \in Mapping \ broken |-> direction[m]] \in [Mapping \ broken -> Directions]
    BY DEF TypeOK
  <2>2. QED BY <2>1 DEF JobDirs
<1>2. job' \in Started
  BY <1>1 DEF Start, Started
<1>3. connection' \in Connection
  BY DEF Start, TypeOK, Connection
<1>4. QED BY <1>2, <1>3 DEF Start, TypeOK, discord, Job

LEMMA FetchTyped ==
  ASSUME TypeOK, Fetch \/ FetchFails
  PROVE  TypeOK'
<1>1. job \in Started
  BY PhaseCarries DEF Fetch, FetchFails, TypeOK
<1>2. CASE Fetch
  <2>1. DOMAIN job.dirs \subseteq Mapping
    BY <1>1 DEF Started, JobDirs
  <2>2. job' \in Fetched
    BY <1>1, <1>2, <2>1 DEF Fetch, Started, Fetched, TypeOK
  <2>3. connection' \in Connection
    BY <1>1, <1>2 DEF Fetch, TypeOK, Connection
  <2>4. QED BY <1>2, <2>2, <2>3 DEF Fetch, TypeOK, discord, history, Job
<1>3. CASE FetchFails
  <2>1. connection' \in Connection
    BY <1>1, <1>3 DEF FetchFails, TypeOK, Connection
  <2>2. QED BY <1>3, <2>1 DEF FetchFails, Happens, TypeOK, discord, history, Job
<1>4. QED BY <1>2, <1>3

LEMMA ReconcileTyped == ASSUME TypeOK, Reconcile PROVE TypeOK'
<1>1. job \in Fetched
  BY PhaseCarries DEF Reconcile, TypeOK
<1>2. job.members \X (DOMAIN job.dirs \ job.gone) \subseteq Edge
  BY <1>1 DEF Fetched, JobDirs, Edge
<1>3. job' \in Applying
  BY <1>1, <1>2 DEF Reconcile, Fetched, Applying
<1>4. broken' \subseteq Mapping
  BY <1>1 DEF Reconcile, Fetched, TypeOK
<1>5. word' \in [Member \X Role -> {"none", "granted", "revoked"}]
  BY DEF Reconcile, TypeOK
<1>6. QED BY <1>3, <1>4, <1>5 DEF Reconcile, TypeOK, discord, Job

\* The steps of a job that applies its operations.
LEMMA ApplyTyped ==
  ASSUME TypeOK, NEW e \in Edge,
         Grant(e) \/ Revoke(e) \/ Throws(e) \/ Push(e) \/ PushRefused(e) \/ PushFails(e)
  PROVE  TypeOK'
<1>1. job \in Applying
  BY PhaseCarries DEF Grant, Revoke, Throws, Push, PushRefused, PushFails, Pushing, TypeOK
<1>2. CASE Grant(e)
  <2>1. job' \in Applying
    BY <1>1, <1>2 DEF Grant, Applying
  <2>2. held' \in [Member \X Role -> Membership]
    BY <1>2 DEF Grant, TypeOK, Membership
  <2>3. QED BY <1>2, <2>1, <2>2 DEF Grant, TypeOK, discord, history, Job
<1>3. CASE Revoke(e)
  <2>1. job' \in Applying
    BY <1>1, <1>3 DEF Revoke, Applying
  <2>2. held' \in [Member \X Role -> Membership]
    BY <1>3 DEF Revoke, TypeOK, Membership
  <2>3. QED BY <1>3, <2>1, <2>2 DEF Revoke, TypeOK, discord, history, Job
<1>4. CASE Throws(e)
  BY <1>4 DEF Throws, TypeOK, patrice, discord, history, Job
<1>5. CASE Push(e)
  <2>1. job' \in Applying
    BY <1>1, <1>5 DEF Push, Applying
  <2>2. external' \subseteq Edge
    BY <1>5 DEF Push, TypeOK
  <2>3. QED BY <1>5, <2>1, <2>2 DEF Push, TypeOK, patrice, history, Job
<1>6. CASE PushRefused(e)
  <2>1. e[2] \in Mapping
    BY DEF Edge
  <2>2. job' \in Applying
    BY <1>1, <1>6, <2>1 DEF PushRefused, Applying
  <2>3. events' \in Nat
    BY <1>6 DEF PushRefused, Happens, TypeOK
  <2>4. QED BY <1>6, <2>2, <2>3 DEF PushRefused, TypeOK, patrice, discord, history, Job
<1>7. CASE PushFails(e)
  <2>1. job' \in Applying
    BY <1>1, <1>7 DEF PushFails, Applying
  <2>2. QED BY <1>7, <2>1 DEF PushFails, Happens, TypeOK, patrice, discord, Job
<1>8. QED BY <1>2, <1>3, <1>4, <1>5, <1>6, <1>7

\* The end of the pushes, and what is saved after them.
LEMMA SaveTyped ==
  ASSUME TypeOK, TokenRejected \/ FlagRefused \/ (\E e \in Edge : SaveEdge(e)) \/ Finish
  PROVE  TypeOK'
<1>1. CASE TokenRejected
  <2>1. job \in Applying
    BY <1>1, PhaseCarries DEF TokenRejected, Pushing, TypeOK
  <2>2. job' \in Applying
    BY <1>1, <2>1 DEF TokenRejected, Applying
  <2>3. connection' \in Connection
    BY <1>1 DEF TokenRejected, TypeOK, Connection
  <2>4. QED BY <1>1, <2>2, <2>3 DEF TokenRejected, Happens, TypeOK, discord, Job
<1>2. CASE FlagRefused
  <2>1. job \in Applying
    BY <1>2, PhaseCarries DEF FlagRefused, Pushing, TypeOK
  <2>2. job' \in Saving
    BY <1>2, <2>1 DEF FlagRefused, Applying, Saving
  <2>3. broken' \subseteq Mapping
    BY <1>2, <2>1 DEF FlagRefused, Applying, TypeOK
  <2>4. QED BY <1>2, <2>2, <2>3 DEF FlagRefused, TypeOK, discord, history, Job
<1>3. ASSUME NEW e \in Edge, SaveEdge(e) PROVE TypeOK'
  <2>1. job \in Saving
    BY <1>3, PhaseCarries DEF SaveEdge, TypeOK
  <2>2. job' \in Saving
    BY <1>3, <2>1 DEF SaveEdge, Saving
  <2>3. baseline' \subseteq Edge
    BY <1>3 DEF SaveEdge, TypeOK
  <2>4. QED BY <1>3, <2>2, <2>3 DEF SaveEdge, TypeOK, discord, history, Job
<1>4. CASE Finish
  <2>1. job \in Saving
    BY <1>4, PhaseCarries DEF Finish, TypeOK
  <2>2. connection' \in Connection
    BY <1>4, <2>1 DEF Finish, FinalState, Saving, TypeOK, Connection
  <2>3. baseline' \subseteq Edge /\ settled' \subseteq Member
    BY <1>4 DEF Finish, TypeOK
  <2>4. QED BY <1>4, <2>2, <2>3 DEF Finish, TypeOK, discord, Job
<1>5. QED BY <1>1, <1>2, <1>3, <1>4

\* What people do, and a crash.
LEMMA PeopleTyped == ASSUME TypeOK, PeopleStep PROVE TypeOK'
<1>1. ASSUME NEW u \in Member, NEW r \in Role, AdminGrants(u, r) \/ AdminRevokes(u, r)
      PROVE  TypeOK'
  <2>1. held' \in [Member \X Role -> Membership]
    BY <1>1 DEF AdminGrants, AdminRevokes, TypeOK, Membership
  <2>2. word' \in [Member \X Role -> {"none", "granted", "revoked"}]
    BY <1>1 DEF AdminGrants, AdminRevokes, TypeOK
  <2>3. Moves({u}) /\ UNCHANGED <<discord, direction, broken, baseline>>
    BY <1>1 DEF AdminGrants, AdminRevokes
  <2>4. QED BY <2>1, <2>2, <2>3 DEF Moves, Happens, TypeOK, discord, Job
<1>2. ASSUME NEW e \in Edge, DiscordChanges(e) PROVE TypeOK'
  <2>1. external' \subseteq Edge
    BY <1>2 DEF DiscordChanges, TypeOK
  <2>2. word' \in [Member \X Role -> {"none", "granted", "revoked"}]
    BY <1>2 DEF DiscordChanges, TypeOK
  <2>3. QED BY <1>2, <2>1, <2>2 DEF DiscordChanges, Moves, Happens, TypeOK, Job
<1>3. ASSUME NEW m \in Mapping, GroupDeleted(m) PROVE TypeOK'
  <2>1. external' \subseteq Edge /\ groups' \subseteq Mapping
    BY <1>3 DEF GroupDeleted, TypeOK
  <2>2. QED BY <1>3, <2>1 DEF GroupDeleted, Moves, Happens, TypeOK, Job
<1>4. ASSUME NEW m \in Mapping, RetryMapping(m) PROVE TypeOK'
  <2>1. broken' \subseteq Mapping
    BY <1>4 DEF RetryMapping, TypeOK
  <2>2. QED BY <1>4, <2>1 DEF RetryMapping, Moves, Happens, TypeOK, discord, Job
<1>5. ASSUME NEW m \in Mapping, NEW d \in Directions, UpdateMapping(m, d) PROVE TypeOK'
  <2>1. direction' \in [Mapping -> Directions]
    BY <1>5 DEF UpdateMapping, TypeOK
  <2>2. QED BY <1>5, <2>1 DEF UpdateMapping, Moves, Happens, TypeOK, discord, Job
<1>6. QED BY <1>1, <1>2, <1>3, <1>4, <1>5 DEF PeopleStep

LEMMA SyncTypeStep == TypeOK /\ [Next]_vars => TypeOK'
<1> SUFFICES ASSUME TypeOK, [Next]_vars PROVE TypeOK'
  OBVIOUS
<1>1. CASE StartSweep \/ \E u \in Member : StartUser(u)
  BY <1>1, StartTyped DEF StartSweep, StartUser
<1>2. CASE JobStep
  BY <1>2, FetchTyped, ReconcileTyped, ApplyTyped, SaveTyped DEF JobStep
<1>3. CASE Crash
  BY <1>3 DEF Crash, Happens, TypeOK, patrice, discord, history, Job
<1>4. CASE PeopleStep
  BY <1>4, PeopleTyped
<1>5. CASE UNCHANGED vars
  BY <1>5 DEF TypeOK, vars
<1>6. QED BY <1>1, <1>2, <1>3, <1>4, <1>5 DEF Next

\* Every column keeps a value of its enumeration and every job what its phase
\* needs, in whatever order jobs, failures and changes come.
THEOREM SyncTypeCorrect == Spec => []TypeOK
<1>1. QED BY SyncTypeInit, SyncTypeStep, PTL DEF Spec

-----------------------------------------------------------------------------
(* Native memberships *)

\* A membership a job is about to revoke was the integration's when the job
\* read it: if it is native now, an administrator granted it since.
RevokesInv ==
  In("applying") => \A e \in job.revokes : held[RoleEdge(e)] = "patrice" => word[RoleEdge(e)] = "granted"

\* A step that leaves the memberships alone and neither adds revocations nor
\* takes a grant's word back keeps RevokesInv.
LEMMA RevokesFrame ==
  ASSUME RevokesInv, UNCHANGED <<held, word>>,
         In("applying")' => In("applying") /\ job'.revokes \subseteq job.revokes
  PROVE  RevokesInv'
BY DEF RevokesInv, RoleEdge

LEMMA RevokesReconcile == ASSUME TypeOK, Reconcile PROVE RevokesInv'
<1> SUFFICES ASSUME NEW e \in job'.revokes PROVE held'[RoleEdge(e)] # "patrice"
  BY DEF RevokesInv, RoleEdge
<1>1. RevokeWanted(job.dirs[e[2]], e \in job.seen, held[RoleEdge(e)], e \in baseline)
  BY DEF Reconcile
<1>2. held[RoleEdge(e)] = "integration"
  BY <1>1 DEF RevokeWanted
<1>3. QED BY <1>2 DEF Reconcile

LEMMA RevokesApply ==
  ASSUME TypeOK, RevokesInv, NEW e \in Edge,
         Grant(e) \/ Revoke(e) \/ Throws(e) \/ Push(e) \/ PushRefused(e) \/ PushFails(e)
  PROVE  RevokesInv'
<1>1. job \in Applying /\ In("applying")
  BY PhaseCarries DEF Grant, Revoke, Throws, Push, PushRefused, PushFails, Pushing, TypeOK
<1>2. CASE Grant(e) \/ Revoke(e)
  <2>1. job'.revokes \subseteq job.revokes /\ UNCHANGED word
    BY <1>1, <1>2 DEF Grant, Revoke, Applying, history
  <2>2. RoleEdge(e) \in Member \X Role
    BY RoleEdgeTyped
  <2>3. \A p \in Member \X Role : held'[p] = "patrice" => held[p] = "patrice"
    BY <1>2, <2>2 DEF Grant, Revoke, TypeOK
  <2>4. \A f \in job.revokes : RoleEdge(f) \in Member \X Role
    BY <1>1, RoleEdgeTyped DEF Applying
  <2>5. QED BY <1>1, <2>1, <2>3, <2>4 DEF RevokesInv, RoleEdge
<1>3. CASE Throws(e)
  BY <1>3, RevokesFrame DEF Throws, NoJob, In, patrice, history
<1>4. CASE Push(e) \/ PushRefused(e) \/ PushFails(e)
  <2>1. job'.revokes = job.revokes
    BY <1>1, <1>4 DEF Push, PushRefused, PushFails, Applying
  <2>2. UNCHANGED <<held, word>>
    BY <1>4 DEF Push, PushRefused, PushFails, patrice, history
  <2>3. QED BY <1>1, <2>1, <2>2, RevokesFrame
<1>5. QED BY <1>2, <1>3, <1>4

LEMMA RevokesPeople == ASSUME TypeOK, RevokesInv, PeopleStep PROVE RevokesInv'
<1>1. UNCHANGED job
  BY DEF PeopleStep, AdminGrants, AdminRevokes, DiscordChanges, GroupDeleted, RetryMapping,
         UpdateMapping, Moves
<1> SUFFICES ASSUME In("applying"), NEW e \in job.revokes, held'[RoleEdge(e)] = "patrice"
             PROVE  word'[RoleEdge(e)] = "granted"
  BY <1>1 DEF RevokesInv, In, RoleEdge
<1> DEFINE p == RoleEdge(e)
<1>2. p \in Member \X Role
  BY PhaseCarries, RoleEdgeTyped DEF TypeOK, Applying
<1>3. held[p] = "patrice" => word[p] = "granted"
  BY DEF RevokesInv
<1>4. ASSUME NEW u \in Member, NEW r \in Role, AdminGrants(u, r) PROVE word'[p] = "granted"
  BY <1>2, <1>3, <1>4 DEF AdminGrants, TypeOK
<1>5. ASSUME NEW u \in Member, NEW r \in Role, AdminRevokes(u, r) PROVE word'[p] = "granted"
  BY <1>2, <1>3, <1>5 DEF AdminRevokes, TypeOK
<1>6. ASSUME NEW f \in Edge, DiscordChanges(f) PROVE word'[p] = "granted"
  BY <1>2, <1>3, <1>6 DEF DiscordChanges, TypeOK
<1>7. ASSUME UNCHANGED <<held, word>> PROVE word'[p] = "granted"
  BY <1>3, <1>7
<1>8. QED
  BY <1>4, <1>5, <1>6, <1>7 DEF PeopleStep, GroupDeleted, RetryMapping, UpdateMapping

LEMMA RevokesStep == TypeOK /\ RevokesInv /\ [Next]_vars => RevokesInv'
<1> SUFFICES ASSUME TypeOK, RevokesInv, [Next]_vars PROVE RevokesInv'
  OBVIOUS
<1>1. CASE StartSweep \/ \E u \in Member : StartUser(u)
  BY <1>1, RevokesFrame DEF StartSweep, StartUser, Start, In
<1>2. CASE Fetch \/ FetchFails
  BY <1>2, RevokesFrame DEF Fetch, FetchFails, NoJob, In, history
<1>3. CASE Reconcile
  BY <1>3, RevokesReconcile
<1>4. ASSUME NEW e \in Edge,
             Grant(e) \/ Revoke(e) \/ Throws(e) \/ Push(e) \/ PushRefused(e) \/ PushFails(e)
      PROVE  RevokesInv'
  BY <1>4, RevokesApply
<1>5. CASE TokenRejected
  <2>1. job \in Applying /\ In("applying")
    BY <1>5, PhaseCarries DEF TokenRejected, Pushing, TypeOK
  <2>2. job'.revokes = job.revokes
    BY <1>5, <2>1 DEF TokenRejected, Applying
  <2>3. QED BY <1>5, <2>1, <2>2, RevokesFrame DEF TokenRejected
<1>6. CASE FlagRefused
  BY <1>6, RevokesFrame DEF FlagRefused, In, history
<1>7. ASSUME NEW e \in Edge, SaveEdge(e) PROVE RevokesInv'
  <2>1. job \in Saving
    BY <1>7, PhaseCarries DEF SaveEdge, TypeOK
  <2>2. ~In("applying")'
    BY <1>7, <2>1 DEF SaveEdge, Saving, In
  <2>3. QED BY <2>2 DEF RevokesInv
<1>8. CASE Finish \/ Crash
  BY <1>8 DEF Finish, Crash, NoJob, In, RevokesInv
<1>9. CASE PeopleStep
  BY <1>9, RevokesPeople
<1>10. CASE UNCHANGED vars
  BY <1>10, RevokesFrame DEF vars, In
<1>11. QED BY <1>1, <1>2, <1>3, <1>4, <1>5, <1>6, <1>7, <1>8, <1>9, <1>10 DEF Next, JobStep

\* A step that takes a native membership away and is nobody's change is the
\* revocation of a running job.
LEMMA NativeStep ==
  TypeOK /\ RevokesInv /\ [Next]_vars =>
    [\A p \in Member \X Role :
       held[p] = "patrice" /\ held'[p] = "none" /\ events' = events => word[p] = "granted"]_vars
<1> SUFFICES ASSUME TypeOK, RevokesInv, Next, NEW p \in Member \X Role,
                    held[p] = "patrice", held'[p] = "none", events' = events
             PROVE  word[p] = "granted"
  OBVIOUS
<1>1. events' # events + 1
  BY DEF TypeOK
<1>2. ~PeopleStep /\ ~Crash
  BY <1>1 DEF PeopleStep, AdminGrants, AdminRevokes, DiscordChanges, GroupDeleted, RetryMapping,
              UpdateMapping, Moves, Happens, Crash
<1>3. ASSUME NEW e \in Edge, Revoke(e) PROVE word[p] = "granted"
  <2>1. RoleEdge(e) \in Member \X Role
    BY RoleEdgeTyped
  <2>2. p = RoleEdge(e)
    BY <1>3, <2>1 DEF Revoke, TypeOK
  <2>3. QED BY <1>3, <2>2 DEF Revoke, RevokesInv
<1>4. ASSUME NEW e \in Edge, Grant(e) PROVE FALSE
  <2>1. RoleEdge(e) \in Member \X Role
    BY RoleEdgeTyped
  <2>2. QED BY <1>4, <2>1 DEF Grant, TypeOK
<1>5. held' # held
  OBVIOUS
<1>6. QED
  BY <1>2, <1>3, <1>4, <1>5
     DEF Next, StartSweep, StartUser, Start, JobStep, Fetch, FetchFails, Reconcile, Throws, Push,
         PushRefused, PushFails, TokenRejected, FlagRefused, SaveEdge, Finish, patrice

\* Sync takes a native membership away only when it is younger than what the
\* running job read, for any members, roles and mappings (reconciler.ts:182).
THEOREM NativeKept == Spec => NativeGrantsStand
<1>1. Init => RevokesInv
  BY DEF Init, NoJob, In, RevokesInv
<1>2. QED
  BY <1>1, SyncTypeInit, SyncTypeStep, RevokesStep, NativeStep, PTL DEF Spec, NativeGrantsStand

-----------------------------------------------------------------------------
(* A job that nobody disturbed *)

\* No two mappings share a role.  Two mappings onto one role may call for
\* opposite changes of the one membership, and then nothing settles.
RolesApart == \A m, n \in Mapping : RoleOf[m] = RoleOf[n] => m = n

Quiet == clean \cup settled

Operations == job.grants \cup job.revokes \cup job.adds \cup job.removes

\* What the job read of the mappings, and of the members nobody touched since,
\* is still so.
ReadingStands ==
  /\ In("started") \/ In("fetched") =>
       /\ clean \subseteq job.members
       /\ Quiet # {} => /\ DOMAIN job.dirs = Mapping \ broken
                       /\ \A m \in Mapping \ broken : job.dirs[m] = direction[m]
  /\ In("fetched") =>
       \A u \in Quiet, m \in Mapping : <<u, m>> \in job.seen <=> <<u, m>> \in external

\* An edge agrees, or an operation that makes it agree is still to come.
Due(e) ==
  /\ e \in job.grants => e \in external /\ held[RoleEdge(e)] = "none" /\ e \notin job.removes
  /\ e \in job.revokes => e \notin external /\ held[RoleEdge(e)] = "integration" /\ e \notin job.adds
  /\ e \in job.adds => e \notin external /\ held[RoleEdge(e)] # "none"
  /\ e \in job.removes => e \in external /\ held[RoleEdge(e)] = "none"
  /\ e \notin Operations => Agreed(e)

OperationsStand ==
  /\ In("applying") =>
       /\ \A u \in settled, m \in Mapping : <<u, m>> \notin Operations
       /\ \A u \in clean : \A m \in Mapping \ (broken \cup job.refused) : Due(<<u, m>>)
  /\ In("saving") => \A u \in clean : \A m \in Mapping \ broken : Agreed(<<u, m>>)

SettledInv == TypeOK /\ ReadingStands /\ OperationsStand /\ UndisturbedJobSettles

\* The parts of SettledInv other than TypeOK.
SettledParts == ReadingStands /\ OperationsStand /\ UndisturbedJobSettles

\* The reconciler wants something of an edge exactly when its sides do not
\* agree, and never two opposite things.
LEMMA WantedIsDue ==
  ASSUME TypeOK, NEW e \in Edge
  PROVE  LET d == direction[e[2]]
             outside == e \in external
             source == held[RoleEdge(e)]
             base == e \in baseline
         IN  /\ GrantWanted(d, outside, source, base) =>
                  outside /\ source = "none" /\ ~RemoveWanted(d, outside, source, base)
             /\ RevokeWanted(d, outside, source, base) =>
                  ~outside /\ source = "integration" /\ ~AddWanted(d, outside, source, base)
             /\ AddWanted(d, outside, source, base) => ~outside /\ source # "none"
             /\ RemoveWanted(d, outside, source, base) => outside /\ source = "none"
             /\ Agreed(e) <=>
                  /\ ~GrantWanted(d, outside, source, base)
                  /\ ~RevokeWanted(d, outside, source, base)
                  /\ ~AddWanted(d, outside, source, base)
                  /\ ~RemoveWanted(d, outside, source, base)
<1>1. held[RoleEdge(e)] \in Membership
  BY RoleEdgeTyped DEF TypeOK
<1>2. direction[e[2]] \in {"inbound", "outbound", "bidirectional"}
  BY DirectionAssumption DEF TypeOK, Edge
<1>3. CASE direction[e[2]] = "inbound"
  BY <1>1, <1>3 DEF GrantWanted, RevokeWanted, AddWanted, RemoveWanted, Agreed, Membership
<1>4. CASE direction[e[2]] = "outbound"
  BY <1>1, <1>4 DEF GrantWanted, RevokeWanted, AddWanted, RemoveWanted, Agreed, Membership
<1>5. CASE direction[e[2]] = "bidirectional"
  BY <1>1, <1>5 DEF GrantWanted, RevokeWanted, AddWanted, RemoveWanted, Agreed, Membership
<1>6. QED BY <1>2, <1>3, <1>4, <1>5

LEMMA EdgesApart ==
  ASSUME RolesApart, NEW e \in Edge, NEW f \in Edge, RoleEdge(e) = RoleEdge(f)
  PROVE  e = f
BY DEF RolesApart, Edge, RoleEdge

\* Without a job nothing is due.
LEMMA SettledWithoutJob ==
  ASSUME UndisturbedJobSettles', job' = NoJob
  PROVE  SettledParts'
BY DEF SettledParts, ReadingStands, OperationsStand, In, NoJob

\* A settled edge agrees as long as its sides and its mapping stay.
LEMMA SettledFrame ==
  ASSUME UndisturbedJobSettles, settled' \subseteq settled, broken \subseteq broken',
         UNCHANGED direction,
         \A u \in settled' : \A m \in Mapping \ broken :
           /\ held'[RoleEdge(<<u, m>>)] = held[RoleEdge(<<u, m>>)]
           /\ <<u, m>> \in external' <=> <<u, m>> \in external
  PROVE  UndisturbedJobSettles'
<1> SUFFICES ASSUME NEW u \in settled', NEW m \in Mapping \ broken' PROVE Agreed(<<u, m>>)'
  BY DEF UndisturbedJobSettles
<1>1. Agreed(<<u, m>>)
  BY DEF UndisturbedJobSettles
<1>2. QED BY <1>1 DEF Agreed, RoleEdge

\* Members that a step does not touch keep what they are due.
LEMMA QuietFrame ==
  ASSUME SettledParts, UNCHANGED <<job, direction, broken>>,
         clean' \subseteq clean, settled' \subseteq settled,
         \A u \in Quiet' : \A m \in Mapping :
           /\ held'[RoleEdge(<<u, m>>)] = held[RoleEdge(<<u, m>>)]
           /\ <<u, m>> \in external' <=> <<u, m>> \in external
  PROVE  SettledParts'
<1>1. UndisturbedJobSettles'
  BY SettledFrame DEF SettledParts, Quiet
<1>2. Quiet' \subseteq Quiet
  BY DEF Quiet
<1>3. ReadingStands'
  BY <1>2 DEF SettledParts, ReadingStands, In
<1>4. ASSUME NEW u \in clean', NEW m \in Mapping, Due(<<u, m>>) PROVE Due(<<u, m>>)'
  <2>1. u \in Quiet'
    BY DEF Quiet
  <2>2. QED BY <1>4, <2>1 DEF Due, Operations, Agreed, RoleEdge
<1>5. ASSUME NEW u \in clean', NEW m \in Mapping, Agreed(<<u, m>>) PROVE Agreed(<<u, m>>)'
  <2>1. u \in Quiet'
    BY DEF Quiet
  <2>2. QED BY <1>5, <2>1 DEF Agreed, RoleEdge
<1>6. OperationsStand'
  BY <1>4, <1>5 DEF SettledParts, OperationsStand, In, Operations
<1>7. QED BY <1>1, <1>3, <1>6 DEF SettledParts

LEMMA SettledStart ==
  ASSUME SettledParts, NEW members \in SUBSET Member, NEW full \in BOOLEAN, Start(members, full)
  PROVE  SettledParts'
<1>1. UndisturbedJobSettles'
  BY SettledFrame DEF SettledParts, Start, discord
<1>2. ReadingStands'
  BY DEF ReadingStands, Start, In
<1>3. OperationsStand'
  BY DEF OperationsStand, Start, In
<1>4. QED BY <1>1, <1>2, <1>3 DEF SettledParts

LEMMA SettledFetch == ASSUME TypeOK, SettledParts, Fetch PROVE SettledParts'
<1>1. UndisturbedJobSettles'
  BY SettledFrame DEF SettledParts, Fetch, discord, history
<1>2. ReadingStands'
  BY DEF SettledParts, ReadingStands, Quiet, Fetch, In, discord, history
<1>3. OperationsStand'
  BY DEF OperationsStand, Fetch, In
<1>4. QED BY <1>1, <1>2, <1>3 DEF SettledParts

\* A job that ends early leaves the settled members alone.
LEMMA SettledEndsEarly ==
  ASSUME SettledParts, FetchFails \/ Crash \/ (\E e \in Edge : Throws(e))
  PROVE  SettledParts'
<1>1. UndisturbedJobSettles'
  BY SettledFrame DEF SettledParts, FetchFails, Crash, Throws, patrice, discord, history
<1>2. QED BY <1>1, SettledWithoutJob DEF FetchFails, Crash, Throws


\* What the operations call for is what the two sides are, for a member whom
\* nobody touched while the job was reading.
LEMMA ReconcileWants ==
  ASSUME TypeOK, SettledParts, Reconcile, NEW u \in Quiet, NEW m \in Mapping
  PROVE  LET e == <<u, m>>
             edges == job.members \X (DOMAIN job.dirs \ job.gone)
             base == e \in baseline
             source == held[RoleEdge(e)]
         IN  /\ e \in edges => m \notin broken
             /\ e \in job'.grants <=>
                  e \in edges /\ GrantWanted(direction[m], e \in external, source, base)
             /\ e \in job'.revokes <=>
                  e \in edges /\ RevokeWanted(direction[m], e \in external, source, base)
             /\ e \in job'.adds <=>
                  e \in edges /\ AddWanted(direction[m], e \in external, source, base)
             /\ e \in job'.removes <=>
                  e \in edges /\ RemoveWanted(direction[m], e \in external, source, base)
<1> DEFINE e == <<u, m>>
           edges == job.members \X (DOMAIN job.dirs \ job.gone)
<1>1. In("fetched")
  BY DEF Reconcile
<1>2. e \in edges => m \in Mapping \ broken
  BY <1>1 DEF SettledParts, ReadingStands
<1>3. m \notin broken => job.dirs[m] = direction[m]
  BY <1>1 DEF SettledParts, ReadingStands
<1>4. (e \in job.seen) = (e \in external)
  BY <1>1 DEF SettledParts, ReadingStands
<1>5. e[2] = m
  OBVIOUS
<1>6. /\ e \in job'.grants <=>
           e \in edges /\ GrantWanted(job.dirs[e[2]], e \in job.seen, held[RoleEdge(e)], e \in baseline)
      /\ e \in job'.revokes <=>
           e \in edges /\ RevokeWanted(job.dirs[e[2]], e \in job.seen, held[RoleEdge(e)], e \in baseline)
      /\ e \in job'.adds <=>
           e \in edges /\ AddWanted(job.dirs[e[2]], e \in job.seen, held[RoleEdge(e)], e \in baseline)
      /\ e \in job'.removes <=>
           e \in edges /\ RemoveWanted(job.dirs[e[2]], e \in job.seen, held[RoleEdge(e)], e \in baseline)
  BY DEF Reconcile
<1> HIDE DEF e, edges
<1>7. /\ e \in edges => m \notin broken
      /\ e \in job'.grants <=>
           e \in edges /\ GrantWanted(direction[m], e \in external, held[RoleEdge(e)], e \in baseline)
      /\ e \in job'.revokes <=>
           e \in edges /\ RevokeWanted(direction[m], e \in external, held[RoleEdge(e)], e \in baseline)
      /\ e \in job'.adds <=>
           e \in edges /\ AddWanted(direction[m], e \in external, held[RoleEdge(e)], e \in baseline)
      /\ e \in job'.removes <=>
           e \in edges /\ RemoveWanted(direction[m], e \in external, held[RoleEdge(e)], e \in baseline)
  BY <1>2, <1>3, <1>4, <1>5, <1>6, Zenon
<1>8. QED BY <1>7 DEF e, edges

LEMMA SettledReconcile == ASSUME TypeOK, SettledParts, Reconcile PROVE SettledParts'
<1>1. UndisturbedJobSettles'
  BY SettledFrame DEF SettledParts, Reconcile, discord
<1>2. ReadingStands'
  BY DEF ReadingStands, Reconcile, In
<1>3. In("fetched") /\ ~In("saving")' /\ UNCHANGED <<clean, settled, held, external, direction>>
  BY DEF Reconcile, In, discord
<1>4. ASSUME NEW u \in Quiet, NEW m \in Mapping PROVE <<u, m>> \in Edge /\ <<u, m>>[2] = m
  BY DEF Quiet, TypeOK, Edge
<1>5. ASSUME NEW u \in settled, NEW m \in Mapping PROVE <<u, m>> \notin Operations'
  <2> DEFINE e == <<u, m>>
  <2>1. u \in Quiet
    BY DEF Quiet
  <2>2. m \notin broken => Agreed(e)
    BY DEF SettledParts, UndisturbedJobSettles
  <2>3. e \in Edge /\ e[2] = m
    BY <1>4, <2>1
  <2>4. Agreed(e) =>
          /\ ~GrantWanted(direction[m], e \in external, held[RoleEdge(e)], e \in baseline)
          /\ ~RevokeWanted(direction[m], e \in external, held[RoleEdge(e)], e \in baseline)
          /\ ~AddWanted(direction[m], e \in external, held[RoleEdge(e)], e \in baseline)
          /\ ~RemoveWanted(direction[m], e \in external, held[RoleEdge(e)], e \in baseline)
    <3> HIDE DEF e
    <3>1. QED BY <2>3, WantedIsDue
  <2>5. e \notin job'.grants /\ e \notin job'.revokes /\ e \notin job'.adds /\ e \notin job'.removes
    BY <2>1, <2>2, <2>4, ReconcileWants
  <2>6. QED BY <2>5 DEF Operations
<1>6. ASSUME NEW u \in clean, NEW m \in Mapping \ (broken' \cup job'.refused)
      PROVE  Due(<<u, m>>)'
  <2> DEFINE e == <<u, m>>
             edges == job.members \X (DOMAIN job.dirs \ job.gone)
  <2>1. u \in Quiet
    BY DEF Quiet
  <2>2. e \in edges
    <3>1. m \notin broken /\ m \notin job.gone
      BY DEF Reconcile
    <3>2. QED BY <1>3, <2>1, <3>1 DEF SettledParts, ReadingStands
  <2>3. /\ e \in job'.grants <=> GrantWanted(direction[m], e \in external, held[RoleEdge(e)], e \in baseline)
        /\ e \in job'.revokes <=> RevokeWanted(direction[m], e \in external, held[RoleEdge(e)], e \in baseline)
        /\ e \in job'.adds <=> AddWanted(direction[m], e \in external, held[RoleEdge(e)], e \in baseline)
        /\ e \in job'.removes <=> RemoveWanted(direction[m], e \in external, held[RoleEdge(e)], e \in baseline)
    BY <2>1, <2>2, ReconcileWants
  <2>4. e \in Edge /\ e[2] = m
    BY <1>4, <2>1
  <2>5. Agreed(e)' <=> Agreed(e)
    BY <1>3 DEF Agreed, RoleEdge
  <2>6. RoleEdge(e)' = RoleEdge(e)
    BY DEF RoleEdge
  <2> HIDE DEF e, edges
  <2>7. /\ e \in job'.grants => e \in external /\ held[RoleEdge(e)] = "none" /\ e \notin job'.removes
        /\ e \in job'.revokes => e \notin external /\ held[RoleEdge(e)] = "integration" /\ e \notin job'.adds
        /\ e \in job'.adds => e \notin external /\ held[RoleEdge(e)] # "none"
        /\ e \in job'.removes => e \in external /\ held[RoleEdge(e)] = "none"
        /\ e \notin job'.grants /\ e \notin job'.revokes /\ e \notin job'.adds /\ e \notin job'.removes
             => Agreed(e)
    BY <2>3, <2>4, WantedIsDue
  <2>8. Due(e)'
    BY <1>3, <2>5, <2>6, <2>7 DEF Due, Operations
  <2>9. QED BY <2>8 DEF e
<1>7. OperationsStand'
  BY <1>3, <1>5, <1>6 DEF OperationsStand
<1>8. QED BY <1>1, <1>2, <1>7 DEF SettledParts

\* What is due stays due on the edges that a step of the pushing or granting
\* job does not concern.
LEMMA DueFrame ==
  ASSUME NEW f \in Edge, Due(f), UNCHANGED direction,
         held'[RoleEdge(f)] = held[RoleEdge(f)],
         f \in external' <=> f \in external,
         f \in job'.grants <=> f \in job.grants, f \in job'.revokes <=> f \in job.revokes,
         f \in job'.adds <=> f \in job.adds, f \in job'.removes <=> f \in job.removes
  PROVE  Due(f)'
BY DEF Due, Operations, Agreed, RoleEdge

\* A step of an applying job, on an edge e of its operations or on none: what
\* the other edges are due stays, and e is done or no longer counts.
LEMMA SettledApply ==
  ASSUME TypeOK, SettledParts, In("applying"), In("applying")', NEW e \in Edge,
         e \in Operations, UNCHANGED <<settled, broken, direction>>,
         clean' \subseteq clean, job.refused \subseteq job'.refused,
         \A f \in Edge \ {e} :
           /\ held'[RoleEdge(f)] = held[RoleEdge(f)]
           /\ f \in external' <=> f \in external
           /\ f \in job'.grants <=> f \in job.grants
           /\ f \in job'.revokes <=> f \in job.revokes
           /\ f \in job'.adds <=> f \in job.adds
           /\ f \in job'.removes <=> f \in job.removes,
         e[1] \in clean' /\ e[2] \notin broken \cup job'.refused /\ Due(e) => Due(e)',
         Operations' \subseteq Operations
  PROVE  SettledParts'
<1>1. ASSUME NEW u \in settled, NEW m \in Mapping PROVE <<u, m>> \in Edge \ {e}
  BY DEF SettledParts, OperationsStand, TypeOK, Edge
<1>2. UndisturbedJobSettles'
  BY <1>1, SettledFrame DEF SettledParts
<1>3. ReadingStands'
  BY DEF ReadingStands, In
<1>4. ASSUME NEW f \in Edge, f[1] \in clean', f[2] \notin broken' \cup job'.refused
      PROVE  Due(f)'
  <2>1. f[1] \in clean /\ f[2] \in Mapping \ (broken \cup job.refused) /\ f = <<f[1], f[2]>>
    BY <1>4 DEF Edge
  <2>2. Due(<<f[1], f[2]>>)
    BY <2>1 DEF SettledParts, OperationsStand
  <2>3. Due(f)
    BY <2>1, <2>2
  <2>4. CASE f = e
    BY <1>4, <2>3, <2>4
  <2>5. CASE f # e
    BY <2>3, <2>5, DueFrame
  <2>6. QED BY <2>4, <2>5
<1>5. ASSUME NEW u \in clean', NEW m \in Mapping \ (broken' \cup job'.refused)
      PROVE  Due(<<u, m>>)'
  <2>1. <<u, m>> \in Edge /\ <<u, m>>[1] = u /\ <<u, m>>[2] = m
    BY DEF TypeOK, Edge
  <2>2. QED BY <1>4, <2>1
<1>6. OperationsStand'
  BY <1>5 DEF SettledParts, OperationsStand, In
<1>7. QED BY <1>2, <1>3, <1>6 DEF SettledParts

LEMMA SettledGrant ==
  ASSUME RolesApart, TypeOK, SettledParts, NEW e \in Edge, Grant(e)
  PROVE  SettledParts'
<1>1. job \in Applying /\ In("applying")
  BY PhaseCarries DEF Grant, TypeOK
<1>2. /\ job'.phase = job.phase /\ job'.refused = job.refused
      /\ job'.grants = job.grants \ {e} /\ job'.revokes = job.revokes
      /\ job'.adds = job.adds /\ job'.removes = job.removes
  BY <1>1 DEF Grant, Applying
<1>3. \A f \in Edge \ {e} : held'[RoleEdge(f)] = held[RoleEdge(f)]
  BY RoleEdgeTyped, EdgesApart DEF Grant, TypeOK
<1>4. held'[RoleEdge(e)] = "integration"
  BY RoleEdgeTyped DEF Grant, TypeOK
<1>5. Due(e) => Due(e)'
  <2>1. external' = external /\ direction' = direction /\ e \in job.grants
    BY DEF Grant, discord
  <2>2. RoleEdge(e)' = RoleEdge(e)
    BY DEF RoleEdge
  <2>3. QED BY <1>2, <1>4, <2>1, <2>2 DEF Due, Operations, Agreed
<1>6. Operations' \subseteq Operations /\ e \in Operations
  BY <1>2 DEF Operations, Grant
<1>7. QED
  BY <1>1, <1>2, <1>3, <1>5, <1>6, SettledApply DEF Grant, discord, history, In

LEMMA SettledRevoke ==
  ASSUME RolesApart, TypeOK, SettledParts, NEW e \in Edge, Revoke(e)
  PROVE  SettledParts'
<1>1. job \in Applying /\ In("applying")
  BY PhaseCarries DEF Revoke, TypeOK
<1>2. /\ job'.phase = job.phase /\ job'.refused = job.refused
      /\ job'.grants = job.grants /\ job'.revokes = job.revokes \ {e}
      /\ job'.adds = job.adds /\ job'.removes = job.removes
  BY <1>1 DEF Revoke, Applying
<1>3. \A f \in Edge \ {e} : held'[RoleEdge(f)] = held[RoleEdge(f)]
  BY RoleEdgeTyped, EdgesApart DEF Revoke, TypeOK
<1>4. held'[RoleEdge(e)] = "none"
  BY RoleEdgeTyped DEF Revoke, TypeOK
<1>5. Due(e) => Due(e)'
  <2>1. external' = external /\ direction' = direction /\ e \in job.revokes
    BY DEF Revoke, discord
  <2>2. RoleEdge(e)' = RoleEdge(e)
    BY DEF RoleEdge
  <2>3. QED BY <1>2, <1>4, <2>1, <2>2 DEF Due, Operations, Agreed
<1>6. Operations' \subseteq Operations /\ e \in Operations
  BY <1>2 DEF Operations, Revoke
<1>7. QED
  BY <1>1, <1>2, <1>3, <1>5, <1>6, SettledApply DEF Revoke, discord, history, In

LEMMA SettledPush ==
  ASSUME TypeOK, SettledParts, NEW e \in Edge, Push(e) \/ PushRefused(e) \/ PushFails(e)
  PROVE  SettledParts'
<1>1. job \in Applying /\ In("applying")
  BY PhaseCarries DEF Push, PushRefused, PushFails, Pushing, TypeOK
<1>2. /\ job'.phase = job.phase
      /\ job'.grants = job.grants /\ job'.revokes = job.revokes
      /\ job'.adds = job.adds \ {e} /\ job'.removes = job.removes \ {e}
  BY <1>1 DEF Push, PushRefused, PushFails, Applying
<1>3. Operations' \subseteq Operations /\ e \in Operations
  BY <1>2 DEF Operations, Push, PushRefused, PushFails, Undone
<1>4. UNCHANGED <<held, settled, broken, direction>> /\ clean' \subseteq clean
  BY DEF Push, PushRefused, PushFails, patrice, history
<1>5. job.refused \subseteq job'.refused
  <2>1. CASE Push(e)
    BY <1>1, <2>1 DEF Push, Applying
  <2>2. CASE PushRefused(e)
    BY <1>1, <2>2 DEF PushRefused, Applying
  <2>3. CASE PushFails(e)
    BY <1>1, <2>3 DEF PushFails, Applying
  <2>4. QED BY <2>1, <2>2, <2>3
<1>6. \A f \in Edge \ {e} : f \in external' <=> f \in external
  BY DEF Push, PushRefused, PushFails, discord
<1>7. e[1] \in clean' /\ e[2] \notin broken \cup job'.refused /\ Due(e) => Due(e)'
  <2>1. CASE Push(e)
    <3>1. job.grants = {} /\ job.revokes = {} /\ e \in job.adds \cup job.removes
      BY <2>1 DEF Push, Pushing, Undone
    <3>2. RoleEdge(e)' = RoleEdge(e)
      BY DEF RoleEdge
    <3>3. e \in external' <=> e \in job.adds
      BY <2>1 DEF Push
    <3>4. Due(e) => (e \in job.adds <=> held[RoleEdge(e)] # "none")
      BY <3>1 DEF Due
    <3>5. QED BY <1>2, <1>4, <3>1, <3>2, <3>3, <3>4 DEF Due, Operations, Agreed
  <2>2. CASE PushRefused(e)
    BY <1>1, <2>2 DEF PushRefused, Applying
  <2>3. CASE PushFails(e)
    BY <2>3 DEF PushFails
  <2>4. QED BY <2>1, <2>2, <2>3
<1>8. QED BY <1>1, <1>2, <1>3, <1>4, <1>5, <1>6, <1>7, SettledApply DEF In

\* A rejected token drops the pushes that are left, and the members they were
\* for are no longer the job's to settle.
LEMMA SettledTokenRejected == ASSUME TypeOK, SettledParts, TokenRejected PROVE SettledParts'
<1>1. job \in Applying /\ In("applying")
  BY PhaseCarries DEF TokenRejected, Pushing, TypeOK
<1>2. /\ job'.phase = job.phase /\ job'.refused = job.refused
      /\ job'.grants = job.grants /\ job'.revokes = job.revokes
      /\ job'.adds = {} /\ job'.removes = {}
  BY <1>1 DEF TokenRejected, Applying
<1>3. job.grants = {} /\ job.revokes = {}
  BY DEF TokenRejected, Pushing
<1>4. UNCHANGED <<held, external, settled, broken, direction>>
  BY DEF TokenRejected, discord
<1>5. UndisturbedJobSettles'
  BY <1>4, SettledFrame DEF SettledParts
<1>6. ReadingStands' /\ ~In("saving")'
  BY <1>1, <1>2 DEF ReadingStands, In
<1>7. Operations' = {}
  BY <1>2, <1>3 DEF Operations
<1>8. ASSUME NEW u \in clean', NEW m \in Mapping \ (broken' \cup job'.refused)
      PROVE  Due(<<u, m>>)'
  <2> DEFINE f == <<u, m>>
  <2>1. u \in clean /\ f \notin Undone
    BY DEF TokenRejected
  <2>2. Due(f) /\ f \notin Operations
    BY <1>1, <1>2, <1>3, <1>4, <2>1 DEF SettledParts, OperationsStand, Operations, Undone
  <2>3. Agreed(f)
    BY <2>2 DEF Due
  <2>4. Agreed(f)'
    BY <1>4, <2>3 DEF Agreed, RoleEdge
  <2>5. QED BY <1>2, <1>3, <1>7, <2>4 DEF Due
<1>9. OperationsStand'
  BY <1>6, <1>7, <1>8 DEF OperationsStand
<1>10. QED BY <1>5, <1>6, <1>9 DEF SettledParts

\* With every operation done, what was due agrees.
LEMMA SettledSaves ==
  ASSUME TypeOK, SettledParts, FlagRefused \/ (\E e \in Edge : SaveEdge(e)) \/ Finish
  PROVE  SettledParts'
<1>1. CASE FlagRefused
  <2>1. Operations = {} /\ In("applying")
    BY <1>1 DEF FlagRefused, Pushing, Undone, Operations
  <2>2. \A u \in clean : \A m \in Mapping \ (broken \cup job.refused) : Agreed(<<u, m>>)
    BY <2>1 DEF SettledParts, OperationsStand, Due
  <2>3. UNCHANGED <<held, external, direction, clean, settled>> /\ broken' = broken \cup job.refused
    BY <1>1 DEF FlagRefused, discord, history
  <2>4. ASSUME NEW u \in clean, NEW m \in Mapping \ broken' PROVE Agreed(<<u, m>>)'
    <3>1. Agreed(<<u, m>>)
      BY <2>2, <2>3
    <3>2. QED BY <2>3, <3>1 DEF Agreed, RoleEdge
  <2>5. OperationsStand'
    BY <1>1, <2>3, <2>4 DEF FlagRefused, OperationsStand, In
  <2>6. ReadingStands'
    BY <1>1 DEF FlagRefused, ReadingStands, In
  <2>7. UndisturbedJobSettles'
    BY <2>3, SettledFrame DEF SettledParts
  <2>8. QED BY <2>5, <2>6, <2>7 DEF SettledParts
<1>2. ASSUME NEW e \in Edge, SaveEdge(e) PROVE SettledParts'
  <2>1. job \in Saving /\ In("saving")
    BY <1>2, PhaseCarries DEF SaveEdge, TypeOK
  <2>2. job'.phase = "saving"
    BY <1>2, <2>1 DEF SaveEdge, Saving
  <2>3. UNCHANGED <<held, external, direction, broken, clean, settled>>
    BY <1>2 DEF SaveEdge, discord, history
  <2>4. ASSUME NEW u \in clean, NEW m \in Mapping \ broken PROVE Agreed(<<u, m>>)'
    <3>1. Agreed(<<u, m>>)
      BY <2>1 DEF SettledParts, OperationsStand
    <3>2. QED BY <2>3, <3>1 DEF Agreed, RoleEdge
  <2>5. OperationsStand' /\ ReadingStands'
    BY <2>2, <2>3, <2>4 DEF OperationsStand, ReadingStands, In
  <2>6. UndisturbedJobSettles'
    BY <2>3, SettledFrame DEF SettledParts
  <2>7. QED BY <2>5, <2>6 DEF SettledParts
<1>3. CASE Finish
  <2>1. \A u \in clean \cup settled : \A m \in Mapping \ broken : Agreed(<<u, m>>)
    BY <1>3 DEF Finish, SettledParts, OperationsStand, UndisturbedJobSettles
  <2>2. UNCHANGED <<held, external, direction, broken>> /\ settled' = clean \cup settled
    BY <1>3 DEF Finish, discord
  <2>3. UndisturbedJobSettles'
    <3> SUFFICES ASSUME NEW u \in settled', NEW m \in Mapping \ broken' PROVE Agreed(<<u, m>>)'
      BY DEF UndisturbedJobSettles
    <3>1. Agreed(<<u, m>>)
      BY <2>1, <2>2
    <3>2. QED BY <2>2, <3>1 DEF Agreed, RoleEdge
  <2>4. QED BY <1>3, <2>3, SettledWithoutJob DEF Finish
<1>4. QED BY <1>1, <1>2, <1>3

\* A change by hand concerns only the members it touches.
LEMMA SettledPeople == ASSUME TypeOK, SettledParts, PeopleStep PROVE SettledParts'
<1>1. ASSUME NEW u \in Member, NEW r \in Role, AdminGrants(u, r) \/ AdminRevokes(u, r)
      PROVE  SettledParts'
  <2>1. UNCHANGED <<job, direction, broken, external>> /\ clean' = clean \ {u} /\ settled' = settled \ {u}
    BY <1>1 DEF AdminGrants, AdminRevokes, Moves, discord
  <2>2. \A p \in Member \X Role : p # <<u, r>> => held'[p] = held[p]
    BY <1>1 DEF AdminGrants, AdminRevokes, TypeOK
  <2>3. ASSUME NEW v \in Quiet', NEW m \in Mapping
        PROVE  held'[RoleEdge(<<v, m>>)] = held[RoleEdge(<<v, m>>)]
    <3>1. v \in Member /\ v # u
      BY <2>1 DEF Quiet, TypeOK
    <3>2. RoleEdge(<<v, m>>) \in Member \X Role /\ RoleEdge(<<v, m>>) # <<u, r>>
      BY <3>1, MappingAssumption DEF RoleEdge
    <3>3. QED BY <2>2, <3>2
  <2>4. QED BY <2>1, <2>3, QuietFrame
<1>2. ASSUME NEW e \in Edge, DiscordChanges(e) PROVE SettledParts'
  <2>1. UNCHANGED <<job, direction, broken, held>> /\ clean' = clean \ {e[1]} /\ settled' = settled \ {e[1]}
    BY <1>2 DEF DiscordChanges, Moves
  <2>2. ASSUME NEW v \in Quiet', NEW m \in Mapping
        PROVE  <<v, m>> \in external' <=> <<v, m>> \in external
    <3>1. <<v, m>> # e
      BY <2>1 DEF Quiet
    <3>2. QED BY <1>2, <3>1 DEF DiscordChanges
  <2>3. QED BY <2>1, <2>2, QuietFrame
<1>3. ASSUME Moves(Member) PROVE SettledParts'
  <2>1. clean' = {} /\ settled' = {} /\ job' = job
    BY <1>3 DEF Moves, TypeOK
  <2>2. Quiet' = {}
    BY <2>1 DEF Quiet
  <2>3. ReadingStands'
    BY <2>1, <2>2 DEF ReadingStands
  <2>4. OperationsStand' /\ UndisturbedJobSettles'
    BY <2>1 DEF OperationsStand, UndisturbedJobSettles
  <2>5. QED BY <2>3, <2>4 DEF SettledParts
<1>4. QED BY <1>1, <1>2, <1>3 DEF PeopleStep, GroupDeleted, RetryMapping, UpdateMapping

LEMMA SettledStep == RolesApart /\ SettledInv /\ [Next]_vars => SettledInv'
<1> SUFFICES ASSUME RolesApart, TypeOK, SettledParts, [Next]_vars PROVE SettledInv'
  BY DEF SettledInv, SettledParts
<1>1. TypeOK'
  BY SyncTypeStep
<1>2. SettledParts'
  <2>1. CASE StartSweep \/ \E u \in Member : StartUser(u)
    BY <2>1, SettledStart DEF StartSweep, StartUser
  <2>2. CASE JobStep
    BY <2>2, SettledFetch, SettledEndsEarly, SettledReconcile, SettledGrant, SettledRevoke,
       SettledPush, SettledTokenRejected, SettledSaves DEF JobStep
  <2>3. CASE Crash
    BY <2>3, SettledEndsEarly
  <2>4. CASE PeopleStep
    BY <2>4, SettledPeople
  <2>5. CASE UNCHANGED vars
    BY <2>5, QuietFrame DEF vars
  <2>6. QED BY <2>1, <2>2, <2>3, <2>4, <2>5 DEF Next
<1>3. QED BY <1>1, <1>2 DEF SettledInv, SettledParts

LEMMA SettledInit == Init => SettledInv
<1> SUFFICES ASSUME Init PROVE SettledInv
  OBVIOUS
<1>1. ReadingStands /\ OperationsStand
  BY DEF Init, ReadingStands, OperationsStand, In, NoJob
<1>2. UndisturbedJobSettles
  BY DEF Init, UndisturbedJobSettles
<1>3. QED BY <1>1, <1>2, SyncTypeInit DEF SettledInv

\* Where no two mappings share a role, one job that nobody disturbed settles
\* every member it covers, whatever jobs, failures and crashes went before or
\* come after (reconciler.ts, discord.adapter.ts).
THEOREM UndisturbedSettles == ASSUME RolesApart PROVE Spec => []UndisturbedJobSettles
<1>1. SettledInv /\ [Next]_vars => SettledInv'
  BY SettledStep
<1>2. SettledInv => UndisturbedJobSettles
  BY DEF SettledInv
<1>3. QED BY <1>1, <1>2, SettledInit, PTL DEF Spec
=============================================================================
