----------------------------- MODULE AccessProofs -----------------------------
(***************************************************************************)
(* Who may do what, proved for any users, roles, grants, requests and      *)
(* processes: the administrability guard (AdminFloor), the cached policy   *)
(* set (PolicyCache) and the guard of a route (Authorization), the three   *)
(* parts of api/src/access.  They have their own state each and are proved *)
(* side by side.                                                           *)
(***************************************************************************)
EXTENDS AdminFloor, PolicyCache, Authorization, FiniteSetTheorems, TLAPS

-----------------------------------------------------------------------------
(* The administrability guard *)

(***************************************************************************)
(* FloorHeld is not inductive: Commit publishes an effect that was counted *)
(* in an earlier step.  Two facts bridge the gap.  At most one request is  *)
(* between its count and its commit (the organization row), and what it    *)
(* counted still holds: AuthorityAfter of its operation stays non-empty    *)
(* under every step the others can take meanwhile, unless an unguarded     *)
(* path took authority away.                                               *)
(***************************************************************************)
OneCounting == \A r, s \in Request : In(r, "counted") /\ In(s, "counted") => r = s

CountStands == ~eroded => \A r \in Request : In(r, "counted") => AuthorityAfter(req[r].of) # {}

SomeAuthority == ~eroded => Authority # {}

FloorInv == FloorTypeOK /\ OneCounting /\ CountStands /\ SomeAuthority

\* Every operation writes values of its columns' types.
LEMMA AfterTyped ==
  ASSUME FloorTypeOK, NEW o \in GuardedOp
  PROVE  /\ UserStateAfter(o) \in [User -> {"active", "deactivated", "retired"}]
         /\ RoleStateAfter(o) \in [Role -> {"active", "retired"}]
         /\ GrantStateAfter(o) \in [Grant -> {"absent", "active", "retired"}]
         /\ GovernsAfter(o) \in [Grant -> BOOLEAN]
         /\ MembershipAfter(o) \subseteq User \X Role
<1>1. UserStateAfter(o) \in [User -> {"active", "deactivated", "retired"}]
  BY DEF FloorTypeOK, UserStateAfter
<1>2. RoleStateAfter(o) \in [Role -> {"active", "retired"}]
  BY DEF FloorTypeOK, RoleStateAfter
<1>3. GrantStateAfter(o) \in [Grant -> {"absent", "active", "retired"}]
  BY DEF FloorTypeOK, GrantStateAfter
<1>4. GovernsAfter(o) \in [Grant -> BOOLEAN]
  BY DEF FloorTypeOK, GovernsAfter, GuardedOp
<1>5. MembershipAfter(o) \subseteq User \X Role
  BY DEF FloorTypeOK, MembershipAfter
<1>6. QED BY <1>1, <1>2, <1>3, <1>4, <1>5

\* A request that is not idle carries an operation.
LEMMA CarriesOperation ==
  ASSUME FloorTypeOK, NEW r \in Request, req[r] # NoOperation
  PROVE  req[r].phase \in Phase /\ req[r].of \in GuardedOp
BY DEF FloorTypeOK

\* The tables of the guard have their types to begin with.
LEMMA FloorTypeInit == FloorInit => FloorTypeOK
BY DEF FloorInit, FloorTypeOK, NoOperation

LEMMA FloorTypeStep == FloorTypeOK /\ [FloorNext]_floorVars => FloorTypeOK'
<1> SUFFICES ASSUME FloorTypeOK, [FloorNext]_floorVars PROVE FloorTypeOK'
  OBVIOUS
<1>1. CASE UNCHANGED floorVars
  BY <1>1 DEF FloorTypeOK, floorVars
<1>2. ASSUME NEW r \in Request, GuardedStep(r) PROVE FloorTypeOK'
  <2>1. ASSUME NEW o \in GuardedOp, Load(r, o) PROVE FloorTypeOK'
    BY <2>1 DEF FloorTypeOK, Load, config, Phase
  <2>2. CASE Write(r)
    <3>1. req[r] # NoOperation BY <2>2 DEF Write, In, NoOperation
    <3>2. req[r].phase \in Phase /\ req[r] \in [phase : Phase, of : GuardedOp]
      BY <3>1 DEF FloorTypeOK
    <3>3. [req[r] EXCEPT !.phase = "written"] \in [phase : Phase, of : GuardedOp]
      BY <3>2 DEF Phase
    <3>4. QED BY <2>2, <3>3 DEF FloorTypeOK, Write, config
  <2>3. CASE Count(r)
    <3>1. req[r] # NoOperation BY <2>3 DEF Count, In, NoOperation
    <3>2. req[r] \in [phase : Phase, of : GuardedOp]
      BY <3>1 DEF FloorTypeOK
    <3>3. [req[r] EXCEPT !.phase = "counted"] \in [phase : Phase, of : GuardedOp]
      BY <3>2 DEF Phase
    <3>4. QED BY <2>3, <3>3 DEF FloorTypeOK, Count, config
  <2>4. CASE Commit(r)
    <3>1. req[r] # NoOperation BY <2>4 DEF Commit, In, NoOperation
    <3>2. req[r].of \in GuardedOp BY <3>1, CarriesOperation
    <3>3. QED BY <2>4, <3>2, AfterTyped DEF FloorTypeOK, Commit
  <2>5. CASE RollBack(r)
    BY <2>5 DEF FloorTypeOK, RollBack, config
  <2>6. QED BY <1>2, <2>1, <2>2, <2>3, <2>4, <2>5 DEF GuardedStep
<1>3. CASE AddingStep
  <2>1. ASSUME NEW u \in User, ReturnUser(u) PROVE FloorTypeOK'
    BY <2>1 DEF FloorTypeOK, ReturnUser
  <2>2. ASSUME NEW u \in User, NEW role \in Role, GrantRole(u, role) PROVE FloorTypeOK'
    BY <2>2 DEF FloorTypeOK, GrantRole
  <2>3. ASSUME NEW role \in Role, RoleRevives(role) PROVE FloorTypeOK'
    BY <2>3 DEF FloorTypeOK, RoleRevives
  <2>4. ASSUME NEW g \in Grant, GrantRevives(g) PROVE FloorTypeOK'
    BY <2>4 DEF FloorTypeOK, GrantRevives
  <2>5. ASSUME NEW g \in Grant, NEW b \in BOOLEAN, CreateGrant(g, b) PROVE FloorTypeOK'
    BY <2>5 DEF FloorTypeOK, CreateGrant
  <2>6. QED BY <1>3, <2>1, <2>2, <2>3, <2>4, <2>5 DEF AddingStep
<1>4. CASE UnguardedStep
  <2>1. ASSUME NEW role \in Role, RetireGroup(role) PROVE FloorTypeOK'
    BY <2>1 DEF FloorTypeOK, RetireGroup, Erodes
  <2>2. ASSUME NEW u \in User, NEW role \in Role, IntegrationGrants(u, role) PROVE FloorTypeOK'
    BY <2>2 DEF FloorTypeOK, IntegrationGrants
  <2>3. ASSUME NEW u \in User, NEW role \in Role, IntegrationRemoves(u, role) PROVE FloorTypeOK'
    BY <2>3 DEF FloorTypeOK, IntegrationRemoves, Erodes
  <2>4. QED BY <1>4, <2>1, <2>2, <2>3 DEF UnguardedStep
<1>5. QED BY <1>1, <1>2, <1>3, <1>4 DEF FloorNext

\* Type correctness of the configuration tables and of the requests
\* (administrability.service.ts, users, roles and grants services).
THEOREM FloorTypeCorrect == FloorSpec => []FloorTypeOK
BY FloorTypeInit, FloorTypeStep, PTL DEF FloorSpec

-----------------------------------------------------------------------------
(* Authority under the writes of the others *)

\* A row that confers authority keeps conferring it in larger tables.
LEMMA AuthorityGrows ==
  ASSUME NEW u1, NEW u2, NEW r1, NEW r2, NEW g1, NEW g2, NEW b1, NEW b2, NEW m1, NEW m2,
         m1 \subseteq User \X Role, m1 \subseteq m2,
         \A u \in User : u1[u] = "active" => u2[u] = "active",
         \A r \in Role : r1[r] = "active" => r2[r] = "active",
         \A g \in Grant : g1[g] = "active" /\ b1[g] => g2[g] = "active" /\ b2[g]
  PROVE  AuthorityIn(u1, r1, g1, b1, m1) \subseteq AuthorityIn(u2, r2, g2, b2, m2)
<1> SUFFICES ASSUME NEW m \in AuthorityIn(u1, r1, g1, b1, m1)
             PROVE  m \in AuthorityIn(u2, r2, g2, b2, m2)
  OBVIOUS
<1>1. m \in m1 /\ u1[m[1]] = "active" /\ r1[m[2]] = "active" BY DEF AuthorityIn
<1>2. m[1] \in User /\ m[2] \in Role BY <1>1
<1>3. PICK g \in Grant : RoleOf[g] = m[2] /\ g1[g] = "active" /\ b1[g] BY DEF AuthorityIn
<1>4. QED BY <1>1, <1>2, <1>3 DEF AuthorityIn

LEMMA FloorInvInit == FloorInit => FloorInv
<1> SUFFICES ASSUME FloorInit PROVE FloorInv
  OBVIOUS
<1>1. FloorTypeOK BY FloorTypeInit
<1>2. \A r \in Request : ~In(r, "counted") BY DEF FloorInit, In, NoOperation
<1>3. Authority # {} BY DEF FloorInit, EffectiveAdmins
<1>4. QED BY <1>1, <1>2, <1>3 DEF FloorInv, OneCounting, CountStands, SomeAuthority

\* A step that only enlarges authority while nobody is counting.
LEMMA GrowingStep ==
  ASSUME FloorInv, FloorTypeOK', UNCHANGED <<req, eroded>>, OrganizationFree,
         Authority \subseteq Authority'
  PROVE  FloorInv'
<1>1. \A r \in Request : ~In(r, "counted")' BY DEF OrganizationFree, In
<1>2. QED BY <1>1 DEF FloorInv, OneCounting, CountStands, SomeAuthority

\* A step of a guarded request before its commit changes nobody's authority.
LEMMA ConfigSame ==
  ASSUME FloorInv, FloorTypeOK', UNCHANGED <<config, eroded>>, NEW r \in Request,
         \A s \in Request : s # r => req'[s] = req[s],
         In(r, "counted")' => OrganizationFree /\ AuthorityAfter(req'[r].of) # {}
  PROVE  FloorInv'
<1>1. Authority' = Authority BY DEF Authority, config
<1>2. ASSUME NEW s \in Request, In(s, "counted")'
      PROVE  AuthorityAfter(req[s].of)' = AuthorityAfter(req'[s].of)
  BY DEF AuthorityAfter, UserStateAfter, RoleStateAfter, GrantStateAfter, GovernsAfter,
         MembershipAfter, config
<1>3. OneCounting' BY DEF FloorInv, OneCounting, OrganizationFree, In
<1>4. CountStands'
  BY <1>2 DEF FloorInv, CountStands, OrganizationFree, In
<1>5. QED BY <1>1, <1>3, <1>4 DEF FloorInv, SomeAuthority

LEMMA GuardedKeeps ==
  ASSUME FloorInv, NEW r \in Request, GuardedStep(r), FloorTypeOK'
  PROVE  FloorInv'
<1>0. req \in [Request -> {NoOperation} \cup [phase : Phase, of : GuardedOp]]
  BY DEF FloorInv, FloorTypeOK
<1>1. ASSUME NEW o \in GuardedOp, Load(r, o) PROVE FloorInv'
  <2>1. ~In(r, "counted")' BY <1>0, <1>1 DEF Load, In
  <2>2. \A s \in Request : s # r => req'[s] = req[s] BY <1>0, <1>1 DEF Load
  <2>3. QED BY <1>1, <2>1, <2>2, ConfigSame DEF Load
<1>2. CASE Write(r)
  <2>1. ~In(r, "counted")' BY <1>0, <1>2 DEF Write, In
  <2>2. \A s \in Request : s # r => req'[s] = req[s] BY <1>0, <1>2 DEF Write
  <2>3. QED BY <1>2, <2>1, <2>2, ConfigSame DEF Write
<1>3. CASE Count(r)
  <2>1. req'[r].of = req[r].of BY <1>0, <1>3 DEF Count, In, NoOperation
  <2>2. AuthorityAfter(req'[r].of) # {} BY <1>3, <2>1 DEF Count
  <2>3. \A s \in Request : s # r => req'[s] = req[s] BY <1>0, <1>3 DEF Count
  <2>4. QED BY <1>3, <2>2, <2>3, ConfigSame DEF Count
<1>4. CASE Commit(r)
  <2>1. \A s \in Request : ~In(s, "counted")'
    BY <1>0, <1>4 DEF Commit, FloorInv, OneCounting, In, NoOperation
  <2>2. Authority' = AuthorityAfter(req[r].of)
    BY <1>4 DEF Commit, Authority, AuthorityAfter
  <2>3. ~eroded => AuthorityAfter(req[r].of) # {}
    BY <1>4 DEF Commit, FloorInv, CountStands
  <2>4. eroded' = eroded BY <1>4 DEF Commit
  <2>5. QED BY <2>1, <2>2, <2>3, <2>4 DEF FloorInv, OneCounting, CountStands, SomeAuthority
<1>5. CASE RollBack(r)
  <2>1. ~In(r, "counted")' BY <1>0, <1>5 DEF RollBack, In, NoOperation
  <2>2. \A s \in Request : s # r => req'[s] = req[s] BY <1>0, <1>5 DEF RollBack
  <2>3. QED BY <1>5, <2>1, <2>2, ConfigSame DEF RollBack
<1>6. QED BY <1>1, <1>2, <1>3, <1>4, <1>5 DEF GuardedStep

LEMMA AddingKeeps ==
  ASSUME FloorInv, AddingStep, FloorTypeOK'
  PROVE  FloorInv'
<1>0. FloorTypeOK BY DEF FloorInv
<1>1. ASSUME NEW u \in User, ReturnUser(u) PROVE FloorInv'
  <2>1. Authority \subseteq Authority'
    BY <1>0, <1>1, AuthorityGrows DEF ReturnUser, FloorTypeOK, Authority
  <2>2. QED BY <1>1, <2>1, GrowingStep DEF ReturnUser
<1>2. ASSUME NEW u \in User, NEW role \in Role, GrantRole(u, role) PROVE FloorInv'
  <2>1. Authority \subseteq Authority'
    BY <1>0, <1>2, AuthorityGrows DEF GrantRole, FloorTypeOK, Authority
  <2>2. QED BY <1>2, <2>1, GrowingStep DEF GrantRole
<1>3. ASSUME NEW role \in Role, RoleRevives(role) PROVE FloorInv'
  <2>1. Authority \subseteq Authority'
    BY <1>0, <1>3, AuthorityGrows DEF RoleRevives, FloorTypeOK, Authority
  <2>2. QED BY <1>3, <2>1, GrowingStep DEF RoleRevives
<1>4. ASSUME NEW g \in Grant, GrantRevives(g) PROVE FloorInv'
  <2>1. Authority \subseteq Authority'
    BY <1>0, <1>4, AuthorityGrows DEF GrantRevives, FloorTypeOK, Authority
  <2>2. QED BY <1>4, <2>1, GrowingStep DEF GrantRevives
<1>5. ASSUME NEW g \in Grant, NEW b \in BOOLEAN, CreateGrant(g, b) PROVE FloorInv'
  <2>1. \A h \in Grant : grantState[h] = "active" /\ governs[h]
                           => grantState'[h] = "active" /\ governs'[h]
    BY <1>0, <1>5 DEF CreateGrant, FloorTypeOK
  <2>2. Authority \subseteq Authority'
    BY <1>0, <1>5, <2>1, AuthorityGrows DEF CreateGrant, FloorTypeOK, Authority
  <2>3. QED BY <1>5, <2>2, GrowingStep DEF CreateGrant
<1>6. QED BY <1>1, <1>2, <1>3, <1>4, <1>5 DEF AddingStep

-----------------------------------------------------------------------------
(* Integrations take no organization row, so they meet counted requests *)

\* A grant edit that makes a grant govern takes authority from nobody; every
\* other guarded operation gives it to nobody.
LEMMA AddsOrRemoves ==
  ASSUME FloorTypeOK, NEW o \in GuardedOp
  PROVE  Authority \subseteq AuthorityAfter(o) \/ AuthorityAfter(o) \subseteq Authority
<1>1. CASE o.op = "updateGrant" /\ o.governs
  <2>1. /\ UserStateAfter(o) = userState /\ RoleStateAfter(o) = roleState
        /\ GrantStateAfter(o) = grantState /\ MembershipAfter(o) = membership
    BY <1>1 DEF UserStateAfter, RoleStateAfter, GrantStateAfter, MembershipAfter
  <2>2. \A g \in Grant : governs[g] => GovernsAfter(o)[g]
    BY <1>1 DEF GovernsAfter, FloorTypeOK
  <2>3. QED BY <2>1, <2>2, AuthorityGrows DEF FloorTypeOK, Authority, AuthorityAfter
<1>2. CASE ~(o.op = "updateGrant" /\ o.governs)
  <2>1. MembershipAfter(o) \subseteq membership BY DEF MembershipAfter
  <2>2. \A u \in User : UserStateAfter(o)[u] = "active" => userState[u] = "active"
    BY DEF UserStateAfter, FloorTypeOK
  <2>3. \A r \in Role : RoleStateAfter(o)[r] = "active" => roleState[r] = "active"
    BY DEF RoleStateAfter, FloorTypeOK
  <2>4. \A g \in Grant : /\ GrantStateAfter(o)[g] = "active" => grantState[g] = "active"
                         /\ GovernsAfter(o)[g] => governs[g]
    BY <1>2 DEF GrantStateAfter, GovernsAfter, FloorTypeOK, GuardedOp
  <2>5. MembershipAfter(o) \subseteq User \X Role BY AfterTyped
  <2>6. QED BY <2>1, <2>2, <2>3, <2>4, <2>5, AuthorityGrows DEF Authority, AuthorityAfter
<1>3. QED BY <1>1, <1>2

LEMMA UnguardedKeeps ==
  ASSUME FloorInv, UnguardedStep, FloorTypeOK'
  PROVE  FloorInv'
<1>0. FloorTypeOK BY DEF FloorInv
<1>1. ASSUME NEW role \in Role, RetireGroup(role) PROVE FloorInv'
  <2>1. \A r \in Request : ~In(r, "counted")'
    BY <1>1 DEF RetireGroup, OrganizationFree, In
  <2>2. ~eroded' => ~eroded /\ Authority \subseteq Authority' BY <1>1 DEF RetireGroup, Erodes
  <2>3. QED BY <2>1, <2>2 DEF FloorInv, OneCounting, CountStands, SomeAuthority
<1>2. ASSUME NEW u \in User, NEW role \in Role,
             IntegrationGrants(u, role) \/ IntegrationRemoves(u, role)
      PROVE FloorInv'
  <2>1. req' = req /\ UNCHANGED <<userState, roleState, grantState, governs>>
    BY <1>2 DEF IntegrationGrants, IntegrationRemoves
  <2>2. OneCounting' BY <2>1 DEF FloorInv, OneCounting, In
  <2>3. ~eroded' => ~eroded /\ Authority \subseteq Authority'
    <3>1. CASE IntegrationGrants(u, role)
      BY <1>0, <2>1, <3>1, AuthorityGrows DEF IntegrationGrants, FloorTypeOK, Authority
    <3>2. CASE IntegrationRemoves(u, role) BY <3>2 DEF IntegrationRemoves, Erodes
    <3>3. QED BY <1>2, <3>1, <3>2
  <2>4. SomeAuthority' BY <2>3 DEF FloorInv, SomeAuthority
  <2>5. ASSUME ~eroded', NEW r \in Request, In(r, "counted")'
        PROVE  AuthorityAfter(req[r].of)' # {}
    <3>1. In(r, "counted") BY <2>1, <2>5 DEF In
    <3>2. req[r] # NoOperation BY <3>1 DEF In, NoOperation
    <3>3. PICK o \in GuardedOp : o = req[r].of BY <1>0, <3>2, CarriesOperation
    <3>4. AuthorityAfter(o) # {} BY <2>3, <2>5, <3>1, <3>3 DEF FloorInv, CountStands
    <3>5. Authority # {} BY <2>3, <2>5 DEF FloorInv, SomeAuthority
    <3>6. PICK m : m \in AuthorityAfter(o) /\ m \in Authority
      BY <1>0, <3>4, <3>5, AddsOrRemoves
    <3>7. m \in membership' BY <2>3, <2>5, <3>6 DEF Authority, AuthorityIn
    <3>8. m \in MembershipAfter(o) BY <3>6 DEF AuthorityAfter, AuthorityIn
    <3>9. m \in MembershipAfter(o)' BY <3>7, <3>8 DEF MembershipAfter
    <3>10. /\ UserStateAfter(o)' = UserStateAfter(o) /\ RoleStateAfter(o)' = RoleStateAfter(o)
           /\ GrantStateAfter(o)' = GrantStateAfter(o) /\ GovernsAfter(o)' = GovernsAfter(o)
      BY <2>1 DEF UserStateAfter, RoleStateAfter, GrantStateAfter, GovernsAfter
    <3>11. m \in AuthorityAfter(o)'
      BY <3>6, <3>9, <3>10 DEF AuthorityAfter, AuthorityIn
    <3>12. AuthorityAfter(req[r].of)' = AuthorityAfter(o)'
      BY <2>1, <3>3 DEF AuthorityAfter, UserStateAfter, RoleStateAfter, GrantStateAfter,
         GovernsAfter, MembershipAfter
    <3>13. QED BY <3>11, <3>12
  <2>6. CountStands' BY <2>1, <2>5 DEF CountStands
  <2>7. QED BY <2>2, <2>4, <2>6 DEF FloorInv
<1>3. QED BY <1>1, <1>2 DEF UnguardedStep

\* However many guarded operations run at once, the organization keeps an
\* effective admin as long as no unguarded path takes authority away
\* (administrability.service.ts:91-141).
THEOREM FloorSafe == FloorSpec => []FloorHeld
<1>1. FloorInv /\ [FloorNext]_floorVars => FloorInv'
  <2> SUFFICES ASSUME FloorInv, [FloorNext]_floorVars PROVE FloorInv'
    OBVIOUS
  <2>1. FloorTypeOK' BY FloorTypeStep DEF FloorInv
  <2>2. CASE UNCHANGED floorVars
    BY <2>1, <2>2 DEF FloorInv, OneCounting, CountStands, SomeAuthority, floorVars, In, Authority,
       AuthorityAfter, UserStateAfter, RoleStateAfter, GrantStateAfter, GovernsAfter,
       MembershipAfter
  <2>3. CASE \E r \in Request : GuardedStep(r) BY <2>1, <2>3, GuardedKeeps
  <2>4. CASE AddingStep BY <2>1, <2>4, AddingKeeps
  <2>5. CASE UnguardedStep BY <2>1, <2>5, UnguardedKeeps
  <2>6. QED BY <2>2, <2>3, <2>4, <2>5 DEF FloorNext
<1>2. FloorInv => FloorHeld
  BY DEF FloorInv, SomeAuthority, FloorHeld, EffectiveAdmins
<1>3. QED BY <1>1, <1>2, FloorInvInit, PTL DEF FloorSpec

-----------------------------------------------------------------------------
(* The cached policy set *)

(***************************************************************************)
(* The invariant compares everything that carries a version with the       *)
(* database and with everything else that carries the same version: what   *)
(* was in force at a version is the same for all who read that version,    *)
(* and what was projected after reading it is at least as new.             *)
(***************************************************************************)
Pending(d) == decision[d].phase \in {"keyed", "settingsRead", "projected"}

\* No version of the database is in the future.
VersionsInv ==
  configVersion >= 1 /\ settingsAt <= configVersion /\ grantsAt <= configVersion

\* A pending request knows what was in force at its version.
KeysInv ==
  \A d \in Decision : Pending(d) =>
    /\ decision[d].key >= 1
    /\ decision[d].key <= configVersion
    /\ decision[d].due.settings <= settingsAt
    /\ decision[d].due.grants <= grantsAt
    /\ decision[d].key = configVersion =>
         decision[d].due = [settings |-> settingsAt, grants |-> grantsAt]

\* Two requests that read the same version read it of the same configuration.
TwinsInv ==
  \A d, e \in Decision :
    Pending(d) /\ Pending(e) /\ decision[d].key = decision[e].key =>
      decision[d].due = decision[e].due

\* What a request has projected so far is not older than what is due, and is
\* the present configuration while its version is the present one.
ProjectedInv ==
  \A d \in Decision :
    /\ decision[d].phase \in {"settingsRead", "projected"} =>
         /\ decision[d].settings >= decision[d].due.settings
         /\ decision[d].key = configVersion => decision[d].settings = settingsAt
    /\ Read(d, "projected") =>
         /\ decision[d].grants >= decision[d].due.grants
         /\ decision[d].key = configVersion => decision[d].grants = grantsAt

\* A cached set serves whoever reads its version.
SharedInv ==
  \A p \in Process :
    /\ cache[p].version <= configVersion
    /\ \A d \in Decision : Pending(d) /\ decision[d].key = cache[p].version =>
         /\ cache[p].settings >= decision[d].due.settings
         /\ cache[p].grants >= decision[d].due.grants

CacheInv == CacheTypeOK /\ VersionsInv /\ KeysInv /\ TwinsInv /\ ProjectedInv /\ SharedInv
            /\ CacheCurrent /\ NoStalePolicy

USE DEF Read

\* What a request has read, by its phase.
LEMMA PhaseTyped ==
  ASSUME CacheTypeOK, NEW d \in Decision
  PROVE  /\ Pending(d) => decision[d].key \in Nat /\ decision[d].due \in Content
         /\ decision[d].phase \in {"settingsRead", "projected"} => decision[d].settings \in Nat
         /\ Read(d, "projected") => decision[d].grants \in Nat
         /\ Read(d, "decided") => /\ decision[d].due \in Content
                                  /\ decision[d].settings \in Nat
                                  /\ decision[d].grants \in Nat
<1>1. \/ decision[d] = NoDecision
      \/ decision[d] \in [phase : {"keyed"}, key : Nat, due : Content]
      \/ decision[d] \in [phase : {"settingsRead"}, key : Nat, due : Content, settings : Nat]
      \/ decision[d] \in [phase : {"projected"}, key : Nat, due : Content, settings : Nat,
                          grants : Nat]
      \/ decision[d] \in [phase : {"decided"}, due : Content, settings : Nat, grants : Nat]
  BY DEF CacheTypeOK
<1>2. CASE decision[d] = NoDecision BY <1>2 DEF NoDecision, Pending
<1>3. CASE decision[d] \in [phase : {"keyed"}, key : Nat, due : Content]
  BY <1>3 DEF Pending
<1>4. CASE decision[d] \in [phase : {"settingsRead"}, key : Nat, due : Content, settings : Nat]
  BY <1>4 DEF Pending
<1>5. CASE decision[d] \in [phase : {"projected"}, key : Nat, due : Content, settings : Nat,
                            grants : Nat]
  BY <1>5 DEF Pending
<1>6. CASE decision[d] \in [phase : {"decided"}, due : Content, settings : Nat, grants : Nat]
  BY <1>6 DEF Pending
<1>7. QED BY <1>1, <1>2, <1>3, <1>4, <1>5, <1>6

LEMMA CacheTypeInit == CacheInit => CacheTypeOK
BY DEF CacheInit, CacheTypeOK, NoCache, NoWriter

LEMMA CacheTypeStep == CacheTypeOK /\ [CacheNext]_cacheVars => CacheTypeOK'
<1> SUFFICES ASSUME CacheTypeOK, [CacheNext]_cacheVars PROVE CacheTypeOK'
  OBVIOUS
<1>1. CASE UNCHANGED cacheVars BY <1>1 DEF CacheTypeOK, cacheVars
<1>2. ASSUME NEW p \in Process, Invalidate(p) PROVE CacheTypeOK'
  BY <1>2 DEF CacheTypeOK, Invalidate, database, NoCache
<1>3. ASSUME NEW p \in Process, NEW kind \in WriteKind, BumpConfigVersion(p, kind) PROVE CacheTypeOK'
  BY <1>3 DEF CacheTypeOK, BumpConfigVersion, database, NoCache
<1>4. CASE CommitWrite BY <1>4 DEF CacheTypeOK, CommitWrite
<1>5. CASE RollBackWrite BY <1>5 DEF CacheTypeOK, RollBackWrite, database
<1>6. ASSUME NEW d \in Decision, ReadOrg(d) PROVE CacheTypeOK'
  <2>1. decision'[d] \in [phase : {"keyed"}, key : Nat, due : Content]
    BY <1>6 DEF CacheTypeOK, ReadOrg, Content
  <2>2. QED BY <1>6, <2>1 DEF CacheTypeOK, ReadOrg, database
<1>7. ASSUME NEW d \in Decision, UseCache(d) PROVE CacheTypeOK'
  <2>1. decision[d].due \in Content BY <1>7, PhaseTyped DEF UseCache, Pending
  <2>2. Home[d] \in Process BY HomeAssumption
  <2>3. decision'[d] \in [phase : {"decided"}, due : Content, settings : Nat, grants : Nat]
    BY <1>7, <2>1, <2>2 DEF CacheTypeOK, UseCache, Decides
  <2>4. QED BY <1>7, <2>3 DEF CacheTypeOK, UseCache, Decides, database
<1>8. ASSUME NEW d \in Decision, ProjectSettings(d) PROVE CacheTypeOK'
  <2>1. decision'[d] \in [phase : {"settingsRead"}, key : Nat, due : Content, settings : Nat]
    BY <1>8, PhaseTyped DEF CacheTypeOK, ProjectSettings, Pending
  <2>2. QED BY <1>8, <2>1 DEF CacheTypeOK, ProjectSettings, database
<1>9. ASSUME NEW d \in Decision, ProjectGrants(d) PROVE CacheTypeOK'
  <2>1. decision'[d] \in [phase : {"projected"}, key : Nat, due : Content, settings : Nat,
                          grants : Nat]
    BY <1>9, PhaseTyped DEF CacheTypeOK, ProjectGrants, Pending
  <2>2. QED BY <1>9, <2>1 DEF CacheTypeOK, ProjectGrants, database
<1>10. ASSUME NEW d \in Decision, Store(d) PROVE CacheTypeOK'
  <2>1. /\ decision[d].due \in Content /\ decision[d].key \in Nat
        /\ decision[d].settings \in Nat /\ decision[d].grants \in Nat
    BY <1>10, PhaseTyped DEF Store, Pending
  <2>2. decision'[d] \in [phase : {"decided"}, due : Content, settings : Nat, grants : Nat]
    BY <1>10, <2>1 DEF CacheTypeOK, Store, Decides
  <2>3. QED BY <1>10, <2>1, <2>2 DEF CacheTypeOK, Store, Decides, StoreUnderKey, database
<1>11. ASSUME NEW d \in Decision, Finish(d) PROVE CacheTypeOK'
  BY <1>11 DEF CacheTypeOK, Finish, database
<1>12. QED
  BY <1>1, <1>2, <1>3, <1>4, <1>5, <1>6, <1>7, <1>8, <1>9, <1>10, <1>11 DEF CacheNext

\* Every column, cache and request holds a value of its type.
THEOREM CacheTypeCorrect == CacheSpec => []CacheTypeOK
BY CacheTypeInit, CacheTypeStep, PTL DEF CacheSpec

LEMMA CacheInvInit == CacheInit => CacheInv
<1> SUFFICES ASSUME CacheInit PROVE CacheInv
  OBVIOUS
<1>1. CacheTypeOK BY CacheTypeInit
<1>2. \A d \in Decision : ~Pending(d) /\ ~Read(d, "decided") /\ ~Read(d, "settingsRead")
                          /\ ~Read(d, "projected")
  BY DEF CacheInit, NoDecision, Pending
<1>3. VersionsInv /\ KeysInv /\ TwinsInv /\ NoStalePolicy
  BY <1>2 DEF CacheInit, VersionsInv, KeysInv, TwinsInv, NoStalePolicy
<1>4. ProjectedInv BY <1>2 DEF ProjectedInv
<1>5. SharedInv /\ CacheCurrent
  BY <1>2 DEF CacheInit, NoCache, SharedInv, CacheCurrent
<1>6. QED BY <1>1, <1>3, <1>4, <1>5 DEF CacheInv

\* Emptying the cache of a process disturbs nothing that is in flight.
LEMMA EmptyingKeeps ==
  ASSUME CacheInv, CacheTypeOK', UNCHANGED <<database, decision>>, NEW p \in Process,
         cache' = cache \/ cache' = [cache EXCEPT ![p] = NoCache]
  PROVE  CacheInv'
<1>1. \A q \in Process : cache'[q] = cache[q] \/ cache'[q] = NoCache
  BY DEF CacheInv, CacheTypeOK
<1>2. /\ configVersion' = configVersion /\ settingsAt' = settingsAt /\ grantsAt' = grantsAt
      /\ decision' = decision
  BY DEF database
<1>3. (VersionsInv /\ KeysInv /\ TwinsInv /\ ProjectedInv /\ NoStalePolicy)'
  BY <1>2 DEF CacheInv, VersionsInv, KeysInv, TwinsInv, ProjectedInv, NoStalePolicy, Pending
<1>4. SharedInv'
  <2> SUFFICES ASSUME NEW q \in Process
               PROVE  /\ cache'[q].version <= configVersion
                      /\ \A d \in Decision : Pending(d) /\ decision[d].key = cache'[q].version =>
                           /\ cache'[q].settings >= decision[d].due.settings
                           /\ cache'[q].grants >= decision[d].due.grants
    BY <1>2 DEF SharedInv, Pending
  <2>1. CASE cache'[q] = cache[q] BY <2>1 DEF CacheInv, SharedInv
  <2>2. CASE cache'[q] = NoCache
    <3>1. \A d \in Decision : Pending(d) => decision[d].key # 0
      BY DEF CacheInv, KeysInv
    <3>2. QED BY <2>2, <3>1 DEF NoCache, CacheInv, VersionsInv, CacheTypeOK
  <2>3. QED BY <1>1, <2>1, <2>2
<1>5. CacheCurrent'
  <2> SUFFICES ASSUME NEW q \in Process, cache'[q].version = configVersion
               PROVE  cache'[q].settings = settingsAt /\ cache'[q].grants = grantsAt
    BY <1>2 DEF CacheCurrent
  <2>1. cache'[q] # NoCache BY DEF NoCache, CacheInv, VersionsInv
  <2>2. QED BY <1>1, <2>1 DEF CacheInv, CacheCurrent
<1>6. QED BY <1>3, <1>4, <1>5 DEF CacheInv

\* A commit moves the version past every key that is in use.
LEMMA CommitKeeps ==
  ASSUME CacheInv, CacheTypeOK', CommitWrite
  PROVE  CacheInv'
<1>1. /\ configVersion' = configVersion + 1 /\ configVersion \in Nat
      /\ settingsAt' \in Nat /\ settingsAt \in Nat /\ settingsAt <= settingsAt'
      /\ grantsAt' \in Nat /\ grantsAt \in Nat /\ grantsAt <= grantsAt'
      /\ settingsAt' <= configVersion' /\ grantsAt' <= configVersion'
      /\ cache' = cache /\ decision' = decision
  BY DEF CommitWrite, CacheInv, CacheTypeOK, VersionsInv
<1>2. \A d \in Decision : Pending(d) =>
        decision[d].key \in Nat /\ decision[d].key < configVersion'
  BY <1>1, PhaseTyped DEF CacheInv, KeysInv
<1>3. \A p \in Process : cache[p].version \in Nat /\ cache[p].version < configVersion'
  BY <1>1 DEF CacheInv, SharedInv, CacheTypeOK
<1>4. VersionsInv' BY <1>1 DEF CacheInv, VersionsInv
<1>5. KeysInv'
  <2> SUFFICES ASSUME NEW d \in Decision, Pending(d)
               PROVE  /\ decision[d].key >= 1
                      /\ decision[d].key <= configVersion'
                      /\ decision[d].due.settings <= settingsAt'
                      /\ decision[d].due.grants <= grantsAt'
                      /\ decision[d].key # configVersion'
    BY <1>1 DEF KeysInv, Pending
  <2>1. decision[d].due \in Content BY PhaseTyped DEF CacheInv
  <2>2. /\ decision[d].key >= 1 /\ decision[d].due.settings <= settingsAt
        /\ decision[d].due.grants <= grantsAt
    BY DEF CacheInv, KeysInv
  <2>3. QED BY <1>1, <1>2, <2>1, <2>2 DEF Content
<1>6. TwinsInv' /\ NoStalePolicy'
  BY <1>1 DEF CacheInv, TwinsInv, NoStalePolicy, Pending
<1>7. ProjectedInv'
  <2>1. \A d \in Decision :
          decision[d].phase \in {"settingsRead", "projected"} => decision[d].key # configVersion'
    BY <1>1, <1>2 DEF Pending
  <2>2. QED BY <1>1, <2>1 DEF CacheInv, ProjectedInv
<1>8. SharedInv' BY <1>1, <1>3 DEF CacheInv, SharedInv, Pending
<1>9. CacheCurrent' BY <1>1, <1>3 DEF CacheCurrent
<1>10. QED BY <1>4, <1>5, <1>6, <1>7, <1>8, <1>9 DEF CacheInv

\* What a step of request d leaves to show: the database is the same, the other
\* requests are the same, and the invariant of d itself.
LEMMA RequestStep ==
  ASSUME CacheInv, CacheTypeOK', UNCHANGED <<database, cache>>, NEW d \in Decision,
         \A e \in Decision : e # d => decision'[e] = decision[e],
         Pending(d)' => /\ decision'[d].key >= 1
                        /\ decision'[d].key <= configVersion
                        /\ decision'[d].due.settings <= settingsAt
                        /\ decision'[d].due.grants <= grantsAt
                        /\ decision'[d].key = configVersion =>
                             decision'[d].due = [settings |-> settingsAt, grants |-> grantsAt],
         Pending(d)' => \A e \in Decision :
           e # d /\ Pending(e) /\ decision[e].key = decision'[d].key =>
             decision[e].due = decision'[d].due,
         decision'[d].phase \in {"settingsRead", "projected"} =>
           /\ decision'[d].settings >= decision'[d].due.settings
           /\ decision'[d].key = configVersion => decision'[d].settings = settingsAt,
         Read(d, "projected")' =>
           /\ decision'[d].grants >= decision'[d].due.grants
           /\ decision'[d].key = configVersion => decision'[d].grants = grantsAt,
         Pending(d)' => \A p \in Process : decision'[d].key = cache[p].version =>
           /\ cache[p].settings >= decision'[d].due.settings
           /\ cache[p].grants >= decision'[d].due.grants,
         Read(d, "decided")' => /\ decision'[d].settings >= decision'[d].due.settings
                                /\ decision'[d].grants >= decision'[d].due.grants
  PROVE  CacheInv'
<1>1. /\ configVersion' = configVersion /\ settingsAt' = settingsAt /\ grantsAt' = grantsAt
      /\ cache' = cache
  BY DEF database
<1>2. VersionsInv' /\ CacheCurrent' BY <1>1 DEF CacheInv, VersionsInv, CacheCurrent
<1>3. KeysInv'
  <2> SUFFICES ASSUME NEW e \in Decision, Pending(e)'
               PROVE  /\ decision'[e].key >= 1
                      /\ decision'[e].key <= configVersion
                      /\ decision'[e].due.settings <= settingsAt
                      /\ decision'[e].due.grants <= grantsAt
                      /\ decision'[e].key = configVersion =>
                           decision'[e].due = [settings |-> settingsAt, grants |-> grantsAt]
    BY <1>1 DEF KeysInv
  <2>1. CASE e = d BY <2>1
  <2>2. CASE e # d BY <2>2 DEF CacheInv, KeysInv, Pending
  <2>3. QED BY <2>1, <2>2
<1>4. TwinsInv'
  <2> SUFFICES ASSUME NEW e \in Decision, NEW f \in Decision, Pending(e)', Pending(f)',
                      decision'[e].key = decision'[f].key
               PROVE  decision'[e].due = decision'[f].due
    BY DEF TwinsInv
  <2>1. CASE e = d /\ f = d BY <2>1
  <2>2. CASE e = d /\ f # d BY <2>2 DEF Pending
  <2>3. CASE e # d /\ f = d BY <2>3 DEF Pending
  <2>4. CASE e # d /\ f # d BY <2>4 DEF CacheInv, TwinsInv, Pending
  <2>5. QED BY <2>1, <2>2, <2>3, <2>4
<1>5. ProjectedInv'
  <2> SUFFICES ASSUME NEW e \in Decision
               PROVE  /\ decision'[e].phase \in {"settingsRead", "projected"} =>
                           /\ decision'[e].settings >= decision'[e].due.settings
                           /\ decision'[e].key = configVersion => decision'[e].settings = settingsAt
                      /\ decision'[e].phase = "projected" =>
                           /\ decision'[e].grants >= decision'[e].due.grants
                           /\ decision'[e].key = configVersion => decision'[e].grants = grantsAt
    BY <1>1 DEF ProjectedInv
  <2>1. CASE e = d BY <2>1
  <2>2. CASE e # d BY <2>2 DEF CacheInv, ProjectedInv
  <2>3. QED BY <2>1, <2>2
<1>6. SharedInv'
  <2> SUFFICES ASSUME NEW p \in Process, NEW e \in Decision, Pending(e)',
                      decision'[e].key = cache[p].version
               PROVE  /\ cache[p].settings >= decision'[e].due.settings
                      /\ cache[p].grants >= decision'[e].due.grants
    BY <1>1 DEF CacheInv, SharedInv
  <2>1. CASE e = d BY <2>1
  <2>2. CASE e # d BY <2>2 DEF CacheInv, SharedInv, Pending
  <2>3. QED BY <2>1, <2>2
<1>7. NoStalePolicy'
  <2> SUFFICES ASSUME NEW e \in Decision, Read(e, "decided")'
               PROVE  /\ decision'[e].settings >= decision'[e].due.settings
                      /\ decision'[e].grants >= decision'[e].due.grants
    BY DEF NoStalePolicy
  <2>1. CASE e = d BY <2>1
  <2>2. CASE e # d BY <2>2 DEF CacheInv, NoStalePolicy
  <2>3. QED BY <2>1, <2>2
<1>8. QED BY <1>2, <1>3, <1>4, <1>5, <1>6, <1>7 DEF CacheInv

LEMMA ReadOrgKeeps ==
  ASSUME CacheInv, CacheTypeOK', NEW d \in Decision, ReadOrg(d)
  PROVE  CacheInv'
<1>1. decision'[d] = [phase |-> "keyed", key |-> configVersion,
                      due |-> [settings |-> settingsAt, grants |-> grantsAt]]
  BY DEF ReadOrg, CacheInv, CacheTypeOK
<1>2. /\ \A e \in Decision : e # d => decision'[e] = decision[e]
      /\ UNCHANGED <<database, cache>>
  BY DEF ReadOrg, CacheInv, CacheTypeOK, database
<1>3. /\ configVersion \in Nat /\ settingsAt \in Nat /\ grantsAt \in Nat
      /\ configVersion >= 1
  BY DEF CacheInv, CacheTypeOK, VersionsInv
<1>4. \A e \in Decision : Pending(e) /\ decision[e].key = configVersion =>
        decision[e].due = decision'[d].due
  BY <1>1 DEF CacheInv, KeysInv
<1>5. \A p \in Process : cache[p].version = configVersion =>
        cache[p].settings >= settingsAt /\ cache[p].grants >= grantsAt
  BY <1>3 DEF CacheInv, CacheCurrent
<1>6. QED BY <1>1, <1>2, <1>3, <1>4, <1>5, RequestStep DEF Pending

LEMMA UseCacheKeeps ==
  ASSUME CacheInv, CacheTypeOK', NEW d \in Decision, UseCache(d)
  PROVE  CacheInv'
<1>1. Home[d] \in Process BY HomeAssumption
<1>2. decision'[d] = [phase |-> "decided", due |-> decision[d].due,
                      settings |-> cache[Home[d]].settings, grants |-> cache[Home[d]].grants]
  BY DEF UseCache, Decides, CacheInv, CacheTypeOK
<1>3. /\ \A e \in Decision : e # d => decision'[e] = decision[e]
      /\ UNCHANGED <<database, cache>>
  BY DEF UseCache, Decides, CacheInv, CacheTypeOK, database
<1>4. /\ cache[Home[d]].settings >= decision[d].due.settings
      /\ cache[Home[d]].grants >= decision[d].due.grants
  BY <1>1 DEF UseCache, CacheHit, CacheInv, SharedInv, Pending
<1>5. QED BY <1>2, <1>3, <1>4, RequestStep DEF Pending

\* What a pending request may rely on.
LEMMA PendingFacts ==
  ASSUME CacheInv, NEW d \in Decision, Pending(d)
  PROVE  /\ decision[d].key >= 1
         /\ decision[d].key <= configVersion
         /\ decision[d].due.settings <= settingsAt
         /\ decision[d].due.grants <= grantsAt
         /\ decision[d].key = configVersion =>
              decision[d].due = [settings |-> settingsAt, grants |-> grantsAt]
         /\ \A e \in Decision : Pending(e) /\ decision[e].key = decision[d].key =>
              decision[e].due = decision[d].due
         /\ \A p \in Process : decision[d].key = cache[p].version =>
              /\ cache[p].settings >= decision[d].due.settings
              /\ cache[p].grants >= decision[d].due.grants
BY DEF CacheInv, KeysInv, TwinsInv, SharedInv

LEMMA ProjectSettingsKeeps ==
  ASSUME CacheInv, CacheTypeOK', NEW d \in Decision, ProjectSettings(d)
  PROVE  CacheInv'
<1>1. Pending(d) BY DEF ProjectSettings, Pending
<1>2. decision'[d] = [phase |-> "settingsRead", key |-> decision[d].key,
                      due |-> decision[d].due, settings |-> settingsAt]
  BY DEF ProjectSettings, CacheInv, CacheTypeOK
<1>3. /\ \A e \in Decision : e # d => decision'[e] = decision[e]
      /\ UNCHANGED <<database, cache>>
  BY DEF ProjectSettings, CacheInv, CacheTypeOK, database
<1>4. decision[d].due \in Content /\ settingsAt \in Nat
  BY <1>1, PhaseTyped DEF CacheInv, CacheTypeOK
<1>5. settingsAt >= decision[d].due.settings
  BY <1>1, <1>4, PendingFacts DEF Content
<1>6. QED BY <1>1, <1>2, <1>3, <1>5, PendingFacts, RequestStep

LEMMA ProjectGrantsKeeps ==
  ASSUME CacheInv, CacheTypeOK', NEW d \in Decision, ProjectGrants(d)
  PROVE  CacheInv'
<1>1. Pending(d) BY DEF ProjectGrants, Pending
<1>2. decision'[d] = [phase |-> "projected", key |-> decision[d].key,
                      due |-> decision[d].due, settings |-> decision[d].settings,
                      grants |-> grantsAt]
  BY DEF ProjectGrants, CacheInv, CacheTypeOK
<1>3. /\ \A e \in Decision : e # d => decision'[e] = decision[e]
      /\ UNCHANGED <<database, cache>>
  BY DEF ProjectGrants, CacheInv, CacheTypeOK, database
<1>4. decision[d].due \in Content /\ grantsAt \in Nat
  BY <1>1, PhaseTyped DEF CacheInv, CacheTypeOK
<1>5. grantsAt >= decision[d].due.grants
  BY <1>1, <1>4, PendingFacts DEF Content
<1>6. /\ decision[d].settings >= decision[d].due.settings
      /\ decision[d].key = configVersion => decision[d].settings = settingsAt
  BY DEF ProjectGrants, CacheInv, ProjectedInv
<1>7. QED BY <1>1, <1>2, <1>3, <1>5, <1>6, PendingFacts, RequestStep

LEMMA FinishKeeps ==
  ASSUME CacheInv, CacheTypeOK', NEW d \in Decision, Finish(d)
  PROVE  CacheInv'
<1>1. decision'[d] = NoDecision BY DEF Finish, CacheInv, CacheTypeOK
<1>2. /\ \A e \in Decision : e # d => decision'[e] = decision[e]
      /\ UNCHANGED <<database, cache>>
  BY DEF Finish, CacheInv, CacheTypeOK, database
<1>3. QED BY <1>1, <1>2, RequestStep DEF NoDecision, Pending

\* The stored set serves every request that read the same version, because
\* they all owe the same.
LEMMA StoreKeeps ==
  ASSUME CacheInv, CacheTypeOK', NEW d \in Decision, Store(d)
  PROVE  CacheInv'
<1> DEFINE h == Home[d]
<1>1. Pending(d) /\ h \in Process BY HomeAssumption DEF Store, Pending
<1>2. /\ decision'[d] = [phase |-> "decided", due |-> decision[d].due,
                         settings |-> decision[d].settings, grants |-> decision[d].grants]
      /\ \A e \in Decision : e # d => decision'[e] = decision[e]
      /\ configVersion' = configVersion /\ settingsAt' = settingsAt /\ grantsAt' = grantsAt
  BY DEF Store, Decides, CacheInv, CacheTypeOK, database
<1>3. /\ cache'[h] = StoreUnderKey(d)
      /\ \A p \in Process : p # h => cache'[p] = cache[p]
  BY <1>1 DEF Store, CacheInv, CacheTypeOK
<1>4. /\ decision[d].settings >= decision[d].due.settings
      /\ decision[d].grants >= decision[d].due.grants
      /\ decision[d].key = configVersion =>
           decision[d].settings = settingsAt /\ decision[d].grants = grantsAt
  BY DEF Store, CacheInv, ProjectedInv
<1>5. \A e \in Decision : Pending(e)' => Pending(e) /\ decision'[e] = decision[e]
  <2> SUFFICES ASSUME NEW e \in Decision, Pending(e)'
               PROVE  Pending(e) /\ decision'[e] = decision[e]
    OBVIOUS
  <2>1. e # d BY <1>2 DEF Pending
  <2>2. QED BY <1>2, <2>1 DEF Pending
<1>6. VersionsInv' BY <1>2 DEF CacheInv, VersionsInv
<1>7. KeysInv' BY <1>2, <1>5 DEF CacheInv, KeysInv
<1>8. TwinsInv' BY <1>5 DEF CacheInv, TwinsInv
<1>9. ProjectedInv'
  <2> SUFFICES ASSUME NEW e \in Decision, e # d
               PROVE  /\ decision'[e].phase \in {"settingsRead", "projected"} =>
                           /\ decision'[e].settings >= decision'[e].due.settings
                           /\ decision'[e].key = configVersion => decision'[e].settings = settingsAt
                      /\ decision'[e].phase = "projected" =>
                           /\ decision'[e].grants >= decision'[e].due.grants
                           /\ decision'[e].key = configVersion => decision'[e].grants = grantsAt
    BY <1>2 DEF ProjectedInv
  <2>1. QED BY <1>2 DEF CacheInv, ProjectedInv
<1>10. SharedInv'
  <2> SUFFICES ASSUME NEW p \in Process
               PROVE  /\ cache'[p].version <= configVersion
                      /\ \A e \in Decision :
                           Pending(e) /\ decision[e].key = cache'[p].version =>
                             /\ cache'[p].settings >= decision[e].due.settings
                             /\ cache'[p].grants >= decision[e].due.grants
    BY <1>2, <1>5 DEF SharedInv
  <2>1. CASE p = h BY <2>1, <1>1, <1>3, <1>4, PendingFacts DEF StoreUnderKey
  <2>2. CASE p # h BY <2>2, <1>3 DEF CacheInv, SharedInv
  <2>3. QED BY <2>1, <2>2
<1>11. CacheCurrent'
  <2> SUFFICES ASSUME NEW p \in Process, cache'[p].version = configVersion
               PROVE  cache'[p].settings = settingsAt /\ cache'[p].grants = grantsAt
    BY <1>2 DEF CacheCurrent
  <2>1. CASE p = h BY <2>1, <1>3, <1>4 DEF StoreUnderKey
  <2>2. CASE p # h BY <2>2, <1>3 DEF CacheInv, CacheCurrent
  <2>3. QED BY <2>1, <2>2
<1>12. NoStalePolicy'
  <2> SUFFICES ASSUME NEW e \in Decision, Read(e, "decided")'
               PROVE  /\ decision'[e].settings >= decision'[e].due.settings
                      /\ decision'[e].grants >= decision'[e].due.grants
    BY DEF NoStalePolicy
  <2>1. CASE e = d BY <2>1, <1>2, <1>4
  <2>2. CASE e # d BY <2>2, <1>2 DEF CacheInv, NoStalePolicy
  <2>3. QED BY <2>1, <2>2
<1>13. QED BY <1>6, <1>7, <1>8, <1>9, <1>10, <1>11, <1>12 DEF CacheInv

LEMMA CacheInvStep == CacheInv /\ [CacheNext]_cacheVars => CacheInv'
<1> SUFFICES ASSUME CacheInv, [CacheNext]_cacheVars PROVE CacheInv'
  OBVIOUS
<1>1. CacheTypeOK' BY CacheTypeStep DEF CacheInv
<1>2. CASE UNCHANGED cacheVars
  BY <1>2 DEF cacheVars, CacheInv, CacheTypeOK, VersionsInv, KeysInv, TwinsInv, ProjectedInv, SharedInv,
              CacheCurrent, NoStalePolicy, Pending
<1>3. ASSUME NEW p \in Process, Invalidate(p) PROVE CacheInv'
  BY <1>1, <1>3, EmptyingKeeps DEF Invalidate
<1>4. ASSUME NEW p \in Process, NEW kind \in WriteKind, BumpConfigVersion(p, kind) PROVE CacheInv'
  BY <1>1, <1>4, EmptyingKeeps DEF BumpConfigVersion
<1>5. CASE CommitWrite BY <1>1, <1>5, CommitKeeps
<1>6. CASE RollBackWrite
  BY <1>1, <1>6 DEF RollBackWrite, database, CacheInv, CacheTypeOK, VersionsInv, KeysInv, TwinsInv,
                    ProjectedInv, SharedInv, CacheCurrent, NoStalePolicy, Pending
<1>7. ASSUME NEW d \in Decision, \/ ReadOrg(d) \/ UseCache(d) \/ ProjectSettings(d)
                                 \/ ProjectGrants(d) \/ Store(d) \/ Finish(d)
      PROVE CacheInv'
  BY <1>1, <1>7, ReadOrgKeeps, UseCacheKeeps, ProjectSettingsKeeps, ProjectGrantsKeeps,
     StoreKeeps, FinishKeeps
<1>8. QED BY <1>2, <1>3, <1>4, <1>5, <1>6, <1>7 DEF CacheNext

\* No request is ever decided under settings or grants older than those in
\* force when it began, whatever sets other requests projected and shared
\* meanwhile (access.service.ts:34-67).
THEOREM NeverStale == CacheSpec => []NoStalePolicy
<1>1. CacheInv => NoStalePolicy BY DEF CacheInv
<1>2. QED BY <1>1, CacheInvInit, CacheInvStep, PTL DEF CacheSpec

\* A set kept under the present version is the present configuration, although
\* a write clears the cache before it commits and a decision reads in two queries
\* (access.service.ts:57-67, 125-135).
THEOREM KeptIsCurrent == CacheSpec => []CacheCurrent
<1>1. CacheInv => CacheCurrent BY DEF CacheInv
<1>2. QED BY <1>1, CacheInvInit, CacheInvStep, PTL DEF CacheSpec

-----------------------------------------------------------------------------
(* The guard of a route: what it decides of what it has read *)

(***************************************************************************)
(* DecisionIsJust compares two ways to answer.  The guard evaluates        *)
(* policies on attributes a resolver built; Just asks the organization     *)
(* itself.  Lemma Agrees says that they are one as long as nothing changes *)
(* between the reads, for every route, kind of grant and action: the       *)
(* resolver builds what the scopes of its action look at (Sees), so that   *)
(* each scope agrees with the groups and owners it stands for.             *)
(***************************************************************************)
\* What the resolver of a request builds now.
Resource(ask) == resolveResource(ask.resolver, item, ask.who, ask.user, ask.role)

\* What the guard builds of the actor.
Principal(ask) == buildPrincipalEntities(ask.who, memberOf[ask.who], liveRoles)

Asking(ask) == <<ask.action, ask.resolver>> \in Routes /\ ask.who \in User

\* Routes, said the other way round: the actions of each resolver.
Routed(action, resolver) ==
  \/ resolver = "organization" /\ action \in ActionsOf["Organization"] \cup {"user:update"}
  \/ resolver = "division" /\ action = "division:update"
  \/ resolver = "new_task" /\ action = "task:create"
  \/ resolver = "reviving_task" /\ action = "task:revive"
  \/ /\ resolver = "task"
     /\ action \in {"task:update", "task:retire", "task:assign", "task:manage_claims",
                    "task:change_requester", "task:complete", "task:configure_request_template"}
  \/ resolver = "submitted_task" /\ action = "task:submit"
  \/ resolver = "submission" /\ action \in {"task:review", "task:retire_submission"}
  \/ resolver = "new_message" /\ action = "message:create"
  \/ resolver = "message" /\ action \in {"message:update", "message:retire"}
  \/ resolver = "reviving_message" /\ action = "message:revive"
  \/ resolver = "new_attachment" /\ action = "attachment:create"
  \/ resolver = "attachment" /\ action = "attachment:retire"
  \/ resolver = "reviving_attachment" /\ action = "attachment:revive"
  \/ resolver = "user" /\ action \in {"user:update", "user:deactivate", "user:reactivate", "user:retire"}
  \/ resolver = "reviving_user" /\ action = "user:revive"
  \/ resolver = "user_with_role" /\ action \in {"user:grant_role", "user:revoke_role"}
  \/ resolver = "invitation" /\ action = "invite:retire"

\* No controller has another route.
LEMMA RoutesAreRouted ==
  ASSUME NEW a, NEW r, <<a, r>> \in Routes
  PROVE  Routed(a, r)
<1> USE DEF OnOrganization
<1>1. <<a, r>> \in TasksController \cup TasksDesk => Routed(a, r) BY DEF TasksController, TasksDesk, Routed
<1>2. <<a, r>> \in SubmissionsController \cup SubmissionsByIdController => Routed(a, r)
  BY DEF SubmissionsController, SubmissionsByIdController, Routed
<1>3. <<a, r>> \in MessagesController \cup AttachmentsController => Routed(a, r)
  BY DEF MessagesController, AttachmentsController, Routed
<1>4. <<a, r>> \in UsersController => Routed(a, r) BY DEF UsersController, Routed
<1>5. <<a, r>> \in DivisionsController \cup RequestTemplatesController \cup TeamsController => Routed(a, r)
  BY DEF DivisionsController, RequestTemplatesController, TeamsController, Routed, ActionsOf
<1>6. <<a, r>> \in RolesController \cup GrantsController => Routed(a, r)
  BY DEF RolesController, GrantsController, Routed, ActionsOf
<1>7. <<a, r>> \in IntegrationsController \cup InvitationsController => Routed(a, r)
  BY DEF IntegrationsController, InvitationsController, Routed, ActionsOf
<1>8. <<a, r>> \in ConfigController \cup GcController \cup ActivityController => Routed(a, r)
  BY DEF ConfigController, GcController, ActivityController, Routed, ActionsOf
<1> QED BY <1>1, <1>2, <1>3, <1>4, <1>5, <1>6, <1>7, <1>8 DEF Routes

\* An action of one type has that type.
LEMMA TypeIs ==
  ASSUME NEW t \in DOMAIN ActionsOf, NEW a \in ActionsOf[t],
         \A s \in DOMAIN ActionsOf \ {t} : a \notin ActionsOf[s]
  PROVE  RESOURCE_TYPE_BY_ACTION(a) = t
BY DEF RESOURCE_TYPE_BY_ACTION

\* Actions on what a grant may be scoped on by groups.
LEMMA TypesOfActions ==
  /\ \A a \in ActionsOf["Task"] : RESOURCE_TYPE_BY_ACTION(a) = "Task"
  /\ \A a \in ActionsOf["Message"] : RESOURCE_TYPE_BY_ACTION(a) = "Message"
  /\ \A a \in ActionsOf["Attachment"] : RESOURCE_TYPE_BY_ACTION(a) = "Attachment"
  /\ \A a \in ActionsOf["Division"] : RESOURCE_TYPE_BY_ACTION(a) = "Division"
<1>1. {"Task", "Message", "Attachment", "Division"} \subseteq DOMAIN ActionsOf BY DEF ActionsOf
<1>2. ASSUME NEW a \in ActionsOf["Task"] PROVE \A s \in DOMAIN ActionsOf \ {"Task"} : a \notin ActionsOf[s]
  BY DEF ActionsOf
<1>3. ASSUME NEW a \in ActionsOf["Message"] PROVE \A s \in DOMAIN ActionsOf \ {"Message"} : a \notin ActionsOf[s]
  BY DEF ActionsOf
<1>4. ASSUME NEW a \in ActionsOf["Attachment"] PROVE \A s \in DOMAIN ActionsOf \ {"Attachment"} : a \notin ActionsOf[s]
  BY DEF ActionsOf
<1>5. ASSUME NEW a \in ActionsOf["Division"] PROVE \A s \in DOMAIN ActionsOf \ {"Division"} : a \notin ActionsOf[s]
  BY DEF ActionsOf
<1> QED BY <1>1, <1>2, <1>3, <1>4, <1>5, TypeIs

\* What is used of the item's type.
ItemTyped ==
  /\ item.division \in Division /\ item.team \in Team \cup {None}
  /\ item.sender \in User \cup {None} /\ item.requester \in User /\ item.uploader \in User
  /\ item.restricts \subseteq Division \cup Team

\* What Cedar's own rules look at: is it retired, whose submission, which user.
SeesState(ask, x) ==
  /\ Has(x, "retired", TRUE) <=> OnRetired(ask)
  /\ ask.action = "task:review" => (Has(x, "claimant", ask.who) <=> ask.who = item.author)
  /\ ask.action = "user:update" /\ x.type = "User" /\ x.id = ask.who
       <=> ask.resolver = "user" /\ ask.action = "user:update" /\ ask.user = ask.who

\* What the scopes of groups and roles look at.
SeesGroups(ask, x) ==
  /\ \A d \in Division : Has(x, "division", d) <=> d \in GroupsOf(ask)
  /\ \A t \in Team : Has(x, "team", t) <=> t \in GroupsOf(ask)
  /\ \A r : Has(x, "targetRole", r) <=> ask.resolver = "user_with_role" /\ ask.role = r
  /\ ask.action = "task:assign" =>
       /\ Has(x, "divisionRestrictsClaims", TRUE) <=> item.division \in item.restricts
       /\ Has(x, "teamRestrictsClaims", TRUE) <=> item.team \in item.restricts
       /\ GroupsOf(ask) = {item.division, item.team} \ {None}

\* What the own family looks at.
SeesOwner(ask, x) ==
  ask.action \in DOMAIN OWN_ATTR_BY_ACTION =>
    (Has(x, OWN_ATTR_BY_ACTION[ask.action], ask.who) <=> ask.who \in OwnersOf(ask))

Sees(ask) ==
  SeesState(ask, Resource(ask)) /\ SeesGroups(ask, Resource(ask)) /\ SeesOwner(ask, Resource(ask))

\* One lemma per resolver: it builds what its actions' scopes look at.
LEMMA OrganizationSees ==
  ASSUME ItemTyped, NEW ask, ask.who \in User, ask.resolver = "organization",
         ask.action \in ActionsOf["Organization"] \cup {"user:update"}
  PROVE  Sees(ask)
<1> DEFINE x == Resource(ask)
<1>1. x = orgResource BY DEF Resource, resolveResource
<1> HIDE DEF x
<1> USE <1>1, GroupsAssumption DEF ItemTyped, Entity, Has, orgResource
<1>2. SeesState(ask, x) BY TypesOfActions DEF SeesState, OnRetired, Family, ActionsOf
<1>3. SeesGroups(ask, x) BY DEF SeesGroups, GroupsOf, ActionsOf
<1>4. SeesOwner(ask, x)
  BY TypesOfActions
  DEF SeesOwner, Family, OwnersOf, Creates, OWN_ATTR_BY_ACTION, Requesters, Senders, Uploaders, ActionsOf
<1> QED BY <1>2, <1>3, <1>4 DEF Sees, x

\* A division and its templates: grouped by itself.
LEMMA DivisionSees ==
  ASSUME ItemTyped, NEW ask, ask.who \in User, ask.resolver = "division",
         ask.action = "division:update"
  PROVE  Sees(ask)
<1> DEFINE x == Resource(ask)
<1>1. x = divisionResource(item) BY DEF Resource, resolveResource
<1> HIDE DEF x
<1> USE <1>1, GroupsAssumption DEF ItemTyped, Entity, Has, divisionResource, Retired
<1>2. SeesState(ask, x) BY TypesOfActions DEF SeesState, OnRetired, Family, ActionsOf
<1>3. SeesGroups(ask, x) BY DEF SeesGroups, GroupsOf, ActionsOf
<1>4. SeesOwner(ask, x)
  BY TypesOfActions
  DEF SeesOwner, Family, OwnersOf, Creates, OWN_ATTR_BY_ACTION, Requesters, Senders, Uploaders, ActionsOf
<1> QED BY <1>2, <1>3, <1>4 DEF Sees, x

\* A task to be is in the groups the request names, and the actor's.
LEMMA NewTaskSees ==
  ASSUME ItemTyped, NEW ask, ask.who \in User, ask.resolver = "new_task",
         ask.action = "task:create"
  PROVE  Sees(ask)
<1> DEFINE x == Resource(ask)
<1>1. x = taskCreateResource(item, ask.who) BY DEF Resource, resolveResource
<1> HIDE DEF x
<1> USE <1>1, GroupsAssumption DEF ItemTyped, Entity, Has, taskCreateResource, Groups, Maybe
<1>2. SeesState(ask, x) BY TypesOfActions DEF SeesState, OnRetired, Family, ActionsOf
<1>3. SeesGroups(ask, x) BY DEF SeesGroups, GroupsOf, ActionsOf
<1>4. SeesOwner(ask, x)
  BY TypesOfActions
  DEF SeesOwner, Family, OwnersOf, Creates, OWN_ATTR_BY_ACTION, Requesters, Senders, Uploaders, ActionsOf
<1> QED BY <1>2, <1>3, <1>4 DEF Sees, x

\* A retired task is revived: its retirement is left out.
LEMMA RevivingTaskSees ==
  ASSUME ItemTyped, NEW ask, ask.who \in User, ask.resolver = "reviving_task",
         ask.action = "task:revive"
  PROVE  Sees(ask)
<1> DEFINE x == Resource(ask)
<1>1. x = taskReviveResource(item) BY DEF Resource, resolveResource
<1> HIDE DEF x
<1> USE <1>1, GroupsAssumption DEF ItemTyped, Entity, Has, taskReviveResource, Groups, Maybe
<1>2. SeesState(ask, x) BY TypesOfActions DEF SeesState, OnRetired, Family, ActionsOf
<1>3. SeesGroups(ask, x) BY DEF SeesGroups, GroupsOf, ActionsOf
<1>4. SeesOwner(ask, x)
  BY TypesOfActions
  DEF SeesOwner, Family, OwnersOf, Creates, OWN_ATTR_BY_ACTION, Requesters, Senders, Uploaders, ActionsOf
<1> QED BY <1>2, <1>3, <1>4 DEF Sees, x

\* Most of a task's actions, claims among them.
LEMMA TaskSees ==
  ASSUME ItemTyped, NEW ask, ask.who \in User, ask.resolver = "task",
         ask.action \in {"task:update", "task:retire", "task:assign", "task:manage_claims", "task:change_requester",
                        "task:complete", "task:configure_request_template"}
  PROVE  Sees(ask)
<1> DEFINE x == Resource(ask)
<1>1. x = taskResource(item) BY DEF Resource, resolveResource
<1> HIDE DEF x
<1> USE <1>1, GroupsAssumption DEF ItemTyped, Entity, Has, taskResource, Groups, Maybe, Retired, Restricts
<1>2. SeesState(ask, x) BY TypesOfActions DEF SeesState, OnRetired, Family, ActionsOf
<1>3. SeesGroups(ask, x) BY DEF SeesGroups, GroupsOf, ActionsOf
<1>4. SeesOwner(ask, x)
  BY TypesOfActions
  DEF SeesOwner, Family, OwnersOf, Creates, OWN_ATTR_BY_ACTION, Requesters, Senders, Uploaders, ActionsOf
<1> QED BY <1>2, <1>3, <1>4 DEF Sees, x

\* Submitting is the claimant's own.
LEMMA SubmittedTaskSees ==
  ASSUME ItemTyped, NEW ask, ask.who \in User, ask.resolver = "submitted_task",
         ask.action = "task:submit"
  PROVE  Sees(ask)
<1> DEFINE x == Resource(ask)
<1>1. x = taskSubmitResource(item, ask.who) BY DEF Resource, resolveResource
<1> HIDE DEF x
<1> USE <1>1, GroupsAssumption DEF ItemTyped, Entity, Has, taskSubmitResource, Groups, Maybe, Retired
<1>2. SeesState(ask, x) BY TypesOfActions DEF SeesState, OnRetired, Family, ActionsOf
<1>3. SeesGroups(ask, x) BY DEF SeesGroups, GroupsOf, ActionsOf
<1>4. SeesOwner(ask, x)
  <2>1. ask.action \in DOMAIN OWN_ATTR_BY_ACTION => OWN_ATTR_BY_ACTION[ask.action] = "claimant"
    BY DEF OWN_ATTR_BY_ACTION, Requesters, Senders, Uploaders
  <2>2. Family(ask) = "Task" BY TypesOfActions DEF Family, ActionsOf
  <2>3. OwnersOf(ask) = item.claimants BY <2>2 DEF OwnersOf, Creates
  <2>4. Has(x, "claimant", ask.who) <=> ask.who \in item.claimants OBVIOUS
  <2> QED BY <2>1, <2>3, <2>4 DEF SeesOwner
<1> QED BY <1>2, <1>3, <1>4 DEF Sees, x

\* A review is of somebody's submission, on their task.
LEMMA SubmissionSees ==
  ASSUME ItemTyped, NEW ask, ask.who \in User, ask.resolver = "submission",
         ask.action \in {"task:review", "task:retire_submission"}
  PROVE  Sees(ask)
<1> DEFINE x == Resource(ask)
<1>1. x = submissionResource(item) BY DEF Resource, resolveResource
<1> HIDE DEF x
<1> USE <1>1, GroupsAssumption DEF ItemTyped, Entity, Has, submissionResource, Groups, Maybe, Retired
<1>2. SeesState(ask, x) BY TypesOfActions DEF SeesState, OnRetired, Family, ActionsOf
<1>3. SeesGroups(ask, x) BY DEF SeesGroups, GroupsOf, ActionsOf
<1>4. SeesOwner(ask, x)
  BY TypesOfActions
  DEF SeesOwner, Family, OwnersOf, Creates, OWN_ATTR_BY_ACTION, Requesters, Senders, Uploaders, ActionsOf
<1> QED BY <1>2, <1>3, <1>4 DEF Sees, x

\* A message to be is the actor's.
LEMMA NewMessageSees ==
  ASSUME ItemTyped, NEW ask, ask.who \in User, ask.resolver = "new_message",
         ask.action = "message:create"
  PROVE  Sees(ask)
<1> DEFINE x == Resource(ask)
<1>1. x = messageCreateResource(item, ask.who) BY DEF Resource, resolveResource
<1> HIDE DEF x
<1> USE <1>1, GroupsAssumption DEF ItemTyped, Entity, Has, messageCreateResource, Groups, Maybe
<1>2. SeesState(ask, x) BY TypesOfActions DEF SeesState, OnRetired, Family, ActionsOf
<1>3. SeesGroups(ask, x) BY DEF SeesGroups, GroupsOf, ActionsOf
<1>4. SeesOwner(ask, x)
  <2>1. ask.action \in DOMAIN OWN_ATTR_BY_ACTION => OWN_ATTR_BY_ACTION[ask.action] = "sender"
    BY DEF OWN_ATTR_BY_ACTION, Requesters, Senders, Uploaders
  <2>2. Family(ask) = "Message" BY TypesOfActions DEF Family, ActionsOf
  <2>3. OwnersOf(ask) = {ask.who} BY <2>2 DEF OwnersOf, Creates
  <2>4. Has(x, "sender", ask.who) <=> ask.who \in {ask.who} OBVIOUS
  <2> QED BY <2>1, <2>3, <2>4 DEF SeesOwner
<1> QED BY <1>2, <1>3, <1>4 DEF Sees, x

\* A message may have lost its sender.
LEMMA MessageSees ==
  ASSUME ItemTyped, NEW ask, ask.who \in User, ask.resolver = "message",
         ask.action \in {"message:update", "message:retire"}
  PROVE  Sees(ask)
<1> DEFINE x == Resource(ask)
<1>1. x = messageResource(item) BY DEF Resource, resolveResource
<1> HIDE DEF x
<1> USE <1>1, GroupsAssumption DEF ItemTyped, Entity, Has, messageResource, Groups, Maybe, Retired
<1>2. SeesState(ask, x) BY TypesOfActions DEF SeesState, OnRetired, Family, ActionsOf
<1>3. SeesGroups(ask, x) BY DEF SeesGroups, GroupsOf, ActionsOf
<1>4. SeesOwner(ask, x)
  <2>1. ask.action \in DOMAIN OWN_ATTR_BY_ACTION => OWN_ATTR_BY_ACTION[ask.action] = "sender"
    BY DEF OWN_ATTR_BY_ACTION, Requesters, Senders, Uploaders
  <2>2. Family(ask) = "Message" BY TypesOfActions DEF Family, ActionsOf
  <2>3. OwnersOf(ask) = {item.sender} BY <2>2 DEF OwnersOf, Creates
  <2>4. Has(x, "sender", ask.who) <=> ask.who \in {item.sender} OBVIOUS
  <2> QED BY <2>1, <2>3, <2>4 DEF SeesOwner
<1> QED BY <1>2, <1>3, <1>4 DEF Sees, x

\* A retired message is revived.
LEMMA RevivingMessageSees ==
  ASSUME ItemTyped, NEW ask, ask.who \in User, ask.resolver = "reviving_message",
         ask.action = "message:revive"
  PROVE  Sees(ask)
<1> DEFINE x == Resource(ask)
<1>1. x = messageReviveResource(item) BY DEF Resource, resolveResource
<1> HIDE DEF x
<1> USE <1>1, GroupsAssumption DEF ItemTyped, Entity, Has, messageReviveResource, Groups, Maybe
<1>2. SeesState(ask, x) BY TypesOfActions DEF SeesState, OnRetired, Family, ActionsOf
<1>3. SeesGroups(ask, x) BY DEF SeesGroups, GroupsOf, ActionsOf
<1>4. SeesOwner(ask, x)
  BY TypesOfActions
  DEF SeesOwner, Family, OwnersOf, Creates, OWN_ATTR_BY_ACTION, Requesters, Senders, Uploaders, ActionsOf
<1> QED BY <1>2, <1>3, <1>4 DEF Sees, x

\* An attachment to be is the actor's.
LEMMA NewAttachmentSees ==
  ASSUME ItemTyped, NEW ask, ask.who \in User, ask.resolver = "new_attachment",
         ask.action = "attachment:create"
  PROVE  Sees(ask)
<1> DEFINE x == Resource(ask)
<1>1. x = attachmentCreateResource(item, ask.who) BY DEF Resource, resolveResource
<1> HIDE DEF x
<1> USE <1>1, GroupsAssumption DEF ItemTyped, Entity, Has, attachmentCreateResource, Groups, Maybe
<1>2. SeesState(ask, x) BY TypesOfActions DEF SeesState, OnRetired, Family, ActionsOf
<1>3. SeesGroups(ask, x) BY DEF SeesGroups, GroupsOf, ActionsOf
<1>4. SeesOwner(ask, x)
  <2>1. ask.action \in DOMAIN OWN_ATTR_BY_ACTION => OWN_ATTR_BY_ACTION[ask.action] = "uploader"
    BY DEF OWN_ATTR_BY_ACTION, Requesters, Senders, Uploaders
  <2>2. Family(ask) = "Attachment" BY TypesOfActions DEF Family, ActionsOf
  <2>3. OwnersOf(ask) = {ask.who} BY <2>2 DEF OwnersOf, Creates
  <2>4. Has(x, "uploader", ask.who) <=> ask.who \in {ask.who} OBVIOUS
  <2> QED BY <2>1, <2>3, <2>4 DEF SeesOwner
<1> QED BY <1>2, <1>3, <1>4 DEF Sees, x

\* An attachment is its uploader's.
LEMMA AttachmentSees ==
  ASSUME ItemTyped, NEW ask, ask.who \in User, ask.resolver = "attachment",
         ask.action = "attachment:retire"
  PROVE  Sees(ask)
<1> DEFINE x == Resource(ask)
<1>1. x = attachmentResource(item) BY DEF Resource, resolveResource
<1> HIDE DEF x
<1> USE <1>1, GroupsAssumption DEF ItemTyped, Entity, Has, attachmentResource, Groups, Maybe, Retired
<1>2. SeesState(ask, x) BY TypesOfActions DEF SeesState, OnRetired, Family, ActionsOf
<1>3. SeesGroups(ask, x) BY DEF SeesGroups, GroupsOf, ActionsOf
<1>4. SeesOwner(ask, x)
  BY TypesOfActions
  DEF SeesOwner, Family, OwnersOf, Creates, OWN_ATTR_BY_ACTION, Requesters, Senders, Uploaders, ActionsOf
<1> QED BY <1>2, <1>3, <1>4 DEF Sees, x

\* A retired attachment is revived.
LEMMA RevivingAttachmentSees ==
  ASSUME ItemTyped, NEW ask, ask.who \in User, ask.resolver = "reviving_attachment",
         ask.action = "attachment:revive"
  PROVE  Sees(ask)
<1> DEFINE x == Resource(ask)
<1>1. x = attachmentReviveResource(item) BY DEF Resource, resolveResource
<1> HIDE DEF x
<1> USE <1>1, GroupsAssumption DEF ItemTyped, Entity, Has, attachmentReviveResource, Groups, Maybe
<1>2. SeesState(ask, x) BY TypesOfActions DEF SeesState, OnRetired, Family, ActionsOf
<1>3. SeesGroups(ask, x) BY DEF SeesGroups, GroupsOf, ActionsOf
<1>4. SeesOwner(ask, x)
  BY TypesOfActions
  DEF SeesOwner, Family, OwnersOf, Creates, OWN_ATTR_BY_ACTION, Requesters, Senders, Uploaders, ActionsOf
<1> QED BY <1>2, <1>3, <1>4 DEF Sees, x

\* A user is in no group: the role scope and the user's own profile are what is left.
LEMMA UserSees ==
  ASSUME ItemTyped, NEW ask, ask.who \in User, ask.resolver = "user",
         ask.action \in {"user:update", "user:deactivate", "user:reactivate", "user:retire"}
  PROVE  Sees(ask)
<1> DEFINE x == Resource(ask)
<1>1. x = targetUser(item, ask.user) BY DEF Resource, resolveResource
<1> HIDE DEF x
<1> USE <1>1, GroupsAssumption DEF ItemTyped, Entity, Has, targetUser
<1>2. SeesState(ask, x) BY TypesOfActions DEF SeesState, OnRetired, Family, ActionsOf
<1>3. SeesGroups(ask, x) BY DEF SeesGroups, GroupsOf, ActionsOf
<1>4. SeesOwner(ask, x)
  BY TypesOfActions
  DEF SeesOwner, Family, OwnersOf, Creates, OWN_ATTR_BY_ACTION, Requesters, Senders, Uploaders, ActionsOf
<1> QED BY <1>2, <1>3, <1>4 DEF Sees, x

\* A retired user is revived.
LEMMA RevivingUserSees ==
  ASSUME ItemTyped, NEW ask, ask.who \in User, ask.resolver = "reviving_user",
         ask.action = "user:revive"
  PROVE  Sees(ask)
<1> DEFINE x == Resource(ask)
<1>1. x = reviveUser(ask.user) BY DEF Resource, resolveResource
<1> HIDE DEF x
<1> USE <1>1, GroupsAssumption DEF ItemTyped, Entity, Has, reviveUser
<1>2. SeesState(ask, x) BY TypesOfActions DEF SeesState, OnRetired, Family, ActionsOf
<1>3. SeesGroups(ask, x) BY DEF SeesGroups, GroupsOf, ActionsOf
<1>4. SeesOwner(ask, x)
  BY TypesOfActions
  DEF SeesOwner, Family, OwnersOf, Creates, OWN_ATTR_BY_ACTION, Requesters, Senders, Uploaders, ActionsOf
<1> QED BY <1>2, <1>3, <1>4 DEF Sees, x

\* A change of roles is about the role too.
LEMMA UserWithRoleSees ==
  ASSUME ItemTyped, NEW ask, ask.who \in User, ask.resolver = "user_with_role",
         ask.action \in {"user:grant_role", "user:revoke_role"}
  PROVE  Sees(ask)
<1> DEFINE x == Resource(ask)
<1>1. x = userWithTargetRole(ask.user, ask.role) BY DEF Resource, resolveResource
<1> HIDE DEF x
<1> USE <1>1, GroupsAssumption DEF ItemTyped, Entity, Has, userWithTargetRole
<1>2. SeesState(ask, x) BY TypesOfActions DEF SeesState, OnRetired, Family, ActionsOf
<1>3. SeesGroups(ask, x) BY DEF SeesGroups, GroupsOf, ActionsOf
<1>4. SeesOwner(ask, x)
  BY TypesOfActions
  DEF SeesOwner, Family, OwnersOf, Creates, OWN_ATTR_BY_ACTION, Requesters, Senders, Uploaders, ActionsOf
<1> QED BY <1>2, <1>3, <1>4 DEF Sees, x

\* An invitation has no scope but the global one.
LEMMA InvitationSees ==
  ASSUME ItemTyped, NEW ask, ask.who \in User, ask.resolver = "invitation",
         ask.action = "invite:retire"
  PROVE  Sees(ask)
<1> DEFINE x == Resource(ask)
<1>1. x = invitationResource BY DEF Resource, resolveResource
<1> HIDE DEF x
<1> USE <1>1, GroupsAssumption DEF ItemTyped, Entity, Has, invitationResource
<1>2. SeesState(ask, x) BY TypesOfActions DEF SeesState, OnRetired, Family, ActionsOf
<1>3. SeesGroups(ask, x) BY DEF SeesGroups, GroupsOf, ActionsOf
<1>4. SeesOwner(ask, x)
  BY TypesOfActions
  DEF SeesOwner, Family, OwnersOf, Creates, OWN_ATTR_BY_ACTION, Requesters, Senders, Uploaders, ActionsOf
<1> QED BY <1>2, <1>3, <1>4 DEF Sees, x

\* Every resolver does.
LEMMA AllSees ==
  ASSUME ItemTyped, NEW ask, Asking(ask)
  PROVE  Sees(ask)
<1>1. Routed(ask.action, ask.resolver) BY RoutesAreRouted DEF Asking
<1>2. ask.who \in User BY DEF Asking
<1> QED
  BY <1>1, <1>2, OrganizationSees, DivisionSees, NewTaskSees, RevivingTaskSees, TaskSees, SubmittedTaskSees,
     SubmissionSees, NewMessageSees, MessageSees, RevivingMessageSees, NewAttachmentSees, AttachmentSees,
     RevivingAttachmentSees, UserSees, RevivingUserSees, UserWithRoleSees, InvitationSees
  DEF Routed

\* The groups of the principal are those the actor is a member of.
LEMMA PrincipalIs ==
  ASSUME NEW ask
  PROVE  /\ Principal(ask).user = ask.who
         /\ Principal(ask).roles = memberOf[ask.who] \cap liveRoles
         /\ Principal(ask).memberDivisions = {d \in Division : Member(ask.who, d)}
         /\ Principal(ask).memberTeams = {t \in Team : Member(ask.who, t)}
BY DEF Principal, buildPrincipalEntities, Member

\* Who may take a claim: both groups restrict it, or neither is asked.
LEMMA ClaimsAgree ==
  ASSUME ItemTyped, NEW ask, Sees(ask), ask.action = "task:assign"
  PROVE  ClaimEligible(Principal(ask), Resource(ask))
           <=> \A group \in GroupsOf(ask) \cap item.restricts : Member(ask.who, group)
<1> DEFINE x == Resource(ask)
<1>1. HasOf(x, "division", Principal(ask).memberDivisions) <=> Member(ask.who, item.division)
  BY PrincipalIs, GroupsAssumption DEF Sees, SeesGroups, HasOf, ItemTyped
<1>2. item.team # None => (HasOf(x, "team", Principal(ask).memberTeams) <=> Member(ask.who, item.team))
  BY PrincipalIs, GroupsAssumption DEF Sees, SeesGroups, HasOf, ItemTyped
<1>3. item.team = None => item.team \notin item.restricts BY GroupsAssumption DEF ItemTyped
<1>4. /\ Has(x, "divisionRestrictsClaims", TRUE) <=> item.division \in item.restricts
      /\ Has(x, "teamRestrictsClaims", TRUE) <=> item.team \in item.restricts
      /\ GroupsOf(ask) = {item.division, item.team} \ {None}
  BY DEF Sees, SeesGroups
<1>5. item.division # None BY GroupsAssumption DEF ItemTyped
<1> QED BY <1>1, <1>2, <1>3, <1>4, <1>5 DEF ClaimEligible

\* A scope is met where the grant covers the request.
LEMMA ScopesAgree ==
  ASSUME ItemTyped, NEW ask, Sees(ask), NEW g, g.kind \in Kind, assertShape(g), Projectable(g),
         g.action = ask.action
  PROVE  scopeCondition(g, Principal(ask), Resource(ask)) <=> Covers(g, ask)
<1> DEFINE p == Principal(ask)
           x == Resource(ask)
<1>0. SeesGroups(ask, x) /\ SeesOwner(ask, x) BY DEF Sees
<1>1. CASE g.kind = "global" BY <1>1 DEF scopeCondition, Covers
<1>2. CASE g.kind = "specific_division"
  <2>1. g.on \in Division BY <1>2 DEF assertShape
  <2> QED BY <1>0, <1>2, <2>1 DEF scopeCondition, Covers, SeesGroups
<1>3. CASE g.kind = "specific_team"
  <2>1. g.on \in Team BY <1>3 DEF assertShape
  <2> QED BY <1>0, <1>3, <2>1 DEF scopeCondition, Covers, SeesGroups
<1>4. CASE g.kind = "own_division"
  BY <1>0, <1>4, PrincipalIs DEF scopeCondition, Covers, SeesGroups, HasOf
<1>5. CASE g.kind = "own_team"
  BY <1>0, <1>5, PrincipalIs DEF scopeCondition, Covers, SeesGroups, HasOf
<1>6. CASE g.kind = "role" BY <1>0, <1>6 DEF scopeCondition, Covers, SeesGroups
<1>7. CASE g.kind = "own" /\ g.action = "task:assign"
  BY <1>7, ClaimsAgree DEF scopeCondition, Covers
<1>8. CASE g.kind = "own" /\ g.action # "task:assign"
  <2>1. g.action \in DOMAIN OWN_ATTR_BY_ACTION BY <1>8 DEF Projectable
  <2>2. scopeCondition(g, p, x) <=> Has(x, OWN_ATTR_BY_ACTION[g.action], p.user)
    BY <1>8 DEF scopeCondition
  <2>3. Covers(g, ask) <=> ask.who \in OwnersOf(ask) BY <1>8 DEF Covers
  <2> QED BY <1>0, <2>1, <2>2, <2>3, PrincipalIs DEF SeesOwner
<1> QED BY <1>1, <1>2, <1>3, <1>4, <1>5, <1>6, <1>7, <1>8 DEF Kind

-----------------------------------------------------------------------------
(* The guard of a route: grants *)

(***************************************************************************)
(* A row is written in two ways: whole, or merged with a row read earlier. *)
(* What an open update is about to write, and what it writes it over, have *)
(* to stand for GrantsProject to be inductive.                             *)
(***************************************************************************)
RowStands(g) ==
  /\ DOMAIN g = {"role", "action", "effect", "kind", "on", "state"}
  /\ g.effect \in {"permit", "forbid"} /\ g.kind \in Kind
  /\ assertShape(g) /\ Projectable(g)

GrantsStand ==
  /\ DOMAIN grants = Grant
  /\ \A i \in Grant : grants[i] # None => RowStands(grants[i])
  /\ editing # None =>
       editing.id \in Grant /\ RowStands(grants[editing.id]) /\ RowStands(editing.row)

\* A row as create writes it.
LEMMA OfferedStands ==
  ASSUME NEW row \in Offered, assertShape(row), Projectable(row)
  PROVE  RowStands(row)
BY OfferedAssumption DEF RowStands, GrantRow, ColumnType

\* A row as an update means it.
LEMMA MergedTyped ==
  ASSUME NEW row, RowStands(row), NEW dto \in Edits, assertShape(Merged(row, dto)), Projectable(Merged(row, dto))
  PROVE  RowStands(Merged(row, dto))
<1> DEFINE m == Merged(row, dto)
<1>1. DOMAIN m = DOMAIN row BY DEF Merged
<1>2. m.effect \in {"permit", "forbid"}
  <2>1. "effect" \in DOMAIN row BY DEF RowStands
  <2>2. m.effect = dto["effect"] \/ m.effect = row["effect"] BY <2>1 DEF Merged
  <2>3. "effect" \in DOMAIN dto => dto["effect"] \in {"permit", "forbid"} BY EditsAssumption DEF ColumnType
  <2> QED BY <2>1, <2>2, <2>3 DEF RowStands, Merged
<1>3. m.kind \in Kind
  <2>1. "kind" \in DOMAIN row BY DEF RowStands
  <2>2. m["kind"] = IF "kind" \in DOMAIN dto THEN dto["kind"] ELSE row["kind"] BY <2>1 DEF Merged
  <2>3. "kind" \in DOMAIN dto => dto["kind"] \in Kind BY EditsAssumption DEF ColumnType
  <2> QED BY <2>2, <2>3 DEF RowStands
<1> QED BY <1>1, <1>2, <1>3 DEF RowStands

\* A row as an update writes it, over whatever row is there.
LEMMA WrittenStands ==
  ASSUME NEW old, NEW edit, RowStands(old), RowStands(edit.row)
  PROVE  RowStands(Written(old, edit))
<1> DEFINE w == Written(old, edit)
<1>1. Column = {"action", "effect", "kind", "on"} BY DEF Column, ColumnType
<1>2. DOMAIN w = DOMAIN old BY DEF Written
<1>3. /\ w.action = edit.row.action /\ w.effect = edit.row.effect
      /\ w.kind = edit.row.kind /\ w.on = edit.row.on
  BY <1>1 DEF Written, RowStands
<1>4. assertShape(w) <=> assertShape(edit.row) BY <1>3 DEF assertShape
<1>5. Projectable(w) <=> Projectable(edit.row) BY <1>3 DEF Projectable
<1> QED BY <1>2, <1>3, <1>4, <1>5 DEF RowStands

\* A retired or revived row.
LEMMA StateStands ==
  ASSUME NEW row, RowStands(row), NEW state
  PROVE  RowStands([row EXCEPT !.state = state])
<1> DEFINE w == [row EXCEPT !.state = state]
<1>1. DOMAIN w = DOMAIN row OBVIOUS
<1>2. w.action = row.action /\ w.effect = row.effect /\ w.kind = row.kind /\ w.on = row.on
  BY DEF RowStands
<1>4. assertShape(w) <=> assertShape(row) BY <1>2 DEF assertShape
<1>5. Projectable(w) <=> Projectable(row) BY <1>2 DEF Projectable
<1> QED BY <1>1, <1>2, <1>4, <1>5 DEF RowStands

\* One row is replaced by another that stands.
LEMMA RowWritten ==
  ASSUME GrantsStand, NEW i \in Grant, NEW row, RowStands(row), grants' = [grants EXCEPT ![i] = row],
         editing' = editing \/ editing' = None
  PROVE  GrantsStand'
<1>1. DOMAIN grants' = Grant /\ grants'[i] = row /\ \A j \in Grant \ {i} : grants'[j] = grants[j]
  BY DEF GrantsStand
<1>2. ASSUME NEW j \in Grant, grants'[j] # None PROVE RowStands(grants'[j])
  BY <1>1, <1>2 DEF GrantsStand
<1>3. ASSUME editing' # None
      PROVE  editing'.id \in Grant /\ RowStands(grants'[editing'.id]) /\ RowStands(editing'.row)
  BY <1>1, <1>3 DEF GrantsStand
<1> QED BY <1>1, <1>2, <1>3 DEF GrantsStand

\* The invariant of the grants holds to begin with.
LEMMA GrantsInit == Init => GrantsStand
<1> SUFFICES ASSUME Init PROVE GrantsStand OBVIOUS
<1>1. ASSUME NEW i \in Grant, grants[i] # None PROVE RowStands(grants[i])
  <2>1. grants[i] \in GrantRow /\ assertShape(grants[i]) /\ Projectable(grants[i])
    BY <1>1, TablesAssumption DEF Init
  <2> QED BY <2>1 DEF RowStands, GrantRow, ColumnType
<1> QED BY <1>1, TablesAssumption DEF Init, GrantsStand

\* Every step keeps it.
LEMMA GrantsKept ==
  ASSUME GrantsStand, [Next]_vars
  PROVE  GrantsStand'
<1>1. CASE UNCHANGED <<grants, editing>> BY <1>1 DEF GrantsStand
<1>2. ASSUME NEW i \in Grant, create(i) PROVE GrantsStand'
  <2>1. PICK row \in Offered : assertShape(row) /\ validateActivation(row, i) /\ ChangeGrant(i, row)
    BY <1>2 DEF create
  <2>2. RowStands(row) BY <2>1, OfferedStands DEF validateActivation
  <2> QED BY <1>2, <2>1, <2>2, RowWritten DEF create, ChangeGrant
<1>3. ASSUME NEW i \in Grant, BeginUpdate(i) PROVE GrantsStand'
  <2>1. PICK dto \in Edits :
          /\ assertShape(Merged(grants[i], dto)) /\ validateActivation(Merged(grants[i], dto), i)
          /\ editing' = [id |-> i, dto |-> dto, row |-> Merged(grants[i], dto)]
    BY <1>3 DEF BeginUpdate
  <2>2. RowStands(grants[i]) BY <1>3 DEF BeginUpdate, GrantsStand
  <2>3. RowStands(Merged(grants[i], dto)) BY <2>1, <2>2, MergedTyped DEF validateActivation
  <2>4. editing'.id = i /\ editing'.row = Merged(grants[i], dto) BY <2>1
  <2> QED BY <1>3, <2>2, <2>3, <2>4 DEF BeginUpdate, GrantsStand
<1>4. ASSUME Update PROVE GrantsStand'
  <2> DEFINE row == Written(grants[editing.id], editing)
  <2>1. editing.id \in Grant /\ RowStands(grants[editing.id]) /\ RowStands(editing.row)
    BY <1>4 DEF Update, GrantsStand
  <2>2. RowStands(row) BY <2>1, WrittenStands
  <2>3. grants' = [grants EXCEPT ![editing.id] = row] /\ editing' = None BY <1>4 DEF Update, ChangeGrant
  <2> HIDE DEF row
  <2> QED BY <2>1, <2>2, <2>3, RowWritten
<1>5. ASSUME NEW i \in Grant, UpdateAtOnce(i) PROVE GrantsStand'
  <2>1. PICK dto \in Edits :
          /\ assertShape(Merged(grants[i], dto)) /\ validateActivation(Merged(grants[i], dto), i)
          /\ ChangeGrant(i, Written(grants[i], [dto |-> dto, row |-> Merged(grants[i], dto)]))
    BY <1>5 DEF UpdateAtOnce
  <2>2. RowStands(grants[i]) BY <1>5 DEF UpdateAtOnce, GrantsStand
  <2>3. RowStands(Merged(grants[i], dto)) BY <2>1, <2>2, MergedTyped DEF validateActivation
  <2> DEFINE edit == [dto |-> dto, row |-> Merged(grants[i], dto)]
  <2>4. edit.row = Merged(grants[i], dto) OBVIOUS
  <2>5. grants' = [grants EXCEPT ![i] = Written(grants[i], edit)] BY <2>1 DEF ChangeGrant
  <2>6. editing' = editing BY <1>5 DEF UpdateAtOnce
  <2> HIDE DEF edit
  <2>7. RowStands(Written(grants[i], edit)) BY <2>2, <2>3, <2>4, WrittenStands
  <2> QED BY <2>5, <2>6, <2>7, RowWritten
<1>6. ASSUME UpdateRefused PROVE GrantsStand' BY <1>6 DEF UpdateRefused, GrantsStand
<1>7. ASSUME NEW i \in Grant, RetireGrant(i) PROVE GrantsStand'
  <2>1. RowStands(grants[i]) BY <1>7 DEF RetireGrant, GrantsStand
  <2>2. RowStands([grants[i] EXCEPT !.state = "retired"]) BY <2>1, StateStands
  <2> QED BY <1>7, <2>2, RowWritten DEF RetireGrant, ChangeGrant
<1>8. ASSUME NEW i \in Grant, ReviveGrant(i) PROVE GrantsStand'
  <2>1. RowStands(grants[i]) BY <1>8 DEF ReviveGrant, GrantsStand
  <2>2. RowStands([grants[i] EXCEPT !.state = "active"]) BY <2>1, StateStands
  <2> QED BY <1>8, <2>2, RowWritten DEF ReviveGrant, ChangeGrant
<1>9. CASE Guard
  <2>1. UNCHANGED world BY <1>9 DEF Guard, ReadResource, ReadPolicies, Decide, reauthorizeRoleScope
  <2> QED BY <1>1, <2>1 DEF world
<1>10. CASE RetireTask \/ ReviveTask \/ RetireMessage \/ ReviveMessage \/ RetireAttachment \/ ReviveAttachment
            \/ RetireUser \/ ReviveUser \/ changeRequester \/ Claim \/ Leave \/ UpdateDivision \/ UpdateTeam
  BY <1>1, <1>10
  DEF RetireTask, ReviveTask, RetireMessage, ReviveMessage, RetireAttachment, ReviveAttachment, RetireUser, ReviveUser,
      changeRequester, Claim, Leave, UpdateDivision, UpdateTeam, RetireItem, ReviveItem, FlipRestricts, ChangeItem
<1>11. CASE RetireDivision \/ ReviveDivision \/ RetireTeam \/ ReviveTeam \/ grantRole \/ revokeRole
            \/ RetireRole \/ ReviveRole \/ updateSettings
  BY <1>1, <1>11
  DEF RetireDivision, ReviveDivision, RetireTeam, ReviveTeam, grantRole, revokeRole, RetireRole, ReviveRole,
      updateSettings, SetDivision, SetRoles, ChangeRoles
<1>12. CASE UNCHANGED vars BY <1>1, <1>12 DEF vars, world
<1> QED
  BY <1>2, <1>3, <1>4, <1>5, <1>6, <1>7, <1>8, <1>9, <1>10, <1>11, <1>12 DEF Next, Organization

\* No history of edits leaves a grant that breaks the projection of all of them.
THEOREM GrantsAlwaysProject == Spec => []GrantsProject
<1>1. GrantsStand => GrantsProject BY DEF GrantsStand, GrantsProject, RowStands
<1> QED BY <1>1, GrantsInit, GrantsKept, PTL DEF Spec

-----------------------------------------------------------------------------
(* The guard of a route: its answer *)

(***************************************************************************)
(* DecisionIsJust is not inductive either: it speaks of the answer alone.  *)
(* While the request is in flight, what was read is tied to what moved     *)
(* since: an unmoved resource is the one that would be built now, unmoved  *)
(* policies those that would be projected now.  Where only the resource    *)
(* moved, deciding on the old one with the policies of now gives an answer *)
(* that was right at some moment; where only the policies moved, so do the *)
(* policies read.  Roles are read with the answer itself.                  *)
(***************************************************************************)
ItemStands == item \in ItemRow /\ selfReviewAllowed \in BOOLEAN

DecisionOn(policies) == authorize(policies, Principal(request.ask), request.ask.action, request.x)

RequestStands ==
  /\ moved \subseteq {"resource", "policies", "roles"}
  /\ Asked =>
       /\ Asking(request.ask)
       /\ Just(request.ask) \in could
       /\ "resource" \notin moved => request.x = Resource(request.ask)
       /\ moved \subseteq {"resource"} => DecisionOn(projectPolicies) \in could
  /\ request.at = "policies_read" =>
       /\ "policies" \notin moved => request.policies = projectPolicies
       /\ moved \subseteq {"policies"} => decide \in could

\* The item's type gives what the lemmas above use of it.
LEMMA ItemIsTyped == ItemStands => ItemTyped
BY DEF ItemStands, ItemTyped, ItemRow

\* The decision on what is there now is the right answer now.
LEMMA Agrees ==
  ASSUME GrantsStand, ItemStands, NEW ask, Asking(ask)
  PROVE  authorize(projectPolicies, Principal(ask), ask.action, Resource(ask)) = Just(ask)
<1> DEFINE p == Principal(ask)
           x == Resource(ask)
           a == ask.action
           G == projectPolicies.grants
<1>1. ItemTyped /\ Sees(ask) BY ItemIsTyped, AllSees
<1>2. ASSUME NEW g \in Rows
      PROVE  /\ g.effect \in {"permit", "forbid"}
             /\ g.action = a => (scopeCondition(g, p, x) <=> Covers(g, ask))
  <2>1. RowStands(g) BY DEF Rows, GrantsStand
  <2> QED BY <1>1, <2>1, ScopesAgree DEF RowStands
<1>3. /\ G = {g \in Rows : g.state = "active" /\ g.role \in liveRoles}
      /\ projectPolicies.selfReviewAllowed = selfReviewAllowed
  BY DEF projectPolicies
<1>4. \A effect : (\E g \in G : grantToPolicy(g, effect, p, a, x)) <=> \E g \in Speaking(ask) : g.effect = effect
  <2> SUFFICES ASSUME NEW effect
               PROVE  (\E g \in G : grantToPolicy(g, effect, p, a, x)) <=> \E g \in Speaking(ask) : g.effect = effect
    OBVIOUS
  <2>1. ASSUME NEW g \in G, grantToPolicy(g, effect, p, a, x) PROVE g \in Speaking(ask) /\ g.effect = effect
    BY <1>2, <1>3, <2>1, PrincipalIs DEF grantToPolicy, Speaking
  <2>2. ASSUME NEW g \in Speaking(ask), g.effect = effect PROVE g \in G /\ grantToPolicy(g, effect, p, a, x)
    BY <1>2, <1>3, <2>2, PrincipalIs DEF grantToPolicy, Speaking
  <2> QED BY <2>1, <2>2
<1>5. staticForbids(projectPolicies.selfReviewAllowed, p, a, x)
        <=> OnRetired(ask) \/ (a = "task:review" /\ ask.who = item.author /\ ~selfReviewAllowed)
  BY <1>1, <1>3, PrincipalIs DEF staticForbids, Sees, SeesState
<1>6. staticPermits(p, a, x) <=> ask.resolver = "user" /\ a = "user:update" /\ ask.user = ask.who
  BY <1>1, PrincipalIs DEF staticPermits, Sees, SeesState
<1>7. (\A g \in Speaking(ask) : g.effect = "permit") <=> ~\E g \in Speaking(ask) : g.effect = "forbid"
  BY <1>2 DEF Speaking
<1>8. (~\E g \in Speaking(ask) : g.effect = "forbid") =>
        (Speaking(ask) # {} <=> \E g \in Speaking(ask) : g.effect = "permit")
  BY <1>7
<1>9. authorize(projectPolicies, p, a, x) <=>
        /\ ~staticForbids(projectPolicies.selfReviewAllowed, p, a, x)
        /\ ~\E g \in Speaking(ask) : g.effect = "forbid"
        /\ staticPermits(p, a, x) \/ \E g \in Speaking(ask) : g.effect = "permit"
  BY <1>4 DEF authorize
<1>10. authorize(projectPolicies, p, a, x) <=> Just(ask)
  BY <1>5, <1>6, <1>7, <1>8, <1>9 DEF Just
<1> QED BY <1>10 DEF authorize, Just

\* The item has its type to begin with.
LEMMA ItemInit == Init => ItemStands
BY ItemAssumption DEF Init, ItemStands

\* Retiring and reviving keeps the type of the item.
LEMMA RetiredStands ==
  ASSUME NEW at \in ItemRow, NEW r, r \subseteq {"Task", "Message", "Attachment", "Division"} \cup User
  PROVE  [at EXCEPT !.retired = r] \in ItemRow
BY DEF ItemRow

\* Every step keeps it.
LEMMA ItemKept ==
  ASSUME ItemStands, [Next]_vars
  PROVE  ItemStands'
<1> DEFINE Thing == {"Task", "Message", "Attachment", "Division"} \cup User
<1>0. item \in ItemRow /\ item.retired \subseteq Thing BY DEF ItemStands, ItemRow
<1>1. CASE UNCHANGED <<item, selfReviewAllowed>> BY <1>1 DEF ItemStands
<1>2. ASSUME NEW thing \in Thing, RetireItem(thing) PROVE ItemStands'
  <2>1. item' = [item EXCEPT !.retired = @ \cup {thing}] /\ selfReviewAllowed' = selfReviewAllowed
    BY <1>2 DEF RetireItem, ChangeItem
  <2> QED BY <1>0, <2>1, RetiredStands DEF ItemStands
<1>3. ASSUME NEW thing \in Thing, ReviveItem(thing) PROVE ItemStands'
  <2>1. item' = [item EXCEPT !.retired = @ \ {thing}] /\ selfReviewAllowed' = selfReviewAllowed
    BY <1>3 DEF ReviveItem, ChangeItem
  <2> QED BY <1>0, <2>1, RetiredStands DEF ItemStands
<1>4. CASE changeRequester BY <1>4 DEF changeRequester, ChangeItem, ItemStands, ItemRow
<1>5. CASE Claim BY <1>5 DEF Claim, ChangeItem, ItemStands, ItemRow
<1>6. CASE Leave BY <1>6 DEF Leave, ChangeItem, ItemStands, ItemRow
<1>7. CASE UpdateDivision BY <1>7 DEF UpdateDivision, FlipRestricts, ChangeItem, ItemStands, ItemRow
<1>8. CASE UpdateTeam BY <1>8 DEF UpdateTeam, FlipRestricts, ChangeItem, ItemStands, ItemRow
<1>9. CASE RetireDivision \/ ReviveDivision
  <2>1. PICK r \in SUBSET Thing : item' = [item EXCEPT !.retired = r] /\ selfReviewAllowed' = selfReviewAllowed
    BY <1>0, <1>9 DEF RetireDivision, ReviveDivision, SetDivision
  <2> QED BY <1>0, <2>1, RetiredStands DEF ItemStands
<1>10. CASE updateSettings BY <1>10 DEF updateSettings, ItemStands
<1>11. CASE RetireTeam \/ ReviveTeam \/ grantRole \/ revokeRole \/ RetireRole \/ ReviveRole
  BY <1>1, <1>11
  DEF RetireTeam, ReviveTeam, grantRole, revokeRole, RetireRole, ReviveRole, SetRoles, ChangeRoles
<1>12. CASE \E i \in Grant : create(i) \/ BeginUpdate(i) \/ UpdateAtOnce(i) \/ RetireGrant(i) \/ ReviveGrant(i)
  BY <1>1, <1>12 DEF create, BeginUpdate, UpdateAtOnce, RetireGrant, ReviveGrant, ChangeGrant
<1>13. CASE Update \/ UpdateRefused BY <1>1, <1>13 DEF Update, UpdateRefused, ChangeGrant
<1>14. CASE Guard
  <2>1. UNCHANGED world BY <1>14 DEF Guard, ReadResource, ReadPolicies, Decide, reauthorizeRoleScope
  <2> QED BY <1>1, <2>1 DEF world
<1>15. CASE UNCHANGED vars BY <1>1, <1>15 DEF vars, world
<1>16. CASE RetireTask \/ RetireMessage \/ RetireAttachment \/ RetireUser
  BY <1>2, <1>16 DEF RetireTask, RetireMessage, RetireAttachment, RetireUser
<1>17. CASE ReviveTask \/ ReviveMessage \/ ReviveAttachment \/ ReviveUser
  BY <1>3, <1>17 DEF ReviveTask, ReviveMessage, ReviveAttachment, ReviveUser
<1> QED
  BY <1>4, <1>5, <1>6, <1>7, <1>8, <1>9, <1>10, <1>11, <1>12, <1>13, <1>14, <1>15, <1>16, <1>17
  DEF Next, Organization

Part == {"resource", "policies", "roles"}

\* A step that changes the parts of what the guard reads, and no more.
Moves(parts) ==
  /\ request.at # "answered" /\ request' = request
  /\ moved' = IF Asked THEN moved \cup parts ELSE moved
  /\ "resource" \notin parts => item' = item
  /\ "policies" \notin parts =>
       grants' = grants /\ liveRoles' = liveRoles /\ selfReviewAllowed' = selfReviewAllowed
  /\ "roles" \notin parts => memberOf' = memberOf /\ liveRoles' = liveRoles

\* A change of the item moves the resource.
LEMMA ItemMoves ==
  ASSUME NEW new, ChangeItem(new)
  PROVE  Moves({"resource"})
BY DEF ChangeItem, Change, Moves

\* Every change of the organization moves some parts, and only those.
LEMMA OrganizationMoves ==
  ASSUME Organization
  PROVE  \E parts \in SUBSET Part : Moves(parts)
<1>1. CASE RetireTask \/ ReviveTask \/ RetireMessage \/ ReviveMessage \/ RetireAttachment \/ ReviveAttachment
           \/ RetireUser \/ ReviveUser
  <2>1. PICK thing : RetireItem(thing) \/ ReviveItem(thing)
    BY <1>1 DEF RetireTask, ReviveTask, RetireMessage, ReviveMessage, RetireAttachment, ReviveAttachment,
                RetireUser, ReviveUser
  <2>2. \E new : ChangeItem(new) BY <2>1 DEF RetireItem, ReviveItem
  <2> QED BY <2>2, ItemMoves DEF Part
<1>2. CASE changeRequester \/ Claim \/ Leave \/ UpdateDivision \/ UpdateTeam
  <2>1. \E new : ChangeItem(new)
    BY <1>2 DEF changeRequester, Claim, Leave, UpdateDivision, UpdateTeam, FlipRestricts
  <2> QED BY <2>1, ItemMoves DEF Part
<1>3. CASE RetireDivision \/ ReviveDivision
  <2>1. Moves({"resource", "policies", "roles"})
    BY <1>3 DEF RetireDivision, ReviveDivision, SetDivision, Change, Moves
  <2> QED BY <2>1 DEF Part
<1>4. CASE RetireTeam \/ ReviveTeam \/ RetireRole \/ ReviveRole
  <2>1. Moves({"policies", "roles"})
    BY <1>4 DEF RetireTeam, ReviveTeam, RetireRole, ReviveRole, SetRoles, ChangeRoles, Change, Moves
  <2> QED BY <2>1 DEF Part
<1>5. CASE grantRole \/ revokeRole
  <2>1. Moves({"roles"}) BY <1>5 DEF grantRole, revokeRole, ChangeRoles, Change, Moves
  <2> QED BY <2>1 DEF Part
<1>6. CASE updateSettings
  <2>1. Moves({"policies"}) BY <1>6 DEF updateSettings, Change, Moves
  <2> QED BY <2>1 DEF Part
<1>7. ASSUME NEW i, NEW row, ChangeGrant(i, row) PROVE Moves({"policies"})
  BY <1>7 DEF ChangeGrant, Change, Moves
<1>8. CASE Update \/ \E i \in Grant : create(i) \/ UpdateAtOnce(i) \/ RetireGrant(i) \/ ReviveGrant(i)
  <2>1. \E i, row : ChangeGrant(i, row) BY <1>8 DEF Update, create, UpdateAtOnce, RetireGrant, ReviveGrant
  <2> QED BY <1>7, <2>1 DEF Part
<1>9. CASE UpdateRefused \/ \E i \in Grant : BeginUpdate(i)
  <2>1. Moves({}) BY <1>9 DEF UpdateRefused, BeginUpdate, Moves
  <2> QED BY <2>1
<1> QED BY <1>1, <1>2, <1>3, <1>4, <1>5, <1>6, <1>8, <1>9 DEF Organization

\* No request has been made yet.
LEMMA RequestInit == Init => RequestStands /\ DecisionIsJust
BY DEF Init, RequestStands, DecisionIsJust, Idle, Asked

\* Two sets in a singleton.
LEMMA OnlyOne ==
  ASSUME NEW S, NEW T, NEW e, S \cup T \subseteq {e}
  PROVE  S \subseteq {e} /\ \A d \in T : d = e
OBVIOUS

\* A change under the request.
LEMMA MovedKept ==
  ASSUME RequestStands, History, NEW parts \in SUBSET Part, Moves(parts)
  PROVE  RequestStands' /\ DecisionIsJust'
<1> DEFINE ask == request.ask
<1>0. request' = request /\ (Asked' <=> Asked) BY DEF Moves, Asked
<1>1. moved' \subseteq {"resource", "policies", "roles"} BY DEF RequestStands, Moves, Part
<1>2. ASSUME Asked
      PROVE  could \subseteq could' /\ Just(request.ask)' \in could' /\ moved' = moved \cup parts
  BY <1>2 DEF History, Moves
<1>3. "resource" \notin parts => Resource(request.ask)' = Resource(request.ask)
  BY <1>0 DEF Moves, Resource
<1>4. "policies" \notin parts => projectPolicies' = projectPolicies
  BY DEF Moves, projectPolicies, Rows
<1>5. "roles" \notin parts => Principal(request.ask)' = Principal(request.ask)
  BY <1>0 DEF Moves, Principal
<1>6. Asked' => Asking(request.ask)' BY <1>0 DEF RequestStands, Asking
<1>7. Asked /\ "resource" \notin moved' => request'.x = Resource(request.ask)'
  BY <1>0, <1>2, <1>3 DEF RequestStands
<1>8. Asked /\ moved' \subseteq {"resource"} => DecisionOn(projectPolicies)' \in could'
  <2>1. SUFFICES ASSUME Asked, moved' \subseteq {"resource"} PROVE DecisionOn(projectPolicies)' \in could'
    OBVIOUS
  <2>2. moved \cup parts \subseteq {"resource"} BY <1>2, <2>1
  <2>5. "policies" \notin parts /\ "roles" \notin parts /\ moved \subseteq {"resource"} BY <2>2, OnlyOne
  <2>3. DecisionOn(projectPolicies)' = DecisionOn(projectPolicies)
    BY <1>0, <1>4, <1>5, <2>5 DEF DecisionOn
  <2>4. DecisionOn(projectPolicies) \in could BY <2>1, <2>5 DEF RequestStands
  <2> QED BY <1>2, <2>1, <2>3, <2>4
<1>9. request'.at = "policies_read" =>
        /\ "policies" \notin moved' => request'.policies = projectPolicies'
        /\ moved' \subseteq {"policies"} => decide' \in could'
  <2>1. SUFFICES ASSUME request.at = "policies_read"
                 PROVE  /\ "policies" \notin moved' => request.policies = projectPolicies'
                        /\ moved' \subseteq {"policies"} => decide' \in could'
    BY <1>0
  <2>2. Asked BY <2>1 DEF Asked
  <2>3. "policies" \notin moved' => request.policies = projectPolicies'
    BY <1>2, <1>4, <2>1, <2>2 DEF RequestStands
  <2>4. ASSUME moved' \subseteq {"policies"} PROVE decide' \in could'
    <3>0. moved \cup parts \subseteq {"policies"} BY <1>2, <2>2, <2>4
    <3>1. "roles" \notin parts /\ moved \subseteq {"policies"} BY <3>0, OnlyOne
    <3>2. decide' = decide BY <1>0, <3>1 DEF decide, Moves
    <3>3. decide \in could BY <2>1, <3>1 DEF RequestStands
    <3> QED BY <1>2, <2>2, <3>2, <3>3
  <2> QED BY <2>3, <2>4
<1>10. RequestStands' BY <1>0, <1>1, <1>2, <1>6, <1>7, <1>8, <1>9 DEF RequestStands
<1>11. DecisionIsJust' BY <1>0 DEF Moves, DecisionIsJust
<1> QED BY <1>10, <1>11

\* The first read.
LEMMA ResourceRead ==
  ASSUME GrantsStand, ItemStands, ReadResource, History
  PROVE  RequestStands' /\ DecisionIsJust'
<1>1. PICK ask \in Asks :
        request' = [at |-> "resource_read", ask |-> ask, again |-> FALSE, x |-> Resource(ask)]
  BY DEF ReadResource, Resource
<1>2. Asking(ask) BY DEF Asks, Asking
<1>3. /\ request'.at = "resource_read" /\ request'.ask = ask /\ request'.x = Resource(ask)
      /\ moved' = {} /\ UNCHANGED world
  BY <1>1 DEF ReadResource
<1>4. ~Asked /\ Asked' BY <1>3 DEF Asked, ReadResource
<1>5. Just(request.ask)' \in could' BY <1>4 DEF History
<1>6. Just(request.ask)' = Just(ask) 
  BY <1>3
  DEF world, Just, OnRetired, Family, Speaking, Rows, Covers, GroupsOf, Member, OwnersOf, Creates
<1>7. DecisionOn(projectPolicies)' = authorize(projectPolicies, Principal(ask), ask.action, Resource(ask))
  BY <1>3 DEF DecisionOn, world, projectPolicies, Rows, Principal
<1>8. DecisionOn(projectPolicies)' \in could' BY <1>2, <1>5, <1>6, <1>7, Agrees
<1>9. Resource(request.ask)' = Resource(ask) BY <1>3 DEF Resource, world
<1>10. Asking(request.ask)' BY <1>2, <1>3 DEF Asking
<1>11. RequestStands' BY <1>3, <1>5, <1>8, <1>9, <1>10 DEF RequestStands
<1> QED BY <1>3, <1>11 DEF DecisionIsJust

\* The second read.
LEMMA PoliciesRead ==
  ASSUME GrantsStand, ItemStands, RequestStands, ReadPolicies, History
  PROVE  RequestStands' /\ DecisionIsJust'
<1>1. /\ request'.at = "policies_read" /\ request'.ask = request.ask /\ request'.x = request.x
      /\ request'.policies = projectPolicies
      /\ UNCHANGED world /\ moved' = moved
  BY DEF ReadPolicies
<1>2. Asked /\ Asked' BY <1>1 DEF Asked, ReadPolicies
<1>3. could \subseteq could' /\ Just(request.ask)' \in could' BY <1>2 DEF History
<1>4. projectPolicies' = projectPolicies /\ Principal(request.ask)' = Principal(request.ask)
      /\ Resource(request.ask)' = Resource(request.ask) /\ Asking(request.ask)'
  BY <1>1, <1>2 DEF world, projectPolicies, Rows, Principal, Resource, Asking, RequestStands
<1>5. DecisionOn(projectPolicies)' = DecisionOn(projectPolicies) BY <1>1, <1>4 DEF DecisionOn
<1>6. decide' = DecisionOn(projectPolicies) BY <1>1, <1>4 DEF DecisionOn, decide, Principal
<1>7. ASSUME moved \subseteq {"policies"} PROVE DecisionOn(projectPolicies) \in could
  <2>1. request.x = Resource(request.ask) BY <1>2, <1>7 DEF RequestStands
  <2>2. Asking(request.ask) /\ Just(request.ask) \in could BY <1>2 DEF RequestStands
  <2> QED BY <2>1, <2>2, Agrees DEF DecisionOn
<1>8. moved \subseteq {"resource"} => DecisionOn(projectPolicies) \in could BY <1>2 DEF RequestStands
<1>9. RequestStands'
  BY <1>1, <1>2, <1>3, <1>4, <1>5, <1>6, <1>7, <1>8 DEF RequestStands
<1> QED BY <1>1, <1>9 DEF DecisionIsJust

\* The second pass of a change of roles starts with the resource of the first.
LEMMA AskedAgain ==
  ASSUME RequestStands, reauthorizeRoleScope, History
  PROVE  RequestStands' /\ DecisionIsJust'
<1>1. /\ request'.at = "resource_read" /\ request'.ask = request.ask /\ request'.x = request.x
      /\ UNCHANGED world /\ moved' = moved
  BY DEF reauthorizeRoleScope
<1>2. Asked /\ Asked' BY <1>1 DEF Asked, reauthorizeRoleScope
<1>3. could \subseteq could' /\ Just(request.ask)' \in could' BY <1>2 DEF History
<1>4. projectPolicies' = projectPolicies /\ Principal(request.ask)' = Principal(request.ask)
      /\ Resource(request.ask)' = Resource(request.ask) /\ Asking(request.ask)'
  BY <1>1, <1>2 DEF world, projectPolicies, Rows, Principal, Resource, Asking, RequestStands
<1>5. DecisionOn(projectPolicies)' = DecisionOn(projectPolicies) BY <1>1, <1>4 DEF DecisionOn
<1>6. RequestStands' BY <1>1, <1>2, <1>3, <1>4, <1>5 DEF RequestStands
<1> QED BY <1>1, <1>6 DEF DecisionIsJust

\* At most one part is at most one of the three.
LEMMA AtMostOne ==
  ASSUME NEW S \in SUBSET Part, Cardinality(S) <= 1
  PROVE  S \subseteq {"resource"} \/ S \subseteq {"policies"} \/ S \subseteq {"roles"}
<1>1. ASSUME NEW a \in S, NEW b \in S, a # b PROVE FALSE
  <2>1. IsFiniteSet(Part)
    <3>1. IsFiniteSet({"resource"}) BY FS_Singleton
    <3>2. IsFiniteSet({"resource"} \cup {"policies"}) BY <3>1, FS_AddElement
    <3>3. IsFiniteSet(({"resource"} \cup {"policies"}) \cup {"roles"}) BY <3>2, FS_AddElement
    <3>4. Part = ({"resource"} \cup {"policies"}) \cup {"roles"} BY DEF Part
    <3> QED BY <3>3, <3>4
  <2>2. IsFiniteSet(S) BY <2>1, FS_Subset
  <2>3. {a, b} \subseteq S /\ IsFiniteSet({a, b}) BY <2>2, FS_Subset
  <2>4. Cardinality({a, b}) <= Cardinality(S) BY <2>2, <2>3, FS_Subset
  <2>5. Cardinality({a, b}) = 2
    <3>1. IsFiniteSet({a}) /\ Cardinality({a}) = 1 BY FS_Singleton
    <3>2. b \notin {a} /\ {a, b} = {a} \cup {b} BY <1>1
    <3>3. Cardinality({a} \cup {b}) = Cardinality({a}) + 1 BY <3>1, <3>2, FS_AddElement
    <3> QED BY <3>1, <3>2, <3>3
  <2>6. Cardinality(S) \in Nat BY <2>2, FS_CardinalityType
  <2> QED BY <2>4, <2>5, <2>6
<1> QED BY <1>1 DEF Part

\* The third read, and the answer.
LEMMA Decided ==
  ASSUME GrantsStand, ItemStands, RequestStands, Decide, History
  PROVE  RequestStands' /\ DecisionIsJust'
<1>1. /\ request.at = "policies_read" /\ Asked /\ ~Asked'
      /\ request'.at = "answered" /\ request'.allowed = decide /\ request'.ask = request.ask
      /\ moved' = moved
  BY DEF Decide, Answer, Asked
<1>2. could \subseteq could' BY <1>1 DEF History
<1>3. decide = DecisionOn(request.policies) BY DEF decide, DecisionOn, Principal
<1>4. ASSUME Cardinality(moved) <= 1 PROVE decide \in could
  <2>1. CASE moved \subseteq {"resource"}
    <3>1. request.policies = projectPolicies BY <1>1, <2>1 DEF RequestStands
    <3> QED BY <1>1, <1>3, <2>1, <3>1 DEF RequestStands
  <2>2. CASE moved \subseteq {"policies"} BY <1>1, <2>2 DEF RequestStands
  <2>3. CASE moved \subseteq {"roles"}
    <3>1. request.policies = projectPolicies /\ request.x = Resource(request.ask)
      BY <1>1, <2>3 DEF RequestStands
    <3>2. Asking(request.ask) /\ Just(request.ask) \in could BY <1>1 DEF RequestStands
    <3> QED BY <1>3, <3>1, <3>2, Agrees DEF DecisionOn
  <2>4. moved \in SUBSET Part BY DEF RequestStands, Part
  <2> QED BY <1>4, <2>1, <2>2, <2>3, <2>4, AtMostOne
<1>5. DecisionIsJust' BY <1>1, <1>2, <1>4 DEF DecisionIsJust
<1>6. RequestStands' BY <1>1 DEF RequestStands
<1> QED BY <1>5, <1>6

\* Every step.
LEMMA RequestKept ==
  ASSUME GrantsStand, ItemStands, RequestStands, DecisionIsJust, [Next]_vars
  PROVE  RequestStands' /\ DecisionIsJust'
<1>1. CASE Organization /\ History BY <1>1, OrganizationMoves, MovedKept
<1>2. CASE Guard /\ History
  BY <1>2, ResourceRead, PoliciesRead, AskedAgain, Decided DEF Guard
<1>3. CASE UNCHANGED vars
  <2>1. /\ UNCHANGED <<request, could, moved>> /\ UNCHANGED world BY <1>3 DEF vars
  <2>2. projectPolicies' = projectPolicies /\ Principal(request.ask)' = Principal(request.ask)
        /\ Resource(request.ask)' = Resource(request.ask) /\ Just(request.ask)' = Just(request.ask)
    BY <2>1
    DEF world, projectPolicies, Rows, Principal, Resource, Just, OnRetired, Family, Speaking, Covers,
        GroupsOf, Member, OwnersOf, Creates
  <2>3. (Asking(request.ask)' <=> Asking(request.ask)) /\ (Asked' <=> Asked) BY <2>1 DEF Asking, Asked
  <2>4. DecisionOn(projectPolicies)' = DecisionOn(projectPolicies) /\ decide' = decide
    BY <2>1, <2>2 DEF DecisionOn, decide, Principal
  <2>5. RequestStands' BY <2>1, <2>2, <2>3, <2>4 DEF RequestStands
  <2> QED BY <2>1, <2>5 DEF DecisionIsJust
<1> QED BY <1>1, <1>2, <1>3 DEF Next

\* A guarded request with at most one of its reads overtaken is answered as the organization
\* itself would have answered at some moment of the request, whatever the route and grants.
THEOREM DecisionsAreJust == Spec => []DecisionIsJust
<1> DEFINE Whole == GrantsStand /\ ItemStands /\ RequestStands /\ DecisionIsJust
<1>1. Init => Whole BY GrantsInit, ItemInit, RequestInit
<1>2. Whole /\ [Next]_vars => Whole' BY GrantsKept, ItemKept, RequestKept
<1> QED BY <1>1, <1>2, PTL DEF Spec

\* Whatever could be asked in a state, deciding it there on freshly projected policies gives the
\* answer of the organization: who holds which role, whose the thing is, what is retired.
THEOREM ProjectionIsFaithful ==
  Spec => [](\A ask : Asking(ask) =>
               authorize(projectPolicies, Principal(ask), ask.action, Resource(ask)) = Just(ask))
<1> DEFINE Faithful == \A ask : Asking(ask) =>
                         authorize(projectPolicies, Principal(ask), ask.action, Resource(ask)) = Just(ask)
<1>1. Init => GrantsStand /\ ItemStands BY GrantsInit, ItemInit
<1>2. GrantsStand /\ ItemStands /\ [Next]_vars => (GrantsStand /\ ItemStands)' BY GrantsKept, ItemKept
<1>3. GrantsStand /\ ItemStands => Faithful BY Agrees
<1> QED BY <1>1, <1>2, <1>3, PTL DEF Spec
=============================================================================
