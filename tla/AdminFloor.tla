------------------------------ MODULE AdminFloor ------------------------------
(***************************************************************************)
(* The administrability guard: api/src/access/administrability.service.ts  *)
(* and the operations of users, roles, grants, divisions, teams and the    *)
(* integrations that change who is an effective admin.                     *)
(*                                                                         *)
(* A guarded operation (withAdminFloor) writes its row, increments         *)
(* organization.config_version, counts the effective admins its            *)
(* transaction sees, and commits only when somebody is left.  At READ      *)
(* COMMITTED the count sees what others committed and its own writes; two  *)
(* operations that each remove one of the last two admins are only caught  *)
(* because the increment locks the one organization row until commit.      *)
(* The model has one step for each of: the read before the transaction,    *)
(* the row write, the increment with the count, the commit.                *)
(*                                                                         *)
(* Operations that can only add admins also increment the version: one     *)
(* step, enabled while nobody holds the organization row.  Retiring a      *)
(* division or team retires its inherent role and increments the version,  *)
(* but does not count.  Roles that come from an integration are inserted   *)
(* and removed with neither.                                               *)
(*                                                                         *)
(* Left out: who may call what (Cedar), names, sessions, activity rows,    *)
(* the source of a membership, and the collector of retired rows.          *)
(***************************************************************************)
EXTENDS Organization, FiniteSets

CONSTANTS
  GroupRole,       \* the inherent roles of divisions and teams
  MappedRole,      \* the roles an integration maps to an external group
  RoleOf,          \* RoleOf[g]: the role that grant g belongs to
  Request          \* concurrent guarded requests

ASSUME RoleAssumption  == GroupRole \subseteq Role /\ MappedRole \subseteq Role
ASSUME GrantAssumption == RoleOf \in [Grant -> Role]

VARIABLES
  userState,       \* lifecycle_state of each user
  roleState,       \* lifecycle_state of each role
  grantState,      \* lifecycle_state of each grant, "absent" before it exists
  governs,         \* the grant permits one of EFFECTIVE_ADMIN_ACTIONS globally
  membership,      \* the user_role rows <<u, r>>
  req,             \* the guarded requests
  eroded           \* history: an unguarded path has taken an admin's authority

config == <<userState, roleState, grantState, governs, membership>>
floorVars == <<userState, roleState, grantState, governs, membership, req, eroded>>

-----------------------------------------------------------------------------
(* Effective admins *)

\* The joins of effectiveAdminCount over given tables: the user_role rows that
\* make an active user an effective admin.
AuthorityIn(users, roles, grants, isGoverning, members) ==
  {m \in members :
     /\ users[m[1]] = "active"
     /\ roles[m[2]] = "active"
     /\ \E g \in Grant : RoleOf[g] = m[2] /\ grants[g] = "active" /\ isGoverning[g]}

Authority       == AuthorityIn(userState, roleState, grantState, governs, membership)
EffectiveAdmins == {m[1] : m \in Authority}

-----------------------------------------------------------------------------
(* Guarded operations and what each one writes *)

GuardedOp ==
  [op : {"deactivate", "retireUser"}, user : User]
  \cup [op : {"revokeRole"}, user : User, role : Role]
  \cup [op : {"retireRole"}, role : Role \ GroupRole]
  \cup [op : {"updateGrant"}, grant : Grant, governs : BOOLEAN]
  \cup [op : {"retireGrant"}, grant : Grant]

NoOperation  == [phase |-> "idle"]
Phase == {"loaded", "written", "counted"}
In(r, phase) == req[r].phase = phase

UserStateAfter(o) ==
  CASE o.op = "deactivate" -> [userState EXCEPT ![o.user] = "deactivated"]
    [] o.op = "retireUser" -> [userState EXCEPT ![o.user] = "retired"]
    [] OTHER -> userState

\* Mutant: the role gets the state meant for users.
RoleStateOfUser(o) ==
  IF o.op = "retireRole" THEN [roleState EXCEPT ![o.role] = "deactivated"] ELSE roleState

RoleStateAfter(o) ==
  IF o.op = "retireRole" THEN [roleState EXCEPT ![o.role] = "retired"] ELSE roleState

GrantStateAfter(o) ==
  IF o.op = "retireGrant" THEN [grantState EXCEPT ![o.grant] = "retired"] ELSE grantState

GovernsAfter(o) ==
  IF o.op = "updateGrant" THEN [governs EXCEPT ![o.grant] = o.governs] ELSE governs

MembershipAfter(o) ==
  IF o.op = "revokeRole" THEN membership \ {<<o.user, o.role>>} ELSE membership

AuthorityAfter(o) ==
  AuthorityIn(UserStateAfter(o), RoleStateAfter(o), GrantStateAfter(o),
              GovernsAfter(o), MembershipAfter(o))

\* The row each operation updates first, and holds until it commits.
RowOf(o) ==
  CASE o.op \in {"deactivate", "retireUser"} -> <<"user", o.user>>
    [] o.op = "revokeRole" -> <<"user_role", o.user, o.role>>
    [] o.op = "retireRole" -> <<"role", o.role>>
    [] OTHER -> <<"grant", o.grant>>

RowFree(row) ==
  \A r \in Request : (In(r, "written") \/ In(r, "counted")) => RowOf(req[r].of) # row

\* Mutant: the count is taken before the version is incremented.
OrganizationIgnored == TRUE

\* Nobody holds the organization row: every increment of config_version waits.
OrganizationFree == \A r \in Request : ~In(r, "counted")

-----------------------------------------------------------------------------
(* The steps of a guarded request *)

\* What the handler checks before it opens the transaction; the target's
\* retirement is a hard deny of the route guard.
Loadable(o) ==
  CASE o.op \in {"deactivate", "retireUser"} ->
         /\ userState[o.user] # "retired"
         /\ o.op = "deactivate" => userState[o.user] # "deactivated"
    [] o.op = "revokeRole"  -> <<o.user, o.role>> \in membership
    [] o.op = "retireRole"  -> roleState[o.role] # "retired"
    [] o.op = "retireGrant" -> grantState[o.grant] = "active"
    [] OTHER -> grantState[o.grant] # "absent"

Load(r, o) ==
  /\ req[r] = NoOperation
  /\ Loadable(o)
  /\ req' = [req EXCEPT ![r] = [phase |-> "loaded", of |-> o]]
  /\ UNCHANGED <<config, eroded>>

\* The row write.  It is blind, except that DELETE needs its row.
Write(r) ==
  /\ In(r, "loaded")
  /\ RowFree(RowOf(req[r].of))
  /\ req[r].of.op = "revokeRole" => <<req[r].of.user, req[r].of.role>> \in membership
  /\ req' = [req EXCEPT ![r].phase = "written"]
  /\ UNCHANGED <<config, eroded>>

\* bumpConfigVersion, then assertFloorWithinTx.
Count(r) ==
  /\ In(r, "written")
  /\ OrganizationFree
  /\ AuthorityAfter(req[r].of) # {}
  /\ req' = [req EXCEPT ![r].phase = "counted"]
  /\ UNCHANGED <<config, eroded>>

Commit(r) ==
  LET o == req[r].of IN
  /\ In(r, "counted")
  /\ userState' = UserStateAfter(o)
  /\ roleState' = RoleStateAfter(o)
  /\ grantState' = GrantStateAfter(o)
  /\ governs' = GovernsAfter(o)
  /\ membership' = MembershipAfter(o)
  /\ req' = [req EXCEPT ![r] = NoOperation]
  /\ UNCHANGED eroded

\* 409 LAST_ADMIN, a row that is gone, a timeout or a crash: rolled back.
RollBack(r) ==
  /\ req[r] # NoOperation
  /\ req' = [req EXCEPT ![r] = NoOperation]
  /\ UNCHANGED <<config, eroded>>

-----------------------------------------------------------------------------
(* Operations that can only add admins *)

\* users.reactivate and users.revive.
ReturnUser(u) ==
  /\ OrganizationFree /\ RowFree(<<"user", u>>)
  /\ userState[u] # "active"
  /\ userState' = [userState EXCEPT ![u] = "active"]
  /\ UNCHANGED <<roleState, grantState, governs, membership, req, eroded>>

GrantRole(u, role) ==
  /\ OrganizationFree /\ RowFree(<<"user_role", u, role>>)
  /\ <<u, role>> \notin membership
  /\ membership' = membership \cup {<<u, role>>}
  /\ UNCHANGED <<userState, roleState, grantState, governs, req, eroded>>

\* roles.revive, and the revive of a division or team.
RoleRevives(role) ==
  /\ OrganizationFree /\ RowFree(<<"role", role>>)
  /\ roleState[role] = "retired"
  /\ roleState' = [roleState EXCEPT ![role] = "active"]
  /\ UNCHANGED <<userState, grantState, governs, membership, req, eroded>>

CreateGrant(g, isGoverning) ==
  /\ OrganizationFree
  /\ grantState[g] = "absent"
  /\ grantState' = [grantState EXCEPT ![g] = "active"]
  /\ governs' = [governs EXCEPT ![g] = isGoverning]
  /\ UNCHANGED <<userState, roleState, membership, req, eroded>>

GrantRevives(g) ==
  /\ OrganizationFree /\ RowFree(<<"grant", g>>)
  /\ grantState[g] = "retired"
  /\ grantState' = [grantState EXCEPT ![g] = "active"]
  /\ UNCHANGED <<userState, roleState, governs, membership, req, eroded>>

-----------------------------------------------------------------------------
(* Unguarded paths *)

\* Taking one of several roles from an admin counts too: a guarded operation
\* that has counted on it may be about to commit.
Erodes == eroded' = (eroded \/ ~(Authority \subseteq Authority'))

\* Retiring a division or team retires its inherent role: no count.
RetireGroup(role) ==
  /\ role \in GroupRole
  /\ OrganizationFree
  /\ roleState[role] = "active"
  /\ roleState' = [roleState EXCEPT ![role] = "retired"]
  /\ UNCHANGED <<userState, grantState, governs, membership, req>>
  /\ Erodes

\* The reconciler grants a mapped role to a linked member: no version.
IntegrationGrants(u, role) ==
  /\ role \in MappedRole
  /\ <<u, role>> \notin membership
  /\ membership' = membership \cup {<<u, role>>}
  /\ UNCHANGED <<userState, roleState, grantState, governs, req, eroded>>

\* The reconciler takes a mapped role away, or the user unlinks the account:
\* no version and no count.  The rows were chosen by their source in an earlier
\* read and are deleted by key, so any row may be hit.  DELETE waits for a
\* transaction on its row.
IntegrationRemoves(u, role) ==
  /\ role \in MappedRole
  /\ <<u, role>> \in membership /\ RowFree(<<"user_role", u, role>>)
  /\ membership' = membership \ {<<u, role>>}
  /\ UNCHANGED <<userState, roleState, grantState, governs, req>>
  /\ Erodes

-----------------------------------------------------------------------------

\* Any configuration with an effective admin, as bootstrap leaves it.
FloorInit ==
  /\ userState = [u \in User |-> "active"]
  /\ roleState = [r \in Role |-> "active"]
  /\ grantState \in [Grant -> {"absent", "active"}]
  /\ governs \in [Grant -> BOOLEAN]
  /\ membership \in SUBSET (User \X Role)
  /\ EffectiveAdmins # {}
  /\ req = [r \in Request |-> NoOperation]
  /\ eroded = FALSE

GuardedStep(r) ==
  \/ \E o \in GuardedOp : Load(r, o)
  \/ Write(r) \/ Count(r) \/ Commit(r) \/ RollBack(r)

AddingStep ==
  \/ \E u \in User : ReturnUser(u)
  \/ \E u \in User, role \in Role : GrantRole(u, role)
  \/ \E role \in Role : RoleRevives(role)
  \/ \E g \in Grant : GrantRevives(g) \/ \E b \in BOOLEAN : CreateGrant(g, b)

UnguardedStep ==
  \/ \E role \in Role : RetireGroup(role)
  \/ \E u \in User, role \in Role : IntegrationGrants(u, role) \/ IntegrationRemoves(u, role)

FloorNext == (\E r \in Request : GuardedStep(r)) \/ AddingStep \/ UnguardedStep

FloorSpec == FloorInit /\ [][FloorNext]_floorVars

-----------------------------------------------------------------------------
(* Properties *)

\* Every column holds a value of its enumeration and every request an operation.
FloorTypeOK ==
  /\ userState \in [User -> {"active", "deactivated", "retired"}]
  /\ roleState \in [Role -> {"active", "retired"}]
  /\ grantState \in [Grant -> {"absent", "active", "retired"}]
  /\ governs \in [Grant -> BOOLEAN]
  /\ membership \subseteq User \X Role
  /\ req \in [Request -> {NoOperation} \cup [phase : Phase, of : GuardedOp]]
  /\ eroded \in BOOLEAN

\* Guarded operations, however they interleave, never leave the organization
\* without an effective admin (administrability.service.ts:91-105): only a path
\* that takes authority without counting can be followed by an empty set.
FloorHeld == ~eroded => EffectiveAdmins # {}

\* "A hard administrability guard keeps an instance from ever losing its last
\* admin" (README.md:47-48).
NeverWithoutAdmin == EffectiveAdmins # {}
=============================================================================
