----------------------------- MODULE Invitations -----------------------------
(***************************************************************************)
(* Invitations and the bootstrap of an installation: invitations.service.ts,*)
(* invitation-status.ts and bootstrap.service.ts.                          *)
(*                                                                         *)
(* An invitation is redeemed by a request that reads it, checks it against *)
(* the passcode, the email and the issuer's current authority, and takes   *)
(* its use in a transaction later on.  Every api process refreshes the     *)
(* bootstrap when it starts: with an effective admin it revokes the system *)
(* invitation, without one it gives it a new token and passcode, or mints  *)
(* one, in several statements outside any transaction.                     *)
(*                                                                         *)
(* Who is an effective admin is AdminFloor's; here the Admin role works or *)
(* is disabled, and other roles may carry authority or lose it.  A guarded *)
(* operation keeps an effective admin, losing the other authority is       *)
(* unguarded, as AdminFloor shows.  A person is an email or Discord        *)
(* account: one account of Patrice at most.  Token and passcode of the     *)
(* system invitation are made together and share a number.                 *)
(***************************************************************************)
EXTENDS Naturals, FiniteSets

CONSTANTS
  Person, Request, Api,
  Normal,          \* invitations of users
  System,          \* system invitations
  Role, Admin,     \* roles an invitation can carry, the seeded one among them
  None,            \* no invitation, no account, nobody in particular
  MaxEvents        \* bound on crashes, revocations, expiries and changes of authority

Invitation == Normal \cup System

\* Rows, accounts and requests, as far as they matter here.
InvitationRow == [roles : SUBSET Role, bound : Person \cup {None}, uses : 0..1,
                  revoked : BOOLEAN, expired : BOOLEAN, key : Nat]
Account       == [via : Invitation, roles : SUBSET Role]
Redemption    == [kind : {"read", "checked"}, inv : Invitation, person : Person,
                  roles : SUBSET Role, key : Nat]
Issuance      == [kind : {"create"}, roles : SUBSET Role]

ASSUME AdminAssumption == Admin \in Role
ASSUME NoneAssumption  == None \notin Person \cup Invitation \cup InvitationRow \cup Account
                                     \cup Redemption \cup Issuance
ASSUME KindAssumption  == Normal \cap System = {}
ASSUME BoundAssumption == MaxEvents \in Nat

VARIABLES
  inv,             \* inv[i]: None or the row of the invitation
  account,         \* account[p]: None or the user the person registered
  scope,           \* the roles the issuer of the normal invitations may grant
  adminRole,       \* "absent", "works" or "disabled" (role or grants retired)
  other,           \* somebody is an effective admin by another role
  api,             \* api[a]: how far the process has started, and what it offers
  req,             \* req[r]: None or the request's progress
  reach,           \* history: roles grantable at some moment of the request
  keys,            \* keys made so far
  events

authority == <<scope, adminRole, other>>
vars == <<inv, account, scope, adminRole, other, api, req, reach, keys, events>>

\* Mutant: one use too many.
ExhaustedTooLate(i) ==
  IF i.revoked THEN "revoked"
  ELSE IF i.uses > 1 THEN "exhausted"
  ELSE IF i.expired THEN "expired"
  ELSE "pending"

deriveInvitationStatus(i) ==
  IF i.revoked THEN "revoked"
  ELSE IF i.uses >= 1 THEN "exhausted"
  ELSE IF i.expired THEN "expired"
  ELSE "pending"

Registered(i) == {p \in Person : account[p] # None /\ account[p].via = i}

HasUsers == \E p \in Person : account[p] # None

effectiveAdminExists ==
  \/ other
  \/ adminRole = "works" /\ \E p \in Person : account[p] # None /\ Admin \in account[p].roles

Happens == events < MaxEvents /\ events' = events + 1

Done(r) == req' = [req EXCEPT ![r] = None] /\ reach' = [reach EXCEPT ![r] = {}]

-----------------------------------------------------------------------------
(* Normal invitations *)

\* Some user's request: the roles are checked first, the row is written later.
BeginCreate(r, roles) ==
  /\ req[r] = None /\ roles \subseteq scope /\ HasUsers
  /\ req' = [req EXCEPT ![r] = [kind |-> "create", roles |-> roles]]
  /\ UNCHANGED <<inv, account, authority, api, reach, keys, events>>

Create(r, i, bound) ==
  /\ req[r] # None /\ req[r].kind = "create" /\ inv[i] = None
  /\ inv' = [inv EXCEPT ![i] = [roles |-> req[r].roles, bound |-> bound, uses |-> 0,
                                revoked |-> FALSE, expired |-> FALSE, key |-> 0]]
  /\ Done(r)
  /\ UNCHANGED <<account, authority, api, keys, events>>

Revoke(i) ==
  /\ Happens
  /\ HasUsers /\ inv[i] # None /\ ~inv[i].revoked
  /\ inv' = [inv EXCEPT ![i].revoked = TRUE]
  /\ UNCHANGED <<account, authority, api, req, reach, keys>>

Expire(i) ==
  /\ Happens
  /\ inv[i] # None /\ ~inv[i].expired
  /\ inv' = [inv EXCEPT ![i].expired = TRUE]
  /\ UNCHANGED <<account, authority, api, req, reach, keys>>

-----------------------------------------------------------------------------
(* Redemption *)

\* Found by its token, pending, the passcode right, the email as bound.
ReadInvitation(r, p, i) ==
  /\ req[r] = None
  /\ inv[i] # None /\ deriveInvitationStatus(inv[i]) = "pending"
  /\ inv[i].bound \in {None, p}
  /\ req' = [req EXCEPT ![r] = [kind |-> "read", inv |-> i, person |-> p,
                                roles |-> inv[i].roles, key |-> inv[i].key]]
  /\ reach' = [reach EXCEPT ![r] = scope]
  /\ UNCHANGED <<inv, account, authority, api, keys, events>>

\* The key is the last one made, and a process that knows the token still runs.
RedeemBootstrap(r, p, i) ==
  /\ inv[i] # None /\ \E a \in Api : api[a].token = inv[i].key
  /\ ReadInvitation(r, p, i)

\* Mutant: the issuer's authority counts at creation only.
CheckPersonOnly(r) ==
  /\ req[r] # None /\ req[r].kind = "read"
  /\ account[req[r].person] = None
  /\ req' = [req EXCEPT ![r].kind = "checked"]
  /\ UNCHANGED <<inv, account, authority, api, reach, keys, events>>

\* The issuer's current authority, and whether the person has an account.
CheckRoles(r) ==
  /\ req[r] # None /\ req[r].kind = "read"
  /\ req[r].inv \in System \/ req[r].roles \subseteq scope
  /\ account[req[r].person] = None
  /\ req' = [req EXCEPT ![r].kind = "checked"]
  /\ UNCHANGED <<inv, account, authority, api, reach, keys, events>>

\* Mutant: the use is counted without the guard.
TakeAnyUse(i) == inv' = [inv EXCEPT ![i].uses = 1]

\* Mutant: only the number of uses is guarded.
TakeUseUnlessExhausted(i) ==
  /\ inv[i].uses < 1
  /\ inv' = [inv EXCEPT ![i].uses = @ + 1]

\* The guarded UPDATE; it tests neither token nor passcode again.
TakeUse(i) ==
  /\ deriveInvitationStatus(inv[i]) = "pending"
  /\ inv' = [inv EXCEPT ![i].uses = @ + 1]

\* The unique indexes refuse a second account of the person.
Redeem(r) ==
  LET p == req[r].person
      i == req[r].inv IN
  /\ req[r] # None /\ req[r].kind = "checked"
  /\ TakeUse(i)
  /\ account[p] = None
  /\ account' = [account EXCEPT ![p] = [via |-> i, roles |-> req[r].roles]]
  /\ Done(r)
  /\ UNCHANGED <<authority, api, keys, events>>

\* Any check or the transaction fails, or the client goes away.
Refuse(r) ==
  /\ req[r] # None
  /\ Done(r)
  /\ UNCHANGED <<inv, account, authority, api, keys, events>>

-----------------------------------------------------------------------------
(* Authority *)

ChangeScope(roles) ==
  /\ Happens
  /\ HasUsers /\ roles # scope /\ scope' = roles
  /\ reach' = [r \in Request |-> IF req[r] = None THEN {} ELSE reach[r] \cup roles]
  /\ UNCHANGED <<inv, account, adminRole, other, api, req, keys>>

\* Guarded: with an admin, authority moves to another role, and the Admin role
\* may be disabled once it is not the only one.
HandOver ==
  /\ Happens
  /\ effectiveAdminExists /\ ~other /\ other' = TRUE
  /\ UNCHANGED <<inv, account, scope, adminRole, api, req, reach, keys>>

DisableAdminRole ==
  /\ Happens
  /\ other /\ adminRole = "works" /\ adminRole' = "disabled"
  /\ UNCHANGED <<inv, account, scope, other, api, req, reach, keys>>

\* Unguarded.
LoseOther ==
  /\ Happens
  /\ other /\ other' = FALSE
  /\ UNCHANGED <<inv, account, scope, adminRole, api, req, reach, keys>>

-----------------------------------------------------------------------------
(* Bootstrap *)

Down == [phase |-> "down", found |-> None, token |-> 0]

\* The seed repairs only what was never there.
ensureSeed(a) ==
  /\ api[a] = Down
  /\ adminRole' = IF adminRole = "absent" THEN "works" ELSE adminRole
  /\ api' = [api EXCEPT ![a].phase = "seeded"]
  /\ UNCHANGED <<inv, account, scope, other, req, reach, keys, events>>

LookForAdmin(a) ==
  /\ api[a].phase = "seeded"
  /\ api' = [api EXCEPT ![a].phase = IF effectiveAdminExists THEN "closing" ELSE "looking"]
  /\ UNCHANGED <<inv, account, authority, req, reach, keys, events>>

closeBootstrap(a) ==
  /\ api[a].phase = "closing"
  /\ inv' = [i \in Invitation |-> IF i \in System /\ inv[i] # None
                                  THEN [inv[i] EXCEPT !.revoked = TRUE] ELSE inv[i]]
  /\ api' = [api EXCEPT ![a].phase = "up"]
  /\ UNCHANGED <<account, authority, req, reach, keys, events>>

Live == {i \in System : inv[i] # None /\ ~inv[i].revoked}

FindInvitation(a) ==
  /\ api[a].phase = "looking"
  /\ api' = [api EXCEPT ![a].phase = "minting",
                        ![a].found = IF Live = {} THEN None ELSE CHOOSE i \in Live : TRUE]
  /\ UNCHANGED <<inv, account, authority, req, reach, keys, events>>

Up(a) == api' = [api EXCEPT ![a] = [phase |-> "up", found |-> None, token |-> keys + 1]]

\* Mutant: the new token is not kept for the setup page.
RotateUnknown(a) ==
  /\ api[a].phase = "minting" /\ api[a].found # None
  /\ keys' = keys + 1
  /\ inv' = [inv EXCEPT ![api[a].found].key = keys + 1, ![api[a].found].expired = FALSE]
  /\ api' = [api EXCEPT ![a] = [phase |-> "up", found |-> None, token |-> 0]]
  /\ UNCHANGED <<account, authority, req, reach, events>>

\* A used invitation is given a new key like any other.
Rotate(a) ==
  /\ api[a].phase = "minting" /\ api[a].found # None
  /\ keys' = keys + 1
  /\ inv' = [inv EXCEPT ![api[a].found].key = keys + 1, ![api[a].found].expired = FALSE]
  /\ Up(a)
  /\ UNCHANGED <<account, authority, req, reach, events>>

Mint(a, i) ==
  /\ api[a].phase = "minting" /\ api[a].found = None
  /\ Live = {} /\ inv[i] = None
  /\ keys' = keys + 1
  /\ inv' = [inv EXCEPT ![i] = [roles |-> {Admin}, bound |-> None, uses |-> 0, revoked |-> FALSE,
                                expired |-> FALSE, key |-> keys + 1]]
  /\ Up(a)
  /\ UNCHANGED <<account, authority, req, reach, events>>

\* The unique index refuses a second live one: the process fails to start.
MintRefused(a) ==
  /\ api[a].phase = "minting" /\ api[a].found = None /\ Live # {}
  /\ api' = [api EXCEPT ![a] = Down]
  /\ UNCHANGED <<inv, account, authority, req, reach, keys, events>>

Crash(a) ==
  /\ Happens
  /\ api[a] # Down
  /\ api' = [api EXCEPT ![a] = Down]
  /\ UNCHANGED <<inv, account, authority, req, reach, keys>>

-----------------------------------------------------------------------------

\* An empty database.
Init ==
  /\ inv = [i \in Invitation |-> None]
  /\ account = [p \in Person |-> None]
  /\ scope = Role /\ adminRole = "absent" /\ other = FALSE
  /\ api = [a \in Api |-> Down]
  /\ req = [r \in Request |-> None] /\ reach = [r \in Request |-> {}]
  /\ keys = 0 /\ events = 0

Boot(a) ==
  \/ ensureSeed(a) \/ LookForAdmin(a) \/ closeBootstrap(a)
  \/ FindInvitation(a) \/ Rotate(a) \/ MintRefused(a)
  \/ \E i \in System : Mint(a, i)

Issue(r) ==
  \/ \E roles \in SUBSET Role : BeginCreate(r, roles)
  \/ \E i \in Normal, bound \in Person \cup {None} : Create(r, i, bound)

Accept(r) ==
  \/ \E p \in Person :
       \/ \E i \in Normal : ReadInvitation(r, p, i)
       \/ \E i \in System : RedeemBootstrap(r, p, i)
  \/ CheckRoles(r) \/ Redeem(r) \/ Refuse(r)

Next ==
  \/ \E r \in Request : Issue(r) \/ Accept(r)
  \/ \E i \in Invitation : Revoke(i)
  \/ \E i \in Normal : Expire(i)
  \/ \E roles \in SUBSET Role : ChangeScope(roles)
  \/ HandOver \/ DisableAdminRole \/ LoseOther
  \/ \E a \in Api : Boot(a) \/ Crash(a)

\* A process that is down is started and comes up; people who hold the key try
\* again, and not every attempt fails.
Fairness ==
  /\ \A a \in Api : WF_vars(Boot(a))
  /\ \A r \in Request : SF_vars(CheckRoles(r)) /\ SF_vars(Redeem(r))
  /\ SF_vars(\E r \in Request, p \in Person, i \in System : RedeemBootstrap(r, p, i))

Spec == Init /\ [][Next]_vars /\ Fairness

-----------------------------------------------------------------------------
(* Properties *)

TypeOK ==
  /\ inv \in [Invitation -> {None} \cup InvitationRow]
  /\ account \in [Person -> {None} \cup Account]
  /\ scope \subseteq Role /\ adminRole \in {"absent", "works", "disabled"}
  /\ other \in BOOLEAN
  /\ api \in [Api -> [phase : {"down", "seeded", "closing", "looking", "minting", "up"},
                      found : System \cup {None}, token : Nat]]
  /\ req \in [Request -> {None} \cup Redemption \cup Issuance]
  /\ reach \in [Request -> SUBSET Role]
  /\ keys \in Nat /\ events \in 0..MaxEvents

\* Each use of an invitation is one account and each account took one use,
\* however many requests redeem it at once and wherever they fail
\* (invitations.service.ts 348-359).
UsesAreAccounts ==
  \A i \in Invitation : inv[i] # None => Cardinality(Registered(i)) = inv[i].uses

\* Nobody registers with an invitation that is revoked or has expired, also when
\* the request had found it pending (350-359).
NoUseAfterEnd ==
  [][\A i \in Invitation : inv[i] # None /\ (inv[i].revoked \/ inv[i].expired)
       => Registered(i)' = Registered(i)]_vars

\* Whoever registers by a user's invitation gets only roles its issuer could
\* grant while the request ran: authority lost before counts (306-311).
RolesStillGrantable ==
  [][\A p \in Person : account[p] = None /\ account'[p] # None /\ account'[p].via \in Normal
       => \E r \in Request : /\ req[r] # None /\ req'[r] = None
                             /\ account'[p].roles \subseteq reach[r]]_vars

\* An installation gets its first effective admin, whatever processes start
\* together, crash half way, or make each other's keys useless.
FirstAdmin == <>effectiveAdminExists
=============================================================================
