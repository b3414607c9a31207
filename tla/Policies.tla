------------------------------ MODULE Policies ------------------------------
(***************************************************************************)
(* What the guard of a route asks and how it is answered, as operators:    *)
(* the actions (access/actions.ts), the routes of the controllers with the *)
(* resolvers of their resources (access/authorize.decorator.ts), the       *)
(* projection of grants to policies (access/cedar/policies.ts), the shapes *)
(* a grant may have (grants.service.ts) and the decision (access.service,  *)
(* cedar/engine.ts, with Cedar's rule that a forbid overrides a permit).   *)
(*                                                                         *)
(* A resource has a type, an id and attributes, pairs of a name and what   *)
(* it stands for.  The things a request is about are one record, `item`: a *)
(* task with a submission, a message and an attachment, in a division and  *)
(* maybe a team; a grant's three columns for what its scope names are one. *)
(***************************************************************************)
EXTENDS Organization

CONSTANTS
  Division, Team,
  InherentOf,       \* InherentOf[r]: the division or team whose inherent role r is, or None
  None

ASSUME GroupsAssumption == Division \cap Team = {} /\ None \notin Division \cup Team \cup User

ASSUME GroupAssumption == InherentOf \in [Role -> Division \cup Team \cup {None}]

-----------------------------------------------------------------------------
(* Actions and routes *)

ActionsOf == [
  Task |-> {"task:create", "task:update", "task:retire", "task:revive", "task:assign", "task:submit",
            "task:review", "task:retire_submission", "task:complete", "task:configure_request_template",
            "task:manage_claims", "task:change_requester"},
  Message    |-> {"message:create", "message:update", "message:retire", "message:revive"},
  Attachment |-> {"attachment:create", "attachment:retire", "attachment:revive"},
  User       |-> {"user:update", "user:retire", "user:revive", "user:deactivate", "user:reactivate",
                  "user:grant_role", "user:revoke_role"},
  Session    |-> {"session:revoke"},
  Invitation |-> {"invite:retire"},
  Division   |-> {"division:update"},
  Organization |->
    {"invite:create", "grant:create", "grant:update", "grant:retire", "grant:revive",
     "role:create", "role:update", "role:retire", "role:revive",
     "division:create", "division:retire", "division:revive",
     "team:create", "team:update", "team:retire", "team:revive", "config:update",
     "integration:create", "integration:update", "integration:retire", "integration:revive"}]

ALL_ACTION_STRINGS == UNION {ActionsOf[t] : t \in DOMAIN ActionsOf}

RESOURCE_TYPE_BY_ACTION(action) == CHOOSE t \in DOMAIN ActionsOf : action \in ActionsOf[t]

\* A route is its action and its resolver.
OnOrganization(actions) == actions \X {"organization"}

TasksController ==
  {<<"task:create", "new_task">>, <<"task:revive", "reviving_task">>}
  \cup {"task:update", "task:retire", "task:assign", "task:manage_claims"} \X {"task"}

TasksDesk == {"task:change_requester", "task:complete", "task:configure_request_template"} \X {"task"}

SubmissionsController == {<<"task:submit", "submitted_task">>}

SubmissionsByIdController == {"task:review", "task:retire_submission"} \X {"submission"}

MessagesController ==
  {<<"message:create", "new_message">>, <<"message:revive", "reviving_message">>}
  \cup {"message:update", "message:retire"} \X {"message"}

AttachmentsController ==
  {<<"attachment:create", "new_attachment">>, <<"attachment:retire", "attachment">>,
   <<"attachment:revive", "reviving_attachment">>}

UsersController ==
  {<<"user:revive", "reviving_user">>} \cup OnOrganization({"user:update"})
  \cup {"user:update", "user:deactivate", "user:reactivate", "user:retire"} \X {"user"}
  \cup {"user:grant_role", "user:revoke_role"} \X {"user_with_role"}

DivisionsController ==
  OnOrganization({"division:create", "division:retire", "division:revive"}) \cup {<<"division:update", "division">>}

RequestTemplatesController == {<<"division:update", "division">>}

TeamsController == OnOrganization({"team:create", "team:update", "team:retire", "team:revive"})

RolesController == OnOrganization({"role:create", "role:update", "role:retire", "role:revive"})

GrantsController == OnOrganization({"grant:create", "grant:update", "grant:retire", "grant:revive"})

IntegrationsController ==
  OnOrganization({"integration:create", "integration:update", "integration:retire", "integration:revive"})

InvitationsController == OnOrganization({"invite:create"}) \cup {<<"invite:retire", "invitation">>}

ConfigController   == OnOrganization({"config:update"})
GcController       == OnOrganization({"config:update"})
ActivityController == OnOrganization({"config:update"})

Routes ==
  TasksController \cup TasksDesk \cup SubmissionsController \cup SubmissionsByIdController
  \cup MessagesController \cup AttachmentsController \cup UsersController \cup DivisionsController
  \cup RequestTemplatesController \cup TeamsController \cup RolesController \cup GrantsController
  \cup IntegrationsController \cup InvitationsController \cup ConfigController \cup GcController
  \cup ActivityController

-----------------------------------------------------------------------------
(* Resources.  `at` is the item, `who` the actor. *)

Entity(type, id, attrs) == [type |-> type, id |-> id, attrs |-> attrs]

Maybe(name, value) == IF value = None THEN {} ELSE {<<name, value>>}

Groups(at) == {<<"division", at.division>>} \cup Maybe("team", at.team)

Retired(at, type) == {<<"retired", type \in at.retired>>}

Restricts(at) ==
  {<<"divisionRestrictsClaims", at.division \in at.restricts>>, <<"teamRestrictsClaims", at.team \in at.restricts>>}

orgResource == Entity("Organization", "organization", {})

divisionResource(at) ==
  Entity("Division", at.division, {<<"division", at.division>>} \cup Retired(at, "Division"))

\* The groups of a new task are in the request.
taskCreateResource(at, who) == Entity("Task", "new", Groups(at) \cup {<<"requester", who>>})

\* Mutant: the resolver leaves out `retired`.
TaskAlways(at) == Entity("Task", "task", Groups(at) \cup {<<"requester", at.requester>>} \cup Restricts(at))

taskResource(at) ==
  Entity("Task", "task",
         Groups(at) \cup {<<"requester", at.requester>>} \cup Retired(at, "Task") \cup Restricts(at))

taskReviveResource(at) == Entity("Task", "task", Groups(at) \cup {<<"requester", at.requester>>})

taskSubmitResource(at, who) ==
  Entity("Task", "task",
         Groups(at) \cup Retired(at, "Task") \cup Maybe("claimant", IF who \in at.claimants THEN who ELSE None))

submissionResource(at) ==
  Entity("Task", "task",
         Groups(at) \cup Retired(at, "Task") \cup {<<"requester", at.requester>>, <<"claimant", at.author>>})

messageCreateResource(at, who) == Entity("Message", "new", Groups(at) \cup {<<"sender", who>>})

messageReviveResource(at) == Entity("Message", "message", Groups(at) \cup Maybe("sender", at.sender))

messageResource(at) ==
  Entity("Message", "message", Groups(at) \cup Maybe("sender", at.sender) \cup Retired(at, "Message"))

attachmentCreateResource(at, who) == Entity("Attachment", "new", Groups(at) \cup {<<"uploader", who>>})

attachmentReviveResource(at) == Entity("Attachment", "attachment", Groups(at) \cup {<<"uploader", at.uploader>>})

attachmentResource(at) ==
  Entity("Attachment", "attachment",
         Groups(at) \cup {<<"uploader", at.uploader>>} \cup Retired(at, "Attachment"))

targetUser(at, user) == Entity("User", user, {<<"retired", user \in at.retired>>})

reviveUser(user) == Entity("User", user, {})

\* Whether the user is retired is not looked at.
userWithTargetRole(user, role) == Entity("User", user, {<<"retired", FALSE>>, <<"targetRole", role>>})

invitationResource == Entity("Invitation", "invitation", {<<"retired", FALSE>>})

resolveResource(resolver, at, who, user, role) ==
  CASE resolver = "organization"     -> orgResource
    [] resolver = "division"         -> divisionResource(at)
    [] resolver = "new_task"         -> taskCreateResource(at, who)
    [] resolver = "task"             -> taskResource(at)
    [] resolver = "reviving_task"    -> taskReviveResource(at)
    [] resolver = "submitted_task"   -> taskSubmitResource(at, who)
    [] resolver = "submission"       -> submissionResource(at)
    [] resolver = "new_message"      -> messageCreateResource(at, who)
    [] resolver = "message"          -> messageResource(at)
    [] resolver = "reviving_message" -> messageReviveResource(at)
    [] resolver = "new_attachment"   -> attachmentCreateResource(at, who)
    [] resolver = "attachment"       -> attachmentResource(at)
    [] resolver = "reviving_attachment" -> attachmentReviveResource(at)
    [] resolver = "user"             -> targetUser(at, user)
    [] resolver = "reviving_user"    -> reviveUser(user)
    [] resolver = "user_with_role"   -> userWithTargetRole(user, role)
    [] resolver = "invitation"       -> invitationResource

-----------------------------------------------------------------------------
(* Grants and the decision *)

Requesters == {"task:update", "task:retire", "task:revive", "task:configure_request_template",
               "task:manage_claims", "task:change_requester", "task:review",
               "task:retire_submission", "task:complete"}

Senders == {"message:create", "message:update", "message:retire"}

Uploaders == {"attachment:create", "attachment:retire", "attachment:revive"}

OWN_ATTR_BY_ACTION ==
  [a \in Requesters \cup Senders \cup Uploaders \cup {"task:submit"} |->
     CASE a \in Requesters -> "requester"
       [] a \in Senders    -> "sender"
       [] a \in Uploaders  -> "uploader"
       [] OTHER            -> "claimant"]

GROUP_SCOPABLE == {"Task", "Message", "Attachment", "Division"}

ROLE_SCOPABLE == {"User"}

\* What a scope names belongs to its kind, and the kind to what the action is about.
assertShape(g) ==
  LET type == RESOURCE_TYPE_BY_ACTION(g.action) IN
  /\ g.action \in ALL_ACTION_STRINGS
  /\ CASE g.kind = "specific_division" -> g.on \in Division /\ type \in GROUP_SCOPABLE
       [] g.kind = "specific_team"     -> g.on \in Team /\ type \in GROUP_SCOPABLE
       [] g.kind \in {"own_division", "own_team"} -> g.on = None /\ type \in GROUP_SCOPABLE
       [] g.kind = "role"              -> g.on \in Role /\ type \in ROLE_SCOPABLE
       [] g.kind \in {"global", "own"} -> g.on = None

\* grantToPolicy throws for what it has no owner of; Cedar's validation of the
\* shapes left over warns at most.
Projectable(g) == g.kind = "own" => g.action \in DOMAIN OWN_ATTR_BY_ACTION \cup {"task:assign"}

Has(x, name, value) == <<name, value>> \in x.attrs

HasOf(x, name, some) == \E value \in some : Has(x, name, value)

\* A group that restricts claims wants its members.
ClaimEligible(p, x) ==
  /\ Has(x, "divisionRestrictsClaims", TRUE) => HasOf(x, "division", p.memberDivisions)
  /\ Has(x, "teamRestrictsClaims", TRUE) => HasOf(x, "team", p.memberTeams)

scopeCondition(g, p, x) ==
  CASE g.kind = "global"            -> TRUE
    [] g.kind = "specific_division" -> Has(x, "division", g.on)
    [] g.kind = "specific_team"     -> Has(x, "team", g.on)
    [] g.kind = "own_division"      -> HasOf(x, "division", p.memberDivisions)
    [] g.kind = "own_team"          -> HasOf(x, "team", p.memberTeams)
    [] g.kind = "role"              -> Has(x, "targetRole", g.on)
    [] g.kind = "own"               ->
         IF g.action = "task:assign" THEN ClaimEligible(p, x)
         ELSE Has(x, OWN_ATTR_BY_ACTION[g.action], p.user)

\* One policy of one grant.
grantToPolicy(g, effect, p, action, x) ==
  g.effect = effect /\ g.role \in p.roles /\ g.action = action /\ scopeCondition(g, p, x)

\* The policies that come with no grant.
staticForbids(selfReviewAllowed, p, action, x) ==
  \/ Has(x, "retired", TRUE)
  \/ ~selfReviewAllowed /\ action = "task:review" /\ Has(x, "claimant", p.user)

staticPermits(p, action, x) == action = "user:update" /\ x.type = "User" /\ x.id = p.user

\* The principal: active roles, and the groups they are inherent to.
buildPrincipalEntities(user, held, liveRoles) ==
  LET roles == held \cap liveRoles IN
  [user |-> user, roles |-> roles,
   memberDivisions |-> {InherentOf[r] : r \in roles} \cap Division,
   memberTeams     |-> {InherentOf[r] : r \in roles} \cap Team]

\* Cedar: a forbid overrides every permit, and nothing is permitted by default.
authorize(policies, p, action, x) ==
  /\ ~staticForbids(policies.selfReviewAllowed, p, action, x)
  /\ ~\E g \in policies.grants : grantToPolicy(g, "forbid", p, action, x)
  /\ staticPermits(p, action, x) \/ \E g \in policies.grants : grantToPolicy(g, "permit", p, action, x)
=============================================================================
