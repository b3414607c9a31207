---------------------------- MODULE Authorization ----------------------------
(***************************************************************************)
(* A guarded request while the organization changes under it               *)
(* (access/authorize.guard.ts, access.service.ts, grants.service.ts).      *)
(*                                                                         *)
(* The guard reads the resource, then the policies, then the roles of the  *)
(* actor, each in a statement of its own; administrators meanwhile edit    *)
(* grants, roles and settings, and users move the very things the request  *)
(* is about.  Policies holds what is computed of each read.                *)
(*                                                                         *)
(* One request is followed to its answer, where the behaviour ends.        *)
(* The policies read are the rows at that moment: PolicyCache says why the *)
(* cache does not make them older.                                         *)
(***************************************************************************)
EXTENDS Policies, Naturals, FiniteSets

CONSTANTS
  Item,             \* what a request may be about, to begin with
  Tables,           \* grants to begin with: functions from Grant
  Holdings,         \* roles to begin with: functions from User
  Offered,          \* rows a grant may be created with
  Edits,            \* what an update may name: functions from some columns
  MaxChanges        \* bound: changes of the organization

Kind == {"global", "specific_division", "specific_team", "own_division", "own_team", "role", "own"}

\* Columns of a grant that an update may name.
ColumnType ==
  [action |-> STRING, effect |-> {"permit", "forbid"}, kind |-> Kind,
   on |-> Division \cup Team \cup Role \cup {None}]

Column == DOMAIN ColumnType

GrantRow ==
  [role : Role, action : ColumnType.action, effect : ColumnType.effect, kind : Kind, on : ColumnType.on,
   state : {"active", "retired"}]

ItemRow ==
  [division : Division, team : Team \cup {None}, requester : User, author : User, sender : User \cup {None},
   uploader : User, claimants : SUBSET User, restricts : SUBSET (Division \cup Team),
   retired : SUBSET ({"Task", "Message", "Attachment", "Division"} \cup User)]

ASSUME ItemAssumption == Item \subseteq ItemRow

\* Rows to begin with were written by create and Update below.
ASSUME TablesAssumption ==
  \A table \in Tables :
    /\ DOMAIN table = Grant
    /\ \A i \in Grant : table[i] # None => table[i] \in GrantRow /\ assertShape(table[i]) /\ Projectable(table[i])

\* What the schemas of grants.dto.ts let pass.
ASSUME OfferedAssumption == Offered \subseteq GrantRow

ASSUME EditsAssumption ==
  \A dto \in Edits : DOMAIN dto \subseteq Column /\ \A c \in DOMAIN dto : dto[c] \in ColumnType[c]

VARIABLES
  item,             \* the task with its submission, message and attachment
  grants,           \* the rows, or None
  memberOf,         \* the roles each user holds
  liveRoles,        \* the roles that are active
  selfReviewAllowed,
  editing,          \* an update of a grant between its reads and its write, or None
  request,          \* the guarded request
  could,            \* history: what the right answer was, over the request
  moved,            \* history: which of the three reads something changed, over the request
  changes           \* how many changes were made

\* A request is in flight.
Asked == request.at \in {"resource_read", "policies_read"}

world == <<item, grants, memberOf, liveRoles, selfReviewAllowed, editing>>

vars == <<world, request, could, moved, changes>>

Idle == [at |-> "idle"]

-----------------------------------------------------------------------------
(* What the answer should be, said of the organization itself *)

Member(who, group) == \E r \in memberOf[who] \cap liveRoles : InherentOf[r] = group

\* The division and the team the thing asked about is in.
GroupsOf(ask) ==
  CASE ask.resolver \in {"organization", "user", "reviving_user", "user_with_role", "invitation"} -> {}
    [] ask.resolver = "division" -> {item.division}
    [] OTHER -> {item.division, item.team} \ {None}

Family(ask) == RESOURCE_TYPE_BY_ACTION(ask.action)

Creates(ask) == ask.resolver \in {"new_task", "new_message", "new_attachment"}

\* Whose the thing is.
OwnersOf(ask) ==
  CASE Creates(ask) -> {ask.who}
    [] ~Creates(ask) /\ ask.action = "task:submit" -> item.claimants
    [] ~Creates(ask) /\ ask.action # "task:submit" /\ Family(ask) = "Task" -> {item.requester}
    [] ~Creates(ask) /\ Family(ask) = "Message"    -> {item.sender}
    [] ~Creates(ask) /\ Family(ask) = "Attachment" -> {item.uploader}
    [] OTHER -> {}

Covers(g, ask) ==
  CASE g.kind = "global" -> TRUE
    [] g.kind \in {"specific_division", "specific_team"} -> g.on \in GroupsOf(ask)
    [] g.kind = "own_division" -> \E d \in GroupsOf(ask) \cap Division : Member(ask.who, d)
    [] g.kind = "own_team"     -> \E t \in GroupsOf(ask) \cap Team : Member(ask.who, t)
    [] g.kind = "role"         -> ask.resolver = "user_with_role" /\ ask.role = g.on
    [] g.kind = "own" /\ ask.action = "task:assign" ->
         \A group \in GroupsOf(ask) \cap item.restricts : Member(ask.who, group)
    [] OTHER -> ask.who \in OwnersOf(ask)

\* Nobody acts on what is retired, but to revive it; the retired user of a change
\* of roles is not looked at.
OnRetired(ask) ==
  CASE ask.resolver \in {"task", "submitted_task", "submission"} -> "Task" \in item.retired
    [] ask.resolver \in {"message", "attachment", "division"}    -> Family(ask) \in item.retired
    [] ask.resolver = "user" -> ask.user \in item.retired
    [] OTHER -> FALSE

Rows == {grants[i] : i \in Grant} \ {None}

Speaking(ask) ==
  {g \in Rows : /\ g.state = "active" /\ g.role \in memberOf[ask.who] \cap liveRoles
                /\ g.action = ask.action /\ Covers(g, ask)}

Just(ask) ==
  /\ ~OnRetired(ask)
  /\ ask.action = "task:review" /\ ask.who = item.author => selfReviewAllowed
  /\ \A g \in Speaking(ask) : g.effect = "permit"
  /\ Speaking(ask) # {} \/ (ask.resolver = "user" /\ ask.action = "user:update" /\ ask.user = ask.who)

-----------------------------------------------------------------------------
(* Changes *)

Change(parts) ==
  /\ request.at # "answered"
  /\ changes < MaxChanges /\ changes' = changes + 1
  /\ moved' = IF Asked THEN moved \cup parts ELSE moved
  /\ UNCHANGED request

ChangeItem(new) ==
  /\ new # item /\ item' = new
  /\ Change({"resource"})
  /\ UNCHANGED <<grants, memberOf, liveRoles, selfReviewAllowed, editing>>

RetireItem(thing) == thing \notin item.retired /\ ChangeItem([item EXCEPT !.retired = @ \cup {thing}])

ReviveItem(thing) == thing \in item.retired /\ ChangeItem([item EXCEPT !.retired = @ \ {thing}])

RetireTask == RetireItem("Task")
ReviveTask == ReviveItem("Task")

RetireMessage == RetireItem("Message")
ReviveMessage == ReviveItem("Message")

RetireAttachment == RetireItem("Attachment")
ReviveAttachment == ReviveItem("Attachment")

RetireUser == \E u \in User : RetireItem(u)
ReviveUser == \E u \in User : ReviveItem(u)

changeRequester == \E u \in User : ChangeItem([item EXCEPT !.requester = u])

Claim == \E u \in User : ChangeItem([item EXCEPT !.claimants = @ \cup {u}])

Leave == \E u \in User : ChangeItem([item EXCEPT !.claimants = @ \ {u}])

FlipRestricts(group) ==
  ChangeItem([item EXCEPT !.restricts = IF group \in @ THEN @ \ {group} ELSE @ \cup {group}])

UpdateDivision == FlipRestricts(item.division)

UpdateTeam == item.team # None /\ FlipRestricts(item.team)

ChangeRoles(parts) ==
  Change(parts) /\ UNCHANGED <<item, grants, selfReviewAllowed, editing>>

grantRole ==
  \E u \in User, r \in Role :
    /\ r \notin memberOf[u] /\ memberOf' = [memberOf EXCEPT ![u] = @ \cup {r}]
    /\ ChangeRoles({"roles"}) /\ UNCHANGED liveRoles

revokeRole ==
  \E u \in User : \E r \in memberOf[u] :
    /\ memberOf' = [memberOf EXCEPT ![u] = @ \ {r}]
    /\ ChangeRoles({"roles"}) /\ UNCHANGED liveRoles

\* A role takes its grants out of the policies with it: two of the reads change.
SetRoles(live) ==
  /\ liveRoles' = live /\ live # liveRoles
  /\ ChangeRoles({"policies", "roles"}) /\ UNCHANGED memberOf

RetireRole == \E r \in Role : InherentOf[r] = None /\ SetRoles(liveRoles \ {r})
ReviveRole == \E r \in Role : InherentOf[r] = None /\ SetRoles(liveRoles \cup {r})

\* A group takes its inherent role along.
Inherent(group) == {r \in Role : InherentOf[r] = group}

RetireTeam == \E t \in Team : SetRoles(liveRoles \ Inherent(t))
ReviveTeam == \E t \in Team : SetRoles(liveRoles \cup Inherent(t))

\* The division of the thing asked about: all three reads change.
SetDivision(retired, live) ==
  /\ item' = [item EXCEPT !.retired = retired] /\ liveRoles' = live
  /\ Change({"resource", "policies", "roles"})
  /\ UNCHANGED <<grants, memberOf, selfReviewAllowed, editing>>

RetireDivision ==
  /\ "Division" \notin item.retired
  /\ SetDivision(item.retired \cup {"Division"}, liveRoles \ Inherent(item.division))

ReviveDivision ==
  /\ "Division" \in item.retired
  /\ SetDivision(item.retired \ {"Division"}, liveRoles \cup Inherent(item.division))

updateSettings ==
  /\ selfReviewAllowed' = ~selfReviewAllowed
  /\ Change({"policies"})
  /\ UNCHANGED <<item, grants, memberOf, liveRoles, editing>>

-----------------------------------------------------------------------------
(* Grants *)

ChangeGrant(i, row) ==
  /\ grants' = [grants EXCEPT ![i] = row]
  /\ Change({"policies"})
  /\ UNCHANGED <<item, memberOf, liveRoles, selfReviewAllowed>>

\* The other active grants are projected with the one to be.
validateActivation(candidate, i) ==
  /\ Projectable(candidate)
  /\ \A j \in Grant \ {i} :
       grants[j] # None => (grants[j].state = "active" /\ grants[j].role \in liveRoles => Projectable(grants[j]))

create(i) ==
  /\ grants[i] = None
  /\ \E row \in Offered : assertShape(row) /\ validateActivation(row, i) /\ ChangeGrant(i, row)
  /\ UNCHANGED editing

\* A new kind clears what the old one named.
Merged(row, dto) ==
  [c \in DOMAIN row |->
     IF c \in DOMAIN dto THEN dto[c]
     ELSE IF c = "on" /\ "kind" \in DOMAIN dto THEN None
     ELSE row[c]]

BeginUpdate(i) ==
  /\ request.at # "answered"
  /\ editing = None /\ grants[i] # None
  /\ \E dto \in Edits : LET row == Merged(grants[i], dto) IN
       /\ assertShape(row) /\ validateActivation(row, i)
       /\ editing' = [id |-> i, dto |-> dto, row |-> row]
  /\ UNCHANGED <<item, grants, memberOf, liveRoles, selfReviewAllowed, request, moved, changes>>

\* Mutant: the write names the columns of the request only.
WriteNamed(old, edit) == [c \in DOMAIN old |-> IF c \in DOMAIN edit.dto THEN edit.dto[c] ELSE old[c]]

\* The whole merged row is written, over whatever was written since it was read.
Written(old, edit) == [c \in DOMAIN old |-> IF c \in Column THEN edit.row[c] ELSE old[c]]

Update ==
  /\ editing # None
  /\ ChangeGrant(editing.id, Written(grants[editing.id], editing))
  /\ editing' = None

\* An update from start to end while another is open.
UpdateAtOnce(i) ==
  /\ editing # None /\ grants[i] # None
  /\ \E dto \in Edits : LET row == Merged(grants[i], dto) IN
       /\ assertShape(row) /\ validateActivation(row, i)
       /\ ChangeGrant(i, Written(grants[i], [dto |-> dto, row |-> row]))
  /\ UNCHANGED editing

\* The administrability guard refuses the write (AdminFloor).
UpdateRefused ==
  /\ request.at # "answered"
  /\ editing # None /\ editing' = None
  /\ UNCHANGED <<item, grants, memberOf, liveRoles, selfReviewAllowed, request, moved, changes>>

RetireGrant(i) ==
  /\ grants[i] # None /\ grants[i].state = "active"
  /\ ChangeGrant(i, [grants[i] EXCEPT !.state = "retired"]) /\ UNCHANGED editing

ReviveGrant(i) ==
  /\ grants[i] # None /\ grants[i].state = "retired"
  /\ ChangeGrant(i, [grants[i] EXCEPT !.state = "active"]) /\ UNCHANGED editing

-----------------------------------------------------------------------------
(* The guard *)

\* Only what some grant speaks of is asked for.
Spoken == {g.action : g \in Rows}

\* The user and the role of a request are a choice where its resolver takes one.
Asks ==
  {ask \in [action : Spoken, resolver : {r[2] : r \in Routes}, who : User, user : User, role : Role] :
     /\ <<ask.action, ask.resolver>> \in Routes
     /\ ask.resolver \notin {"user", "reviving_user", "user_with_role"} => ask.user = ask.who
     /\ ask.resolver # "user_with_role" => ask.role = CHOOSE r \in Role : TRUE}

\* canActivate: the resource of the route.
ReadResource ==
  /\ request.at = "idle"
  /\ \E ask \in Asks :
       request' = [at |-> "resource_read", ask |-> ask, again |-> FALSE,
                   x |-> resolveResource(ask.resolver, item, ask.who, ask.user, ask.role)]
  /\ moved' = {}
  /\ UNCHANGED <<world, changes>>

\* Active grants of active roles, and the setting.
projectPolicies ==
  [selfReviewAllowed |-> selfReviewAllowed,
   grants |-> {g \in Rows : g.state = "active" /\ g.role \in liveRoles}]

ReadPolicies ==
  /\ request.at = "resource_read"
  /\ request' = [at |-> "policies_read", ask |-> request.ask, again |-> request.again, x |-> request.x,
                 policies |-> projectPolicies]
  /\ UNCHANGED <<world, moved, changes>>

decide ==
  authorize(request.policies, buildPrincipalEntities(request.ask.who, memberOf[request.ask.who], liveRoles),
            request.ask.action, request.x)

Answer(allowed) == request' = [at |-> "answered", ask |-> request.ask, allowed |-> allowed]

\* A change of roles is asked about twice, by the guard and by the service.
Twice == request.ask.resolver = "user_with_role" /\ ~request.again

Decide ==
  /\ request.at = "policies_read" /\ ~(Twice /\ decide)
  /\ Answer(decide)
  /\ UNCHANGED <<world, moved, changes>>

reauthorizeRoleScope ==
  /\ request.at = "policies_read" /\ Twice /\ decide
  /\ request' = [at |-> "resource_read", ask |-> request.ask, again |-> TRUE, x |-> request.x]
  /\ UNCHANGED <<world, moved, changes>>

-----------------------------------------------------------------------------
Init ==
  /\ item \in Item
  /\ grants \in Tables
  /\ memberOf \in Holdings /\ liveRoles = Role
  /\ selfReviewAllowed = FALSE
  /\ editing = None
  /\ request = Idle
  /\ could = {} /\ moved = {}
  /\ changes = 0

History ==
  could' = CASE Asked          -> could \cup {Just(request.ask)'}
             [] ~Asked /\ Asked' -> {Just(request.ask)'}
             [] OTHER          -> could

Organization ==
  \/ RetireTask \/ ReviveTask \/ RetireMessage \/ ReviveMessage
  \/ RetireAttachment \/ ReviveAttachment \/ RetireUser \/ ReviveUser
  \/ changeRequester \/ Claim \/ Leave \/ UpdateDivision \/ UpdateTeam
  \/ RetireDivision \/ ReviveDivision \/ RetireTeam \/ ReviveTeam
  \/ grantRole \/ revokeRole \/ RetireRole \/ ReviveRole \/ updateSettings
  \/ \E i \in Grant :
       create(i) \/ BeginUpdate(i) \/ UpdateAtOnce(i) \/ RetireGrant(i) \/ ReviveGrant(i)
  \/ Update \/ UpdateRefused

Guard == ReadResource \/ ReadPolicies \/ Decide \/ reauthorizeRoleScope

Next == (Organization \/ Guard) /\ History

Spec == Init /\ [][Next]_vars

-----------------------------------------------------------------------------
(* Properties *)

\* What the guard answers is what the organization itself says (who holds which role,
\* whose the task is, what is retired) at some moment of the request, when at most one
\* of its three reads was about something that changed meanwhile: the attributes each
\* resolver builds (authorize.decorator.ts), the projection of every scope and own
\* family (policies.ts:42-132) and the principal (access.service.ts:133-168) add up to
\* the rule.  With two changes the reads may be torn, and nothing is promised.
DecisionIsJust ==
  request.at = "answered" /\ Cardinality(moved) <= 1 => request.allowed \in could

\* Every grant has the shape of its kind and can be projected, so that one bad row
\* never makes projectPolicies throw for the whole organization (access.service.ts:94):
\* updates merge with a row read earlier, two of them at once (grants.service.ts:280-355).
GrantsProject ==
  \A i \in Grant : grants[i] # None => assertShape(grants[i]) /\ Projectable(grants[i])
=============================================================================
