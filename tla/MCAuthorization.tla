--------------------------- MODULE MCAuthorization ---------------------------
(* Two users, a role inherent to a division, one to a team and one on its own *)
EXTENDS Authorization

CONSTANTS u1, u2, member, crew, desk, d1, t1, g1, g2

MCInherentOf == [r \in Role |-> CASE r = member -> d1 [] r = crew -> t1 [] OTHER -> None]

row(role, action, effect, kind, on) ==
  [role |-> role, action |-> action, effect |-> effect, kind |-> kind, on |-> on, state |-> "active"]

Starting(team, restricts, retired) ==
  [division |-> d1, team |-> team, requester |-> u1, author |-> u2, sender |-> u1, uploader |-> u2,
   claimants |-> {u2}, restricts |-> restricts, retired |-> retired]

MCItem == {Starting(t1, {t1}, {}), Starting(None, {d1}, {"Message", u2})}

MCHoldings == {[u \in User |-> IF u = u1 THEN {desk, member} ELSE {crew, desk}]}

MCOffered ==
  {row(desk, "task:update", "forbid", "specific_team", t1),
   row(desk, "user:grant_role", "permit", "role", crew),
   row(crew, "task:assign", "permit", "own", None)}

Pairs ==
  {<<row(desk, "task:update", "permit", "own", None), row(member, "task:update", "permit", "own_division", None)>>,
   <<row(member, "task:review", "permit", "own_division", None), row(desk, "task:submit", "permit", "own", None)>>,
   <<row(crew, "task:assign", "permit", "own", None), row(desk, "message:update", "permit", "own", None)>>,
   <<row(desk, "user:retire", "permit", "global", None), row(crew, "task:revive", "permit", "own_team", None)>>,
   <<row(desk, "attachment:retire", "permit", "own", None), row(desk, "division:update", "permit", "specific_division", d1)>>,
   <<row(desk, "user:update", "permit", "global", None), None>>}

MCTables == {[i \in Grant |-> IF i = g1 THEN p[1] ELSE p[2]] : p \in Pairs}

MCEdits ==
  {[kind |-> "own"], [action |-> "task:create", kind |-> "global"], [effect |-> "forbid"],
   [kind |-> "specific_team", on |-> t1]}
=============================================================================
