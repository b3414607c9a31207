------------------------------- MODULE RoleSync -------------------------------
(***************************************************************************)
(* The synchronisation of role memberships with the groups of one external *)
(* workspace: api/src/integrations/sync/reconciler.ts, discord.adapter.ts  *)
(* and sync.service.ts.                                                    *)
(*                                                                         *)
(* A mapping ties a role to an external group and has a direction.  A job  *)
(* reads the mappings, then the external memberships, then the memberships *)
(* of Patrice and the baseline (what it last saw outside), derives the     *)
(* operations, and applies them one by one: first those on Patrice, then   *)
(* the pushes, then the baseline.  A full sweep covers every linked member *)
(* and keeps the status of the connection; a targeted job covers one.      *)
(* The worker runs one replica and one job at a time; administrators and   *)
(* the people of the workspace change either side between any two steps.   *)
(*                                                                         *)
(* A queued job may be lost, doubled or late, so a job may start at any    *)
(* moment.  Operations of one kind are applied in any order: the queries   *)
(* they derive from have none.  A push may be refused, fail or find the    *)
(* token invalid, and the worker may crash; MaxEvents bounds such troubles *)
(* together with the changes people make.                                  *)
(* The cold-baseline branch of the reconciler is left out: for a           *)
(* bidirectional mapping the adapter always passes a baseline, and two     *)
(* sides that differ cannot both differ from it.  Also left out: retired   *)
(* roles and connections, a missing bot token, linking, unlinking, two     *)
(* mappings of one group, deleting or re-pointing a mapping, error texts.  *)
(***************************************************************************)
EXTENDS Naturals, FiniteSets

CONSTANTS
  Member,          \* linked members
  Mapping, Role,
  RoleOf,          \* RoleOf[m]: the role of mapping m
  Directions,      \* directions a mapping may have
  MaxEvents        \* bound on people's changes, failed calls and crashes

ASSUME MappingAssumption   == RoleOf \in [Mapping -> Role]
ASSUME DirectionAssumption == Directions \subseteq {"inbound", "outbound", "bidirectional"}
ASSUME BoundAssumption     == MaxEvents \in Nat

Edge == Member \X Mapping

VARIABLES
  held,            \* held[u, r]: "none", or the source of the user_role row
  external,        \* the edges <<u, m>> present in the workspace
  groups,          \* the mappings whose external group exists
  direction, broken,      \* external_group_mapping
  baseline,        \* the sync_baseline rows
  connection,      \* status, sync_state and last_error of the connection
  job,             \* the job the worker is running
  events,          \* how much has happened, for the bound
  clean,           \* history: members nobody touched since the job started
  settled,         \* history: members untouched since a job completed on them
  word             \* history: the administrator's last word on a membership

patrice == <<held, direction, broken, baseline, connection>>
discord == <<external, groups>>
history == <<clean, settled, word>>
vars    == <<held, external, groups, direction, broken, baseline, connection, job,
             events, clean, settled, word>>

Happens == events < MaxEvents /\ events' = events + 1

RoleEdge(e) == <<e[1], RoleOf[e[2]]>>

-----------------------------------------------------------------------------
(* The reconciler: what one edge calls for *)

\* Each is a function of the direction d of the mapping, whether the member is
\* in the group, the source of the membership in Patrice, and whether the
\* baseline has the edge.  Sides that differ cannot both differ from the
\* baseline: the one that does has moved, and is followed.
GrantWanted(d, outside, source, base) ==
  /\ outside /\ source = "none"
  /\ d = "inbound" \/ (d = "bidirectional" /\ ~base)

\* Mutant: a membership is revoked whoever granted it.
RevokeAnySource(d, outside, source, base) ==
  /\ ~outside /\ source # "none"
  /\ d = "inbound" \/ (d = "bidirectional" /\ base)

RevokeWanted(d, outside, source, base) ==
  /\ ~outside /\ source = "integration"
  /\ d = "inbound" \/ (d = "bidirectional" /\ base)

\* Mutant: a native membership that Discord dropped is left diverged.
AddWithoutReassert(d, outside, source, base) ==
  /\ ~outside /\ source # "none"
  /\ d = "outbound" \/ (d = "bidirectional" /\ ~base)

AddWanted(d, outside, source, base) ==
  /\ ~outside /\ source # "none"
  /\ d = "outbound" \/ (d = "bidirectional" /\ (base => source = "patrice"))

RemoveWanted(d, outside, source, base) ==
  /\ outside /\ source = "none"
  /\ d = "outbound" \/ (d = "bidirectional" /\ base)

-----------------------------------------------------------------------------
(* A job *)

NoJob == [phase |-> "idle"]
In(phase) == job.phase = phase

\* The mappings are read with the connection; a sweep shows as running.
Start(members, full) ==
  /\ job = NoJob
  /\ job' = [phase |-> "started", full |-> full, members |-> members,
             dirs |-> [m \in Mapping \ broken |-> direction[m]]]
  /\ connection' = IF full THEN [connection EXCEPT !.running = TRUE] ELSE connection
  /\ clean' = members
  /\ UNCHANGED <<held, direction, broken, baseline, discord, events, settled, word>>

StartSweep   == Start(Member, TRUE)
StartUser(u) == Start({u}, FALSE)

\* fetchMembership and fetchGroups, or fetchMember: only a sweep learns which
\* groups are gone.
Fetch ==
  /\ In("started")
  /\ job' = [phase |-> "fetched", full |-> job.full, members |-> job.members,
             dirs |-> job.dirs, seen |-> external,
             gone |-> {m \in DOMAIN job.dirs : job.full /\ m \notin groups}]
  /\ connection' = IF job.full THEN [connection EXCEPT !.status = "active"] ELSE connection
  /\ UNCHANGED <<held, direction, broken, baseline, discord, events, history>>

FetchFails ==
  /\ In("started") /\ Happens
  /\ job' = NoJob
  /\ connection' = IF job.full THEN [status |-> "broken", running |-> FALSE, error |-> TRUE]
                   ELSE connection
  /\ UNCHANGED <<held, direction, broken, baseline, discord, history>>

\* Reads the memberships and the baseline and derives the operations.
Reconcile ==
  LET edges == job.members \X (DOMAIN job.dirs \ job.gone)
      Wanting(Wanted(_, _, _, _)) ==
        {e \in edges : Wanted(job.dirs[e[2]], e \in job.seen, held[RoleEdge(e)], e \in baseline)}
  IN
  /\ In("fetched")
  /\ job' = [phase |-> "applying", full |-> job.full, members |-> job.members,
             grants |-> Wanting(GrantWanted), revokes |-> Wanting(RevokeWanted),
             adds |-> Wanting(AddWanted), removes |-> Wanting(RemoveWanted),
             upserts |-> edges \cap job.seen, deletes |-> edges \ job.seen,
             refused |-> {}, error |-> FALSE]
  /\ broken' = broken \cup job.gone
  /\ word' = [p \in Member \X Role |-> IF word[p] = "granted" THEN "none" ELSE word[p]]
  /\ UNCHANGED <<held, direction, baseline, connection, discord, events, clean, settled>>

Grant(e) ==
  /\ In("applying") /\ e \in job.grants
  /\ held[RoleEdge(e)] = "none"
  /\ held' = [held EXCEPT ![RoleEdge(e)] = "integration"]
  /\ job' = [job EXCEPT !.grants = @ \ {e}]
  /\ UNCHANGED <<direction, broken, baseline, connection, discord, events, history>>

\* DELETE by key, whatever the source of the row is by now.
Revoke(e) ==
  /\ In("applying") /\ e \in job.revokes
  /\ held[RoleEdge(e)] # "none"
  /\ held' = [held EXCEPT ![RoleEdge(e)] = "none"]
  /\ job' = [job EXCEPT !.revokes = @ \ {e}]
  /\ UNCHANGED <<direction, broken, baseline, connection, discord, events, history>>

\* The row to insert exists or the row to delete is gone: the job throws, and
\* what it had left undone stays undone.
Throws(e) ==
  /\ In("applying")
  /\ \/ e \in job.grants  /\ held[RoleEdge(e)] # "none"
     \/ e \in job.revokes /\ held[RoleEdge(e)] = "none"
  /\ job' = NoJob
  /\ UNCHANGED <<patrice, discord, events, history>>

Pushing == In("applying") /\ job.grants = {} /\ job.revokes = {}
Undone  == job.adds \cup job.removes

Push(e) ==
  /\ Pushing /\ e \in Undone /\ e[2] \in groups
  /\ external' = IF e \in job.adds THEN external \cup {e} ELSE external \ {e}
  /\ job' = [job EXCEPT !.adds = @ \ {e}, !.removes = @ \ {e}]
  /\ UNCHANGED <<patrice, groups, events, history>>

\* 404 because the group is gone, or 403.
PushRefused(e) ==
  /\ Pushing /\ e \in Undone
  /\ \/ e[2] \notin groups /\ UNCHANGED events
     \/ Happens
  /\ job' = [job EXCEPT !.adds = @ \ {e}, !.removes = @ \ {e},
                        !.refused = @ \cup {e[2]}, !.error = TRUE]
  /\ UNCHANGED <<patrice, discord, history>>

\* Any other answer, or none.
PushFails(e) ==
  /\ Pushing /\ e \in Undone
  /\ Happens
  /\ job' = [job EXCEPT !.adds = @ \ {e}, !.removes = @ \ {e}, !.error = TRUE]
  /\ clean' = clean \ {e[1]}
  /\ UNCHANGED <<patrice, discord, settled, word>>

\* 401: the connection is flagged, the remaining pushes are dropped, and the
\* errors of the earlier ones are forgotten.
TokenRejected ==
  /\ Pushing /\ Undone # {}
  /\ Happens
  /\ connection' = [connection EXCEPT !.status = "broken", !.error = TRUE]
  /\ job' = [job EXCEPT !.adds = {}, !.removes = {}, !.error = FALSE]
  /\ clean' = clean \ {e[1] : e \in Undone}
  /\ UNCHANGED <<held, direction, broken, baseline, discord, settled, word>>

\* Mappings whose push was refused are flagged broken.
FlagRefused ==
  /\ Pushing /\ Undone = {}
  /\ broken' = broken \cup job.refused
  /\ job' = [phase |-> "saving", full |-> job.full, members |-> job.members,
             upserts |-> job.upserts, deletes |-> job.deletes, error |-> job.error]
  /\ UNCHANGED <<held, direction, baseline, connection, discord, events, history>>

SaveEdge(e) ==
  /\ In("saving") /\ e \in job.upserts
  /\ baseline' = baseline \cup {e}
  /\ job' = [job EXCEPT !.upserts = @ \ {e}]
  /\ UNCHANGED <<held, direction, broken, connection, discord, events, history>>

\* Mutant: the sweep is never shown as done.
FinalStateStillRunning(full, error) ==
  IF full THEN [connection EXCEPT !.error = error]
  ELSE [connection EXCEPT !.error = @ \/ error]

\* Mutant: the sweep replaces the state of the connection instead of updating it.
FinalStateReplaced(full, error) ==
  IF full THEN [running |-> FALSE, error |-> error] ELSE connection

FinalState(full, error) ==
  IF full THEN [connection EXCEPT !.running = FALSE, !.error = error]
  ELSE [connection EXCEPT !.error = @ \/ error]

\* Mutant: edges that are gone stay in the baseline.
NothingForgotten == {}
Forgotten == job.deletes

Finish ==
  /\ In("saving") /\ job.upserts = {}
  /\ baseline' = baseline \ Forgotten
  /\ connection' = FinalState(job.full, job.error)
  /\ job' = NoJob
  /\ settled' = settled \cup clean
  /\ UNCHANGED <<held, direction, broken, discord, events, clean, word>>

Crash ==
  /\ job # NoJob
  /\ Happens
  /\ job' = NoJob
  /\ UNCHANGED <<patrice, discord, history>>

-----------------------------------------------------------------------------
(* What people do meanwhile *)

Moves(touched) ==
  /\ Happens
  /\ clean' = clean \ touched
  /\ settled' = settled \ touched
  /\ UNCHANGED <<job, connection>>

AdminGrants(u, r) ==
  /\ held[<<u, r>>] = "none"
  /\ held' = [held EXCEPT ![<<u, r>>] = "patrice"]
  /\ word' = [word EXCEPT ![<<u, r>>] = "granted"]
  /\ Moves({u})
  /\ UNCHANGED <<discord, direction, broken, baseline>>

\* Only a revocation that no running job can have overtaken is a last word.
AdminRevokes(u, r) ==
  /\ held[<<u, r>>] # "none"
  /\ held' = [held EXCEPT ![<<u, r>>] = "none"]
  /\ word' = [word EXCEPT ![<<u, r>>] = IF job = NoJob THEN "revoked" ELSE "none"]
  /\ Moves({u})
  /\ UNCHANGED <<discord, direction, broken, baseline>>

DiscordChanges(e) ==
  /\ e[2] \in groups
  /\ external' = IF e \in external THEN external \ {e} ELSE external \cup {e}
  /\ word' = [word EXCEPT ![RoleEdge(e)] = IF @ = "revoked" THEN "none" ELSE @]
  /\ Moves({e[1]})
  /\ UNCHANGED <<held, groups, direction, broken, baseline>>

GroupDeleted(m) ==
  /\ m \in groups
  /\ groups' = groups \ {m}
  /\ external' = {e \in external : e[2] # m}
  /\ Moves(Member)
  /\ UNCHANGED <<held, direction, broken, baseline, word>>

RetryMapping(m) ==
  /\ m \in broken
  /\ broken' = broken \ {m}
  /\ Moves(Member)
  /\ UNCHANGED <<held, discord, direction, baseline, word>>

UpdateMapping(m, d) ==
  /\ direction[m] # d
  /\ direction' = [direction EXCEPT ![m] = d]
  /\ Moves(Member)
  /\ UNCHANGED <<held, discord, broken, baseline, word>>

-----------------------------------------------------------------------------

\* A connection before its first sweep: nothing mapped has been compared yet.
Init ==
  /\ held = [p \in Member \X Role |-> "none"]
  /\ external \in SUBSET Edge
  /\ groups = Mapping
  /\ direction \in [Mapping -> Directions]
  /\ broken = {}
  /\ baseline = {}
  /\ connection = [status |-> "active", running |-> FALSE, error |-> FALSE]
  /\ job = NoJob
  /\ events = 0
  /\ clean = {} /\ settled = {}
  /\ word = [p \in Member \X Role |-> "none"]

JobStep ==
  \/ Fetch \/ FetchFails \/ Reconcile
  \/ \E e \in Edge :
       \/ Grant(e) \/ Revoke(e) \/ Throws(e)
       \/ Push(e) \/ PushRefused(e) \/ PushFails(e) \/ SaveEdge(e)
  \/ TokenRejected \/ FlagRefused \/ Finish

PeopleStep ==
  \/ \E u \in Member, r \in Role : AdminGrants(u, r) \/ AdminRevokes(u, r)
  \/ \E e \in Edge : DiscordChanges(e)
  \/ \E m \in Mapping : GroupDeleted(m) \/ RetryMapping(m)
  \/ \E m \in Mapping, d \in Directions : UpdateMapping(m, d)

Next ==
  \/ StartSweep \/ (\E u \in Member : StartUser(u))
  \/ JobStep \/ Crash \/ PeopleStep

\* The worker goes on with the job it has.  The floor tick and the first-come
\* queue bring every connection a sweep again and again, whatever targeted
\* jobs come between.
Fairness == WF_vars(JobStep) /\ SF_vars(StartSweep)

Spec == Init /\ [][Next]_vars /\ Fairness

-----------------------------------------------------------------------------
(* Properties *)

\* What a job carries in each of its phases.
JobDirs  == UNION {[known -> Directions] : known \in SUBSET Mapping}
Started  == [phase : {"started"}, full : BOOLEAN, members : SUBSET Member, dirs : JobDirs]
Fetched  == [phase : {"fetched"}, full : BOOLEAN, members : SUBSET Member, dirs : JobDirs,
             seen : SUBSET Edge, gone : SUBSET Mapping]
Applying == [phase : {"applying"}, full : BOOLEAN, members : SUBSET Member,
             grants : SUBSET Edge, revokes : SUBSET Edge, adds : SUBSET Edge,
             removes : SUBSET Edge, upserts : SUBSET Edge, deletes : SUBSET Edge,
             refused : SUBSET Mapping, error : BOOLEAN]
Saving   == [phase : {"saving"}, full : BOOLEAN, members : SUBSET Member,
             upserts : SUBSET Edge, deletes : SUBSET Edge, error : BOOLEAN]
Job      == {NoJob} \cup Started \cup Fetched \cup Applying \cup Saving

Membership == {"none", "patrice", "integration"}
Connection == [status : {"active", "broken"}, running : BOOLEAN, error : BOOLEAN]

\* Every column holds a value of its enumeration, and the job has what its
\* phase needs.
TypeOK ==
  /\ held \in [Member \X Role -> Membership]
  /\ external \subseteq Edge /\ baseline \subseteq Edge
  /\ groups \subseteq Mapping /\ broken \subseteq Mapping
  /\ direction \in [Mapping -> Directions]
  /\ connection \in Connection
  /\ job \in Job /\ events \in Nat
  /\ clean \subseteq Member /\ settled \subseteq Member
  /\ word \in [Member \X Role -> {"none", "granted", "revoked"}]

\* The two sides of an edge are as its direction asks.
Agreed(e) ==
  LET source  == held[RoleEdge(e)]
      outside == e \in external
  IN  IF direction[e[2]] = "inbound"
      THEN (outside => source # "none") /\ (source = "integration" => outside)
      ELSE outside <=> source # "none"

\* After one job that nobody disturbed, both sides of all its members agree
\* (or the mapping is flagged broken), and later jobs leave that alone.  It
\* holds where no two mappings share a role.
UndisturbedJobSettles ==
  \A u \in settled : \A m \in Mapping \ broken : Agreed(<<u, m>>)

\* "Sync never revokes a native grant" (reconciler.ts:182), to the extent the
\* code keeps it: a native row is only hit if it is younger than the reading.
NativeGrantsStand ==
  [][\A p \in Member \X Role :
       held[p] = "patrice" /\ held'[p] = "none" /\ events' = events
         => word[p] = "granted"]_vars

\* Once people and failures are quiet, the sides come to agree for good and
\* the baseline records it: every job that threw, failed or crashed is made up
\* for.  It holds where no two mappings share a role.
Converges ==
  <>[](\A e \in Edge : e[2] \in broken \/ (Agreed(e) /\ (e \in baseline <=> e \in external)))

\* A sweep shown as running is eventually shown as done, even when the job
\* that set the flag threw or crashed.
RunningEnds == connection.running ~> ~connection.running
=============================================================================
