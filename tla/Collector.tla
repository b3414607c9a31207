----------------------------- MODULE Collector -----------------------------
(***************************************************************************)
(* Retirement and garbage collection: gc.service.ts, grace.service.ts,     *)
(* lifecycle.ts, and the attachments whose files the sweep removes         *)
(* (attachments.service.ts, the storage adapters).                         *)
(*                                                                         *)
(* What can be retired is an entity: a task, a group (division or team,    *)
(* with its inherent role), a standalone role, a user or a connection.     *)
(* Other rows hold references to entities.  A sweep reads its candidates   *)
(* first and deletes each in a transaction of its own, where the foreign   *)
(* keys refuse what is still referenced; the files of a deleted task go    *)
(* after the commit.  At last it lists the stored files and removes those  *)
(* that no attachment row names.  People go on meanwhile: they retire,     *)
(* revive, refer to entities and upload files.  A second sweep may run     *)
(* beside the hourly one (POST gc/sweep).                                  *)
(*                                                                         *)
(* Time is a step that ends the grace period of a retired entity.  Two     *)
(* attachments never share a storage key.                                  *)
(***************************************************************************)
EXTENDS Naturals, FiniteSets

CONSTANTS
  Task, Group, Role, User, Connection,
  File,             \* files to upload, each with a storage key of its own
  Sweep,            \* sweeps that may run at once
  Hourly,           \* those of the queue; an administrator asks for the others
  None,
  MaxEvents         \* bound on what people do, files aside, and on crashes

Entity == Task \cup Group \cup Role \cup User \cup Connection

ASSUME DisjointAssumption == /\ Task \cap (Group \cup Role \cup User \cup Connection) = {}
                             /\ Group \cap (Role \cup User \cup Connection) = {}
                             /\ Role \cap (User \cup Connection) = {} /\ User \cap Connection = {}

\* An attachment row, and what an upload in progress carries.
Attachment == [task : Task, retired : BOOLEAN]
Upload     == [at : {"checked", "stored"}, task : Task] \cup [at : {"done"}]

ASSUME NoneAssumption  == None \notin Entity \cup File \cup Attachment \cup Upload
ASSUME HourlyAssumption == Hourly \subseteq Sweep
ASSUME BoundAssumption == MaxEvents \in Nat

VARIABLES
  life,             \* life[e]: "active", "retired", "past" (its grace period) or "gone"
  rows,             \* rows that refer to entities
  scrubbed,         \* users reduced to a tombstone
  attachment,       \* attachment[f]: None or the task, and whether it is retired
  blobs,            \* stored files
  upload,           \* upload[f]: None or how far the upload of f is
  sweep,            \* sweep[w]: what the sweep does, has still to do, and knows
  outrun,           \* history: files stored but without a row as a sweep asked for rows
  revived,          \* history: entities revived or made grace again after a sweep read them
  events

people == <<life, rows, scrubbed>>
files  == <<attachment, blobs, upload, outrun>>
vars == <<people, files, sweep, revived, events>>

\* A row refers to one or two entities.  A task row refers to its group, a
\* history row (requester, claim, submission, message) keeps a task's user.
Kind == {"task", "history", "membership", "grant", "mapping", "link"}

Row == {r \in [kind : Kind, of : SUBSET Entity] :
          LET isA(S) == Cardinality(r.of \cap S) = 1
              pair(S, T) == Cardinality(r.of) = 2 /\ isA(S) /\ isA(T) IN
          CASE r.kind = "task"       -> pair(Task, Group)
            [] r.kind = "history"    -> pair(Task, User)
            [] r.kind = "membership" -> pair(User, Role \cup Group)
            [] r.kind = "grant"      -> Cardinality(r.of) = 1 /\ isA(Role \cup Group)
            [] r.kind = "mapping"    -> pair(Connection, Role \cup Group)
            [] r.kind = "link"       -> pair(User, Connection)}

Uses(e, kinds) == \E r \in rows : r.kind \in kinds /\ e \in r.of

roleUnreferenced(e) == ~Uses(e, {"membership", "grant", "mapping"})

divisionCollectable(e) == ~Uses(e, {"task"}) /\ roleUnreferenced(e)

userHasHistory(u) == Uses(u, {"history"})

connectionFree(e) == ~Uses(e, {"mapping", "link"})

Happens == events < MaxEvents /\ events' = events + 1

Known == UNION {sweep[w].todo : w \in Sweep}

-----------------------------------------------------------------------------
(* People *)

Retire(e) ==
  /\ Happens
  /\ life[e] = "active"
  /\ life' = [life EXCEPT ![e] = "retired"]
  /\ UNCHANGED <<rows, scrubbed, files, sweep, revived>>

GraceEnds(e) ==
  /\ life[e] = "retired"
  /\ life' = [life EXCEPT ![e] = "past"]
  /\ UNCHANGED <<rows, scrubbed, files, sweep, revived, events>>

\* An administrator lengthens the grace period.
GraceGrows(e) ==
  /\ Happens
  /\ life[e] = "past"
  /\ life' = [life EXCEPT ![e] = "retired"]
  /\ revived' = revived \cup ({e} \cap Known)
  /\ UNCHANGED <<rows, scrubbed, files, sweep>>

isRevivable(e) == life[e] = "retired"

Revive(e) ==
  /\ Happens
  /\ isRevivable(e)
  /\ life' = [life EXCEPT ![e] = "active"]
  /\ revived' = revived \cup ({e} \cap Known)
  /\ UNCHANGED <<rows, scrubbed, files, sweep>>

\* Handlers check that what they refer to is active, and write later: all that
\* holds then is the foreign key.
Refer(r) ==
  /\ Happens
  /\ r \notin rows /\ r.kind # "task" /\ \A e \in r.of : life[e] # "gone"
  /\ rows' = rows \cup {r}
  /\ UNCHANGED <<life, scrubbed, files, sweep, revived>>

\* Revoked, unmapped, unlinked; grants and history are never deleted by people.
Unrefer(r) ==
  /\ Happens
  /\ r \in rows /\ r.kind \in {"membership", "mapping", "link"}
  /\ rows' = rows \ {r}
  /\ UNCHANGED <<life, scrubbed, files, sweep, revived>>

-----------------------------------------------------------------------------
(* Attachments *)

\* Of a message of the task that is not retired.
BeginUpload(f, t) ==
  /\ upload[f] = None
  /\ life[t] # "gone"
  /\ upload' = [upload EXCEPT ![f] = [at |-> "checked", task |-> t]]
  /\ UNCHANGED <<people, attachment, blobs, outrun, sweep, revived, events>>

Put(f) ==
  /\ upload[f] # None /\ upload[f].at = "checked"
  /\ blobs' = blobs \cup {f}
  /\ upload' = [upload EXCEPT ![f].at = "stored"]
  /\ UNCHANGED <<people, attachment, outrun, sweep, revived, events>>

CreateAttachment(f) ==
  /\ upload[f] # None /\ upload[f].at = "stored"
  /\ life[upload[f].task] # "gone"
  /\ attachment' = [attachment EXCEPT ![f] = [task |-> upload[f].task, retired |-> FALSE]]
  /\ upload' = [upload EXCEPT ![f] = [at |-> "done"]]
  /\ UNCHANGED <<people, blobs, outrun, sweep, revived, events>>

\* The row is refused, as when its message is gone; the file is taken back.
UploadFails(f) ==
  /\ upload[f] # None /\ upload[f].at = "stored"
  /\ blobs' = blobs \ {f}
  /\ upload' = [upload EXCEPT ![f] = [at |-> "done"]]
  /\ UNCHANGED <<people, attachment, outrun, sweep, revived, events>>

\* The process stops between the file and its row.
UploadCrashes(f) ==
  /\ Happens
  /\ upload[f] # None /\ upload[f].at = "stored"
  /\ upload' = [upload EXCEPT ![f] = [at |-> "done"]]
  /\ UNCHANGED <<people, attachment, blobs, outrun, sweep, revived>>

RetireAttachment(f) ==
  /\ attachment[f] # None /\ ~attachment[f].retired
  /\ attachment' = [attachment EXCEPT ![f].retired = TRUE]
  /\ UNCHANGED <<people, blobs, upload, outrun, sweep, revived, events>>

\* Within the grace period, as the entities.
ReviveAttachment(f) ==
  /\ Happens
  /\ attachment[f] # None /\ attachment[f].retired
  /\ attachment' = [attachment EXCEPT ![f].retired = FALSE]
  /\ UNCHANGED <<people, blobs, upload, outrun, sweep, revived>>

-----------------------------------------------------------------------------
(* The sweep: candidates *)

Past(S) == {e \in S : life[e] = "past"}

Goes(w, at, todo) == sweep' = [sweep EXCEPT ![w] = [at |-> at, todo |-> todo, keys |-> {}]]

Idle == [at |-> "idle", todo |-> {}, keys |-> {}]

\* Revivals before a sweep reads its candidates are no concern of it.
Reads(w, at, todo) ==
  /\ Goes(w, at, todo)
  /\ revived' = revived \ todo
  /\ IF at = "tasks" /\ w \notin Hourly THEN Happens ELSE events' = events
  /\ UNCHANGED <<people, files>>

\* Done with what it read, the sweep reads the next candidates.
Finished(w, at) == sweep[w].at = at /\ sweep[w].todo = {} /\ sweep[w].keys = {}

\* Mutant: whatever is retired, in its grace period or not.
RetiredTasks(w) ==
  sweep[w].at = "idle" /\ Reads(w, "tasks", {e \in Task : life[e] \in {"retired", "past"}})

collectableTasks(w) == sweep[w].at = "idle" /\ Reads(w, "tasks", Past(Task))

collectable(w) ==
  /\ Finished(w, "tasks")
  /\ Reads(w, "roles", {e \in Past(Group) : divisionCollectable(e)}
                         \cup {e \in Past(Role) : roleUnreferenced(e)})

collectableUsers(w) == Finished(w, "roles") /\ Reads(w, "users", Past(User))

collectableConnections(w) ==
  /\ Finished(w, "users")
  /\ Reads(w, "connections", {e \in Past(Connection) : connectionFree(e)})

-----------------------------------------------------------------------------
(* The sweep: deletions *)

Working(w, at, e) == sweep[w].at = at /\ e \in sweep[w].todo

\* All foreign keys are RESTRICT.
Collected(w, e) ==
  /\ life[e] # "gone" /\ \A r \in rows' : e \notin r.of
  /\ life' = [life EXCEPT ![e] = "gone"]

Done(w, e) == sweep' = [sweep EXCEPT ![w].todo = @ \ {e}]

\* Mutant: attachments that people have retired are forgotten.
deleteActiveAggregate(w, e) ==
  LET mine == {f \in File : attachment[f] # None /\ attachment[f].task = e
                            /\ ~attachment[f].retired} IN
  /\ Working(w, "tasks", e)
  /\ rows' = {r \in rows : e \notin r.of}
  /\ attachment' = [f \in File |-> IF f \in mine THEN None ELSE attachment[f]]
  /\ Collected(w, e)
  /\ sweep' = [sweep EXCEPT ![w].todo = @ \ {e}, ![w].keys = @ \cup mine]
  /\ UNCHANGED <<scrubbed, blobs, upload, outrun, revived, events>>

\* With all that belongs to the task; its files follow after the commit.
deleteTaskAggregate(w, e) ==
  LET mine == {f \in File : attachment[f] # None /\ attachment[f].task = e} IN
  /\ Working(w, "tasks", e)
  /\ rows' = {r \in rows : e \notin r.of}
  /\ attachment' = [f \in File |-> IF f \in mine THEN None ELSE attachment[f]]
  /\ Collected(w, e)
  /\ sweep' = [sweep EXCEPT ![w].todo = @ \ {e}, ![w].keys = @ \cup mine]
  /\ UNCHANGED <<scrubbed, blobs, upload, outrun, revived, events>>

\* The task's files, and later the orphans.
DeleteBlob(w, f) ==
  /\ sweep[w].at \in {"tasks", "orphans"} /\ f \in sweep[w].keys
  /\ blobs' = blobs \ {f}
  /\ sweep' = [sweep EXCEPT ![w].keys = @ \ {f}]
  /\ UNCHANGED <<people, attachment, upload, outrun, revived, events>>

deleteGroupOrRole(w, e) ==
  /\ Working(w, "roles", e)
  /\ rows' = rows /\ Collected(w, e) /\ Done(w, e)
  /\ UNCHANGED <<scrubbed, files, revived, events>>

\* Mutant: the memberships stay.
purgeUserLinks(u) == {r \in rows : ~(u \in r.of /\ r.kind = "link")}

\* Identities, sessions, links with their baseline, and memberships go.
purgeUserSatellites(u) == {r \in rows : ~(u \in r.of /\ r.kind \in {"membership", "link"})}

scrubUser(w, e) ==
  /\ Working(w, "users", e) /\ life[e] # "gone" /\ userHasHistory(e)
  /\ rows' = purgeUserSatellites(e)
  /\ scrubbed' = scrubbed \cup {e}
  /\ Done(w, e)
  /\ UNCHANGED <<life, files, revived, events>>

deleteUser(w, e) ==
  /\ Working(w, "users", e) /\ ~userHasHistory(e)
  /\ rows' = purgeUserSatellites(e) /\ Collected(w, e) /\ Done(w, e)
  /\ UNCHANGED <<scrubbed, files, revived, events>>

deleteIntegrationConnection(w, e) ==
  /\ Working(w, "connections", e)
  /\ rows' = rows /\ Collected(w, e) /\ Done(w, e)
  /\ UNCHANGED <<scrubbed, files, revived, events>>

\* A reference made since the candidates were read blocks the deletion: it is
\* reported, and left for the next sweep.
handleDeleteFailure(w, e) ==
  /\ e \in sweep[w].todo /\ life[e] # "gone" /\ sweep[w].at \in {"roles", "connections"}
  /\ \E r \in rows : e \in r.of
  /\ Done(w, e)
  /\ UNCHANGED <<people, files, revived, events>>

\* Another sweep was first: the missing row ends this one.
Fails(w, e) ==
  /\ e \in sweep[w].todo /\ life[e] = "gone"
  /\ sweep' = [sweep EXCEPT ![w] = Idle]
  /\ UNCHANGED <<people, files, revived, events>>

BlobDeleteFails(w, f) ==
  /\ Happens
  /\ f \in sweep[w].keys /\ sweep[w].at \in {"tasks", "orphans"}
  /\ sweep' = [sweep EXCEPT ![w].keys = @ \ {f}]
  /\ UNCHANGED <<people, files, revived>>

Crash(w) ==
  /\ Happens
  /\ sweep[w] # Idle
  /\ sweep' = [sweep EXCEPT ![w] = Idle]
  /\ UNCHANGED <<people, files, revived>>

-----------------------------------------------------------------------------
(* The sweep: orphaned files *)

ListKeys(w) ==
  /\ Finished(w, "connections")
  /\ sweep' = [sweep EXCEPT ![w] = [at |-> "listed", todo |-> {}, keys |-> blobs]]
  /\ UNCHANGED <<people, files, revived, events>>

\* Mutant: rows of retired attachments are not asked for.
ReconcileActive(w) ==
  LET orphans == {f \in sweep[w].keys : attachment[f] = None \/ attachment[f].retired} IN
  /\ sweep[w].at = "listed"
  /\ sweep' = [sweep EXCEPT ![w].at = "orphans", ![w].keys = orphans]
  /\ outrun' = outrun \cup {f \in orphans : attachment[f] = None}
  /\ UNCHANGED <<people, attachment, blobs, upload, revived, events>>

reconcileOrphanedBlobs(w) ==
  LET orphans == {f \in sweep[w].keys : attachment[f] = None} IN
  /\ sweep[w].at = "listed"
  /\ sweep' = [sweep EXCEPT ![w].at = "orphans", ![w].keys = orphans]
  /\ outrun' = outrun \cup orphans
  /\ UNCHANGED <<people, attachment, blobs, upload, revived, events>>

SweepEnds(w) ==
  /\ sweep[w].at = "orphans" /\ sweep[w].keys = {}
  /\ sweep' = [sweep EXCEPT ![w] = Idle]
  /\ UNCHANGED <<people, files, revived, events>>

-----------------------------------------------------------------------------

\* A database in use: each task in a group, some with a user, some users with a
\* role, some entities retired before: groups, roles and connections long ago.
Init ==
  /\ life \in [Entity -> {"active", "retired", "past"}]
  /\ \A e \in Entity : life[e] # IF e \in Task \cup User THEN "past" ELSE "retired"
  /\ \E g \in [Task -> Group], some \in SUBSET {r \in Row : r.kind \in {"history", "membership"}} :
       rows = {[kind |-> "task", of |-> {t, g[t]}] : t \in Task} \cup some
  /\ scrubbed = {}
  /\ attachment = [f \in File |-> None] /\ blobs = {} /\ upload = [f \in File |-> None]
  /\ sweep = [w \in Sweep |-> Idle]
  /\ outrun = {} /\ revived = {} /\ events = 0

People ==
  \/ \E e \in Entity : Retire(e) \/ GraceEnds(e) \/ GraceGrows(e) \/ Revive(e)
  \/ \E r \in Row : Refer(r) \/ Unrefer(r)

Uploads(f) ==
  \/ \E t \in Task : BeginUpload(f, t)
  \/ Put(f) \/ CreateAttachment(f) \/ UploadFails(f) \/ UploadCrashes(f)
  \/ RetireAttachment(f) \/ ReviveAttachment(f)

SweepStep(w) ==
  \/ collectableTasks(w) \/ collectable(w) \/ collectableUsers(w) \/ collectableConnections(w)
  \/ \E e \in Entity :
       \/ deleteTaskAggregate(w, e) \/ deleteGroupOrRole(w, e)
       \/ scrubUser(w, e) \/ deleteUser(w, e) \/ deleteIntegrationConnection(w, e)
       \/ handleDeleteFailure(w, e) \/ Fails(w, e)
  \/ \E f \in File : DeleteBlob(w, f)
  \/ ListKeys(w) \/ reconcileOrphanedBlobs(w) \/ SweepEnds(w)

Next ==
  \/ People
  \/ \E f \in File : Uploads(f)
  \/ \E w \in Sweep : SweepStep(w) \/ Crash(w) \/ \E f \in File : BlobDeleteFails(w, f)

\* The hourly job runs again and again, time passes, and an upload that has
\* stored its file ends in one of its ways.
Spec == /\ Init /\ [][Next]_vars
        /\ \A w \in Sweep : WF_vars(SweepStep(w))
        /\ \A e \in Entity : WF_vars(GraceEnds(e))
        /\ \A f \in File : WF_vars(Put(f)) /\ WF_vars(CreateAttachment(f) \/ UploadFails(f))

-----------------------------------------------------------------------------
(* Properties *)

TypeOK ==
  /\ life \in [Entity -> {"active", "retired", "past", "gone"}]
  /\ rows \subseteq Row /\ \A r \in rows : \A e \in r.of : life[e] # "gone"
  /\ scrubbed \subseteq User
  /\ attachment \in [File -> {None} \cup {a \in Attachment : life[a.task] # "gone"}]
  /\ blobs \subseteq File /\ outrun \subseteq File /\ revived \subseteq Entity
  /\ upload \in [File -> {None} \cup Upload]
  /\ sweep \in [Sweep -> [at : {"idle", "tasks", "roles", "users", "connections", "listed",
                               "orphans"}, todo : SUBSET Entity, keys : SUBSET File]]
  /\ events \in 0..MaxEvents

\* Nothing is deleted or scrubbed before its grace period has ended, but for
\* what is revived, or given more time, while a sweep already holds it as a
\* candidate (gc.service.ts 82-123, 218-272).
OnlyPastCollected ==
  [][\A e \in Entity \ revived :
       (life[e] # "gone" /\ life'[e] = "gone") \/ (e \in scrubbed' \ scrubbed)
         => life[e] = "past"]_vars

\* An attachment has its file, whatever is retired, deleted, refused or retried,
\* unless a sweep asked for the rows between the file and its row
\* (attachments.service.ts 120-153, gc.service.ts 225-235, 604-620).
FilesKept == \A f \in File : attachment[f] # None /\ f \notin outrun => f \in blobs

\* Who keeps an entity: grants, which nobody deletes, mappings, which stay until
\* an administrator removes them, and rows of what is itself still there.
Kept(e) ==
  \E r \in rows : /\ e \in r.of
                  /\ \/ r.kind \in {"grant", "mapping"}
                     \/ \E x \in r.of \ {e} : life[x] # "past"

\* Whatever is past its grace period and kept by nothing that lives is collected
\* in the end, a user with history is scrubbed, and no file without a row stays,
\* also when sweeps crash, collide or are blocked (gc.service.ts 217-272).
AllCollected ==
  /\ \A e \in Entity : []<>(life[e] # "past" \/ Kept(e) \/ e \in scrubbed)
  /\ \A f \in File : []<>~(f \in blobs /\ attachment[f] = None)
=============================================================================
