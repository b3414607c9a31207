-------------------------- MODULE CollectorProofs --------------------------
(***************************************************************************)
(* What the sweeps of Collector delete, for any entities, files and sweeps.*)
(*                                                                         *)
(* Two sweeps, the uploads and people act on the same rows and files, and  *)
(* a sweep acts on what it read some steps ago.  The invariant says what   *)
(* is still true of it: a candidate is past its grace period or was        *)
(* revived meanwhile (CandidatesPast), and the files it is about to remove *)
(* have no row and get none, unless it has outrun their upload (FileInv).  *)
(***************************************************************************)
EXTENDS Collector, FiniteSetTheorems, TLAPS

\* The candidates of a phase are of its kinds: only a step on tasks touches the
\* attachments, whose tasks must be there.
CandidateKinds ==
  \A w \in Sweep :
    /\ sweep[w].at = "tasks" => sweep[w].todo \subseteq Task
    /\ sweep[w].at = "roles" => sweep[w].todo \subseteq Group \cup Role
    /\ sweep[w].at = "users" => sweep[w].todo \subseteq User
    /\ sweep[w].at = "connections" => sweep[w].todo \subseteq Connection

TypeInv == TypeOK /\ CandidateKinds

\* Of each file: an upload that made a row is done, and starts no more; one that
\* has stored the file and goes on still has it; an attachment has it; and what a
\* sweep removes is the file of a deleted task or one whose upload it has outrun.
FileInv(f) ==
  /\ attachment[f] # None => upload[f] # None /\ upload[f].at = "done"
  /\ upload[f] # None /\ upload[f].at = "stored" /\ f \notin outrun => f \in blobs
  /\ attachment[f] # None /\ f \notin outrun => f \in blobs
  /\ \A w \in Sweep : f \in sweep[w].keys =>
       /\ sweep[w].at = "tasks" => attachment[f] = None /\ upload[f] # None /\ upload[f].at = "done"
       /\ sweep[w].at = "orphans" => f \in outrun

FilesInv == TypeInv /\ \A f \in File : FileInv(f)

CandidatesPast ==
  \A w \in Sweep : \A e \in sweep[w].todo : e \in revived \/ life[e] \in {"past", "gone"}

-----------------------------------------------------------------------------
(* Types *)

LEMMA RowOf == ASSUME NEW r \in Row PROVE r.of \subseteq Entity /\ r.kind \in Kind
BY DEF Row

LEMMA UploadShape ==
  ASSUME TypeOK, NEW f \in File, upload[f] # None
  PROVE  /\ upload[f] \in Upload
         /\ upload[f].at \in {"checked", "stored", "done"}
         /\ upload[f].at \in {"checked", "stored"} => upload[f].task \in Task
BY DEF TypeOK, Upload

LEMMA AttachmentShape ==
  ASSUME TypeOK, NEW f \in File, attachment[f] # None, NEW b \in BOOLEAN
  PROVE  /\ attachment[f] \in Attachment /\ attachment[f].task \in Task
         /\ life[attachment[f].task] # "gone"
         /\ [attachment[f] EXCEPT !.retired = b] \in {a \in Attachment : life[a.task] # "gone"}
<1>1. attachment[f] \in Attachment /\ life[attachment[f].task] # "gone" BY DEF TypeOK
<1>2. /\ [attachment[f] EXCEPT !.retired = b] \in Attachment
      /\ [attachment[f] EXCEPT !.retired = b].task = attachment[f].task
  BY <1>1 DEF Attachment
<1> QED BY <1>1, <1>2 DEF Attachment

LEMMA SweepShape ==
  ASSUME TypeOK, NEW w \in Sweep
  PROVE  /\ sweep[w].todo \subseteq Entity /\ sweep[w].keys \subseteq File
         /\ sweep[w].at \in {"idle", "tasks", "roles", "users", "connections", "listed", "orphans"}
BY DEF TypeOK

\* A task and its group, a row of two that are not the same.
LEMMA TaskRow ==
  ASSUME NEW t \in Task, NEW g \in Group
  PROVE  [kind |-> "task", of |-> {t, g}] \in Row
<1>1. t # g /\ {t, g} \cap Task = {t} /\ {t, g} \cap Group = {g}
  BY DisjointAssumption
<1>2. Cardinality({t}) = 1 /\ Cardinality({g}) = 1 BY FS_Singleton
<1>3. Cardinality({t, g}) = 2
  <2>1. IsFiniteSet({t}) BY FS_Singleton
  <2>2. Cardinality({t} \cup {g}) = Cardinality({t}) + 1 BY <1>1, <2>1, FS_AddElement
  <2>3. {t} \cup {g} = {t, g} OBVIOUS
  <2> QED BY <1>2, <2>2, <2>3
<1>4. {t, g} \in SUBSET Entity BY DEF Entity
<1> QED BY <1>1, <1>2, <1>3, <1>4 DEF Row, Kind

LEMMA InitTypes == Init => TypeOK
<1> SUFFICES ASSUME Init PROVE TypeOK OBVIOUS
<1>1. /\ life \in [Entity -> {"active", "retired", "past", "gone"}]
      /\ \A e \in Entity : life[e] # "gone"
  BY DEF Init
<1>2. PICK g \in [Task -> Group], some \in SUBSET {r \in Row : r.kind \in {"history", "membership"}} :
        rows = {[kind |-> "task", of |-> {t, g[t]}] : t \in Task} \cup some
  BY DEF Init
<1>3. rows \subseteq Row BY <1>2, TaskRow
<1>4. \A r \in rows : \A e \in r.of : life[e] # "gone" BY <1>1, <1>3, RowOf
<1>5. sweep \in [Sweep -> [at : {"idle", "tasks", "roles", "users", "connections", "listed",
                                "orphans"}, todo : SUBSET Entity, keys : SUBSET File]]
  BY DEF Init, Idle
<1> QED BY <1>1, <1>3, <1>4, <1>5, BoundAssumption DEF Init, TypeOK

LEMMA InitSweeps ==
  Init => \A w \in Sweep : sweep[w].at = "idle" /\ sweep[w].todo = {} /\ sweep[w].keys = {}
BY DEF Init, Idle

LEMMA HappensTyped == TypeOK /\ Happens => events' \in 0..MaxEvents
BY BoundAssumption DEF TypeOK, Happens

\* People change entities and rows, never files and sweeps.
LEMMA PeopleTypes == TypeOK /\ People => TypeOK'
<1> SUFFICES ASSUME TypeOK, People PROVE TypeOK' OBVIOUS
<1>1. ASSUME NEW e \in Entity, Retire(e) PROVE TypeOK'
  BY <1>1, HappensTyped, RowOf DEF TypeOK, Retire, files, Attachment, Entity
<1>2. ASSUME NEW e \in Entity, GraceEnds(e) PROVE TypeOK'
  BY <1>2, RowOf DEF TypeOK, GraceEnds, files, Attachment, Entity
<1>3. ASSUME NEW e \in Entity, GraceGrows(e) PROVE TypeOK'
  BY <1>3, HappensTyped, RowOf DEF TypeOK, GraceGrows, files, Attachment, Entity
<1>4. ASSUME NEW e \in Entity, Revive(e) PROVE TypeOK'
  BY <1>4, HappensTyped, RowOf DEF TypeOK, Revive, isRevivable, files, Attachment, Entity
<1>5. ASSUME NEW r \in Row, Refer(r) PROVE TypeOK'
  BY <1>5, HappensTyped DEF TypeOK, Refer, files
<1>6. ASSUME NEW r \in Row, Unrefer(r) PROVE TypeOK'
  BY <1>6, HappensTyped DEF TypeOK, Unrefer, files
<1> QED BY <1>1, <1>2, <1>3, <1>4, <1>5, <1>6 DEF People

LEMMA UploadTypes == ASSUME NEW f \in File PROVE TypeOK /\ Uploads(f) => TypeOK'
<1> SUFFICES ASSUME TypeOK, Uploads(f) PROVE TypeOK' OBVIOUS
<1>1. ASSUME NEW t \in Task, BeginUpload(f, t) PROVE TypeOK'
  BY <1>1 DEF TypeOK, BeginUpload, Upload, people
<1>2. CASE Put(f)
  BY <1>2, UploadShape DEF TypeOK, Put, Upload, people
<1>3. CASE CreateAttachment(f)
  BY <1>3, UploadShape DEF TypeOK, CreateAttachment, Upload, Attachment, people
<1>4. CASE UploadFails(f)
  BY <1>4 DEF TypeOK, UploadFails, Upload, people
<1>5. CASE UploadCrashes(f)
  BY <1>5, HappensTyped DEF TypeOK, UploadCrashes, Upload, people
<1>6. CASE RetireAttachment(f)
  BY <1>6, AttachmentShape DEF TypeOK, RetireAttachment, people
<1>7. CASE ReviveAttachment(f)
  BY <1>7, HappensTyped, AttachmentShape DEF TypeOK, ReviveAttachment, people
<1> QED BY <1>1, <1>2, <1>3, <1>4, <1>5, <1>6, <1>7 DEF Uploads

\* A step of a sweep leaves the record of every other sweep.
LEMMA RecordTyped ==
  ASSUME TypeOK, NEW w \in Sweep, NEW s, sweep' = [sweep EXCEPT ![w] = s],
         s.at \in {"idle", "tasks", "roles", "users", "connections", "listed", "orphans"},
         s.todo \subseteq Entity, s.keys \subseteq File,
         s = [at |-> s.at, todo |-> s.todo, keys |-> s.keys]
  PROVE  sweep' \in [Sweep -> [at : {"idle", "tasks", "roles", "users", "connections", "listed",
                                    "orphans"}, todo : SUBSET Entity, keys : SUBSET File]]
BY DEF TypeOK

\* Candidates are entities past their grace period.
LEMMA ReadsTypes ==
  ASSUME TypeOK, NEW w \in Sweep, NEW at \in {"tasks", "roles", "users", "connections"},
         NEW todo \in SUBSET Entity, Reads(w, at, todo)
  PROVE  TypeOK'
<1>1. events' \in 0..MaxEvents BY HappensTyped DEF Reads, TypeOK
<1>2. sweep' = [sweep EXCEPT ![w] = [at |-> at, todo |-> todo, keys |-> {}]] BY DEF Reads, Goes
<1> QED BY <1>1, <1>2 DEF TypeOK, Reads, people, files

LEMMA CandidateTypes ==
  ASSUME TypeOK, NEW w \in Sweep,
         \/ collectableTasks(w) \/ collectable(w) \/ collectableUsers(w)
         \/ collectableConnections(w)
  PROVE  TypeOK'
<1>1. CASE collectableTasks(w)
  BY <1>1, ReadsTypes DEF collectableTasks, Past, Entity
<1>2. CASE collectable(w)
  <2>1. {e \in Past(Group) : divisionCollectable(e)}
          \cup {e \in Past(Role) : roleUnreferenced(e)} \in SUBSET Entity
    BY DEF Past, Entity
  <2> QED BY <1>2, <2>1, ReadsTypes DEF collectable
<1>3. CASE collectableUsers(w)
  BY <1>3, ReadsTypes DEF collectableUsers, Past, Entity
<1>4. CASE collectableConnections(w)
  BY <1>4, ReadsTypes DEF collectableConnections, Past, Entity
<1> QED BY <1>1, <1>2, <1>3, <1>4

\* A deletion leaves no row and no attachment of what it deletes.
LEMMA CollectedTyped ==
  ASSUME TypeOK, NEW w \in Sweep, NEW e \in Entity, Collected(w, e), rows' \subseteq rows
  PROVE  /\ life' \in [Entity -> {"active", "retired", "past", "gone"}]
         /\ life' = [life EXCEPT ![e] = "gone"]
         /\ rows' \subseteq Row /\ \A r \in rows' : \A x \in r.of : life'[x] # "gone"
BY RowOf DEF TypeOK, Collected

LEMMA DoneTyped ==
  ASSUME TypeOK, NEW w \in Sweep, NEW e, Done(w, e)
  PROVE  sweep' \in [Sweep -> [at : {"idle", "tasks", "roles", "users", "connections", "listed",
                                    "orphans"}, todo : SUBSET Entity, keys : SUBSET File]]
BY DEF TypeOK, Done

\* Only a task has attachments.
LEMMA AttachmentsStay ==
  ASSUME TypeOK, NEW e \in Entity \ Task, life' = [life EXCEPT ![e] = "gone"],
         UNCHANGED attachment
  PROVE  attachment' \in [File -> {None} \cup {a \in Attachment : life'[a.task] # "gone"}]
BY DEF TypeOK, Attachment, Entity

LEMMA DeletionTypes ==
  ASSUME TypeOK, CandidateKinds, NEW w \in Sweep, NEW e \in Entity,
         \/ deleteTaskAggregate(w, e) \/ deleteGroupOrRole(w, e) \/ scrubUser(w, e)
         \/ deleteUser(w, e) \/ deleteIntegrationConnection(w, e)
         \/ handleDeleteFailure(w, e) \/ Fails(w, e)
  PROVE  TypeOK'
<1>1. CASE deleteTaskAggregate(w, e)
  <2> DEFINE mine == {f \in File : attachment[f] # None /\ attachment[f].task = e}
  <2>1. /\ attachment' = [f \in File |-> IF f \in mine THEN None ELSE attachment[f]]
        /\ Collected(w, e) /\ rows' \subseteq rows
        /\ sweep' = [sweep EXCEPT ![w].todo = @ \ {e}, ![w].keys = @ \cup mine]
        /\ UNCHANGED <<scrubbed, blobs, upload, outrun, revived, events>>
    BY <1>1 DEF deleteTaskAggregate
  <2>2. life' = [life EXCEPT ![e] = "gone"] BY <2>1 DEF Collected
  <2>3. attachment' \in [File -> {None} \cup {a \in Attachment : life'[a.task] # "gone"}]
    <3> SUFFICES ASSUME NEW f \in File
                 PROVE  attachment'[f] \in {None} \cup {a \in Attachment : life'[a.task] # "gone"}
      BY <2>1
    <3>1. CASE f \in mine \/ attachment[f] = None BY <3>1, <2>1
    <3>2. CASE f \notin mine /\ attachment[f] # None
      <4>1. attachment'[f] = attachment[f] /\ attachment[f].task # e BY <3>2, <2>1
      <4>2. life'[attachment[f].task] = life[attachment[f].task]
        BY <4>1, <2>2, <3>2, AttachmentShape DEF TypeOK, Entity
      <4> QED BY <4>1, <4>2, <3>2, AttachmentShape DEF TypeOK
    <3> QED BY <3>1, <3>2
  <2>4. sweep' \in [Sweep -> [at : {"idle", "tasks", "roles", "users", "connections", "listed",
                                   "orphans"}, todo : SUBSET Entity, keys : SUBSET File]]
    BY <2>1 DEF TypeOK
  <2> QED BY <2>1, <2>3, <2>4, CollectedTyped DEF TypeOK
<1>2. CASE deleteGroupOrRole(w, e)
  <2>1. e \in Group \cup Role BY <1>2 DEF deleteGroupOrRole, Working, CandidateKinds
  <2> QED BY <1>2, <2>1, CollectedTyped, DoneTyped, AttachmentsStay, DisjointAssumption
          DEF TypeOK, deleteGroupOrRole, files
<1>3. CASE scrubUser(w, e)
  <2>1. e \in User BY <1>3 DEF scrubUser, Working, CandidateKinds
  <2> QED BY <1>3, <2>1, DoneTyped DEF TypeOK, scrubUser, purgeUserSatellites, files
<1>4. CASE deleteUser(w, e)
  <2>1. e \in User BY <1>4 DEF deleteUser, Working, CandidateKinds
  <2> QED BY <1>4, <2>1, CollectedTyped, DoneTyped, AttachmentsStay, DisjointAssumption
          DEF TypeOK, deleteUser, purgeUserSatellites, files
<1>5. CASE deleteIntegrationConnection(w, e)
  <2>1. e \in Connection BY <1>5 DEF deleteIntegrationConnection, Working, CandidateKinds
  <2> QED BY <1>5, <2>1, CollectedTyped, DoneTyped, AttachmentsStay, DisjointAssumption
          DEF TypeOK, deleteIntegrationConnection, files
<1>6. CASE handleDeleteFailure(w, e)
  BY <1>6, DoneTyped DEF TypeOK, handleDeleteFailure, people, files
<1>7. CASE Fails(w, e)
  BY <1>7 DEF TypeOK, Fails, Idle, people, files
<1> QED BY <1>1, <1>2, <1>3, <1>4, <1>5, <1>6, <1>7

\* Files go, or are listed; entities stay.
LEMMA FileStepTypes ==
  ASSUME TypeOK, NEW w \in Sweep,
         \/ \E f \in File : DeleteBlob(w, f) \/ BlobDeleteFails(w, f)
         \/ ListKeys(w) \/ reconcileOrphanedBlobs(w) \/ SweepEnds(w) \/ Crash(w)
  PROVE  TypeOK'
<1>1. ASSUME NEW f \in File, DeleteBlob(w, f) PROVE TypeOK'
  BY <1>1 DEF TypeOK, DeleteBlob, people
<1>2. ASSUME NEW f \in File, BlobDeleteFails(w, f) PROVE TypeOK'
  BY <1>2, HappensTyped DEF TypeOK, BlobDeleteFails, people, files
<1>3. CASE ListKeys(w)
  BY <1>3 DEF TypeOK, ListKeys, people, files
<1>4. CASE reconcileOrphanedBlobs(w)
  BY <1>4 DEF TypeOK, reconcileOrphanedBlobs, people
<1>5. CASE SweepEnds(w)
  BY <1>5 DEF TypeOK, SweepEnds, Idle, people, files
<1>6. CASE Crash(w)
  BY <1>6, HappensTyped DEF TypeOK, Crash, Idle, people, files
<1> QED BY <1>1, <1>2, <1>3, <1>4, <1>5, <1>6

LEMMA NextTypes == TypeInv /\ [Next]_vars => TypeOK'
<1> SUFFICES ASSUME TypeOK, CandidateKinds, [Next]_vars PROVE TypeOK' BY DEF TypeInv
<1>1. CASE UNCHANGED vars BY <1>1 DEF TypeOK, vars, people, files
<1>2. ASSUME NEW w \in Sweep, SweepStep(w) PROVE TypeOK'
  BY <1>2, CandidateTypes, DeletionTypes, FileStepTypes DEF SweepStep
<1> QED BY <1>1, <1>2, PeopleTypes, UploadTypes, FileStepTypes DEF Next

-----------------------------------------------------------------------------
(* Which steps touch a sweep *)

LEMMA PeopleLeaveFiles == People => UNCHANGED <<sweep, files>>
BY DEF People, Retire, GraceEnds, GraceGrows, Revive, Refer, Unrefer

LEMMA UploadsLeavePeople ==
  ASSUME NEW f \in File, Uploads(f) PROVE UNCHANGED <<sweep, people, revived>>
BY DEF Uploads, BeginUpload, Put, CreateAttachment, UploadFails, UploadCrashes,
       RetireAttachment, ReviveAttachment

\* A sweep reads its next candidates ...
Refills(w, at, todo) ==
  /\ sweep' = [sweep EXCEPT ![w] = [at |-> at, todo |-> todo, keys |-> {}]]
  /\ todo \subseteq Past(Entity)
  /\ revived' = revived \ todo /\ UNCHANGED <<people, files>>
  /\ \/ at = "tasks" /\ todo \subseteq Task
     \/ at = "roles" /\ todo \subseteq Group \cup Role
     \/ at = "users" /\ todo \subseteq User
     \/ at = "connections" /\ todo \subseteq Connection

\* ... or has fewer of them left, or is done with them.
Shrinks(w) ==
  /\ \A v \in Sweep : v # w => sweep'[v] = sweep[v]
  /\ sweep'[w].todo \subseteq sweep[w].todo
  /\ \/ sweep'[w].at = sweep[w].at
     \/ sweep'[w].at \in {"idle", "listed", "orphans"}

Candidates(w) ==
  collectableTasks(w) \/ collectable(w) \/ collectableUsers(w) \/ collectableConnections(w)

LEMMA CandidatesRefill ==
  ASSUME NEW w \in Sweep, Candidates(w)
  PROVE  \E at \in {"tasks", "roles", "users", "connections"}, todo \in SUBSET Entity :
           Refills(w, at, todo)
<1>1. CASE collectableTasks(w)
  <2>1. Past(Task) \subseteq Past(Entity) /\ Past(Task) \subseteq Task BY DEF Past, Entity
  <2>2. Refills(w, "tasks", Past(Task))
    BY <1>1, <2>1 DEF collectableTasks, Reads, Goes, Refills
  <2> QED BY <2>1, <2>2 DEF Past
<1>2. CASE collectable(w)
  <2> DEFINE todo == {e \in Past(Group) : divisionCollectable(e)}
                       \cup {e \in Past(Role) : roleUnreferenced(e)}
  <2>1. todo \subseteq Past(Entity) /\ todo \subseteq Group \cup Role BY DEF Past, Entity
  <2>2. Reads(w, "roles", todo) BY <1>2 DEF collectable
  <2>3. todo \in SUBSET Entity BY <2>1 DEF Past
  <2> HIDE DEF todo
  <2>4. Refills(w, "roles", todo) BY <2>1, <2>2 DEF Reads, Goes, Refills
  <2> QED BY <2>3, <2>4
<1>3. CASE collectableUsers(w)
  <2>1. Past(User) \subseteq Past(Entity) /\ Past(User) \subseteq User BY DEF Past, Entity
  <2>2. Refills(w, "users", Past(User))
    BY <1>3, <2>1 DEF collectableUsers, Reads, Goes, Refills
  <2> QED BY <2>1, <2>2 DEF Past
<1>4. CASE collectableConnections(w)
  <2> DEFINE todo == {e \in Past(Connection) : connectionFree(e)}
  <2>1. todo \subseteq Past(Entity) /\ todo \subseteq Connection BY DEF Past, Entity
  <2>2. Reads(w, "connections", todo) BY <1>4 DEF collectableConnections
  <2>3. todo \in SUBSET Entity BY <2>1 DEF Past
  <2> HIDE DEF todo
  <2>4. Refills(w, "connections", todo) BY <2>1, <2>2 DEF Reads, Goes, Refills
  <2> QED BY <2>3, <2>4
<1> QED BY <1>1, <1>2, <1>3, <1>4 DEF Candidates

LEMMA EntityStepShrinks ==
  ASSUME TypeOK, NEW w \in Sweep, NEW e \in Entity,
         \/ deleteTaskAggregate(w, e) \/ deleteGroupOrRole(w, e) \/ scrubUser(w, e)
         \/ deleteUser(w, e) \/ deleteIntegrationConnection(w, e)
         \/ handleDeleteFailure(w, e) \/ Fails(w, e)
  PROVE  Shrinks(w)
<1>1. ASSUME Done(w, e) PROVE Shrinks(w) BY <1>1 DEF Done, Shrinks, TypeOK
<1>2. ASSUME deleteTaskAggregate(w, e) PROVE Shrinks(w)
  <2>1. PICK mine : sweep' = [sweep EXCEPT ![w].todo = @ \ {e}, ![w].keys = @ \cup mine]
    BY <1>2 DEF deleteTaskAggregate
  <2> QED BY <2>1 DEF Shrinks, TypeOK
<1>3. ASSUME Fails(w, e) PROVE Shrinks(w) BY <1>3 DEF Fails, Idle, Shrinks, TypeOK
<1> QED BY <1>1, <1>2, <1>3 DEF deleteGroupOrRole, scrubUser, deleteUser,
                                deleteIntegrationConnection, handleDeleteFailure

LEMMA FileStepShrinks ==
  ASSUME TypeOK, NEW w \in Sweep,
         \/ \E f \in File : DeleteBlob(w, f) \/ BlobDeleteFails(w, f)
         \/ ListKeys(w) \/ reconcileOrphanedBlobs(w) \/ SweepEnds(w) \/ Crash(w)
  PROVE  Shrinks(w)
<1>1. ASSUME NEW f \in File, sweep' = [sweep EXCEPT ![w].keys = @ \ {f}] PROVE Shrinks(w)
  BY <1>1 DEF Shrinks, TypeOK
<1>2. ASSUME sweep' = [sweep EXCEPT ![w] = Idle] PROVE Shrinks(w)
  BY <1>2 DEF Idle, Shrinks, TypeOK
<1>3. ASSUME ListKeys(w) PROVE Shrinks(w) BY <1>3 DEF ListKeys, Shrinks, TypeOK
<1>4. ASSUME reconcileOrphanedBlobs(w) PROVE Shrinks(w)
  <2>1. PICK keys : sweep' = [sweep EXCEPT ![w].at = "orphans", ![w].keys = keys]
    BY <1>4 DEF reconcileOrphanedBlobs
  <2>2. sweep'[w].at = "orphans" /\ sweep'[w].todo = sweep[w].todo BY <2>1 DEF TypeOK
  <2>3. \A v \in Sweep : v # w => sweep'[v] = sweep[v] BY <2>1 DEF TypeOK
  <2> QED BY <2>2, <2>3 DEF Shrinks
<1> QED BY <1>1, <1>2, <1>3, <1>4 DEF DeleteBlob, BlobDeleteFails, SweepEnds, Crash

\* Whose step it is.
LEMMA NextOf ==
  ASSUME TypeOK, [Next]_vars
  PROVE  \/ People
         \/ \E f \in File : Uploads(f)
         \/ \E w \in Sweep : Candidates(w)
         \/ \E w \in Sweep, e \in Entity :
              \/ deleteTaskAggregate(w, e) \/ deleteGroupOrRole(w, e) \/ scrubUser(w, e)
              \/ deleteUser(w, e) \/ deleteIntegrationConnection(w, e)
              \/ handleDeleteFailure(w, e) \/ Fails(w, e)
         \/ \E w \in Sweep :
              \/ \E f \in File : DeleteBlob(w, f) \/ BlobDeleteFails(w, f)
              \/ ListKeys(w) \/ reconcileOrphanedBlobs(w) \/ SweepEnds(w) \/ Crash(w)
         \/ UNCHANGED vars
BY Zenon DEF Next, SweepStep, Candidates

\* Candidates are read for a phase, and then only leave its set.
LEMMA KindsStep == TypeInv /\ [Next]_vars => CandidateKinds'
<1> SUFFICES ASSUME TypeOK, CandidateKinds, [Next]_vars PROVE CandidateKinds'
  BY DEF TypeInv
<1>1. ASSUME NEW w \in Sweep, Shrinks(w) PROVE CandidateKinds'
  BY <1>1 DEF CandidateKinds, Shrinks
<1>2. ASSUME NEW w \in Sweep, Candidates(w) PROVE CandidateKinds'
  <2>1. PICK at \in {"tasks", "roles", "users", "connections"}, todo \in SUBSET Entity :
          Refills(w, at, todo)
    BY <1>2, CandidatesRefill
  <2>2. sweep'[w].at = at /\ sweep'[w].todo = todo BY <2>1 DEF Refills, TypeOK
  <2>3. \A v \in Sweep : v # w => sweep'[v] = sweep[v] BY <2>1 DEF Refills, TypeOK
  <2> QED BY <2>1, <2>2, <2>3 DEF CandidateKinds, Refills
<1>3. ASSUME UNCHANGED sweep PROVE CandidateKinds' BY <1>3 DEF CandidateKinds
<1> QED BY <1>1, <1>2, <1>3, NextOf, PeopleLeaveFiles, UploadsLeavePeople, EntityStepShrinks,
           FileStepShrinks DEF vars

\* The types hold with the kinds of the candidates.
THEOREM TypesKept == Spec => []TypeInv
<1>1. Init => TypeInv
  BY InitTypes, InitSweeps DEF TypeInv, CandidateKinds
<1>2. TypeInv /\ [Next]_vars => TypeInv' BY NextTypes, KindsStep DEF TypeInv
<1> QED BY <1>1, <1>2, PTL DEF Spec

\* Rows, files and the sweeps of every process keep their types, whatever the processes
\* and users do meanwhile.
THEOREM Typed == Spec => []TypeOK
BY TypesKept, PTL DEF TypeInv

-----------------------------------------------------------------------------
(* The files *)

\* What is not touched keeps its invariant.
LEMMA FileStays ==
  ASSUME NEW f \in File, FileInv(f), attachment'[f] = attachment[f], upload'[f] = upload[f],
         f \in blobs' <=> f \in blobs, f \in outrun => f \in outrun',
         \A w \in Sweep : /\ f \in sweep'[w].keys => f \in sweep[w].keys
                          /\ sweep'[w].at = sweep[w].at \/ f \notin sweep'[w].keys
  PROVE  FileInv(f)'
BY DEF FileInv

LEMMA UploadsKeepFiles ==
  ASSUME TypeOK, \A f \in File : FileInv(f), NEW g \in File, Uploads(g)
  PROVE  \A f \in File : FileInv(f)'
<1> SUFFICES ASSUME NEW f \in File PROVE FileInv(f)' OBVIOUS
<1>1. UNCHANGED sweep BY UploadsLeavePeople
<1>2. CASE f # g
  <2>1. /\ attachment'[f] = attachment[f] /\ upload'[f] = upload[f]
        /\ f \in blobs' <=> f \in blobs
        /\ outrun' = outrun
    BY <1>2 DEF TypeOK, Uploads, BeginUpload, Put, CreateAttachment, UploadFails, UploadCrashes,
                RetireAttachment, ReviveAttachment, people
  <2> QED BY <1>1, <2>1, FileStays
<1>3. CASE f = g
  <2>1. ASSUME NEW t \in Task, BeginUpload(f, t) PROVE FileInv(f)'
    BY <2>1, <1>1 DEF FileInv, BeginUpload, TypeOK
  <2>2. CASE Put(f)
    <3>1. upload[f] # None /\ upload[f].at = "checked" /\ f \in blobs' /\ UNCHANGED <<attachment, outrun>>
      BY <2>2 DEF Put
    <3>2. attachment[f] = None BY <3>1 DEF FileInv
    <3>3. upload'[f] # None /\ upload'[f].at = "stored"
      BY <2>2, UploadShape, NoneAssumption DEF Put, TypeOK, Upload
    <3> QED BY <1>1, <3>1, <3>2, <3>3 DEF FileInv
  <2>3. CASE CreateAttachment(f)
    <3>1. /\ upload[f] # None /\ upload[f].at = "stored" /\ UNCHANGED <<blobs, outrun>>
      BY <2>3 DEF CreateAttachment
    <3>2. upload'[f] = [at |-> "done"] /\ upload'[f] # None
      BY <2>3, NoneAssumption DEF CreateAttachment, TypeOK, Upload
    <3> QED BY <1>1, <3>1, <3>2 DEF FileInv
  <2>4. CASE UploadFails(f)
    <3>1. upload[f] # None /\ upload[f].at = "stored" /\ UNCHANGED <<attachment, outrun>>
      BY <2>4 DEF UploadFails
    <3>2. attachment[f] = None BY <3>1 DEF FileInv
    <3>3. upload'[f] = [at |-> "done"] /\ upload'[f] # None
      BY <2>4, NoneAssumption DEF UploadFails, TypeOK, Upload
    <3> QED BY <1>1, <3>1, <3>2, <3>3 DEF FileInv
  <2>5. CASE UploadCrashes(f) BY <2>5, <1>1 DEF FileInv, UploadCrashes, TypeOK
  <2>6. CASE RetireAttachment(f) BY <2>6, <1>1 DEF FileInv, RetireAttachment, TypeOK
  <2>7. CASE ReviveAttachment(f) BY <2>7, <1>1 DEF FileInv, ReviveAttachment, TypeOK
  <2> QED BY <1>3, <2>1, <2>2, <2>3, <2>4, <2>5, <2>6, <2>7 DEF Uploads
<1> QED BY <1>2, <1>3

\* The files of a deleted task have lost their rows; an upload that is done
\* gives them no other.
LEMMA TaskKeepsFiles ==
  ASSUME TypeOK, NEW f \in File, FileInv(f), NEW w \in Sweep, NEW e \in Entity,
         deleteTaskAggregate(w, e)
  PROVE  FileInv(f)'
<1> DEFINE mine == {g \in File : attachment[g] # None /\ attachment[g].task = e}
<1>1. /\ attachment' = [g \in File |-> IF g \in mine THEN None ELSE attachment[g]]
      /\ sweep' = [sweep EXCEPT ![w].todo = @ \ {e}, ![w].keys = @ \cup mine]
      /\ sweep[w].at = "tasks"
      /\ UNCHANGED <<blobs, upload, outrun>>
  BY DEF deleteTaskAggregate, Working
<1>2. /\ sweep'[w].at = "tasks" /\ sweep'[w].keys = sweep[w].keys \cup mine
      /\ \A v \in Sweep : v # w => sweep'[v] = sweep[v]
  BY <1>1 DEF TypeOK
<1>3. CASE f \in mine
  <2>1. attachment'[f] = None /\ attachment[f] # None BY <1>1, <1>3
  <2> QED BY <1>1, <1>2, <2>1 DEF FileInv
<1>4. CASE f \notin mine
  <2>1. attachment'[f] = attachment[f] BY <1>1, <1>4 DEF TypeOK
  <2> QED BY <1>1, <1>2, <1>4, <2>1 DEF FileInv
<1> QED BY <1>3, <1>4

\* A file is removed when nobody has it, or when a sweep has outrun its upload.
LEMMA BlobKeepsFiles ==
  ASSUME TypeOK, NEW f \in File, FileInv(f), NEW w \in Sweep, NEW g \in File, DeleteBlob(w, g)
  PROVE  FileInv(f)'
<1>1. /\ sweep' = [sweep EXCEPT ![w].keys = @ \ {g}] /\ g \in sweep[w].keys
      /\ blobs' = blobs \ {g} /\ sweep[w].at \in {"tasks", "orphans"}
      /\ UNCHANGED <<attachment, upload, outrun>>
  BY DEF DeleteBlob
<1>2. /\ sweep'[w].at = sweep[w].at /\ sweep'[w].keys \subseteq sweep[w].keys
      /\ \A v \in Sweep : v # w => sweep'[v] = sweep[v]
  BY <1>1 DEF TypeOK
<1> QED BY <1>1, <1>2 DEF FileInv

\* A sweep asks for the rows of the files it has listed: those without one
\* count as outrun, whether their upload goes on or not.
LEMMA OrphansKeepFiles ==
  ASSUME TypeOK, NEW f \in File, FileInv(f), NEW w \in Sweep, reconcileOrphanedBlobs(w)
  PROVE  FileInv(f)'
<1> DEFINE orphans == {g \in sweep[w].keys : attachment[g] = None}
<1>1. /\ sweep' = [sweep EXCEPT ![w].at = "orphans", ![w].keys = orphans]
      /\ outrun' = outrun \cup orphans
      /\ UNCHANGED <<attachment, upload, blobs>>
  BY DEF reconcileOrphanedBlobs
<1>2. /\ sweep'[w].at = "orphans" /\ sweep'[w].keys = orphans
      /\ \A v \in Sweep : v # w => sweep'[v] = sweep[v]
  BY <1>1 DEF TypeOK
<1> HIDE DEF orphans
<1> QED BY <1>1, <1>2 DEF FileInv

LEMMA FilesStep == FilesInv /\ [Next]_vars => FilesInv'
<1> SUFFICES ASSUME TypeInv, TypeOK, \A f \in File : FileInv(f), [Next]_vars
             PROVE  \A f \in File : FileInv(f)'
  BY NextTypes, KindsStep DEF FilesInv, TypeInv
<1>1. ASSUME UNCHANGED <<sweep, files>> PROVE \A f \in File : FileInv(f)'
  BY <1>1, FileStays DEF files
<1>2. ASSUME NEW w \in Sweep, Candidates(w) PROVE \A f \in File : FileInv(f)'
  <2>1. PICK at \in {"tasks", "roles", "users", "connections"}, todo \in SUBSET Entity :
          Refills(w, at, todo)
    BY <1>2, CandidatesRefill
  <2>2. sweep'[w].keys = {} /\ \A v \in Sweep : v # w => sweep'[v] = sweep[v]
    BY <2>1 DEF Refills, TypeOK
  <2> QED BY <2>1, <2>2, FileStays DEF Refills, files
<1>3. ASSUME NEW w \in Sweep, NEW e \in Entity,
             \/ deleteGroupOrRole(w, e) \/ scrubUser(w, e) \/ deleteUser(w, e)
             \/ deleteIntegrationConnection(w, e) \/ handleDeleteFailure(w, e)
      PROVE  \A f \in File : FileInv(f)'
  <2>1. Done(w, e) /\ UNCHANGED files
    BY <1>3 DEF deleteGroupOrRole, scrubUser, deleteUser, deleteIntegrationConnection,
                handleDeleteFailure
  <2>2. \A v \in Sweep : sweep'[v].at = sweep[v].at /\ sweep'[v].keys = sweep[v].keys
    BY <2>1 DEF Done, TypeOK
  <2> QED BY <2>1, <2>2, FileStays DEF files
<1>4. ASSUME NEW w \in Sweep, sweep' = [sweep EXCEPT ![w] = Idle], UNCHANGED files
      PROVE  \A f \in File : FileInv(f)'
  <2>1. sweep'[w].keys = {} /\ \A v \in Sweep : v # w => sweep'[v] = sweep[v]
    BY <1>4 DEF Idle, TypeOK
  <2> QED BY <1>4, <2>1, FileStays DEF files
<1>5. ASSUME NEW w \in Sweep, NEW f \in File, BlobDeleteFails(w, f)
      PROVE  \A g \in File : FileInv(g)'
  <2>1. sweep' = [sweep EXCEPT ![w].keys = @ \ {f}] /\ UNCHANGED files
    BY <1>5 DEF BlobDeleteFails
  <2>2. \A v \in Sweep : sweep'[v].at = sweep[v].at /\ sweep'[v].keys \subseteq sweep[v].keys
    BY <2>1 DEF TypeOK
  <2> QED BY <2>1, <2>2, FileStays DEF files
<1>6. ASSUME NEW w \in Sweep, ListKeys(w) PROVE \A f \in File : FileInv(f)'
  <2>1. sweep'[w].at = "listed" /\ \A v \in Sweep : v # w => sweep'[v] = sweep[v]
    BY <1>6 DEF ListKeys, TypeOK
  <2> QED BY <1>6, <2>1 DEF ListKeys, files, FileInv
<1> QED BY <1>1, <1>2, <1>3, <1>4, <1>5, <1>6, NextOf, PeopleLeaveFiles, UploadsKeepFiles,
           TaskKeepsFiles, BlobKeepsFiles, OrphansKeepFiles
        DEF vars, Fails, SweepEnds, Crash

\* Property FilesKept of module Collector: an attachment has its file, however
\* the sweeps, the deletions of tasks and the uploads meet, unless a sweep asked
\* for the rows between a file and its row.
THEOREM FilesAreKept == Spec => []FilesKept
<1>1. Init => FilesInv
  <2> SUFFICES ASSUME Init PROVE FilesInv OBVIOUS
  <2>1. \A f \in File : attachment[f] = None /\ upload[f] = None BY DEF Init
  <2>2. TypeInv BY InitTypes, InitSweeps DEF TypeInv, CandidateKinds
  <2> QED BY <2>1, <2>2, InitSweeps DEF FilesInv, FileInv
<1>2. FilesInv => FilesKept BY DEF FilesInv, FileInv, FilesKept
<1> QED BY <1>1, <1>2, FilesStep, PTL DEF Spec

-----------------------------------------------------------------------------
(* The grace period *)

\* Who leaves the grace period is known as revived to every sweep that holds it.
LEMMA PeopleKeepCandidates ==
  ASSUME TypeOK, CandidatesPast, People PROVE CandidatesPast'
<1>1. UNCHANGED sweep BY PeopleLeaveFiles
<1>2. ASSUME NEW w \in Sweep, NEW e \in sweep[w].todo PROVE e \in Known BY DEF Known
<1>3. ASSUME NEW x \in Entity, Retire(x) PROVE CandidatesPast'
  BY <1>1, <1>3, SweepShape DEF CandidatesPast, Retire, TypeOK
<1>4. ASSUME NEW x \in Entity, GraceEnds(x) PROVE CandidatesPast'
  BY <1>1, <1>4, SweepShape DEF CandidatesPast, GraceEnds, TypeOK
<1>5. ASSUME NEW x \in Entity, GraceGrows(x) PROVE CandidatesPast'
  BY <1>1, <1>2, <1>5, SweepShape DEF CandidatesPast, GraceGrows, TypeOK
<1>6. ASSUME NEW x \in Entity, Revive(x) PROVE CandidatesPast'
  BY <1>1, <1>2, <1>6, SweepShape DEF CandidatesPast, Revive, TypeOK
<1>7. ASSUME NEW r \in Row, Refer(r) \/ Unrefer(r) PROVE CandidatesPast'
  BY <1>1, <1>7 DEF CandidatesPast, Refer, Unrefer
<1> QED BY <1>3, <1>4, <1>5, <1>6, <1>7 DEF People

\* A step of a sweep on an entity may delete it, and no other.
LEMMA EntityStepLife ==
  ASSUME TypeOK, NEW w \in Sweep, NEW e \in Entity,
         \/ deleteTaskAggregate(w, e) \/ deleteGroupOrRole(w, e) \/ scrubUser(w, e)
         \/ deleteUser(w, e) \/ deleteIntegrationConnection(w, e)
         \/ handleDeleteFailure(w, e) \/ Fails(w, e)
  PROVE  /\ e \in sweep[w].todo
         /\ \A x \in Entity : life'[x] = life[x] \/ (x = e /\ life[x] # "gone" /\ life'[x] = "gone")
         /\ scrubbed' \subseteq scrubbed \cup {e}
         /\ e \in scrubbed' \ scrubbed => life[e] # "gone"
         /\ UNCHANGED revived
BY DEF TypeOK, deleteTaskAggregate, deleteGroupOrRole, scrubUser, deleteUser,
       deleteIntegrationConnection, handleDeleteFailure, Fails, Working, Collected, people

LEMMA FileStepPeople ==
  ASSUME NEW w \in Sweep,
         \/ \E f \in File : DeleteBlob(w, f) \/ BlobDeleteFails(w, f)
         \/ ListKeys(w) \/ reconcileOrphanedBlobs(w) \/ SweepEnds(w) \/ Crash(w)
  PROVE  UNCHANGED <<people, revived>>
BY DEF DeleteBlob, BlobDeleteFails, ListKeys, reconcileOrphanedBlobs, SweepEnds, Crash

LEMMA CandidatesStep == TypeInv /\ CandidatesPast /\ [Next]_vars => CandidatesPast'
<1> SUFFICES ASSUME TypeOK, CandidatesPast, [Next]_vars PROVE CandidatesPast' BY DEF TypeInv
<1>1. ASSUME UNCHANGED <<sweep, people, revived>> PROVE CandidatesPast'
  BY <1>1 DEF CandidatesPast, people
<1>2. ASSUME NEW w \in Sweep, Candidates(w) PROVE CandidatesPast'
  <2>1. PICK at \in {"tasks", "roles", "users", "connections"}, todo \in SUBSET Entity :
          Refills(w, at, todo)
    BY <1>2, CandidatesRefill
  <2>2. sweep'[w].todo = todo /\ \A v \in Sweep : v # w => sweep'[v] = sweep[v]
    BY <2>1 DEF Refills, TypeOK
  <2>3. revived' = revived \ todo /\ life' = life /\ \A e \in todo : life[e] = "past"
    BY <2>1 DEF Refills, Past, people
  <2> QED BY <2>2, <2>3 DEF CandidatesPast
<1>3. ASSUME NEW w \in Sweep, Shrinks(w), UNCHANGED revived,
             \A x \in Entity : life'[x] \in {life[x], "gone"}
      PROVE  CandidatesPast'
  <2> SUFFICES ASSUME NEW v \in Sweep, NEW e \in sweep'[v].todo
               PROVE  e \in revived' \/ life'[e] \in {"past", "gone"}
    BY DEF CandidatesPast
  <2>1. e \in sweep[v].todo BY <1>3 DEF Shrinks
  <2> QED BY <1>3, <2>1, SweepShape DEF CandidatesPast
<1>4. ASSUME NEW w \in Sweep, Shrinks(w), UNCHANGED <<people, revived>> PROVE CandidatesPast'
  BY <1>3, <1>4 DEF people
<1> QED BY <1>1, <1>2, <1>3, <1>4, NextOf, PeopleKeepCandidates, UploadsLeavePeople,
           EntityStepShrinks, EntityStepLife, FileStepShrinks, FileStepPeople DEF vars

\* Property OnlyPastCollected of module Collector: nothing is deleted or scrubbed
\* before its grace period has ended, but for what people revive while a sweep
\* already holds it as a candidate.
THEOREM OnlyPastIsCollected == Spec => OnlyPastCollected
<1> DEFINE Step == \A e \in Entity \ revived :
                     (life[e] # "gone" /\ life'[e] = "gone") \/ (e \in scrubbed' \ scrubbed)
                       => life[e] = "past"
<1>1. Init => CandidatesPast BY InitSweeps DEF CandidatesPast
<1>2. ASSUME TypeInv, CandidatesPast, [Next]_vars PROVE Step
  <2>1. CASE UNCHANGED people BY <2>1 DEF people
  <2>2. ASSUME People, NEW e \in Entity PROVE scrubbed' = scrubbed /\ (life[e] = "gone" <=> life'[e] = "gone")
    <3> USE <1>2 DEF TypeInv, TypeOK
    <3>1. ASSUME NEW x \in Entity, NEW to \in {"active", "retired", "past"},
                 life[x] # "gone", life' = [life EXCEPT ![x] = to]
          PROVE  life[e] = "gone" <=> life'[e] = "gone"
      BY <3>1
    <3>2. ASSUME NEW x \in Entity, Retire(x) \/ GraceEnds(x) \/ GraceGrows(x) \/ Revive(x)
          PROVE  scrubbed' = scrubbed /\ (life[e] = "gone" <=> life'[e] = "gone")
      BY <3>2, <3>1 DEF Retire, GraceEnds, GraceGrows, Revive, isRevivable
    <3>3. ASSUME NEW r \in Row, Refer(r) \/ Unrefer(r) PROVE UNCHANGED <<life, scrubbed>>
      BY <3>3 DEF Refer, Unrefer
    <3> QED BY <2>2, <3>2, <3>3 DEF People
  <2>3. ASSUME NEW w \in Sweep, NEW x \in Entity,
               \/ deleteTaskAggregate(w, x) \/ deleteGroupOrRole(w, x) \/ scrubUser(w, x)
               \/ deleteUser(w, x) \/ deleteIntegrationConnection(w, x)
               \/ handleDeleteFailure(w, x) \/ Fails(w, x)
        PROVE  Step
    BY <2>3, EntityStepLife, <1>2 DEF TypeInv, CandidatesPast
  <2>4. ASSUME NEW w \in Sweep, Candidates(w) PROVE UNCHANGED people
    BY <2>4, CandidatesRefill DEF Refills
  <2>5. CASE People BY <2>2, <2>5
  <2> HIDE DEF Step
  <2> QED BY <1>2, <2>1, <2>3, <2>4, <2>5, NextOf, UploadsLeavePeople, FileStepPeople
          DEF TypeInv, vars
<1>3. ASSUME TypeInv, CandidatesPast, [Next]_vars PROVE [Step]_vars BY <1>2, <1>3
<1> QED BY <1>1, <1>3, TypesKept, CandidatesStep, PTL DEF Spec, OnlyPastCollected
=============================================================================
