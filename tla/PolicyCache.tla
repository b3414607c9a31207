------------------------------ MODULE PolicyCache ------------------------------
(***************************************************************************)
(* The cached policy set of api/src/access/access.service.ts: each API     *)
(* process keeps the text projected from the grants and the settings,      *)
(* keyed by organization.config_version.                                   *)
(*                                                                         *)
(* A decision awaits the version, then hits the cache or awaits the        *)
(* settings and the grants in two queries, stores the projection and       *)
(* decides; several decisions of one process interleave at the awaits.     *)
(* A write commits its change and the new version together; it clears the  *)
(* cache of its own process BEFORE that commit (bumpConfigVersion), except *)
(* an accepted invitation, which clears it after.                          *)
(*                                                                         *)
(* A configuration is two numbers: settingsAt and grantsAt, the versions   *)
(* at which each was last changed; versions count from 1, and 0 stands for *)
(* an empty cache.  Left out: the policy text, Cedar, the principal (its   *)
(* roles are read per decision, not cached), and seeding, which runs       *)
(* before a process serves.                                                *)
(***************************************************************************)
EXTENDS Naturals

CONSTANTS
  Process,         \* API processes
  Decision,        \* concurrent authorization requests
  Home,            \* Home[d]: the process that serves d
  MaxVersion       \* bound on the configuration changes

ASSUME HomeAssumption    == Home \in [Decision -> Process]
ASSUME VersionAssumption == MaxVersion \in Nat

VARIABLES
  configVersion,   \* organization.config_version
  settingsAt, grantsAt,   \* the versions that last changed settings and grants
  writer,          \* the process whose write holds the organization row
  cache,           \* cache[p]: this.cache of process p
  decision         \* decision[d]: what d has read so far

database  == <<configVersion, settingsAt, grantsAt>>
cacheVars == <<configVersion, settingsAt, grantsAt, writer, cache, decision>>

-----------------------------------------------------------------------------

NoCache  == [version |-> 0, settings |-> 0, grants |-> 0]
NoWriter == [kind |-> "none"]
NoDecision     == [phase |-> "idle"]
WriteKind     == {"settings", "grants", "invitation"}

Read(d, phase) == decision[d].phase = phase

-----------------------------------------------------------------------------
(* Configuration changes *)

\* UPDATE organization inside the transaction of a role, grant, user or
\* settings write, then this.cache = null.
BumpConfigVersion(p, kind) ==
  /\ writer = NoWriter /\ configVersion < MaxVersion
  /\ writer' = [kind |-> kind, process |-> p]
  /\ cache' = IF kind = "invitation" THEN cache ELSE [cache EXCEPT ![p] = NoCache]
  /\ UNCHANGED <<database, decision>>

\* The change and the version become visible at once.
CommitWrite ==
  /\ writer # NoWriter
  /\ configVersion' = configVersion + 1
  /\ settingsAt' = IF writer.kind = "settings" THEN configVersion' ELSE settingsAt
  /\ grantsAt' = IF writer.kind = "settings" THEN grantsAt ELSE configVersion'
  /\ writer' = NoWriter
  /\ UNCHANGED <<cache, decision>>

RollBackWrite ==
  /\ writer # NoWriter
  /\ writer' = NoWriter
  /\ UNCHANGED <<database, cache, decision>>

\* invalidate() of an accepted invitation, and a restart of the process.
Invalidate(p) ==
  /\ cache' = [cache EXCEPT ![p] = NoCache]
  /\ UNCHANGED <<database, writer, decision>>

-----------------------------------------------------------------------------
(* A decision *)

\* readOrg.  due is history: what was in force when the decision began.
ReadOrg(d) ==
  /\ decision[d] = NoDecision
  /\ decision' = [decision EXCEPT ![d] =
       [phase |-> "keyed", key |-> configVersion,
        due |-> [settings |-> settingsAt, grants |-> grantsAt]]]
  /\ UNCHANGED <<database, writer, cache>>

\* Mutant: any cached set is good enough.
AnyCached(d) == cache[Home[d]] # NoCache

CacheHit(d) == cache[Home[d]].version = decision[d].key

Decides(d, settings, grants) ==
  decision' = [decision EXCEPT ![d] =
    [phase |-> "decided", due |-> decision[d].due, settings |-> settings, grants |-> grants]]

UseCache(d) ==
  /\ Read(d, "keyed") /\ CacheHit(d)
  /\ Decides(d, cache[Home[d]].settings, cache[Home[d]].grants)
  /\ UNCHANGED <<database, writer, cache>>

ProjectSettings(d) ==
  /\ Read(d, "keyed") /\ ~CacheHit(d)
  /\ decision' = [decision EXCEPT ![d] =
       [phase |-> "settingsRead", key |-> decision[d].key, due |-> decision[d].due,
        settings |-> settingsAt]]
  /\ UNCHANGED <<database, writer, cache>>

ProjectGrants(d) ==
  /\ Read(d, "settingsRead")
  /\ decision' = [decision EXCEPT ![d] =
       [phase |-> "projected", key |-> decision[d].key, due |-> decision[d].due,
        settings |-> decision[d].settings, grants |-> grantsAt]]
  /\ UNCHANGED <<database, writer, cache>>

\* Mutant: the stored set forgets the settings it was projected from.
StoreGrantsOnly(d) == [version |-> decision[d].key, grants |-> decision[d].grants]

\* Mutant: the projection is stored under the version of the moment.
StoreUnderCurrent(d) ==
  [version |-> configVersion, settings |-> decision[d].settings, grants |-> decision[d].grants]

StoreUnderKey(d) ==
  [version |-> decision[d].key, settings |-> decision[d].settings, grants |-> decision[d].grants]

Store(d) ==
  /\ Read(d, "projected")
  /\ cache' = [cache EXCEPT ![Home[d]] = StoreUnderKey(d)]
  /\ Decides(d, decision[d].settings, decision[d].grants)
  /\ UNCHANGED <<database, writer>>

\* The request ends, answered or not.
Finish(d) ==
  /\ decision[d] # NoDecision
  /\ decision' = [decision EXCEPT ![d] = NoDecision]
  /\ UNCHANGED <<database, writer, cache>>

-----------------------------------------------------------------------------

\* Version 1 is the seeded configuration.
CacheInit ==
  /\ configVersion = 1 /\ settingsAt = 1 /\ grantsAt = 1
  /\ writer = NoWriter
  /\ cache = [p \in Process |-> NoCache]
  /\ decision = [d \in Decision |-> NoDecision]

CacheNext ==
  \/ \E p \in Process : Invalidate(p) \/ \E kind \in WriteKind : BumpConfigVersion(p, kind)
  \/ CommitWrite \/ RollBackWrite
  \/ \E d \in Decision :
       \/ ReadOrg(d) \/ UseCache(d) \/ ProjectSettings(d) \/ ProjectGrants(d)
       \/ Store(d) \/ Finish(d)

CacheSpec == CacheInit /\ [][CacheNext]_cacheVars

-----------------------------------------------------------------------------
(* Properties *)

Content == [settings : Nat, grants : Nat]

CacheTypeOK ==
  /\ configVersion \in Nat /\ settingsAt \in Nat /\ grantsAt \in Nat
  /\ writer \in {NoWriter} \cup [kind : WriteKind, process : Process]
  /\ cache \in [Process -> [version : Nat, settings : Nat, grants : Nat]]
  /\ decision \in [Decision ->
       {NoDecision}
       \cup [phase : {"keyed"}, key : Nat, due : Content]
       \cup [phase : {"settingsRead"}, key : Nat, due : Content, settings : Nat]
       \cup [phase : {"projected"}, key : Nat, due : Content, settings : Nat, grants : Nat]
       \cup [phase : {"decided"}, due : Content, settings : Nat, grants : Nat]]

\* No request is decided under settings or grants older than those in force
\* when it began, although sets projected for other requests, at other times
\* and under other versions, are shared (access.service.ts:34-37, 57-67).
NoStalePolicy ==
  \A d \in Decision : Read(d, "decided") =>
    /\ decision[d].settings >= decision[d].due.settings
    /\ decision[d].grants >= decision[d].due.grants

\* A set kept under the present version is the present configuration: the set
\* is projected after its key was read, and neither the early invalidation nor
\* a write that commits between the two queries can leave a wrong set behind.
CacheCurrent ==
  \A p \in Process : cache[p].version = configVersion =>
    cache[p].settings = settingsAt /\ cache[p].grants = grantsAt
=============================================================================
