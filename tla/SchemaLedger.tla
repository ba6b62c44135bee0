------------------------------ MODULE SchemaLedger ------------------------------
(***************************************************************************)
(* Schema migrations: the one-shot migrators of several releases, which may *)
(* run side by side, fail or die between any two steps, the ledger they     *)
(* keep, the operator who repairs it, and the services that start behind a  *)
(* migrator that succeeded.  The migration library takes a session lock and *)
(* records a version as dirty before it runs the version's SQL.             *)
(***************************************************************************)
EXTENDS Naturals, FiniteSets

CONSTANTS
  Releases,     \* releases of the program, by the newest migration they embed
  Migrators,    \* processes that run `migrate up`
  NoMigrator,
  MaxRuns       \* runs ever started

ASSUME SchemaAssumption ==
  /\ Releases \subseteq Nat \ {0}
  /\ NoMigrator \notin Migrators
  /\ MaxRuns \in Nat

VARIABLES
  schema,      \* what the database holds: the migrations 1..at, and half of the next
  ledger,      \* vidra_search_migrations; version 0 is an empty ledger
  lock,        \* the migrator that holds the library's lock
  migrator,    \* the runs under way
  services,    \* the releases whose services run
  repair,      \* what an operator who found the ledger dirty is about to force
  runs

schemaVars == <<schema, ledger, lock, migrator, services, repair, runs>>
-----------------------------------------------------------------------------
NoRun == [phase |-> "idle", release |-> 0, next |-> 0]

ToRecord(release, next) == [phase |-> "record", release |-> release, next |-> next]

NoRepair == [phase |-> "none", version |-> 0]

\* EmbeddedMax: a release is named by the newest migration compiled into it.
EmbeddedMax(release) == release

SchemaInit ==
  /\ \E release \in Releases \cup {0} :
       /\ schema = [at |-> release, half |-> FALSE]
       /\ ledger = [version |-> release, dirty |-> FALSE]
       /\ services = {release} \ {0}
  /\ lock = NoMigrator
  /\ migrator = [m \in Migrators |-> NoRun]
  /\ repair = NoRepair
  /\ runs = 0

\* runMigrate: the exit code is what the services wait for.  The read of the ledger
\* after Up, which can only refuse once more, is left out.
Exit(m, started) ==
  /\ migrator' = [migrator EXCEPT ![m] = NoRun]
  /\ services' = services \cup started
  /\ UNCHANGED <<schema, repair, runs>>

\* Mutation: a ledger that has reached the release is enough, dirty or not.
ReachedRelease(release) == ledger.version >= EmbeddedMax(release)

\* The rollback floor: a clean ledger ahead of the release is supported.
RollbackFloor(release) == ~ledger.dirty /\ ledger.version > EmbeddedMax(release)

\* Up opens the database and reads the ledger, without the lock.
MigrateUp(m, release) ==
  /\ migrator[m].phase = "idle"
  /\ runs < MaxRuns
  /\ runs' = runs + 1
  /\ IF RollbackFloor(release)
     THEN services' = services \cup {release} /\ UNCHANGED migrator
     ELSE /\ migrator' = [migrator EXCEPT ![m] =
               [phase |-> "lock", release |-> release, next |-> 0]]
          /\ UNCHANGED services
  /\ UNCHANGED <<schema, ledger, lock, repair>>

\* Mutation: the library does not wait for its lock.
LockIsShared == TRUE

LockIsFree == lock = NoMigrator

\* The library locks; a dirty ledger, or one it has no file for, is an error.
LockLedger(m) ==
  LET release == migrator[m].release
      version == ledger.version
  IN /\ migrator[m].phase = "lock"
     /\ LockIsFree
     /\ UNCHANGED ledger
     /\ IF ledger.dirty \/ version > EmbeddedMax(release)
        THEN lock' = lock /\ Exit(m, {})
        ELSE IF version = EmbeddedMax(release)
        THEN lock' = lock /\ Exit(m, {release})
        ELSE /\ lock' = m
             /\ migrator' = [migrator EXCEPT ![m] = ToRecord(release, version + 1)]
             /\ UNCHANGED <<schema, services, repair, runs>>

RecordDirty(m) ==
  /\ migrator[m].phase = "record"
  /\ ledger' = [version |-> migrator[m].next, dirty |-> TRUE]
  /\ migrator' = [migrator EXCEPT ![m].phase = "run"]
  /\ UNCHANGED <<schema, lock, services, repair, runs>>

\* The SQL of one migration; one that fails may leave some of it behind.
RunMigration(m) ==
  /\ migrator[m].phase = "run"
  /\ schema' = [at |-> migrator[m].next, half |-> FALSE]
  /\ migrator' = [migrator EXCEPT ![m].phase = "clean"]
  /\ UNCHANGED <<ledger, lock, services, repair, runs>>

MigrationFails(m) ==
  /\ migrator[m].phase = "run"
  /\ \E half \in BOOLEAN : schema' = [schema EXCEPT !.half = half]
  /\ migrator' = [migrator EXCEPT ![m] = NoRun]
  /\ lock' = NoMigrator
  /\ UNCHANGED <<ledger, services, repair, runs>>

\* The version is clean; the last one ends the run.
RecordClean(m) ==
  /\ migrator[m].phase = "clean"
  /\ ledger' = [ledger EXCEPT !.dirty = FALSE]
  /\ IF migrator[m].next = EmbeddedMax(migrator[m].release)
     THEN lock' = NoMigrator /\ Exit(m, {migrator[m].release})
     ELSE /\ migrator' = [migrator EXCEPT ![m] =
               ToRecord(migrator[m].release, migrator[m].next + 1)]
          /\ UNCHANGED <<schema, lock, services, repair, runs>>

\* The process dies; its session and its lock go with it.
MigratorDies(m) ==
  /\ migrator[m].phase # "idle"
  /\ migrator' = [migrator EXCEPT ![m] = NoRun]
  /\ lock' = IF lock = m THEN NoMigrator ELSE lock
  /\ UNCHANGED <<schema, ledger, services, repair, runs>>

\* The operator's procedure: with no migrator running, finish or undo the
\* failed migration's SQL ...
RepairSchema ==
  /\ repair.phase = "none"
  /\ ledger.dirty /\ \A m \in Migrators : migrator[m].phase = "idle"
  /\ \E at \in {ledger.version - 1, ledger.version} :
       /\ schema' = [at |-> at, half |-> FALSE]
       /\ repair' = [phase |-> "force", version |-> at]
  /\ UNCHANGED <<ledger, lock, migrator, services, runs>>

\* ... then record where the schema is: Force takes the lock and runs no SQL.
ForceVersion ==
  /\ repair.phase = "force" /\ LockIsFree
  /\ ledger' = [version |-> repair.version, dirty |-> FALSE]
  /\ repair' = NoRepair
  /\ UNCHANGED <<schema, lock, migrator, services, runs>>

ServiceStops(release) ==
  /\ release \in services
  /\ services' = services \ {release}
  /\ UNCHANGED <<schema, ledger, lock, migrator, repair, runs>>

SchemaNext ==
  \/ \E m \in Migrators :
       \/ \E release \in Releases : MigrateUp(m, release)
       \/ LockLedger(m) \/ RecordDirty(m) \/ RunMigration(m) \/ MigrationFails(m)
       \/ RecordClean(m) \/ MigratorDies(m)
  \/ RepairSchema \/ ForceVersion
  \/ \E release \in Releases : ServiceStops(release)

SchemaSpec == SchemaInit /\ [][SchemaNext]_schemaVars
-----------------------------------------------------------------------------
(* A clean ledger names exactly the migrations the database holds, whichever *)
(* migrators raced, failed or died, and however a dirty one was repaired     *)
(* (dbmigrate.go, Up and Force; operations.md, "Repair a dirty ledger").     *)
CleanLedgerIsTrue ==
  ~ledger.dirty => schema = [at |-> ledger.version, half |-> FALSE]

(* A service only ever runs on a schema that has every migration of its      *)
(* release: the exit code of a migrator that did nothing, found the ledger   *)
(* ahead or was overtaken never starts it too early (cmd/api/migrate.go).    *)
ServicesFindTheirSchema ==
  \A release \in services : schema.at >= EmbeddedMax(release)
=============================================================================
