----------------------------- MODULE ServingProofs -----------------------------
(***************************************************************************)
(* Proofs about one serving process, concern by concern as in MCServing:    *)
(* the schema it starts behind, its life beside the balancer, the ranker it *)
(* swaps, the pages it cuts, what it suggests and what it recommends.       *)
(***************************************************************************)
EXTENDS SchemaLedger, ServerLifecycle, ModelRegistry, SearchPaging, Suggestions,
        Recommendation, FoldLemmas, SequenceTheorems, TLAPS

-----------------------------------------------------------------------------
(* For any number of releases, migrators and runs, a clean ledger is true    *)
(* and services find their schema.  The argument: only the holder of the     *)
(* library's lock works, its phase fixes how ledger and schema differ, and   *)
(* while an operator has repaired the schema but not yet forced the ledger   *)
(* the dirty mark keeps every migrator from working.                         *)

Working == {"record", "run", "clean"}

Runs == [phase : {"idle", "lock"} \cup Working, release : Nat, next : Nat]

SchemaTypeOK ==
  /\ schema \in [at : Nat, half : BOOLEAN]
  /\ ledger \in [version : Nat, dirty : BOOLEAN]
  /\ lock \in Migrators \cup {NoMigrator}
  /\ migrator \in [Migrators -> Runs]
  /\ services \subseteq Nat
  /\ repair \in [phase : {"none", "force"}, version : Nat]

\* The migrators at work are the holder of the lock.
HolderWorks == \A m \in Migrators : migrator[m].phase \in Working <=> lock = m

\* How far the holder is, and what that says of the ledger and the schema.
PhaseTrue(m) ==
  LET next == migrator[m].next IN
  /\ migrator[m].phase \in Working => next =< migrator[m].release
  /\ migrator[m].phase = "record" => ~ledger.dirty /\ next = ledger.version + 1
  /\ migrator[m].phase = "run" =>
       ledger = [version |-> next, dirty |-> TRUE] /\ schema = [at |-> next - 1, half |-> FALSE]
  /\ migrator[m].phase = "clean" =>
       ledger = [version |-> next, dirty |-> TRUE] /\ schema = [at |-> next, half |-> FALSE]

PhasesTrue == \A m \in Migrators : PhaseTrue(m)

\* A dirty ledger is at most one migration away from the schema.
DirtyIsClose ==
  ledger.dirty => /\ ledger.version > 0
                  /\ schema.at = ledger.version \/ schema.at + 1 = ledger.version

\* What the operator is about to force is where the schema is, and meanwhile
\* nobody works.
RepairTrue ==
  repair.phase = "force" =>
    ledger.dirty /\ lock = NoMigrator /\ schema = [at |-> repair.version, half |-> FALSE]

\* No service needs the migration a dirty ledger names.
ServicesSettled ==
  \A release \in services :
    release =< ledger.version /\ (ledger.dirty => release < ledger.version)

SchemaInv ==
  /\ SchemaTypeOK
  /\ CleanLedgerIsTrue
  /\ HolderWorks
  /\ PhasesTrue
  /\ DirtyIsClose
  /\ RepairTrue
  /\ ServicesSettled
-----------------------------------------------------------------------------
(* The initial ledger is that of an installed release, or an empty one       *)
(* (SchemaInit).                                                             *)
LEMMA SchemaInvInit == SchemaInit => SchemaInv
<1> SUFFICES ASSUME SchemaInit PROVE SchemaInv
  OBVIOUS
<1>1. PICK release \in Releases \cup {0} :
        /\ schema = [at |-> release, half |-> FALSE]
        /\ ledger = [version |-> release, dirty |-> FALSE]
        /\ services = {release} \ {0}
  BY DEF SchemaInit
<1>2. release \in Nat /\ NoMigrator \notin Migrators
  BY SchemaAssumption
<1>3. lock = NoMigrator /\ migrator = [m \in Migrators |-> NoRun] /\ repair = NoRepair
  BY DEF SchemaInit
<1>4. SchemaTypeOK
  BY <1>1, <1>2, <1>3 DEF SchemaTypeOK, Runs, Working, NoRun, NoRepair
<1>5. CleanLedgerIsTrue /\ DirtyIsClose /\ ServicesSettled /\ RepairTrue
  BY <1>1, <1>2, <1>3 DEF CleanLedgerIsTrue, DirtyIsClose, ServicesSettled, RepairTrue, NoRepair
<1>6. HolderWorks /\ PhasesTrue
  BY <1>2, <1>3 DEF HolderWorks, PhasesTrue, PhaseTrue, NoRun, Working
<1> QED BY <1>4, <1>5, <1>6 DEF SchemaInv

(* A migrator that does not hold the lock may start, exit or die without     *)
(* disturbing anything: only services that the ledger covers may follow.     *)
LEMMA IdleMoves ==
  ASSUME SchemaInv, NEW m \in Migrators, lock # m, NEW r \in Runs, r.phase \notin Working,
         migrator' = [migrator EXCEPT ![m] = r],
         services' \subseteq Nat,
         \A release \in services' :
           release =< ledger.version /\ (ledger.dirty => release < ledger.version),
         UNCHANGED <<schema, ledger, lock, repair>>
  PROVE  SchemaInv'
<1>1. migrator \in [Migrators -> Runs]
  BY DEF SchemaInv, SchemaTypeOK
<1>2. migrator' \in [Migrators -> Runs] /\ migrator'[m] = r
      /\ \A n \in Migrators \ {m} : migrator'[n] = migrator[n]
  BY <1>1
<1>3. SchemaTypeOK'
  BY <1>2 DEF SchemaInv, SchemaTypeOK
<1>4. HolderWorks'
  BY <1>2 DEF SchemaInv, HolderWorks
<1>5. PhasesTrue'
  <2> SUFFICES ASSUME NEW n \in Migrators PROVE PhaseTrue(n)'
    BY DEF PhasesTrue
  <2>1. PhaseTrue(n)
    BY DEF SchemaInv, PhasesTrue
  <2>2. CASE n = m
    BY <2>2, <1>2 DEF PhaseTrue, Working
  <2>3. CASE n # m
    BY <2>1, <2>3, <1>2 DEF PhaseTrue
  <2> QED BY <2>2, <2>3
<1>6. (CleanLedgerIsTrue /\ DirtyIsClose /\ RepairTrue /\ ServicesSettled)'
  BY DEF SchemaInv, CleanLedgerIsTrue, DirtyIsClose, RepairTrue, ServicesSettled
<1> QED BY <1>3, <1>4, <1>5, <1>6 DEF SchemaInv

(* A step of the lock's holder: nobody else works, so what has to be shown   *)
(* is the holder's own phase and how ledger and schema differ.               *)
LEMMA HolderMoves ==
  ASSUME SchemaInv, NEW m \in Migrators, NEW r \in Runs,
         migrator' = [migrator EXCEPT ![m] = r],
         lock = m \/ lock = NoMigrator,
         lock' = IF r.phase \in Working THEN m ELSE NoMigrator,
         repair.phase = "none", UNCHANGED repair,
         schema' \in [at : Nat, half : BOOLEAN], ledger' \in [version : Nat, dirty : BOOLEAN],
         services' \subseteq Nat,
         PhaseTrue(m)', CleanLedgerIsTrue', DirtyIsClose', ServicesSettled'
  PROVE  SchemaInv'
<1>1. migrator \in [Migrators -> Runs] /\ NoMigrator \notin Migrators
  BY SchemaAssumption DEF SchemaInv, SchemaTypeOK
<1>2. migrator' \in [Migrators -> Runs] /\ migrator'[m] = r
      /\ \A n \in Migrators \ {m} : migrator'[n] = migrator[n]
  BY <1>1
<1>3. \A n \in Migrators \ {m} : migrator[n].phase \notin Working
  BY <1>1 DEF SchemaInv, HolderWorks
<1>4. SchemaTypeOK'
  BY <1>2 DEF SchemaInv, SchemaTypeOK
<1>5. HolderWorks'
  BY <1>1, <1>2, <1>3 DEF HolderWorks
<1>6. PhasesTrue'
  BY <1>2, <1>3 DEF PhasesTrue, PhaseTrue, Working
<1>7. RepairTrue'
  BY DEF RepairTrue
<1> QED BY <1>4, <1>5, <1>6, <1>7 DEF SchemaInv
-----------------------------------------------------------------------------
(* Every step of SchemaNext, and a stutter, preserves the invariant.         *)
LEMMA SchemaInvNext == SchemaInv /\ [SchemaNext]_schemaVars => SchemaInv'
<1> SUFFICES ASSUME SchemaInv, [SchemaNext]_schemaVars PROVE SchemaInv'
  OBVIOUS
<1>t. /\ SchemaTypeOK /\ CleanLedgerIsTrue /\ HolderWorks /\ PhasesTrue /\ DirtyIsClose
      /\ RepairTrue /\ ServicesSettled
      /\ migrator \in [Migrators -> Runs] /\ Releases \subseteq Nat \ {0}
      /\ NoMigrator \notin Migrators
  BY SchemaAssumption DEF SchemaInv, SchemaTypeOK
<1>n. NoRun \in Runs /\ NoRun.phase \notin Working
  BY DEF NoRun, Runs, Working
<1>s. UNCHANGED schema /\ UNCHANGED ledger =>
        CleanLedgerIsTrue' /\ DirtyIsClose'
  BY <1>t DEF CleanLedgerIsTrue, DirtyIsClose
<1>1. ASSUME NEW m \in Migrators, NEW release \in Releases, MigrateUp(m, release)
      PROVE  SchemaInv'
  <2>1. migrator[m].phase \notin Working /\ lock # m
    BY <1>1, <1>t DEF MigrateUp, Working, HolderWorks
  <2>2. CASE RollbackFloor(release)
    <3>1. migrator' = [migrator EXCEPT ![m] = migrator[m]]
      BY <1>1, <1>t, <2>2 DEF MigrateUp
    <3>2. services' = services \cup {release} /\ ~ledger.dirty /\ release =< ledger.version
      BY <1>1, <1>t, <2>2 DEF MigrateUp, RollbackFloor, EmbeddedMax, SchemaTypeOK
    <3>3. services' \subseteq Nat /\ \A s \in services' :
            s =< ledger.version /\ (ledger.dirty => s < ledger.version)
      BY <3>2, <1>t DEF SchemaTypeOK, ServicesSettled
    <3>4. UNCHANGED <<schema, ledger, lock, repair>> /\ migrator[m] \in Runs
      BY <1>1, <1>t DEF MigrateUp
    <3> QED BY <2>1, <3>1, <3>3, <3>4, IdleMoves
  <2>3. CASE ~RollbackFloor(release)
    <3> DEFINE r == [phase |-> "lock", release |-> release, next |-> 0]
    <3>1. migrator' = [migrator EXCEPT ![m] = r] /\ UNCHANGED <<schema, ledger, lock, repair, services>>
      BY <1>1, <2>3 DEF MigrateUp
    <3>2. r \in Runs /\ r.phase \notin Working
      BY <1>t DEF Runs, Working
    <3>3. services' \subseteq Nat /\ \A s \in services' :
            s =< ledger.version /\ (ledger.dirty => s < ledger.version)
      BY <3>1, <1>t DEF SchemaTypeOK, ServicesSettled
    <3> HIDE DEF r
    <3> QED BY <2>1, <3>1, <3>2, <3>3, IdleMoves
  <2> QED BY <2>2, <2>3
<1>2. ASSUME NEW m \in Migrators, LockLedger(m) PROVE SchemaInv'
  <2> DEFINE release == migrator[m].release
             version == ledger.version
  <2>1. migrator[m].phase = "lock" /\ lock = NoMigrator /\ lock # m /\ migrator[m] \in Runs
    BY <1>2, <1>t DEF LockLedger, LockIsFree
  <2>0. release \in Nat /\ version \in Nat
    BY <2>1, <1>t DEF Runs, SchemaTypeOK
  <2>2. CASE ledger.dirty \/ version > release
    <3>1. /\ migrator' = [migrator EXCEPT ![m] = NoRun] /\ services' = services \cup {}
          /\ UNCHANGED <<schema, ledger, lock, repair>>
      BY <1>2, <2>2 DEF LockLedger, Exit, EmbeddedMax
    <3>2. services' \subseteq Nat /\ \A s \in services' :
            s =< ledger.version /\ (ledger.dirty => s < ledger.version)
      BY <3>1, <1>t DEF SchemaTypeOK, ServicesSettled
    <3> QED BY <2>1, <3>1, <3>2, <1>n, IdleMoves
  <2>3. CASE ~ledger.dirty /\ version = release
    <3>1. /\ migrator' = [migrator EXCEPT ![m] = NoRun] /\ services' = services \cup {release}
          /\ UNCHANGED <<schema, ledger, lock, repair>>
      BY <1>2, <2>0, <2>3 DEF LockLedger, Exit, EmbeddedMax
    <3>2. services' \subseteq Nat /\ \A s \in services' :
            s =< ledger.version /\ (ledger.dirty => s < ledger.version)
      <4>1. services \subseteq Nat /\ \A s \in services : s =< version
        BY <1>t DEF SchemaTypeOK, ServicesSettled
      <4>2. \A s \in services' : s \in services \/ s = version
        BY <3>1, <2>3
      <4>3. ledger.version \in Nat /\ ~ledger.dirty
        BY <2>0, <2>3
      <4> HIDE DEF release, version
      <4>4. services' \subseteq Nat
        BY <4>1, <4>2, <2>0
      <4>5. ASSUME NEW s \in services' PROVE s =< version
        <5>1. CASE s \in services
          BY <5>1, <4>1
        <5>2. CASE s = version
          BY <5>2, <2>0
        <5> QED BY <5>1, <5>2, <4>2
      <4> QED BY <4>3, <4>4, <4>5 DEF version
    <3> QED BY <2>1, <3>1, <3>2, <1>n, IdleMoves
  <2>4. CASE ~ledger.dirty /\ ~(version > release) /\ version # release
    <3> DEFINE r == ToRecord(release, version + 1)
    <3>1. lock' = m /\ UNCHANGED <<schema, ledger, services, repair>>
      BY <1>2, <2>4 DEF LockLedger, EmbeddedMax
    <3>2. migrator' = [migrator EXCEPT ![m] = r]
      BY <1>2, <2>4 DEF LockLedger, EmbeddedMax
    <3>3. r \in Runs /\ r.phase = "record" /\ r.next = version + 1 /\ r.release = release
      BY <2>0 DEF Runs, Working, ToRecord
    <3>4. migrator'[m] = r
      BY <3>2, <1>t
    <3>5. PhaseTrue(m)'
      BY <3>1, <3>3, <3>4, <2>0, <2>4 DEF PhaseTrue, Working
    <3>6. repair.phase = "none"
      BY <2>4, <1>t DEF RepairTrue, SchemaTypeOK
    <3>7. schema' \in [at : Nat, half : BOOLEAN] /\ ledger' \in [version : Nat, dirty : BOOLEAN]
          /\ services' \subseteq Nat /\ ServicesSettled' /\ UNCHANGED repair
      BY <3>1, <1>t DEF SchemaTypeOK, ServicesSettled
    <3>8. lock' = IF r.phase \in Working THEN m ELSE NoMigrator
      BY <3>1, <3>3 DEF Working
    <3> HIDE DEF r
    <3> QED BY <2>1, <3>1, <3>2, <3>3, <3>5, <3>6, <3>7, <3>8, <1>s, HolderMoves
  <2> QED BY <2>2, <2>3, <2>4
<1>h. ASSUME NEW m \in Migrators, migrator[m].phase \in Working
      PROVE  lock = m /\ migrator[m] \in Runs /\ repair.phase = "none" /\ PhaseTrue(m)
  BY <1>h, <1>t DEF HolderWorks, RepairTrue, PhasesTrue, SchemaTypeOK
<1>3. ASSUME NEW m \in Migrators, RecordDirty(m) PROVE SchemaInv'
  <2> DEFINE r == [migrator[m] EXCEPT !.phase = "run"]
             next == migrator[m].next
  <2>1. migrator[m].phase = "record" /\ migrator[m].phase \in Working
    BY <1>3 DEF RecordDirty, Working
  <2>2. lock = m /\ migrator[m] \in Runs /\ repair.phase = "none" /\ PhaseTrue(m)
    BY <1>h, <2>1
  <2>3. /\ ledger' = [version |-> next, dirty |-> TRUE]
        /\ migrator' = [migrator EXCEPT ![m] = r]
        /\ UNCHANGED <<schema, lock, services, repair>>
    BY <1>3, <1>t DEF RecordDirty
  <2>4. next \in Nat /\ ledger.version \in Nat /\ ~ledger.dirty /\ next = ledger.version + 1
        /\ schema = [at |-> next - 1, half |-> FALSE] /\ next =< migrator[m].release
    BY <2>1, <2>2, <1>t DEF PhaseTrue, Runs, SchemaTypeOK, CleanLedgerIsTrue
  <2>5. r \in Runs /\ r.phase = "run" /\ r.next = next /\ r.release = migrator[m].release
        /\ migrator'[m] = r
    BY <2>2, <2>3, <1>t DEF Runs, Working
  <2>6. PhaseTrue(m)'
    BY <2>3, <2>4, <2>5 DEF PhaseTrue, Working
  <2>7. CleanLedgerIsTrue' /\ DirtyIsClose' /\ ServicesSettled'
    BY <2>3, <2>4, <1>t DEF CleanLedgerIsTrue, DirtyIsClose, ServicesSettled, SchemaTypeOK
  <2>8. schema' \in [at : Nat, half : BOOLEAN] /\ ledger' \in [version : Nat, dirty : BOOLEAN]
        /\ services' \subseteq Nat /\ lock' = IF r.phase \in Working THEN m ELSE NoMigrator
    BY <2>2, <2>3, <2>4, <2>5, <1>t DEF SchemaTypeOK, Working
  <2> HIDE DEF r
  <2> QED BY <2>2, <2>3, <2>5, <2>6, <2>7, <2>8, HolderMoves
<1>4. ASSUME NEW m \in Migrators, RunMigration(m) PROVE SchemaInv'
  <2> DEFINE r == [migrator[m] EXCEPT !.phase = "clean"]
             next == migrator[m].next
  <2>1. migrator[m].phase = "run" /\ migrator[m].phase \in Working
    BY <1>4 DEF RunMigration, Working
  <2>2. lock = m /\ migrator[m] \in Runs /\ repair.phase = "none" /\ PhaseTrue(m)
    BY <1>h, <2>1
  <2>3. /\ schema' = [at |-> next, half |-> FALSE]
        /\ migrator' = [migrator EXCEPT ![m] = r]
        /\ UNCHANGED <<ledger, lock, services, repair>>
    BY <1>4, <1>t DEF RunMigration
  <2>4. next \in Nat /\ ledger = [version |-> next, dirty |-> TRUE] /\ next =< migrator[m].release
    BY <2>1, <2>2 DEF PhaseTrue, Runs, Working
  <2>5. r \in Runs /\ r.phase = "clean" /\ r.next = next /\ r.release = migrator[m].release
        /\ migrator'[m] = r
    BY <2>2, <2>3, <1>t DEF Runs, Working
  <2>6. PhaseTrue(m)'
    BY <2>3, <2>4, <2>5 DEF PhaseTrue, Working
  <2>7. CleanLedgerIsTrue' /\ DirtyIsClose' /\ ServicesSettled'
    BY <2>3, <2>4, <1>t DEF CleanLedgerIsTrue, DirtyIsClose, ServicesSettled
  <2>8. schema' \in [at : Nat, half : BOOLEAN] /\ ledger' \in [version : Nat, dirty : BOOLEAN]
        /\ services' \subseteq Nat /\ lock' = IF r.phase \in Working THEN m ELSE NoMigrator
    BY <2>2, <2>3, <2>4, <2>5, <1>t DEF SchemaTypeOK, Working
  <2> HIDE DEF r
  <2> QED BY <2>2, <2>3, <2>5, <2>6, <2>7, <2>8, HolderMoves
<1>5. ASSUME NEW m \in Migrators, MigrationFails(m) PROVE SchemaInv'
  <2>1. migrator[m].phase = "run" /\ migrator[m].phase \in Working
    BY <1>5 DEF MigrationFails, Working
  <2>2. lock = m /\ migrator[m] \in Runs /\ repair.phase = "none" /\ PhaseTrue(m)
    BY <1>h, <2>1
  <2>3. PICK half \in BOOLEAN : schema' = [schema EXCEPT !.half = half]
    BY <1>5 DEF MigrationFails
  <2>4. /\ migrator' = [migrator EXCEPT ![m] = NoRun] /\ lock' = NoMigrator
        /\ UNCHANGED <<ledger, services, repair>>
    BY <1>5 DEF MigrationFails
  <2>5. schema' \in [at : Nat, half : BOOLEAN] /\ schema'.at = schema.at /\ ledger.dirty
    BY <2>1, <2>2, <2>3, <1>t DEF SchemaTypeOK, PhaseTrue
  <2>6. PhaseTrue(m)'
    BY <2>4, <1>t DEF PhaseTrue, NoRun, Working
  <2>7. CleanLedgerIsTrue' /\ DirtyIsClose' /\ ServicesSettled'
    BY <2>4, <2>5, <1>t DEF CleanLedgerIsTrue, DirtyIsClose, ServicesSettled
  <2>8. ledger' \in [version : Nat, dirty : BOOLEAN] /\ services' \subseteq Nat
        /\ lock' = IF NoRun.phase \in Working THEN m ELSE NoMigrator
    BY <2>4, <1>n, <1>t DEF SchemaTypeOK
  <2> QED BY <2>2, <2>4, <2>5, <2>6, <2>7, <2>8, <1>n, HolderMoves
<1>6. ASSUME NEW m \in Migrators, RecordClean(m) PROVE SchemaInv'
  <2> DEFINE next == migrator[m].next
             release == migrator[m].release
  <2>1. migrator[m].phase = "clean" /\ migrator[m].phase \in Working
    BY <1>6 DEF RecordClean, Working
  <2>2. lock = m /\ migrator[m] \in Runs /\ repair.phase = "none" /\ PhaseTrue(m)
    BY <1>h, <2>1
  <2>3. next \in Nat /\ release \in Nat /\ ledger = [version |-> next, dirty |-> TRUE]
        /\ schema = [at |-> next, half |-> FALSE] /\ next =< release
    BY <2>1, <2>2 DEF PhaseTrue, Runs, Working
  <2>4. ledger' = [version |-> next, dirty |-> FALSE] /\ UNCHANGED <<schema, repair>>
    BY <1>6, <2>3 DEF RecordClean, Exit, EmbeddedMax
  <2>5. CleanLedgerIsTrue' /\ DirtyIsClose'
    BY <2>3, <2>4 DEF CleanLedgerIsTrue, DirtyIsClose
  <2>6. schema' \in [at : Nat, half : BOOLEAN] /\ ledger' \in [version : Nat, dirty : BOOLEAN]
    BY <2>3, <2>4
  <2>7. CASE next = release
    <3>1. /\ migrator' = [migrator EXCEPT ![m] = NoRun] /\ lock' = NoMigrator
          /\ services' = services \cup {release}
      BY <1>6, <2>7 DEF RecordClean, Exit, EmbeddedMax
    <3>2. PhaseTrue(m)' /\ lock' = IF NoRun.phase \in Working THEN m ELSE NoMigrator
      BY <3>1, <1>n, <1>t DEF PhaseTrue, NoRun, Working
    <3>3. services' \subseteq Nat /\ ServicesSettled'
      BY <3>1, <2>3, <2>4, <2>7, <1>t DEF ServicesSettled, SchemaTypeOK
    <3> QED BY <2>2, <2>4, <2>5, <2>6, <3>1, <3>2, <3>3, <1>n, HolderMoves
  <2>8. CASE next # release
    <3> DEFINE r == ToRecord(release, next + 1)
    <3>1. UNCHANGED <<lock, services>>
      BY <1>6, <2>8 DEF RecordClean, EmbeddedMax
    <3>2. migrator' = [migrator EXCEPT ![m] = r]
      BY <1>6, <2>8 DEF RecordClean, EmbeddedMax
    <3>3. r \in Runs /\ r.phase = "record" /\ r.next = next + 1 /\ r.release = release
          /\ migrator'[m] = r
      BY <3>2, <2>3, <1>t DEF Runs, Working, ToRecord
    <3>4. PhaseTrue(m)' /\ lock' = IF r.phase \in Working THEN m ELSE NoMigrator
      BY <3>1, <3>3, <2>2, <2>3, <2>4, <2>8 DEF PhaseTrue, Working
    <3>5. services' \subseteq Nat /\ ServicesSettled'
      BY <3>1, <2>3, <2>4, <1>t DEF ServicesSettled, SchemaTypeOK
    <3> HIDE DEF r
    <3> QED BY <2>2, <2>4, <2>5, <2>6, <3>2, <3>3, <3>4, <3>5, HolderMoves
  <2> QED BY <2>7, <2>8
<1>7. ASSUME NEW m \in Migrators, MigratorDies(m) PROVE SchemaInv'
  <2>1. /\ migrator' = [migrator EXCEPT ![m] = NoRun]
        /\ lock' = IF lock = m THEN NoMigrator ELSE lock
        /\ UNCHANGED <<schema, ledger, services, repair>>
    BY <1>7 DEF MigratorDies
  <2>2. services' \subseteq Nat /\ ServicesSettled'
        /\ schema' \in [at : Nat, half : BOOLEAN] /\ ledger' \in [version : Nat, dirty : BOOLEAN]
    BY <2>1, <1>t DEF SchemaTypeOK, ServicesSettled
  <2>3. CASE lock = m
    <3>1. repair.phase = "none"
      BY <2>3, <1>t DEF RepairTrue, SchemaTypeOK
    <3>2. PhaseTrue(m)' /\ lock' = IF NoRun.phase \in Working THEN m ELSE NoMigrator
      BY <2>1, <2>3, <1>n, <1>t DEF PhaseTrue, NoRun, Working
    <3> QED BY <2>1, <2>2, <2>3, <3>1, <3>2, <1>n, <1>s, HolderMoves
  <2>4. CASE lock # m
    <3>1. \A s \in services' : s =< ledger.version /\ (ledger.dirty => s < ledger.version)
      BY <2>1, <1>t DEF ServicesSettled
    <3>2. UNCHANGED <<schema, ledger, lock, repair>>
      BY <2>1, <2>4
    <3> QED BY <2>1, <2>2, <2>4, <3>1, <3>2, <1>n, IdleMoves
  <2> QED BY <2>3, <2>4
<1>8. ASSUME RepairSchema PROVE SchemaInv'
  <2>1. /\ ledger.dirty /\ \A m \in Migrators : migrator[m].phase = "idle"
        /\ UNCHANGED <<ledger, lock, migrator, services>>
    BY <1>8 DEF RepairSchema
  <2>2. lock = NoMigrator
    BY <2>1, <1>t DEF HolderWorks, Working, SchemaTypeOK
  <2>3. ledger.version \in Nat /\ schema.at \in Nat
        /\ (schema.at = ledger.version \/ schema.at + 1 = ledger.version)
    BY <2>1, <1>t DEF SchemaTypeOK, DirtyIsClose
  <2>4. PICK at \in {ledger.version - 1, ledger.version} :
          /\ schema' = [at |-> at, half |-> FALSE]
          /\ repair' = [phase |-> "force", version |-> at]
    BY <1>8 DEF RepairSchema
  <2>5. ledger.version > 0
    BY <2>1, <1>t DEF DirtyIsClose
  <2>6. at \in Nat /\ (at = ledger.version \/ at + 1 = ledger.version)
    BY <2>3, <2>4, <2>5
  <2>7. SchemaTypeOK'
    BY <2>1, <2>4, <2>6, <1>t DEF SchemaTypeOK
  <2>8. CleanLedgerIsTrue' /\ DirtyIsClose' /\ RepairTrue' /\ ServicesSettled'
    BY <2>1, <2>2, <2>4, <2>6, <1>t
       DEF CleanLedgerIsTrue, DirtyIsClose, RepairTrue, ServicesSettled
  <2>9. HolderWorks' /\ PhasesTrue'
    BY <2>1, <1>t DEF HolderWorks, PhasesTrue, PhaseTrue, Working
  <2> QED BY <2>7, <2>8, <2>9 DEF SchemaInv
<1>9. ASSUME ForceVersion PROVE SchemaInv'
  <2>1. /\ repair.phase = "force" /\ lock = NoMigrator
        /\ ledger' = [version |-> repair.version, dirty |-> FALSE] /\ repair' = NoRepair
        /\ UNCHANGED <<schema, lock, migrator, services>>
    BY <1>9 DEF ForceVersion, LockIsFree
  <2>2. /\ ledger.dirty /\ schema = [at |-> repair.version, half |-> FALSE]
        /\ repair.version \in Nat
    BY <2>1, <1>t DEF RepairTrue, SchemaTypeOK
  <2>3. SchemaTypeOK'
    BY <2>1, <2>2, <1>t DEF SchemaTypeOK, NoRepair
  <2>4. CleanLedgerIsTrue' /\ DirtyIsClose' /\ RepairTrue'
    BY <2>1, <2>2 DEF CleanLedgerIsTrue, DirtyIsClose, RepairTrue, NoRepair
  <2>5. ServicesSettled'
    BY <2>1, <2>2, <1>t DEF ServicesSettled, DirtyIsClose, SchemaTypeOK
  <2>6. HolderWorks' /\ \A m \in Migrators : migrator[m].phase \notin Working
    BY <2>1, <1>t DEF HolderWorks
  <2>7. PhasesTrue'
    BY <2>1, <2>6 DEF PhasesTrue, PhaseTrue, Working
  <2> QED BY <2>3, <2>4, <2>5, <2>6, <2>7 DEF SchemaInv
<1>10. ASSUME NEW release \in Releases, ServiceStops(release) PROVE SchemaInv'
  BY <1>10, <1>t DEF ServiceStops, SchemaInv, SchemaTypeOK, CleanLedgerIsTrue, HolderWorks,
       PhasesTrue, PhaseTrue, DirtyIsClose, RepairTrue, ServicesSettled
<1>11. CASE UNCHANGED schemaVars
  BY <1>11, <1>t DEF schemaVars, SchemaInv, SchemaTypeOK, CleanLedgerIsTrue, HolderWorks,
       PhasesTrue, PhaseTrue, DirtyIsClose, RepairTrue, ServicesSettled
<1> QED
  BY <1>1, <1>2, <1>3, <1>4, <1>5, <1>6, <1>7, <1>8, <1>9, <1>10, <1>11 DEF SchemaNext

LEMMA SchemaInvariant == SchemaSpec => []SchemaInv
<1> QED BY SchemaInvInit, SchemaInvNext, PTL DEF SchemaSpec

(* For any releases, and any number of migrators that race, fail or die, and *)
(* of repairs, a clean ledger names exactly the migrations the database      *)
(* holds (dbmigrate.go, Up and Force).                                       *)
THEOREM LedgerStaysTrue == SchemaSpec => []CleanLedgerIsTrue
<1>1. SchemaInv => CleanLedgerIsTrue
  BY DEF SchemaInv
<1> QED BY <1>1, SchemaInvariant, PTL

(* Whatever a rollback, a race or a repair did, a service that runs finds    *)
(* every migration of its release in the schema (cmd/api/migrate.go).        *)
THEOREM ServicesAlwaysFindTheirSchema == SchemaSpec => []ServicesFindTheirSchema
<1>1. ASSUME SchemaInv PROVE ServicesFindTheirSchema
  BY <1>1 DEF SchemaInv, SchemaTypeOK, ServicesSettled, DirtyIsClose, CleanLedgerIsTrue,
       ServicesFindTheirSchema, EmbeddedMax
<1> QED BY <1>1, SchemaInvariant, PTL
-----------------------------------------------------------------------------
(* For any timers that leave room for one probe under way and the intervals  *)
(* to the checks that must fail, any number of watchers and any requests,    *)
(* the drain loses no request and answers are fresh.  The argument: a probe  *)
(* the old life let through ends, each later one is turned down, and as many *)
(* as the balancer counts fit in before the listener closes; and a snapshot  *)
(* is never dated later than what it saw.                                    *)

Probes == [step : {"idle", "asked", "locking", "pinged"}, arrived : Nat,
           found : {"none", "ok", "unavailable"}]

LifecycleTypeOK ==
    /\ now \in Nat /\ dueAt \in Nat /\ pollAt \in Nat
    /\ upAt \in Nat /\ downAt \in Nat /\ cutAt \in Nat
    /\ life \in {"serving", "draining", "closing", "stopped", "exited"}
    /\ database \in {"up", "down"}
    /\ snapshot \in [code : {"none", "ok", "unavailable"}, at : Nat]
    /\ probe \in [Watchers -> Probes]
    /\ answer \in [code : {"none", "ok", "unavailable", "draining"}, arrived : Nat]
    /\ failed \in Nat /\ failed =< FailThreshold
    /\ refused \in BOOLEAN /\ orphans \subseteq Nat

Held(w) == probe[w].step \in {"locking", "pinged"}   \* past the draining check

\* While the listener is open the balancer polls on time and no probe is late.
BalancerOnTime ==
    Serving =>
        /\ now =< pollAt /\ pollAt =< now + PollInterval
        /\ probe[Balancer].step # "idle" =>
              /\ now =< probe[Balancer].arrived + ProbeTimeout
              /\ pollAt = probe[Balancer].arrived + PollInterval

\* The length of k intervals between polls, and the instant of the check that
\* follows the failures so far: one interval each, the first after the signal.
Rounds(k)  == k * PollInterval
InTime(at) == at + DrainDelay =< dueAt + Rounds(failed + 1)

\* During the drain: the balancer has been turned down often enough, or its
\* probe was let through before the signal, or its next one comes in time.
DrainIsNoticed ==
    life = "draining" =>
        \/ ~InRotation /\ ~Held(Balancer)
        \/ Held(Balancer) /\ probe[Balancer].arrived + DrainDelay =< dueAt
        \/ probe[Balancer].step = "idle" /\ InTime(pollAt)
        \/ probe[Balancer].step = "asked" /\ InTime(probe[Balancer].arrived)

ClosedIsUnrouted == ~Serving => ~InRotation /\ ~Held(Balancer)

RoutingInv ==
    /\ \A w \in Watchers : probe[w].arrived =< now
    /\ \A t \in orphans : t =< now
    /\ BalancerOnTime
    /\ DrainIsNoticed
    /\ ClosedIsUnrouted
    /\ ~refused

\* When the database last answered, and last did not.
DatabaseSeen ==
    /\ upAt =< now /\ downAt =< now /\ cutAt =< now
    /\ database = "up" => upAt = now
    /\ database = "down" => downAt = now

\* A finding, pending or stored, is not dated after what it found.
FindingsAreDated ==
    /\ \A w \in Watchers :
          probe[w].step = "pinged" =>
              \/ probe[w].found = "ok" /\ probe[w].arrived =< upAt
              \/ probe[w].found = "unavailable" /\ probe[w].arrived =< downAt
    /\ snapshot.code = "ok" => snapshot.at =< upAt
    /\ snapshot.code = "unavailable" => snapshot.at =< downAt \/ snapshot.at =< cutAt
    /\ snapshot # NoSnapshot => snapshot.code # "none"

LifecycleInv ==
    LifecycleTypeOK /\ RoutingInv /\ DatabaseSeen /\ FindingsAreDated /\ AnswersAreFresh
-----------------------------------------------------------------------------
(* What a step makes of the probes: one of them moves (Watch).               *)
LEMMA ProbeMoves ==
    ASSUME LifecycleTypeOK, NEW w \in Watchers, NEW r \in Probes,
           probe' = [probe EXCEPT ![w] = r]
    PROVE  /\ probe' \in [Watchers -> Probes]
           /\ probe'[w] = r
           /\ \A v \in Watchers \ {w} : probe'[v] = probe[v]
BY DEF LifecycleTypeOK

(* An idle probe, and one that has just moved on, is a probe (NoProbe).      *)
LEMMA ProbesAre ==
    ASSUME LifecycleTypeOK, NEW w \in Watchers
    PROVE  /\ NoProbe \in Probes /\ probe[w] \in Probes
           /\ [step |-> "asked", arrived |-> now, found |-> "none"] \in Probes
           /\ [probe[w] EXCEPT !.step = "locking"] \in Probes
           /\ \A found \in {"ok", "unavailable"} :
                 [step |-> "pinged", arrived |-> probe[w].arrived, found |-> found] \in Probes
<1>1. probe[w] \in Probes /\ now \in Nat
  BY DEF LifecycleTypeOK
<1> QED BY <1>1 DEF Probes, NoProbe

(* The constants are durations (LifecycleAssumption).                        *)
LEMMA Durations ==
    /\ Balancer \in Watchers
    /\ CacheTTL \in Nat /\ CacheTTL > 0
    /\ PollInterval \in Nat /\ ProbeTimeout \in Nat /\ DrainDelay \in Nat
    /\ ShutdownTimeout \in Nat /\ PollInterval > 0 /\ ProbeTimeout > 0
    /\ ProbeTimeout =< PollInterval
    /\ FailThreshold \in Nat /\ FailThreshold > 0
BY LifecycleAssumption

(* The intervals add up, and the drain outlasts a probe and those to the     *)
(* checks that must fail (LifecycleAssumption).                              *)
LEMMA RoundsAdd ==
    /\ \A k \in Nat : Rounds(k) \in Nat /\ Rounds(k + 1) = Rounds(k) + PollInterval
    /\ \A k, m \in Nat : k =< m => Rounds(k) =< Rounds(m)
    /\ DrainDelay > Rounds(FailThreshold) + ProbeTimeout
<1>1. \A k \in Nat : Rounds(k) \in Nat /\ Rounds(k + 1) = Rounds(k) + PollInterval
  BY Durations DEF Rounds
<1>2. ASSUME NEW k \in Nat, NEW m \in Nat, k =< m PROVE Rounds(k) =< Rounds(m)
  <2>1. PICK d \in Nat : m = k + d
    BY <1>2
  <2>2. (k + d) * PollInterval = k * PollInterval + d * PollInterval
    BY Durations
  <2>3. d * PollInterval \in Nat /\ k * PollInterval \in Nat
    BY Durations
  <2> QED BY <2>1, <2>2, <2>3 DEF Rounds
<1>3. DrainDelay > Rounds(FailThreshold) + ProbeTimeout
  BY LifecycleAssumption DEF Rounds
<1> QED BY <1>1, <1>2, <1>3

(* The first interval is in every count of them (Rounds).                    *)
LEMMA AtLeastOneRound ==
    \A k \in Nat : Rounds(k + 1) \in Nat /\ PollInterval =< Rounds(k + 1)
<1> TAKE k \in Nat
<1>1. Rounds(k) \in Nat /\ Rounds(k + 1) = Rounds(k) + PollInterval
  BY RoundsAdd
<1> QED BY <1>1, Durations

(* A failed check counts until there are enough of them (FailedAgain).       *)
LEMMA FailuresCount ==
    ASSUME LifecycleTypeOK
    PROVE  /\ FailedAgain \in Nat /\ FailedAgain =< FailThreshold
           /\ FailedAgain = failed + 1 \/ (~InRotation /\ FailedAgain = failed)
BY Durations DEF LifecycleTypeOK, FailedAgain, InRotation

(* An answer keeps the count in its range (Answered).                        *)
LEMMA AnswerKeepsCount ==
    ASSUME LifecycleTypeOK, NEW w \in Watchers, NEW code, Answered(w, code)
    PROVE  failed' \in Nat /\ failed' =< FailThreshold
BY FailuresCount, Durations DEF LifecycleTypeOK, Answered

(* Every step keeps the variables in their types (LifecycleNext).            *)
LEMMA TypesStep ==
    ASSUME LifecycleTypeOK, [LifecycleNext]_lifecycleVars PROVE LifecycleTypeOK'
<1>1. ASSUME NEW w \in Watchers, Watch(w) PROVE LifecycleTypeOK'
  <2> USE <1>1, ProbesAre, ProbeMoves, Durations
  <2>1. CASE ProbeArrives(w)
    <3>1. probe' = [probe EXCEPT ![w] = [step |-> "asked", arrived |-> now, found |-> "none"]]
          /\ pollAt' \in {pollAt, now + PollInterval}
      BY <2>1 DEF ProbeArrives
    <3>2. probe' \in [Watchers -> Probes]
      BY <3>1
    <3> QED BY <2>1, <3>1, <3>2 DEF ProbeArrives, LifecycleTypeOK, databaseVars, shutdownVars
  <2>2. CASE HandleReady(w)
    <3>1. CASE Answered(w, "draining")
      <4>1. probe' \in [Watchers -> Probes]
        BY <3>1 DEF Answered
      <4>2. probe[w].arrived \in Nat
        BY DEF Probes
      <4>3. failed' \in Nat /\ failed' =< FailThreshold
        BY <3>1, AnswerKeepsCount
      <4> QED BY <2>2, <3>1, <4>1, <4>2, <4>3
              DEF HandleReady, Answered, LifecycleTypeOK, databaseVars, shutdownVars
    <3>2. CASE probe' = [probe EXCEPT ![w].step = "locking"] /\ UNCHANGED <<answer, failed>>
      <4>1. probe' = [probe EXCEPT ![w] = [probe[w] EXCEPT !.step = "locking"]]
        BY <3>2 DEF LifecycleTypeOK
      <4>2. probe' \in [Watchers -> Probes]
        BY <4>1
      <4> QED BY <2>2, <3>2, <4>2 DEF HandleReady, LifecycleTypeOK, databaseVars, shutdownVars
    <3> QED BY <2>2, <3>1, <3>2 DEF HandleReady
  <2>3. CASE ShareSnapshot(w) \/ StoreSnapshot(w)
    <3>1. PICK code \in {snapshot.code, probe[w].found} :
            /\ Answered(w, code)
            /\ code = snapshot.code \/ probe[w].step = "pinged"
      BY <2>3 DEF ShareSnapshot, StoreSnapshot
    <3>2. probe' \in [Watchers -> Probes]
      BY <3>1 DEF Answered
    <3>3. probe[w].arrived \in Nat /\ probe[w].found \in {"none", "ok", "unavailable"}
          /\ snapshot.code \in {"none", "ok", "unavailable"}
      BY DEF Probes, LifecycleTypeOK
    <3>4. answer' \in [code : {"none", "ok", "unavailable", "draining"}, arrived : Nat]
      BY <3>1, <3>3 DEF Answered
    <3>5. snapshot' \in [code : {"none", "ok", "unavailable"}, at : Nat]
      BY <2>3, <3>3 DEF ShareSnapshot, StoreSnapshot, Stamp, LifecycleTypeOK
    <3>6. failed' \in Nat /\ failed' =< FailThreshold
      BY <3>1, AnswerKeepsCount
    <3> QED BY <2>3, <3>1, <3>2, <3>4, <3>5, <3>6
            DEF ShareSnapshot, StoreSnapshot, Answered, LifecycleTypeOK, databaseVars,
                shutdownVars
  <2>4. CASE Ping(w)
    <3>1. probe' \in [Watchers -> Probes]
      BY <2>4 DEF Ping
    <3> QED BY <2>4, <3>1
            DEF Ping, LifecycleTypeOK, databaseVars, shutdownVars, trafficVars
  <2>5. CASE GiveUp(w)
    <3>1. probe' \in [Watchers -> Probes]
      BY <2>5 DEF GiveUp
    <3>2. probe[w].arrived \in Nat /\ probe[w].found \in {"none", "ok", "unavailable"}
      BY DEF Probes
    <3>3. snapshot' \in [code : {"none", "ok", "unavailable"}, at : Nat] /\ cutAt' \in Nat
      BY <2>5, <3>2 DEF GiveUp, Stamp, LifecycleTypeOK
    <3>4. failed' \in Nat /\ failed' =< FailThreshold
      BY <2>5, FailuresCount DEF GiveUp, LifecycleTypeOK
    <3>5. orphans' \subseteq Nat
      BY <2>5, <3>2 DEF GiveUp, LifecycleTypeOK
    <3> QED BY <2>5, <3>1, <3>3, <3>4, <3>5
            DEF GiveUp, LifecycleTypeOK, databaseVars, shutdownVars
  <2> QED BY <1>1, <2>1, <2>2, <2>3, <2>4, <2>5 DEF Watch
<1>7. CASE OrphanPings
  <2>1. now \in Nat /\ orphans \subseteq Nat
    BY DEF LifecycleTypeOK
  <2> QED BY <1>7, <2>1 DEF OrphanPings, LifecycleTypeOK, databaseVars, shutdownVars, trafficVars
<1>2. ASSUME NEW r \in Requests, SendRequest(r) \/ FinishRequest(r) \/ RequestDeadline(r)
      PROVE  LifecycleTypeOK'
  BY <1>2 DEF SendRequest, FinishRequest, RequestDeadline, LifecycleTypeOK, healthVars,
              databaseVars, shutdownVars
<1>3. CASE DatabaseTurns
  BY <1>3 DEF DatabaseTurns, LifecycleTypeOK, healthVars, shutdownVars, trafficVars
<1>4. CASE Tick
  BY <1>4 DEF Tick, LifecycleTypeOK, healthVars, shutdownVars, trafficVars
<1>5. CASE Shutdown
  <2>1. /\ UNCHANGED <<now, healthVars, databaseVars, trafficVars>>
        /\ life' \in {"serving", "draining", "closing", "stopped", "exited"}
        /\ dueAt' \in {dueAt, now + DrainDelay, now + ShutdownTimeout}
    BY <1>5 DEF Shutdown, ShutdownGoesOn, Signal, CloseListener, ShutdownReturns, PoolCloses
  <2>2. dueAt' \in Nat
    BY <2>1, Durations DEF LifecycleTypeOK
  <2> QED BY <2>1, <2>2 DEF LifecycleTypeOK, healthVars, databaseVars, trafficVars
<1>6. CASE UNCHANGED lifecycleVars
  BY <1>6 DEF lifecycleVars, LifecycleTypeOK, healthVars, databaseVars, shutdownVars, trafficVars
<1> QED BY <1>1, <1>2, <1>3, <1>4, <1>5, <1>6, <1>7 DEF LifecycleNext

(* The last sightings of the database are of now or earlier, and only grow   *)
(* (DatabaseTurns, Tick, GiveUp).                                            *)
LEMMA SeenStep ==
    ASSUME LifecycleTypeOK, DatabaseSeen, [LifecycleNext]_lifecycleVars
    PROVE  DatabaseSeen' /\ upAt =< upAt' /\ downAt =< downAt' /\ cutAt =< cutAt'
<1> USE DEF DatabaseSeen, LifecycleTypeOK
<1>1. ASSUME NEW w \in Watchers, Watch(w)
      PROVE  /\ UNCHANGED <<now, database, upAt, downAt>>
             /\ cutAt' \in {cutAt, now}
  BY <1>1 DEF Watch, ProbeArrives, HandleReady, ShareSnapshot, Ping, StoreSnapshot, GiveUp,
              databaseVars
<1>7. CASE OrphanPings
  BY <1>7 DEF OrphanPings, databaseVars
<1>2. CASE DatabaseTurns
  BY <1>2 DEF DatabaseTurns, healthVars
<1>3. CASE Tick
  BY <1>3 DEF Tick, healthVars
<1>4. CASE UNCHANGED <<now, database, upAt, downAt, cutAt>>
  BY <1>4
<1>5. ASSUME NEW r \in Requests, SendRequest(r) \/ FinishRequest(r) \/ RequestDeadline(r)
      PROVE  UNCHANGED <<now, database, upAt, downAt, cutAt>>
  BY <1>5 DEF SendRequest, FinishRequest, RequestDeadline, healthVars, databaseVars
<1>6. Shutdown \/ UNCHANGED lifecycleVars => UNCHANGED <<now, database, upAt, downAt, cutAt>>
  BY DEF Shutdown, ShutdownGoesOn, Signal, CloseListener, ShutdownReturns, PoolCloses,
         healthVars, databaseVars, lifecycleVars
<1> QED BY <1>1, <1>2, <1>3, <1>4, <1>5, <1>6, <1>7 DEF LifecycleNext

(* An idle or waiting probe has found nothing; a pinged one found what the   *)
(* database was when asked, and the snapshot is dated by its asker's arrival *)
(* (Ping, StoreSnapshot, GiveUp, ShareSnapshot).                             *)
LEMMA DatesStep ==
    ASSUME LifecycleInv, LifecycleTypeOK', [LifecycleNext]_lifecycleVars
    PROVE  FindingsAreDated' /\ AnswersAreFresh'
<1>1. /\ LifecycleTypeOK /\ DatabaseSeen /\ FindingsAreDated /\ AnswersAreFresh
      /\ \A w \in Watchers : probe[w].arrived =< now
      /\ \A t \in orphans : t =< now
  BY DEF LifecycleInv, RoutingInv
<1>2. upAt =< upAt' /\ downAt =< downAt' /\ cutAt =< cutAt'
  BY <1>1, SeenStep
<1>3. /\ {upAt, upAt', downAt, downAt', cutAt, cutAt', now, snapshot.at} \subseteq Nat
      /\ answer.arrived \in Nat /\ CacheTTL \in Nat /\ CacheTTL > 0
      /\ \A w \in Watchers : probe[w].arrived \in Nat
  BY <1>1, Durations DEF LifecycleTypeOK, Probes
<1>4. ASSUME UNCHANGED <<snapshot, answer>>,
             \A w \in Watchers : probe'[w].step = "pinged" => probe'[w] = probe[w]
      PROVE  FindingsAreDated' /\ AnswersAreFresh'
  <2>1. FindingsAreDated'
    <3>1. ASSUME NEW w \in Watchers, probe'[w].step = "pinged"
          PROVE  \/ probe'[w].found = "ok" /\ probe'[w].arrived =< upAt'
                 \/ probe'[w].found = "unavailable" /\ probe'[w].arrived =< downAt'
      <4>1. probe'[w] = probe[w] /\ probe[w].arrived \in Nat
        BY <1>3, <1>4, <3>1
      <4>2. \/ probe[w].found = "ok" /\ probe[w].arrived =< upAt
            \/ probe[w].found = "unavailable" /\ probe[w].arrived =< downAt
        BY <1>1, <3>1, <4>1 DEF FindingsAreDated
      <4> QED BY <1>2, <1>3, <4>1, <4>2
    <3>2. /\ snapshot.code = "ok" => snapshot.at =< upAt'
          /\ snapshot.code = "unavailable" => snapshot.at =< downAt' \/ snapshot.at =< cutAt'
          /\ snapshot # NoSnapshot => snapshot.code # "none"
      BY <1>1, <1>2, <1>3 DEF FindingsAreDated
    <3> QED BY <1>4, <3>1, <3>2 DEF FindingsAreDated
  <2>2. AnswersAreFresh'
    BY <1>1, <1>2, <1>3, <1>4 DEF AnswersAreFresh
  <2> QED BY <2>1, <2>2
<1>5. ASSUME NEW w \in Watchers, Watch(w) PROVE FindingsAreDated' /\ AnswersAreFresh'
  <2> USE <1>1, <1>3, <1>5, ProbesAre, ProbeMoves
  <2>1. CASE ProbeArrives(w)
    <3>1. probe'[w].step = "asked" /\ \A v \in Watchers \ {w} : probe'[v] = probe[v]
      BY <2>1 DEF ProbeArrives
    <3>2. \A v \in Watchers : probe'[v].step = "pinged" => probe'[v] = probe[v]
      BY <3>1
    <3>3. UNCHANGED <<snapshot, answer>>
      BY <2>1 DEF ProbeArrives
    <3> HIDE <1>1, <1>3, <1>5, ProbesAre, ProbeMoves
    <3> QED BY <1>4, <3>2, <3>3
  <2>2. CASE HandleReady(w)
    <3>1. /\ probe'[w].step # "pinged" /\ \A v \in Watchers \ {w} : probe'[v] = probe[v]
          /\ answer' = answer \/ answer'.code = "draining"
          /\ UNCHANGED <<snapshot, upAt, downAt, cutAt>>
      <4>1. CASE Answered(w, "draining")
        <5>1. probe'[w] = NoProbe /\ \A v \in Watchers \ {w} : probe'[v] = probe[v]
          BY <4>1 DEF Answered
        <5> QED BY <2>2, <4>1, <5>1 DEF HandleReady, Answered, NoProbe, databaseVars
      <4>2. CASE probe' = [probe EXCEPT ![w].step = "locking"] /\ UNCHANGED <<answer, failed>>
        <5>1. probe' = [probe EXCEPT ![w] = [probe[w] EXCEPT !.step = "locking"]]
          BY <4>2 DEF LifecycleTypeOK
        <5>2. probe'[w] = [probe[w] EXCEPT !.step = "locking"]
              /\ \A v \in Watchers \ {w} : probe'[v] = probe[v]
          BY <5>1
        <5>3. probe'[w].step # "pinged"
          BY <5>2 DEF Probes
        <5> QED BY <2>2, <4>2, <5>2, <5>3 DEF HandleReady, databaseVars
      <4> QED BY <2>2, <4>1, <4>2 DEF HandleReady
    <3>2. FindingsAreDated'
      BY <3>1 DEF FindingsAreDated
    <3>3. AnswersAreFresh'
      BY <3>1 DEF AnswersAreFresh
    <3> QED BY <3>2, <3>3
  <2>3. CASE ShareSnapshot(w)
    <3>1. /\ probe'[w].step = "idle" /\ \A v \in Watchers \ {w} : probe'[v] = probe[v]
          /\ answer' = [code |-> snapshot.code, arrived |-> probe[w].arrived]
          /\ probe[w].arrived < snapshot.at + CacheTTL
          /\ UNCHANGED <<snapshot, upAt, downAt, cutAt>>
      BY <2>3 DEF ShareSnapshot, Answered, NoProbe, Fresh, databaseVars
    <3>2. FindingsAreDated'
      BY <3>1 DEF FindingsAreDated
    <3>3. AnswersAreFresh'
      BY <3>1 DEF AnswersAreFresh, FindingsAreDated
    <3> QED BY <3>2, <3>3
  <2>4. CASE Ping(w)
    <3>1. PICK found \in {"ok", "unavailable"} :
            /\ found = (IF database = "up" THEN "ok" ELSE "unavailable")
            /\ probe'[w] = [step |-> "pinged", arrived |-> probe[w].arrived, found |-> found]
            /\ \A v \in Watchers \ {w} : probe'[v] = probe[v]
            /\ UNCHANGED <<snapshot, answer, upAt, downAt, cutAt>>
      BY <2>4 DEF Ping, databaseVars
    <3>2. \/ found = "ok" /\ probe[w].arrived =< upAt
          \/ found = "unavailable" /\ probe[w].arrived =< downAt
      BY <3>1 DEF DatabaseSeen, LifecycleTypeOK
    <3>3. FindingsAreDated'
      BY <3>1, <3>2 DEF FindingsAreDated
    <3>4. AnswersAreFresh'
      BY <3>1 DEF AnswersAreFresh
    <3> QED BY <3>3, <3>4
  <2>5. CASE StoreSnapshot(w)
    <3>1. /\ probe'[w].step = "idle" /\ \A v \in Watchers \ {w} : probe'[v] = probe[v]
          /\ probe[w].step = "pinged"
          /\ answer' = [code |-> probe[w].found, arrived |-> probe[w].arrived]
          /\ snapshot' = [code |-> probe[w].found, at |-> probe[w].arrived]
          /\ UNCHANGED <<upAt, downAt, cutAt>>
      BY <2>5 DEF StoreSnapshot, Answered, NoProbe, Stamp, databaseVars
    <3>2. \/ probe[w].found = "ok" /\ probe[w].arrived =< upAt
          \/ probe[w].found = "unavailable" /\ probe[w].arrived =< downAt
      BY <3>1 DEF FindingsAreDated
    <3>3. FindingsAreDated'
      BY <3>1, <3>2 DEF FindingsAreDated
    <3>4. AnswersAreFresh'
      BY <3>1, <3>2 DEF AnswersAreFresh
    <3> QED BY <3>3, <3>4
  <2>6. CASE GiveUp(w)
    <3>1. /\ probe'[w].step = "idle" /\ \A v \in Watchers \ {w} : probe'[v] = probe[v]
          /\ UNCHANGED <<answer, upAt, downAt>>
          /\ \/ UNCHANGED <<snapshot, cutAt>>
             \/ /\ snapshot' = [code |-> "unavailable", at |-> probe[w].arrived]
                /\ cutAt' = now
             \/ /\ snapshot' = [code |-> probe[w].found, at |-> probe[w].arrived]
                /\ probe[w].step = "pinged" /\ UNCHANGED cutAt
      BY <2>6 DEF GiveUp, NoProbe, Stamp, databaseVars
    <3>4. probe[w].step = "pinged" =>
             \/ probe[w].found = "ok" /\ probe[w].arrived =< upAt
             \/ probe[w].found = "unavailable" /\ probe[w].arrived =< downAt
      BY DEF FindingsAreDated
    <3>2. FindingsAreDated'
      BY <1>2, <3>1, <3>4 DEF FindingsAreDated
    <3>3. AnswersAreFresh'
      BY <1>2, <3>1 DEF AnswersAreFresh
    <3> QED BY <3>2, <3>3
  <2> QED BY <2>1, <2>2, <2>3, <2>4, <2>5, <2>6 DEF Watch
<1>8. CASE OrphanPings
  <2>1. PICK t \in orphans :
          \/ UNCHANGED <<snapshot, cutAt>>
          \/ snapshot' = [code |-> "unavailable", at |-> t] /\ cutAt' = now
    BY <1>8 DEF OrphanPings
  <2>2. UNCHANGED <<probe, answer, upAt, downAt>>
    BY <1>8 DEF OrphanPings, databaseVars
  <2>5. t =< now /\ t \in Nat
    <3>1. \A u \in orphans : u =< now
      BY <1>1
    <3>2. orphans \subseteq Nat
      BY <1>1 DEF LifecycleTypeOK
    <3> QED BY <3>1, <3>2
  <2>3. FindingsAreDated'
    BY <1>1, <1>2, <1>3, <2>1, <2>2, <2>5 DEF FindingsAreDated
  <2>4. AnswersAreFresh'
    BY <1>1, <1>2, <1>3, <2>2 DEF AnswersAreFresh
  <2> QED BY <2>3, <2>4
<1>6. ASSUME NEW r \in Requests, SendRequest(r) \/ FinishRequest(r) \/ RequestDeadline(r)
      PROVE  UNCHANGED <<snapshot, answer, probe>>
  BY <1>6 DEF SendRequest, FinishRequest, RequestDeadline, healthVars
<1>7. DatabaseTurns \/ Tick \/ Shutdown \/ UNCHANGED lifecycleVars
        => UNCHANGED <<snapshot, answer, probe>>
  BY DEF DatabaseTurns, Tick, Shutdown, ShutdownGoesOn, Signal, CloseListener,
         ShutdownReturns, PoolCloses, healthVars, lifecycleVars
<1> QED BY <1>4, <1>5, <1>6, <1>7, <1>8 DEF LifecycleNext

(* The balancer's own probe during the drain: each one asked after the       *)
(* signal counts as failed, and one let through before has an interval at    *)
(* most until the next (HandleReady, DrainingWins).                          *)
LEMMA BalancerMoves ==
    ASSUME LifecycleInv, LifecycleTypeOK', Watch(Balancer)
    PROVE  BalancerOnTime' /\ DrainIsNoticed' /\ ClosedIsUnrouted'
<1> DEFINE p == probe[Balancer]
<1>1. LifecycleTypeOK /\ BalancerOnTime /\ DrainIsNoticed /\ ClosedIsUnrouted /\ p.arrived =< now
  BY Durations DEF LifecycleInv, RoutingInv
<1>2. p \in Probes /\ p.arrived \in Nat /\ {now, pollAt, dueAt} \subseteq Nat
      /\ failed \in Nat /\ failed =< FailThreshold
  BY <1>1, Durations DEF LifecycleTypeOK, Probes
<1>3. /\ probe \in [Watchers -> Probes] /\ Balancer \in Watchers
      /\ \A r : probe' = [probe EXCEPT ![Balancer] = r] => probe'[Balancer] = r
  BY <1>1, Durations DEF LifecycleTypeOK
<1>9. ASSUME probe'[Balancer] = NoProbe, failed' = FailedAgain, p.step # "idle",
             UNCHANGED <<now, pollAt, life, dueAt>>
      PROVE  BalancerOnTime' /\ DrainIsNoticed' /\ ClosedIsUnrouted'
  <2>1. /\ FailedAgain \in Nat
        /\ FailedAgain = failed + 1 \/ (~InRotation /\ FailedAgain = failed)
    BY <1>1, FailuresCount
  <2>2. ~InRotation => ~InRotation'
    BY <1>2, <1>9, <2>1, Durations DEF InRotation
  <2>3. BalancerOnTime' /\ ClosedIsUnrouted'
    BY <1>1, <1>9, <2>2 DEF BalancerOnTime, ClosedIsUnrouted, Serving, Held, NoProbe
  <2>4. DrainIsNoticed'
    <3>1. SUFFICES ASSUME life = "draining", InRotation PROVE InTime(pollAt)'
      BY <1>9, <2>2 DEF DrainIsNoticed, Held, NoProbe
    <3>2. pollAt = p.arrived + PollInterval
      BY <1>1, <1>9, <3>1 DEF BalancerOnTime, Serving
    <3>3. p.arrived + DrainDelay =< dueAt \/ InTime(p.arrived)
      BY <1>1, <1>9, <3>1 DEF DrainIsNoticed
    <3>4. /\ Rounds(failed + 1) \in Nat /\ failed' = failed + 1
          /\ Rounds(failed' + 1) = Rounds(failed + 1) + PollInterval
      BY <1>2, <1>9, <2>1, <3>1, RoundsAdd
    <3> QED BY <1>2, <1>9, <3>2, <3>3, <3>4, Durations DEF InTime
  <2> QED BY <2>3, <2>4
<1>4. CASE ProbeArrives(Balancer)
  <2>1. /\ Serving /\ p.step = "idle" /\ now = pollAt /\ pollAt' = now + PollInterval
        /\ probe'[Balancer] = [step |-> "asked", arrived |-> now, found |-> "none"]
        /\ UNCHANGED <<now, life, dueAt, failed>>
    BY <1>3, <1>4 DEF ProbeArrives, shutdownVars
  <2>2. BalancerOnTime'
    BY <1>2, <2>1, Durations DEF BalancerOnTime, Serving
  <2>3. DrainIsNoticed'
    BY <1>1, <2>1 DEF DrainIsNoticed, Held, InTime, InRotation
  <2>4. ClosedIsUnrouted'
    BY <2>1 DEF ClosedIsUnrouted, Serving
  <2> QED BY <2>2, <2>3, <2>4
<1>5. CASE HandleReady(Balancer)
  <2>1. p.step = "asked" /\ UNCHANGED <<now, pollAt, life, dueAt>>
    BY <1>5 DEF HandleReady, shutdownVars
  <2>2. CASE life # "serving"
    <3>1. probe'[Balancer] = NoProbe /\ failed' = FailedAgain
      BY <1>3, <1>5, <2>2 DEF HandleReady, DrainingWins, Answered
    <3> QED BY <1>9, <2>1, <3>1
  <2>3. CASE life = "serving"
    <3>1. probe' = [probe EXCEPT ![Balancer] = [p EXCEPT !.step = "locking"]]
      BY <1>3, <1>5, <2>3 DEF HandleReady, DrainingWins
    <3>2. probe'[Balancer].arrived = p.arrived
      BY <1>2, <1>3, <3>1 DEF Probes
    <3>3. BalancerOnTime'
      BY <1>1, <2>1, <3>2 DEF BalancerOnTime, Serving
    <3> QED BY <2>1, <2>3, <3>3 DEF DrainIsNoticed, ClosedIsUnrouted, Serving
  <2> QED BY <2>2, <2>3
<1>6. CASE ShareSnapshot(Balancer) \/ StoreSnapshot(Balancer)
  <2>1. /\ p.step \in {"locking", "pinged"} /\ UNCHANGED <<now, pollAt, life, dueAt>>
        /\ probe'[Balancer] = NoProbe
    BY <1>3, <1>6 DEF ShareSnapshot, StoreSnapshot, Answered, shutdownVars
  <2>2. Serving
    BY <1>1, <2>1 DEF ClosedIsUnrouted, Held
  <2>3. pollAt = p.arrived + PollInterval
    BY <1>1, <2>1, <2>2 DEF BalancerOnTime
  <2>4. BalancerOnTime'
    BY <1>1, <2>1 DEF BalancerOnTime, Serving, NoProbe
  <2>5. DrainIsNoticed'
    <3>1. SUFFICES ASSUME life = "draining" PROVE InTime(pollAt)'
      BY <2>1 DEF DrainIsNoticed, NoProbe
    <3>2. p.arrived + DrainDelay =< dueAt
      BY <1>1, <2>1, <3>1 DEF DrainIsNoticed, Held
    <3>3. Rounds(failed' + 1) \in Nat /\ PollInterval =< Rounds(failed' + 1)
      BY <1>2, AtLeastOneRound DEF LifecycleTypeOK
    <3> QED BY <1>2, <2>1, <2>3, <3>2, <3>3, Durations DEF InTime
  <2>6. ClosedIsUnrouted'
    BY <2>1, <2>2 DEF ClosedIsUnrouted, Serving
  <2> QED BY <2>4, <2>5, <2>6
<1>7. CASE Ping(Balancer)
  <2>1. /\ p.step = "locking" /\ UNCHANGED <<now, pollAt, life, dueAt, failed>>
        /\ probe'[Balancer].step = "pinged" /\ probe'[Balancer].arrived = p.arrived
    BY <1>3, <1>7 DEF Ping, shutdownVars, trafficVars
  <2>2. BalancerOnTime'
    BY <1>1, <2>1 DEF BalancerOnTime, Serving
  <2>3. DrainIsNoticed'
    BY <1>1, <2>1 DEF DrainIsNoticed, Held, InTime, InRotation
  <2>4. ClosedIsUnrouted'
    BY <1>1, <2>1 DEF ClosedIsUnrouted, Held, Serving, InRotation
  <2> QED BY <2>2, <2>3, <2>4
<1>8. CASE GiveUp(Balancer)
  <2>1. /\ probe'[Balancer] = NoProbe /\ failed' = FailedAgain
        /\ p.step # "idle" /\ UNCHANGED <<now, pollAt, life, dueAt>>
    BY <1>3, <1>8 DEF GiveUp, shutdownVars
  <2> QED BY <1>9, <2>1
<1> QED BY <1>4, <1>5, <1>6, <1>7, <1>8 DEF Watch

(* No routed request is refused after any step: the listener closes only     *)
(* once the drain was noticed (CloseListener), whatever the timers are.      *)
LEMMA RoutingStep ==
    ASSUME LifecycleInv, LifecycleTypeOK', [LifecycleNext]_lifecycleVars PROVE RoutingInv'
<1> DEFINE p == probe[Balancer]
<1>1. LifecycleTypeOK /\ RoutingInv
  BY DEF LifecycleInv
<1>2. /\ {now, pollAt, dueAt} \subseteq Nat /\ p.arrived \in Nat
      /\ failed \in Nat /\ failed =< FailThreshold
      /\ p.step \in {"idle", "asked", "locking", "pinged"} /\ refused \in BOOLEAN
      /\ \A w \in Watchers : probe[w].arrived \in Nat /\ probe'[w].arrived \in Nat
      /\ probe \in [Watchers -> Probes]
  BY <1>1, Durations DEF LifecycleTypeOK, Probes
<1>3. ASSUME NEW w \in Watchers, Watch(w) PROVE RoutingInv'
  <2>1. /\ UNCHANGED <<now, life, dueAt, refused>>
        /\ \A v \in Watchers \ {w} : probe'[v] = probe[v]
    <3>1. UNCHANGED <<now, life, dueAt, refused>>
      BY <1>3 DEF Watch, ProbeArrives, HandleReady, ShareSnapshot, Ping, StoreSnapshot,
                  GiveUp, shutdownVars, trafficVars
    <3>2. \A v \in Watchers \ {w} : probe'[v] = probe[v]
      BY <1>2, <1>3 DEF Watch, ProbeArrives, HandleReady, ShareSnapshot, Ping, StoreSnapshot,
                  GiveUp, Answered
    <3> QED BY <3>1, <3>2
  <2>2. probe'[w].arrived =< now
    <3>1. probe[w].arrived =< now /\ probe[w] \in Probes
      BY <1>1, <1>2 DEF RoutingInv
    <3>2. probe'[w].arrived \in {0, now, probe[w].arrived}
      <4>1. CASE HandleReady(w)
        <5>1. \/ probe' = [probe EXCEPT ![w] = NoProbe]
              \/ probe' = [probe EXCEPT ![w] = [probe[w] EXCEPT !.step = "locking"]]
          BY <1>2, <4>1 DEF HandleReady, Answered
        <5>2. probe'[w] = NoProbe \/ probe'[w] = [probe[w] EXCEPT !.step = "locking"]
          BY <1>2, <5>1
        <5> QED BY <3>1, <5>2 DEF Probes, NoProbe
      <4>2. CASE ProbeArrives(w)
        BY <1>2, <4>2 DEF ProbeArrives
      <4>3. CASE Ping(w)
        BY <1>2, <4>3 DEF Ping
      <4>4. CASE ShareSnapshot(w) \/ StoreSnapshot(w) \/ GiveUp(w)
        BY <1>2, <4>4 DEF ShareSnapshot, StoreSnapshot, GiveUp, Answered, NoProbe
      <4> QED BY <1>3, <4>1, <4>2, <4>3, <4>4 DEF Watch
    <3> QED BY <1>2, <3>1, <3>2
  <2>3. \A v \in Watchers : probe'[v].arrived =< now'
    BY <1>1, <2>1, <2>2 DEF RoutingInv
  <2>6. \A t \in orphans' : t =< now'
    <3>1. orphans' \subseteq orphans \cup {probe[w].arrived}
      BY <1>3 DEF Watch, ProbeArrives, HandleReady, ShareSnapshot, Ping, StoreSnapshot, GiveUp
    <3> QED BY <1>1, <2>1, <3>1 DEF RoutingInv
  <2>4. CASE w = Balancer
    <3>1. BalancerOnTime' /\ DrainIsNoticed' /\ ClosedIsUnrouted'
      BY <1>3, <2>4, BalancerMoves
    <3> QED BY <1>1, <2>1, <2>3, <2>6, <3>1 DEF RoutingInv
  <2>5. CASE w # Balancer
    <3>1. probe'[Balancer] = p
      BY <2>1, <2>5, Durations
    <3>2. UNCHANGED <<pollAt, failed>>
      BY <1>2, <1>3, <2>5 DEF Watch, ProbeArrives, HandleReady, ShareSnapshot, Ping,
                  StoreSnapshot, GiveUp, Answered, trafficVars
    <3>3. BalancerOnTime' /\ DrainIsNoticed' /\ ClosedIsUnrouted'
      BY <1>1, <2>1, <3>1, <3>2
         DEF RoutingInv, BalancerOnTime, DrainIsNoticed, ClosedIsUnrouted, Serving, Held,
             InTime, InRotation
    <3> QED BY <1>1, <2>1, <2>3, <2>6, <3>3 DEF RoutingInv
  <2> QED BY <2>4, <2>5
<1>4. ASSUME UNCHANGED <<now, life, dueAt, pollAt, failed, probe, refused>>,
             orphans' \subseteq orphans
      PROVE  RoutingInv'
  BY <1>1, <1>4
     DEF RoutingInv, BalancerOnTime, DrainIsNoticed, ClosedIsUnrouted, Serving, Held,
         InTime, InRotation
<1>5. ASSUME NEW r \in Requests, SendRequest(r) \/ FinishRequest(r) \/ RequestDeadline(r)
      PROVE  UNCHANGED <<now, life, dueAt, pollAt, failed, probe, refused, orphans>>
  <2>1. InRotation => Serving
    BY <1>1 DEF RoutingInv, ClosedIsUnrouted
  <2> QED BY <1>5, <2>1 DEF SendRequest, FinishRequest, RequestDeadline, healthVars, shutdownVars
<1>6. CASE Tick
  <2>1. /\ now' = now + 1 /\ UNCHANGED <<life, dueAt, pollAt, failed, probe, refused, orphans>>
        /\ Serving => now < pollAt
        /\ p.step # "idle" => now < p.arrived + ProbeTimeout
    BY <1>6, Durations DEF Tick, TimersFired, healthVars, shutdownVars, trafficVars
  <2>2. \A w \in Watchers : probe'[w].arrived =< now'
    <3> SUFFICES ASSUME NEW w \in Watchers PROVE probe[w].arrived =< now + 1
      BY <2>1
    <3>1. probe[w].arrived =< now
      BY <1>1 DEF RoutingInv
    <3> QED BY <1>2, <3>1
  <2>3. BalancerOnTime'
    BY <1>1, <1>2, <2>1, Durations DEF RoutingInv, BalancerOnTime, Serving
  <2>4. DrainIsNoticed' /\ ClosedIsUnrouted'
    BY <1>1, <2>1 DEF RoutingInv, DrainIsNoticed, ClosedIsUnrouted, Serving, Held,
                      InTime, InRotation
  <2>5. \A t \in orphans' : t =< now'
    BY <1>1, <1>2, <2>1 DEF RoutingInv, LifecycleTypeOK
  <2> QED BY <1>1, <2>1, <2>2, <2>3, <2>4, <2>5 DEF RoutingInv
<1>7. CASE Signal
  <2>1. /\ life = "serving" /\ life' = "draining" /\ dueAt' = now + DrainDelay
        /\ UNCHANGED <<now, pollAt, failed, probe, refused, orphans>>
    BY <1>7 DEF Signal, healthVars, trafficVars
  <2>2. BalancerOnTime' /\ ClosedIsUnrouted'
    BY <1>1, <2>1 DEF RoutingInv, BalancerOnTime, ClosedIsUnrouted, Serving
  <2>3. p.arrived =< now /\ pollAt =< now + PollInterval
    BY <1>1, <2>1, Durations DEF RoutingInv, BalancerOnTime, Serving
  <2>4. DrainIsNoticed'
    <3>1. CASE p.step \in {"locking", "pinged"}
      BY <1>2, <2>1, <2>3, <3>1, Durations DEF DrainIsNoticed, Held
    <3>4. Rounds(failed + 1) \in Nat /\ PollInterval =< Rounds(failed + 1)
      BY <1>2, AtLeastOneRound
    <3>2. CASE p.step = "idle"
      BY <1>2, <2>1, <2>3, <3>2, <3>4, Durations DEF DrainIsNoticed, InTime
    <3>3. CASE p.step = "asked"
      BY <1>2, <2>1, <2>3, <3>3, <3>4, Durations DEF DrainIsNoticed, InTime
    <3> QED BY <1>2, <3>1, <3>2, <3>3
  <2> QED BY <1>1, <2>1, <2>2, <2>4 DEF RoutingInv
<1>8. CASE CloseListener
  <2>1. /\ life = "draining" /\ now >= dueAt /\ life' = "closing"
        /\ UNCHANGED <<now, pollAt, failed, probe, refused, orphans>>
    BY <1>8 DEF CloseListener, healthVars, trafficVars
  <2>2. /\ now =< pollAt
        /\ p.step # "idle" => now =< p.arrived + ProbeTimeout
    BY <1>1, <2>1 DEF RoutingInv, BalancerOnTime, Serving
  <2>3. ~(Held(Balancer) /\ p.arrived + DrainDelay =< dueAt)
    <3>1. DrainDelay > ProbeTimeout
      <4>1. Rounds(FailThreshold) \in Nat
        BY RoundsAdd, Durations
      <4> QED BY <4>1, RoundsAdd, Durations
    <3> QED BY <1>2, <2>1, <2>2, <3>1, Durations DEF Held
  <2>8. InRotation =>
          /\ Rounds(failed + 1) \in Nat
          /\ Rounds(failed + 1) + ProbeTimeout < DrainDelay
    <3>1. SUFFICES ASSUME InRotation PROVE Rounds(failed + 1) \in Nat
                                           /\ Rounds(failed + 1) + ProbeTimeout < DrainDelay
      OBVIOUS
    <3>2. failed + 1 \in Nat /\ failed + 1 =< FailThreshold
      BY <1>2, <3>1, Durations DEF InRotation
    <3>3. Rounds(failed + 1) \in Nat /\ Rounds(FailThreshold) \in Nat
          /\ Rounds(failed + 1) =< Rounds(FailThreshold)
      BY <3>2, RoundsAdd, Durations
    <3> QED BY <3>3, RoundsAdd, Durations
  <2>4. ~(InRotation /\ p.step = "idle" /\ InTime(pollAt))
    BY <1>2, <2>1, <2>2, <2>8, Durations DEF InTime
  <2>5. ~(InRotation /\ p.step = "asked" /\ InTime(p.arrived))
    BY <1>2, <2>1, <2>2, <2>8, Durations DEF InTime
  <2>6. ~InRotation /\ ~Held(Balancer)
    BY <1>1, <2>1, <2>3, <2>4, <2>5 DEF RoutingInv, DrainIsNoticed, Held
  <2>7. BalancerOnTime' /\ DrainIsNoticed' /\ ClosedIsUnrouted'
    BY <2>1, <2>6 DEF BalancerOnTime, DrainIsNoticed, ClosedIsUnrouted, Serving, Held,
                      InRotation
  <2> QED BY <1>1, <2>1, <2>7 DEF RoutingInv
<1>9. CASE ShutdownReturns \/ PoolCloses
  <2>1. /\ ~Serving /\ ~Serving' /\ life' # "draining"
        /\ UNCHANGED <<now, pollAt, failed, probe, refused, orphans>>
    BY <1>9 DEF ShutdownReturns, PoolCloses, Serving, healthVars, trafficVars
  <2>2. BalancerOnTime' /\ DrainIsNoticed' /\ ClosedIsUnrouted'
    BY <1>1, <2>1 DEF RoutingInv, BalancerOnTime, DrainIsNoticed, ClosedIsUnrouted, Held,
                      InRotation
  <2> QED BY <1>1, <2>1, <2>2 DEF RoutingInv
<1>10. DatabaseTurns \/ UNCHANGED lifecycleVars
         => UNCHANGED <<now, life, dueAt, pollAt, failed, probe, refused, orphans>>
  BY DEF DatabaseTurns, lifecycleVars, healthVars, shutdownVars, trafficVars
<1>11. CASE OrphanPings
  <2>1. /\ UNCHANGED <<now, life, dueAt, pollAt, failed, probe, refused>>
        /\ orphans' \subseteq orphans
    BY <1>11 DEF OrphanPings, shutdownVars, trafficVars
  <2> QED BY <1>4, <2>1
<1> QED BY <1>3, <1>4, <1>5, <1>6, <1>7, <1>8, <1>9, <1>10, <1>11
        DEF LifecycleNext, Shutdown, ShutdownGoesOn
-----------------------------------------------------------------------------
(* The invariant holds of every behaviour of the process and its balancer    *)
(* (LifecycleSpec).                                                          *)
THEOREM LifecycleInvariant == LifecycleSpec => []LifecycleInv
<1>1. LifecycleInit => LifecycleInv
  <2> SUFFICES ASSUME LifecycleInit PROVE LifecycleInv
    OBVIOUS
  <2>1. /\ now = 1 /\ pollAt = 1 /\ life = "serving" /\ snapshot = NoSnapshot
        /\ refused = FALSE /\ orphans = {}
        /\ \A w \in Watchers : probe[w] = NoProbe
    BY DEF LifecycleInit
  <2>7. failed = 0 /\ 0 =< FailThreshold
    BY Durations DEF LifecycleInit
  <2>8. NoProbe \in Probes /\ probe = [w \in Watchers |-> NoProbe]
    BY DEF LifecycleInit, NoProbe, Probes
  <2>9. probe \in [Watchers -> Probes]
    BY <2>8
  <2>10. /\ now \in Nat /\ dueAt \in Nat /\ pollAt \in Nat
         /\ upAt \in Nat /\ downAt \in Nat /\ cutAt \in Nat
         /\ life = "serving" /\ database = "up" /\ refused = FALSE /\ orphans = {}
    BY DEF LifecycleInit
  <2>11. /\ snapshot \in [code : {"none", "ok", "unavailable"}, at : Nat]
         /\ answer \in [code : {"none", "ok", "unavailable", "draining"}, arrived : Nat]
    BY DEF LifecycleInit, NoSnapshot
  <2>2. LifecycleTypeOK
    BY <2>7, <2>9, <2>10, <2>11 DEF LifecycleTypeOK
  <2>3. RoutingInv
    BY <2>1, Durations
       DEF RoutingInv, BalancerOnTime, DrainIsNoticed, ClosedIsUnrouted, Serving, NoProbe
  <2>4. DatabaseSeen
    BY DEF LifecycleInit, DatabaseSeen
  <2>5. FindingsAreDated
    BY <2>1 DEF FindingsAreDated, NoSnapshot, NoProbe
  <2>6. AnswersAreFresh
    BY DEF LifecycleInit, AnswersAreFresh
  <2> QED BY <2>2, <2>3, <2>4, <2>5, <2>6 DEF LifecycleInv
<1>2. LifecycleInv /\ [LifecycleNext]_lifecycleVars => LifecycleInv'
  <2> SUFFICES ASSUME LifecycleInv, [LifecycleNext]_lifecycleVars PROVE LifecycleInv'
    OBVIOUS
  <2>1. LifecycleTypeOK'
    BY TypesStep DEF LifecycleInv
  <2>2. DatabaseSeen'
    BY SeenStep DEF LifecycleInv
  <2> QED BY <2>1, <2>2, RoutingStep, DatesStep DEF LifecycleInv
<1> QED BY <1>1, <1>2, PTL DEF LifecycleSpec

(* A drain longer than one pending probe and the intervals to the checks the *)
(* balancer wants to see fail loses no request, whatever the timers, the     *)
(* threshold and the load are (Server.Start, handleReady).                   *)
THEOREM DrainLosesNothing == LifecycleSpec => []NoRoutedRequestIsRefused
<1>1. LifecycleInv => NoRoutedRequestIsRefused
  BY DEF LifecycleInv, RoutingInv, NoRoutedRequestIsRefused
<1> QED BY <1>1, LifecycleInvariant, PTL

(* An answer of /readyz is off by less than the life of a snapshot, however  *)
(* many watchers share it (readiness).                                       *)
THEOREM AnswersStayFresh == LifecycleSpec => []AnswersAreFresh
<1>1. LifecycleInv => AnswersAreFresh
  BY DEF LifecycleInv
<1> QED BY <1>1, LifecycleInvariant, PTL
-----------------------------------------------------------------------------
(* The learned ranker (ModelRegistry).  The argument: a request is given    *)
(* its ranker and its stamp in one step, and nothing but the next request    *)
(* touches either.                                                           *)

RegistrySpec == RegistryInit /\ [][RegistryNext]_registryVars


\* What a request was given stays together until the next request: the ranker
\* it holds is the one its arm wanted, and the stamp names it.
StampIsHeld ==
  IF request.ranker = NoModel THEN request.stamp = HeuristicVersion
  ELSE request.stamp = request.ranker.version /\ request.stamp = request.want

RequestIsStamped ==
  /\ request = [phase |-> request.phase, subject |-> request.subject, want |-> request.want,
                ranker |-> request.ranker, stamp |-> request.stamp]
  /\ request.phase \in {"idle", "assigned", "ranking", "done"}
  /\ request.phase \in {"ranking", "done"} => StampIsHeld

LEMMA PickedIsStamped ==
  ASSUME RequestIsStamped, PickRanker PROVE RequestIsStamped'
<1> DEFINE picked == RankerFor(request.want)
<1>1. /\ request.phase = "assigned"
      /\ request' = [request EXCEPT !.phase = "ranking", !.ranker = picked.ranker,
                                    !.stamp = picked.stamp]
  BY DEF PickRanker
<1>2. IF picked.ranker = NoModel THEN picked.stamp = HeuristicVersion
      ELSE picked.stamp = picked.ranker.version /\ picked.stamp = request.want
  BY DEF RankerFor
<1>3. request' = [phase |-> "ranking", subject |-> request.subject, want |-> request.want,
                  ranker |-> picked.ranker, stamp |-> picked.stamp]
  <2> HIDE DEF picked
  <2> QED BY <1>1 DEF RequestIsStamped
<1> HIDE DEF picked
<1>4. QED
  BY <1>2, <1>3 DEF RequestIsStamped, StampIsHeld

LEMMA RequestStaysStamped == RequestIsStamped /\ [RegistryNext]_registryVars => RequestIsStamped'
<1> SUFFICES ASSUME RequestIsStamped, [RegistryNext]_registryVars PROVE RequestIsStamped'
  OBVIOUS
<1>1. ASSUME UNCHANGED request PROVE RequestIsStamped'
  BY <1>1 DEF RequestIsStamped, StampIsHeld
<1>2. CASE OperatorChange
  BY <1>1, <1>2 DEF OperatorChange, PlaceArtifact, RemoveArtifact, InsertModel, ActivateModel,
       RetireActiveModels, UpsertExperiment, Change
<1>3. CASE Refresh \/ RefreshExperiments \/ ShadowRun \/ UNCHANGED registryVars
  BY <1>1, <1>3 DEF Refresh, RefreshRead, RefreshClear, RefreshSkip, RefreshLoad, RefreshKeeps,
       RefreshExperiments, ShadowRun, ShadowList, ShadowScore, ShadowWrite, ShadowEnds,
       registryVars
<1>4. ASSUME NEW subject \in Subjects \cup {NoModel}, Assign(subject) PROVE RequestIsStamped'
  <2>1. PICK want : request' = [NoRequest EXCEPT !.phase = "assigned", !.subject = subject,
                                                 !.want = want]
    BY <1>4 DEF Assign
  <2>2. QED
    BY <2>1 DEF RequestIsStamped, NoRequest
<1>5. CASE PickRanker
  BY <1>5, PickedIsStamped
<1>6. CASE Answer
  <2>1. request.phase = "ranking" /\ request' = [request EXCEPT !.phase = "done"]
    BY <1>6 DEF Answer
  <2>2. QED
    BY <2>1 DEF RequestIsStamped, StampIsHeld
<1>7. QED
  BY <1>2, <1>3, <1>4, <1>5, <1>6 DEF RegistryNext

(* Whatever operators, passes of the loader and other requests do between the *)
(* assignment of a request and its answer, the answer carries the version that *)
(* scored it, which is the one its arm wanted, or the heuristic's (loader.go,  *)
(* RankerFor; evaluation.md:173-175).                                          *)
THEOREM AnswersNameTheirScorer == RegistrySpec => []StampIsTheScorer
<1>1. RegistryInit => RequestIsStamped
  BY DEF RegistryInit, NoRequest, RequestIsStamped
<1>2. RequestIsStamped => StampIsTheScorer
  BY DEF RequestIsStamped, StampIsHeld, StampIsTheScorer
<1>3. QED
  BY <1>1, <1>2, RequestStaysStamped, PTL DEF RegistrySpec
-----------------------------------------------------------------------------
(* Paging (SearchPaging).  The argument: the offset is the number of results *)
(* shown and never passes what can be reached, and the window of a page has  *)
(* room for all of the page that the ceiling allows, so what is missing      *)
(* behind the page is missing in the window or beyond the ceiling.           *)

PagingSpec == PagingInit /\ [][PagingNext]_pagingVars

Recalled(k) == Smaller(corpus, k * RecallLimit)

PagingTypeOK ==
  /\ mode \in {"simple", "advanced"} /\ corpus \in Nat /\ more \in BOOLEAN
  /\ offset \in Nat
  /\ shown \in [1..offset -> 1..corpus]
  /\ offset <= Reachable

\* Each window is ranked whole, without a repeat.
WindowsAreRanked ==
  \A k \in 1..MaxBlocks :
    /\ rank[k] \in Seq(1..corpus) /\ Len(rank[k]) = Recalled(k)
    /\ \A i, j \in 1..Len(rank[k]) : rank[k][i] = rank[k][j] => i = j

\* In one block every window is the same: what was shown is the head of it.
OneBlock == mode = "advanced" /\ corpus <= RecallLimit

ShownIsHead ==
  /\ mode = "simple" => \A i \in 1..offset : shown[i] = i
  /\ OneBlock => \A i \in 1..offset : shown[i] = rank[1][i]

SameWindows == OneBlock => \A k \in 1..MaxBlocks : rank[k] = rank[1]

MoreIsExact == (offset > 0 \/ ~more) => (more <=> offset < Reachable)

PagingInv == PagingTypeOK /\ WindowsAreRanked /\ SameWindows /\ ShownIsHead /\ MoreIsExact

LEMMA LimitIsPositive ==
  ASSUME NEW size \in Limits PROVE Limit(size, DefaultLimit, MaxLimit) \in Nat \ {0}
BY PagingAssumption DEF Limit, Smaller

LEMMA Windows ==
  ASSUME NEW off \in Nat, NEW limit \in Nat \ {0}
  PROVE  \E k \in 1..MaxBlocks :
           /\ RecallWindow(off, limit) = k * RecallLimit
           /\ RecallWindow(off, limit) \div RecallLimit = k
           /\ k * RecallLimit <= MaxRecall
           /\ Smaller(off + limit, MaxRecall) <= k * RecallLimit
           /\ k * RecallLimit < MaxRecall \/ k * RecallLimit = MaxRecall
<1> DEFINE want == off + limit
           blocks == (want + RecallLimit - 1) \div RecallLimit
<1>1. RecallLimit \in Nat /\ RecallLimit > 0 /\ MaxBlocks \in Nat /\ MaxBlocks > 0 /\ want \in Nat
      /\ MaxRecall \in Nat
  BY PagingAssumption DEF MaxRecall
<1>2. \A k \in Nat : (k * RecallLimit) \div RecallLimit = k
  BY <1>1
<1>3. \A j, k \in Nat : j <= k => j * RecallLimit <= k * RecallLimit
  BY <1>1
<1>4. \A j, k \in Nat : j * RecallLimit < k * RecallLimit => j < k
  BY <1>1
<1>5. CASE want <= RecallLimit
  <2>1. RecallWindow(off, limit) = RecallLimit
    BY <1>5 DEF RecallWindow
  <2>2. 1 * RecallLimit = RecallLimit /\ 1 * RecallLimit <= MaxBlocks * RecallLimit
        /\ (1 * RecallLimit) \div RecallLimit = 1
    BY <1>1, <1>2, <1>3
  <2>3. Smaller(want, MaxRecall) <= RecallLimit
    BY <1>1, <1>5 DEF Smaller
  <2>4. 1 \in 1..MaxBlocks
    BY <1>1
  <2> HIDE DEF want
  <2>5. QED
    BY <2>1, <2>2, <2>3, <2>4, <1>1 DEF MaxRecall, want
<1>6. CASE want > RecallLimit /\ want >= MaxRecall
  <2>1. RecallWindow(off, limit) = MaxRecall
    BY <1>1, <1>6 DEF RecallWindow
  <2>2. MaxRecall = MaxBlocks * RecallLimit /\ MaxRecall \div RecallLimit = MaxBlocks
    BY <1>1, <1>2 DEF MaxRecall
  <2>3. Smaller(want, MaxRecall) <= MaxRecall
    BY <1>1 DEF Smaller
  <2>4. MaxBlocks \in 1..MaxBlocks
    BY <1>1
  <2> HIDE DEF want
  <2>5. QED
    BY <2>1, <2>2, <2>3, <2>4, <1>1 DEF want
<1>7. CASE want > RecallLimit /\ want < MaxRecall
  <2>1. RecallWindow(off, limit) = blocks * RecallLimit
    BY <1>1, <1>7 DEF RecallWindow
  <2>2. /\ blocks \in Int
        /\ RecallLimit * blocks <= want + RecallLimit - 1
        /\ want + RecallLimit - 1 < RecallLimit * blocks + RecallLimit
    BY <1>1
  <2> HIDE DEF blocks, want
  <2>3. blocks * RecallLimit = RecallLimit * blocks
    BY <1>1, <2>2
  <2>4. want <= blocks * RecallLimit /\ blocks * RecallLimit < want + RecallLimit
    BY <1>1, <2>2, <2>3
  <2>5. blocks \in Nat /\ blocks > 0
    BY <1>1, <1>7, <2>2, <2>4
  <2>6. blocks <= MaxBlocks
    <3>1. (MaxBlocks + 1) * RecallLimit = MaxBlocks * RecallLimit + RecallLimit
      BY <1>1
    <3>2. blocks * RecallLimit < (MaxBlocks + 1) * RecallLimit
      BY <1>1, <1>7, <2>4, <2>5, <3>1 DEF MaxRecall
    <3>3. blocks < MaxBlocks + 1
      BY <1>1, <1>4, <2>5, <3>2
    <3>4. QED
      BY <1>1, <2>5, <3>3
  <2>7. blocks * RecallLimit <= MaxRecall
    BY <1>1, <1>3, <2>5, <2>6 DEF MaxRecall
  <2>8. Smaller(want, MaxRecall) <= blocks * RecallLimit
    BY <1>1, <1>7, <2>4, <2>5 DEF Smaller
  <2>9. blocks \in 1..MaxBlocks /\ (blocks * RecallLimit) \div RecallLimit = blocks
        /\ blocks * RecallLimit \in Nat
    BY <1>1, <1>2, <2>5, <2>6
  <2>10. QED
    BY <2>1, <2>7, <2>8, <2>9, <1>1 DEF want
<1>8. QED
  BY <1>1, <1>5, <1>6, <1>7

LEMMA PageIs ==
  ASSUME NEW T, NEW results \in Seq(T), NEW off \in Nat, NEW limit \in Nat, off <= Len(results)
  PROVE  /\ PageOf(results, off, limit) \in Seq(T)
         /\ Len(PageOf(results, off, limit)) = Smaller(off + limit, Len(results)) - off
         /\ \A i \in 1..Len(PageOf(results, off, limit)) :
              PageOf(results, off, limit)[i] = results[off + i]
<1> DEFINE last == Smaller(off + limit, Len(results))
<1>1. Len(results) \in Nat /\ last \in off..Len(results)
  BY LenProperties DEF Smaller
<1> HIDE DEF last
<1>2. off + 1 \in 1..Len(results)+1 /\ last \in off + 1 - 1..Len(results)
  BY <1>1
<1>3. /\ SubSeq(results, off + 1, last) \in Seq(T)
      /\ Len(SubSeq(results, off + 1, last)) = last - off
      /\ \A i \in 1..last - off : SubSeq(results, off + 1, last)[i] = results[off + i]
  <2>1. DOMAIN results = 1..Len(results) /\ \A i \in 1..Len(results) : results[i] \in T
    BY LenProperties
  <2>2. SubSeq(results, off + 1, last) = [i \in 1..last - off |-> results[off + i]]
    BY <1>1
  <2>3. \A i \in 1..last - off : off + i \in 1..Len(results)
    BY <1>1
  <2>4. last - off \in Nat
    BY <1>1
  <2>5. [i \in 1..last - off |-> results[off + i]] \in [1..last - off -> T]
    BY <2>1, <2>3
  <2>6. \A n \in Nat : \A f \in [1..n -> T] : f \in Seq(T) /\ Len(f) = n
    OBVIOUS
  <2>7. QED
    BY <2>2, <2>4, <2>5, <2>6
<1>4. QED
  BY <1>3 DEF PageOf, last

\* A page of further results extends the walk.
LEMMA WalkGoesOn ==
  ASSUME PagingTypeOK, NEW page \in Seq(1..corpus), NEW hasMore \in BOOLEAN,
         offset + Len(page) <= Reachable, Deliver(page, hasMore)
  PROVE  /\ PagingTypeOK' /\ mode' = mode /\ corpus' = corpus /\ rank' = rank
         /\ offset' = offset + Len(page) /\ more' = hasMore
         /\ \A i \in 1..offset' : shown'[i] = IF i <= offset THEN shown[i] ELSE page[i - offset]
<1>1. shown' = shown \o page /\ offset' = offset + Len(page) /\ more' = hasMore
      /\ UNCHANGED <<mode, corpus, rank>>
  BY DEF Deliver
<1>2. Len(page) \in Nat /\ DOMAIN page = 1..Len(page) /\ \A i \in 1..Len(page) : page[i] \in 1..corpus
  BY LenProperties
<1>3. offset \in Nat /\ shown \in Seq(1..corpus) /\ Len(shown) = offset
  BY DEF PagingTypeOK
<1>4. shown \o page \in Seq(1..corpus) /\ Len(shown \o page) = offset + Len(page)
      /\ \A i \in 1..offset + Len(page) :
           (shown \o page)[i] = IF i <= offset THEN shown[i] ELSE page[i - offset]
  BY <1>3, ConcatProperties
<1>5. shown' \in [1..offset' -> 1..corpus]
  BY <1>1, <1>4, LenProperties
<1>6. Reachable' = Reachable
  BY <1>1 DEF Reachable
<1>7. PagingTypeOK'
  <2>1. offset' \in Nat /\ offset' <= Reachable'
    BY <1>1, <1>2, <1>3, <1>6
  <2>2. QED
    BY <1>1, <1>5, <2>1 DEF PagingTypeOK
<1>8. QED
  BY <1>1, <1>4, <1>7

LEMMA UnrankedStaysRanked ==
  ASSUME WindowsAreRanked, SameWindows, UNCHANGED <<mode, corpus, rank>>
  PROVE  WindowsAreRanked' /\ SameWindows'
BY DEF WindowsAreRanked, SameWindows, OneBlock, Recalled

LEMMA SimpleStep ==
  ASSUME PagingInv, NEW size \in Limits, SearchSimple(size) PROVE PagingInv'
<1> DEFINE limit == Limit(size, DefaultLimit, MaxLimit)
           all == [n \in 1..corpus |-> n]
           rows == PageOf(all, offset, limit + 1)
           page == SubSeq(rows, 1, Smaller(limit, Len(rows)))
           hasMore == Len(rows) > limit
<1>1. limit \in Nat /\ limit > 0 /\ corpus \in Nat /\ offset \in Nat /\ offset <= corpus
      /\ mode = "simple" /\ more = TRUE /\ Reachable = corpus
  BY LimitIsPositive DEF PagingInv, PagingTypeOK, Reachable, SearchSimple
<1>2. Deliver(page, hasMore)
  BY <1>1 DEF SearchSimple, Offset
<1>3. all \in Seq(1..corpus) /\ Len(all) = corpus /\ \A i \in 1..corpus : all[i] = i
  BY <1>1
<1> HIDE DEF limit, all
<1>4. /\ rows \in Seq(1..corpus) /\ Len(rows) = Smaller(offset + limit + 1, corpus) - offset
      /\ \A i \in 1..Len(rows) : rows[i] = all[offset + i]
  <2>1. limit + 1 \in Nat /\ offset + (limit + 1) = offset + limit + 1
    BY <1>1
  <2>2. QED
    BY <1>1, <1>3, <2>1, PageIs
<1>5. Len(rows) \in Nat /\ (Len(rows) > limit <=> offset + limit < corpus)
      /\ Smaller(limit, Len(rows)) = Smaller(offset + limit, corpus) - offset
      /\ \A i \in 1..Len(rows) : rows[i] = offset + i
  BY <1>1, <1>3, <1>4 DEF Smaller
<1> HIDE DEF rows
<1>6. /\ page \in Seq(1..corpus) /\ Len(page) = Smaller(limit, Len(rows))
      /\ \A i \in 1..Len(page) : page[i] = offset + i
  <2>1. PageOf(rows, 0, limit) = page
    <3>1. 0 + 1 = 1 /\ 0 + limit = limit
      BY <1>1
    <3>2. QED
      BY <3>1 DEF PageOf
  <2>2. PageOf(rows, 0, limit) \in Seq(1..corpus)
        /\ Len(PageOf(rows, 0, limit)) = Smaller(0 + limit, Len(rows)) - 0
        /\ \A i \in 1..Len(PageOf(rows, 0, limit)) : PageOf(rows, 0, limit)[i] = rows[0 + i]
    BY <1>1, <1>4, <1>5, PageIs
  <2>3. Smaller(0 + limit, Len(rows)) - 0 = Smaller(limit, Len(rows))
        /\ Smaller(limit, Len(rows)) <= Len(rows)
    BY <1>1, <1>5 DEF Smaller
  <2> HIDE DEF page
  <2>4. QED
    BY <2>1, <2>2, <2>3, <1>5
<1> HIDE DEF page
<1>7. offset + Len(page) = Smaller(offset + limit, corpus)
  <2>1. Smaller(offset + limit, corpus) \in Int
    BY <1>1 DEF Smaller
  <2>2. QED
    BY <1>1, <1>5, <1>6, <2>1
<1>8. /\ PagingTypeOK' /\ mode' = mode /\ corpus' = corpus /\ rank' = rank
      /\ offset' = offset + Len(page) /\ more' = hasMore
      /\ \A i \in 1..offset' : shown'[i] = IF i <= offset THEN shown[i] ELSE page[i - offset]
  <2>1. offset + Len(page) <= Reachable
    BY <1>1, <1>7 DEF Smaller
  <2>2. hasMore \in BOOLEAN
    OBVIOUS
  <2> HIDE DEF hasMore
  <2>3. QED
    BY <1>2, <1>6, <2>1, <2>2, WalkGoesOn DEF PagingInv
<1>9. ShownIsHead'
  <2>1. ASSUME NEW i \in 1..offset' PROVE shown'[i] = i
    <3>1. CASE i <= offset
      BY <1>8, <1>1, <3>1 DEF PagingInv, ShownIsHead
    <3>2. CASE i > offset
      <4>1. i - offset \in 1..Len(page)
        BY <1>8, <1>1, <1>6, <1>5, <3>2
      <4>2. shown'[i] = page[i - offset]
        BY <1>8, <1>1, <3>2
      <4>3. page[i - offset] = offset + (i - offset)
        BY <4>1, <1>6
      <4>4. QED
        BY <4>2, <4>3, <1>1
    <3>3. QED
      BY <3>1, <3>2, <1>1
  <2>2. QED
    BY <2>1, <1>1, <1>8 DEF ShownIsHead, OneBlock
<1>10. MoreIsExact'
  <2>1. Reachable' = corpus
    BY <1>1, <1>8 DEF Reachable
  <2>2. more' <=> offset' < corpus
    <3>1. Smaller(offset + limit, corpus) < corpus <=> offset + limit < corpus
      BY <1>1 DEF Smaller
    <3>2. hasMore <=> offset + limit < corpus
      BY <1>5
    <3> HIDE DEF hasMore
    <3>3. QED
      BY <1>7, <1>8, <3>1, <3>2
  <2>3. QED
    BY <2>1, <2>2 DEF MoreIsExact
<1>11. QED
  BY <1>8, <1>9, <1>10, UnrankedStaysRanked DEF PagingInv

\* A function on an initial segment is a list.
LEMMA FunctionIsList ==
  ASSUME NEW S, NEW n \in Nat, NEW f \in [1..n -> S]
  PROVE  f \in Seq(S) /\ Len(f) = n
OBVIOUS

LEMMA AdvancedStep ==
  ASSUME PagingInv, NEW size \in Limits, SearchAdvanced(size) PROVE PagingInv'
<1> DEFINE limit == Limit(size, DefaultLimit, MaxLimit)
           window == RecallWindow(offset, limit)
           ranked == rank[window \div RecallLimit]
           page == PageOf(ranked, offset, limit)
           hasMore == HasMore(offset + Len(page), ranked, corpus > window, window)
<1>1. limit \in Nat /\ limit > 0 /\ corpus \in Nat /\ offset \in Nat /\ mode = "advanced"
      /\ MaxRecall \in Nat /\ RecallLimit \in Nat
      /\ Reachable = Smaller(corpus, MaxRecall) /\ offset <= Smaller(corpus, MaxRecall)
  BY LimitIsPositive, PagingAssumption
     DEF PagingInv, PagingTypeOK, Reachable, SearchAdvanced, MaxRecall
<1>2. Deliver(page, hasMore)
  BY <1>1 DEF SearchAdvanced, Offset
<1> HIDE DEF limit
<1>3. PICK k \in 1..MaxBlocks :
        /\ window = k * RecallLimit /\ window \div RecallLimit = k
        /\ window <= MaxRecall /\ Smaller(offset + limit, MaxRecall) <= window
  <2>1. PICK k \in 1..MaxBlocks :
          /\ RecallWindow(offset, limit) = k * RecallLimit
          /\ RecallWindow(offset, limit) \div RecallLimit = k
          /\ k * RecallLimit <= MaxRecall
          /\ Smaller(offset + limit, MaxRecall) <= k * RecallLimit
    <3>1. limit \in Nat \ {0}
      BY <1>1
    <3>2. QED
      BY <1>1, <3>1, Windows
  <2>2. window = k * RecallLimit
    BY <2>1
  <2>3. window \div RecallLimit = k
    BY <2>1
  <2>4. QED
    BY <2>1, <2>2, <2>3
<1>4. /\ window \in Nat
      /\ ranked \in Seq(1..corpus) /\ Len(ranked) = Smaller(corpus, window)
      /\ OneBlock => ranked = rank[1]
  <2>1. window \in Nat
    BY <1>1, <1>3, PagingAssumption
  <2> HIDE DEF window
  <2>2. QED
    BY <1>3, <2>1 DEF PagingInv, WindowsAreRanked, SameWindows, Recalled
<1> HIDE DEF window, ranked
<1>5. /\ window <= MaxRecall /\ Smaller(offset + limit, MaxRecall) <= window
      /\ offset <= Smaller(corpus, window)
  <2>1. window <= MaxRecall /\ Smaller(offset + limit, MaxRecall) <= window
    BY <1>3
  <2>2. QED
    BY <1>1, <1>4, <2>1 DEF Smaller
<1>6. /\ page \in Seq(1..corpus)
      /\ Len(page) = Smaller(offset + limit, Smaller(corpus, window)) - offset
      /\ \A i \in 1..Len(page) : page[i] = ranked[offset + i]
  BY <1>1, <1>4, <1>5, PageIs
<1> HIDE DEF page
<1>7. /\ offset + Len(page) = Smaller(offset + limit, Smaller(corpus, window))
      /\ offset + Len(page) \in Nat /\ offset + Len(page) <= Smaller(corpus, MaxRecall)
  <2>1. Smaller(offset + limit, Smaller(corpus, window)) \in Nat
    BY <1>1, <1>4 DEF Smaller
  <2>2. offset + Len(page) = Smaller(offset + limit, Smaller(corpus, window))
    BY <1>1, <1>6, <2>1
  <2>3. Smaller(offset + limit, Smaller(corpus, window)) <= Smaller(corpus, MaxRecall)
    BY <1>1, <1>4, <1>5 DEF Smaller
  <2>4. QED
    BY <2>1, <2>2, <2>3
<1>8. hasMore \in BOOLEAN /\ (hasMore <=> offset + Len(page) < Smaller(corpus, MaxRecall))
  BY <1>1, <1>4, <1>5, <1>7 DEF HasMore, Smaller
<1> HIDE DEF hasMore
<1>9. /\ PagingTypeOK' /\ mode' = mode /\ corpus' = corpus /\ rank' = rank
      /\ offset' = offset + Len(page) /\ more' = hasMore
      /\ \A i \in 1..offset' : shown'[i] = IF i <= offset THEN shown[i] ELSE page[i - offset]
  <2>1. offset + Len(page) <= Reachable
    BY <1>1, <1>7
  <2>2. QED
    BY <1>2, <1>6, <1>8, <2>1, WalkGoesOn DEF PagingInv
<1>10. ShownIsHead'
  <2>1. ASSUME OneBlock, NEW i \in 1..offset' PROVE shown'[i] = rank[1][i]
    <3>1. CASE i <= offset
      BY <1>9, <1>1, <2>1, <3>1 DEF PagingInv, ShownIsHead
    <3>2. CASE i > offset
      <4>1. i - offset \in 1..Len(page) /\ offset + (i - offset) = i
        BY <1>9, <1>1, <1>7, <3>2, <1>6, LenProperties
      <4>2. shown'[i] = page[i - offset]
        BY <1>9, <1>1, <3>2
      <4>3. page[i - offset] = ranked[i]
        BY <4>1, <1>6
      <4>4. QED
        BY <4>2, <4>3, <1>4, <2>1
    <3>3. QED
      BY <3>1, <3>2, <1>1
  <2>2. QED
    BY <2>1, <1>1, <1>9 DEF ShownIsHead, OneBlock
<1>11. MoreIsExact'
  <2>1. Reachable' = Smaller(corpus, MaxRecall)
    BY <1>1, <1>9 DEF Reachable
  <2>2. QED
    BY <2>1, <1>8, <1>9 DEF MoreIsExact
<1>12. QED
  BY <1>9, <1>10, <1>11, UnrankedStaysRanked DEF PagingInv

LEMMA PagingStarts == PagingInit => PagingInv
<1> SUFFICES ASSUME PagingInit PROVE PagingInv
  OBVIOUS
<1>1. /\ MaxBlocks \in Nat /\ MaxBlocks > 0 /\ RecallLimit \in Nat /\ RecallLimit > 0
      /\ MaxCorpus \in Nat /\ MaxRecall \in Nat
  BY PagingAssumption DEF MaxRecall
<1>2. /\ mode \in {"simple", "advanced"} /\ corpus \in Nat /\ offset = 0 /\ shown = <<>> /\ more = TRUE
  BY <1>1 DEF PagingInit
<1>3. \A k \in 1..MaxBlocks : Recalled(k) \in Nat /\ Recalled(k) <= corpus
  BY <1>1, <1>2 DEF Recalled, Smaller
<1>4. ASSUME NEW k \in 1..MaxBlocks
      PROVE  /\ rank[k] \in Seq(1..corpus) /\ Len(rank[k]) = Recalled(k)
             /\ \A i, j \in 1..Len(rank[k]) : rank[k][i] = rank[k][j] => i = j
  <2>1. Len(rank[k]) = Recalled(k) /\ \E m \in 1..MaxBlocks : rank[k] \in SetToSeqs(1..Recalled(m))
    BY DEF PagingInit, Recalled
  <2>2. PICK m \in 1..MaxBlocks : rank[k] \in SetToSeqs(1..Recalled(m))
    BY <2>1
  <2> DEFINE f == rank[k]
             r == Recalled(m)
  <2>3. r \in Nat /\ r <= corpus /\ Cardinality(1..r) = r
    <3>1. r \in Nat /\ r <= corpus
      BY <1>3
    <3> HIDE DEF r
    <3>2. QED
      BY <3>1, FS_Interval
  <2>4. f \in [1..Cardinality(1..r) -> 1..r] /\ IsInjective(f)
    <3>1. f \in SetToSeqs(1..r)
      BY <2>2
    <3> HIDE DEF f, r
    <3>2. f \in [1..Cardinality(1..r) -> 1..r]
      BY <3>1 DEF SetToSeqs
    <3>3. \A i, j \in 1..Cardinality(1..r) : i # j => f[i] # f[j]
      BY <3>1 DEF SetToSeqs
    <3>4. QED
      BY <3>2, <3>3 DEF IsInjective
  <2> HIDE DEF r
  <2>5. f \in [1..r -> 1..r] /\ \A i, j \in 1..r : f[i] = f[j] => i = j
    BY <2>3, <2>4 DEF IsInjective
  <2>6. f \in [1..r -> 1..corpus]
    BY <2>3, <2>5, <1>2
  <2> HIDE DEF f
  <2>7. f \in Seq(1..corpus) /\ Len(f) = r
    <3>1. r \in Nat
      BY <2>3
    <3>2. QED
      BY <2>6, <3>1, FunctionIsList
  <2>8. QED
    <3>1. Len(rank[k]) = r /\ r = Recalled(k)
      BY <2>1, <2>7 DEF f
    <3>2. rank[k] \in Seq(1..corpus)
      BY <2>7 DEF f
    <3>3. \A i, j \in 1..r : rank[k][i] = rank[k][j] => i = j
      BY <2>5 DEF f
    <3>4. QED
      BY <3>1, <3>2, <3>3
<1>5. SameWindows
  <2>1. ASSUME corpus <= RecallLimit, NEW k \in 1..MaxBlocks PROVE Recalled(k) = corpus
    <3>1. RecallLimit <= k * RecallLimit /\ k * RecallLimit \in Nat
      BY <1>1
    <3>2. QED
      BY <3>1, <2>1, <1>1, <1>2 DEF Recalled, Smaller
  <2>2. \A j, k \in 1..MaxBlocks : Recalled(j) = Recalled(k) => rank[j] = rank[k]
    BY DEF PagingInit, Recalled
  <2>3. 1 \in 1..MaxBlocks
    BY <1>1
  <2>4. QED
    BY <2>1, <2>2, <2>3 DEF SameWindows, OneBlock
<1>6. PagingTypeOK
  <2>1. Reachable \in Nat
    BY <1>1, <1>2 DEF Reachable, Smaller
  <2>2. QED
    BY <1>2, <2>1 DEF PagingTypeOK
<1>7. ShownIsHead /\ MoreIsExact
  BY <1>2 DEF ShownIsHead, MoreIsExact
<1>8. QED
  BY <1>4, <1>5, <1>6, <1>7 DEF PagingInv, WindowsAreRanked

LEMMA WalkIsOn == PagingInv => WalkIsExact
<1> SUFFICES ASSUME PagingInv PROVE WalkIsExact
  OBVIOUS
<1>1. shown \in [1..offset -> 1..corpus] /\ Len(shown) = offset /\ offset \in Nat
      /\ offset <= Reachable /\ Reachable \in Nat /\ mode \in {"simple", "advanced"}
  <2>1. Reachable \in Nat
    BY PagingAssumption DEF PagingInv, PagingTypeOK, Reachable, Smaller, MaxRecall
  <2>2. QED
    BY <2>1 DEF PagingInv, PagingTypeOK
<1>2. offset > 0 => (more <=> Len(shown) < Reachable)
  BY <1>1 DEF PagingInv, MoreIsExact
<1>3. ~more => Len(shown) = Reachable
  BY <1>1 DEF PagingInv, MoreIsExact
<1>4. mode = "simple" => IsInjective(shown)
  BY <1>1 DEF PagingInv, ShownIsHead, IsInjective
<1>5. ASSUME OneBlock PROVE IsInjective(shown)
  <2>1. 1 \in 1..MaxBlocks
    BY PagingAssumption
  <2>2. Len(rank[1]) = Recalled(1) /\ \A i, j \in 1..Len(rank[1]) : rank[1][i] = rank[1][j] => i = j
    BY <2>1 DEF PagingInv, WindowsAreRanked
  <2>3. offset <= Recalled(1) /\ Recalled(1) \in Nat
    <3>1. 1 * RecallLimit = RecallLimit /\ RecallLimit \in Nat /\ corpus \in Nat /\ MaxRecall \in Nat
      BY PagingAssumption DEF PagingInv, PagingTypeOK, MaxRecall
    <3>2. offset <= corpus
      BY <1>1, <3>1 DEF Reachable, Smaller
    <3>3. QED
      BY <1>1, <1>5, <3>1, <3>2 DEF Recalled, Smaller, OneBlock
  <2>4. \A i \in 1..offset : shown[i] = rank[1][i]
    BY <1>5 DEF PagingInv, ShownIsHead
  <2>5. \A i, j \in 1..offset : shown[i] = shown[j] => i = j
    BY <2>2, <2>3, <2>4, <1>1
  <2>6. QED
    BY <2>5, <1>1 DEF IsInjective
<1>6. QED
  BY <1>1, <1>2, <1>3, <1>4, <1>5 DEF WalkIsExact, OneBlock

(* For any recall block, ceiling, page sizes and corpus, has_more of either *)
(* mode is true exactly when a further page returns something, and a walk   *)
(* that stays within one ranking shows each result once (service.go,        *)
(* searchSimple and searchAdvanced).                                        *)
THEOREM WalksEndWhereResultsDo == PagingSpec => []WalkIsExact
<1>1. PagingInv /\ [PagingNext]_pagingVars => PagingInv'
  <2> SUFFICES ASSUME PagingInv, [PagingNext]_pagingVars PROVE PagingInv'
    OBVIOUS
  <2>1. CASE UNCHANGED pagingVars
    BY <2>1 DEF pagingVars, PagingInv, PagingTypeOK, Reachable, WindowsAreRanked, Recalled,
         SameWindows, ShownIsHead, OneBlock, MoreIsExact
  <2>2. QED
    BY <2>1, SimpleStep, AdvancedStep DEF PagingNext
<1>2. QED
  BY <1>1, PagingStarts, WalkIsOn, PTL DEF PagingSpec
-----------------------------------------------------------------------------
(* Suggestions (Suggestions).  The argument: after each candidate the merge  *)
(* holds one candidate of each text so far, which names a video if any of    *)
(* that text did; ranking is a strict order on it, and no slot that is       *)
(* reserved shows anything else.                                             *)

SuggestionsSpec == SuggestionsInit /\ [][SuggestionsNext]_suggestionsVars

\* What the merge holds: one candidate of each text.
Bests == {best \in SUBSET CandidateRows :
            /\ IsFiniteSet(best)
            /\ \A a, b \in best : a.text = b.text => a = b}

\* A candidate of the same text that names a video if the other does
Keeps(b, c) == b.text = c.text /\ (c.video # NoVideo => b.video # NoVideo)

LEMMA MergedIsBoth ==
  ASSUME NEW a \in CandidateRows, NEW b \in CandidateRows, a.text = b.text
  PROVE  Merged(a, b) \in CandidateRows /\ Keeps(Merged(a, b), a) /\ Keeps(Merged(a, b), b)
<1> DEFINE m == Merged(a, b)
<1>1. VideoOf(a, b) \in {a.video, b.video} /\ (a.video # NoVideo \/ b.video # NoVideo => VideoOf(a, b) # NoVideo)
  BY DEF VideoOf
<1>2. a = [text |-> a.text, source |-> a.source, personal |-> a.personal, exact |-> a.exact,
           video |-> a.video, score |-> a.score]
  BY DEF CandidateRows
<1> DEFINE p == a.personal \/ b.personal
           v == VideoOf(a, b)
<1>3. m = [[a EXCEPT !.personal = p] EXCEPT !.video = v]
  BY DEF Merged
<1>4. p \in BOOLEAN
  BY DEF CandidateRows
<1> HIDE DEF m, p, v
<1>5. m = [text |-> a.text, source |-> a.source, personal |-> p, exact |-> a.exact,
            video |-> v, score |-> a.score]
  BY <1>2, <1>3
<1>6. m \in CandidateRows
  BY <1>1, <1>4, <1>5 DEF CandidateRows, v
<1>7. Keeps(m, a) /\ Keeps(m, b)
  BY <1>1, <1>5 DEF Keeps, v
<1> QED BY <1>6, <1>7 DEF m

LEMMA MergeKeeps ==
  ASSUME NEW best \in Bests, NEW c \in CandidateRows
  PROVE  /\ Merge(best, c) \in Bests
         /\ \A b \in best \cup {c} : \E d \in Merge(best, c) : Keeps(d, b)
<1> DEFINE known == {b \in best : b.text = c.text}
<1>0. best \subseteq CandidateRows /\ IsFiniteSet(best) /\ \A a, b \in best : a.text = b.text => a = b
  BY DEF Bests
<1>1. PICK x : /\ Merge(best, c) = (best \ known) \cup {x}
               /\ x \in CandidateRows /\ x.text = c.text
               /\ \A b \in known \cup {c} : Keeps(x, b)
  <2>1. CASE known = {}
    <3>1. Merge(best, c) = (best \ known) \cup {c}
      BY <2>1 DEF Merge
    <3>2. QED
      BY <3>1, <2>1 DEF Keeps
  <2>2. CASE known # {}
    <3> DEFINE cur == CHOOSE b \in known : TRUE
               x == IF Better(c, cur) THEN Merged(c, cur) ELSE Merged(cur, c)
    <3>1. cur \in best /\ cur.text = c.text /\ known = {cur}
      BY <2>2, <1>0
    <3>2. Merge(best, c) = (best \ known) \cup {x}
      BY <2>2 DEF Merge
    <3> HIDE DEF cur
    <3>3. cur \in CandidateRows
      BY <3>1, <1>0
    <3>4. /\ Merged(c, cur) \in CandidateRows /\ Keeps(Merged(c, cur), c) /\ Keeps(Merged(c, cur), cur)
          /\ Merged(cur, c) \in CandidateRows /\ Keeps(Merged(cur, c), c) /\ Keeps(Merged(cur, c), cur)
      BY <3>1, <3>3, MergedIsBoth
    <3>5. x \in CandidateRows /\ Keeps(x, c) /\ Keeps(x, cur)
      BY <3>4
    <3> HIDE DEF x
    <3>6. x.text = c.text
      BY <3>5 DEF Keeps
    <3>7. QED
      BY <3>1, <3>2, <3>5, <3>6
  <2>3. QED
    BY <2>1, <2>2
<1> DEFINE rest == best \ known
<1>2. rest \subseteq best /\ \A b \in rest : b.text # c.text
  OBVIOUS
<1> HIDE DEF rest
<1>3. IsFiniteSet(rest \cup {x})
  BY <1>0, <1>2, FS_Subset, FS_AddElement
<1>4. rest \cup {x} \in Bests
  BY <1>0, <1>1, <1>2, <1>3 DEF Bests
<1>5. ASSUME NEW b \in best \cup {c} PROVE \E d \in rest \cup {x} : Keeps(d, b)
  <2>1. CASE b \in known \cup {c}
    BY <2>1, <1>1
  <2>2. CASE b \in rest
    <3>1. Keeps(b, b)
      BY DEF Keeps
    <3>2. QED
      BY <2>2, <3>1
  <2>3. QED
    BY <2>1, <2>2 DEF rest
<1>6. QED
  BY <1>1, <1>4, <1>5 DEF rest

\* The merge of a list knows each of its texts, and a video for it if one did.
LEMMA MergeKnowsEach ==
  ASSUME NEW list \in Seq(CandidateRows)
  PROVE  /\ FoldLeft(Merge, {}, list) \in Bests
         /\ \A i \in DOMAIN list : \E b \in FoldLeft(Merge, {}, list) : Keeps(b, list[i])
<1> DEFINE n == Len(list)
           V == Bests
           H == [p \in V \X (1..n) |-> Merge(p[1], list[p[2]])]
           out == FoldLeft(Merge, {}, list)
<1>1. n \in Nat /\ DOMAIN list = 1..n /\ \A i \in 1..n : list[i] \in CandidateRows
  OBVIOUS
<1>2. {} \in V
  BY FS_EmptySet DEF Bests
<1>3. \A d \in V, c \in CandidateRows : Merge(d, c) \in V
  BY MergeKeeps
<1> HIDE DEF n, V
<1>4. \A d \in V, i \in 1..n : H[<<d, i>>] = Merge(d, list[i])
  OBVIOUS
<1> HIDE DEF H
<1>5. StepsIn(H, V, n)
  BY <1>1, <1>3, <1>4 DEF StepsIn
<1>6. FoldsTo(out, n, V, {}, H)
  <2>1. SUFFICES ASSUME NEW g \in [SUBSET (1..n) -> V], LeftFolds(g, n, {}, H)
        PROVE  \E h : FoldsIn(h, out, n, V, {}, H)
    BY DEF FoldsTo
  <2>2. \A s \in SUBSET (1..n) : s # {} => Max(s) \in 1..n /\ g[s \ {Max(s)}] \in V
    BY <1>1, LargestOf
  <2>3. g = [s \in SUBSET DOMAIN list |->
               IF s = {} THEN {} ELSE Merge(g[s \ {Max(s)}], list[Max(s)])]
    BY <1>1, <1>4, <2>1, <2>2 DEF LeftFolds
  <2>4. PICK h : /\ h = [s \in SUBSET DOMAIN list |->
                           IF s = {} THEN {} ELSE Merge(h[s \ {Max(s)}], list[Max(s)])]
                 /\ out = h[DOMAIN list]
    BY <2>3 DEF FoldLeft, MapThenFoldSet
  <2> HIDE DEF out
  <2>5. \A s \in SUBSET (1..n) :
          h[s] = IF s = {} THEN {} ELSE Merge(h[s \ {Max(s)}], list[Max(s)])
    BY <1>1, <2>4
  <2>6. h[{}] = {} /\ out = h[1..n]
    BY <1>1, <2>4, <2>5
  <2>7. ASSUME NEW s \in SUBSET (1..n), s # {}, h[s \ {Max(s)}] \in V
        PROVE  h[s] = H[<<h[s \ {Max(s)}], Max(s)>>]
    BY <1>4, <2>2, <2>5, <2>7
  <2> QED BY <2>6, <2>7 DEF FoldsIn
<1> HIDE DEF out
<1>7. PICK r \in [0..n -> V] : IsRun(r, n, {}, H, out)
  BY <1>1, <1>2, <1>5, <1>6, LeftFoldRun
<1>8. \A k \in 0..n-1 : k + 1 \in 1..n /\ r[k] \in Bests /\ r[k+1] = Merge(r[k], list[k+1])
  <2>1. \A k \in 0..n-1 : k + 1 \in 1..n /\ r[k] \in V
    BY <1>1
  <2>2. QED
    BY <2>1, <1>4, <1>7 DEF IsRun, V
<1> DEFINE Known(k) == \A i \in 1..n : i <= k => \E b \in r[k] : Keeps(b, list[i])
           T == {k \in Nat : k <= n => Known(k)}
<1>9. 0 \in T
  OBVIOUS
<1>10. ASSUME NEW k \in Nat, k \in T PROVE k + 1 \in T
  <2>1. SUFFICES ASSUME k + 1 <= n PROVE Known(k + 1)
    OBVIOUS
  <2>2. k \in 0..n-1 /\ k + 1 \in 1..n /\ Known(k)
    BY <1>1, <1>10, <2>1
  <2>3. r[k] \in Bests /\ r[k+1] = Merge(r[k], list[k+1]) /\ list[k+1] \in CandidateRows
    BY <1>1, <1>8, <2>2
  <2>4. \A b \in r[k] \cup {list[k+1]} : \E d \in r[k+1] : Keeps(d, b)
    BY <2>3, MergeKeeps
  <2>5. ASSUME NEW i \in 1..n, i <= k + 1 PROVE \E d \in r[k+1] : Keeps(d, list[i])
    <3>1. CASE i <= k
      <4>1. PICK b \in r[k] : Keeps(b, list[i])
        BY <2>2, <3>1
      <4>2. PICK d \in r[k+1] : Keeps(d, b)
        BY <2>4
      <4>3. Keeps(d, list[i])
        BY <4>1, <4>2 DEF Keeps
      <4>4. QED
        BY <4>3
    <3>2. CASE i = k + 1
      BY <2>4, <3>2
    <3>3. QED
      BY <1>1, <2>5, <3>1, <3>2
  <2>6. QED
    BY <2>5
<1>11. \A k \in Nat : k \in T
  <2> HIDE DEF T
  <2> QED BY <1>9, <1>10, NatSetInduction
<1>12. Known(n) /\ r[n] = out /\ r[n] \in V
  <2>1. n \in 0..n /\ n <= n
    BY <1>1
  <2>2. Known(n)
    BY <1>1, <1>11, <2>1
  <2> HIDE DEF Known
  <2>3. QED
    BY <2>1, <2>2, <1>7 DEF IsRun
<1>13. out \in Bests /\ \A i \in DOMAIN list : \E b \in out : Keeps(b, list[i])
  BY <1>1, <1>12 DEF V
<1> QED BY <1>13 DEF out
-----------------------------------------------------------------------------
(* Ranking *)

LEMMA BetterIsStrict ==
  ASSUME NEW best \in Bests
  PROVE  StrictOrder({w \in best \X best : Better(w[1], w[2])}, best)
<1> DEFINE R == {w \in best \X best : Better(w[1], w[2])}
           place == TextOrder
<1>1. \A a \in best : a.exact \in BOOLEAN /\ a.score \in Nat /\ a.text \in DOMAIN TextOrder
  BY DEF Bests, CandidateRows
<1>2. \A a \in best : place[a.text] \in Nat
  BY <1>1, SuggestionsAssumption
<1>3. \A a, b \in best : place[a.text] = place[b.text] => a = b
  <2>1. \A a, b \in best : place[a.text] = place[b.text] => a.text = b.text
    BY <1>1, SuggestionsAssumption DEF IsInjective
  <2>2. QED
    BY <2>1 DEF Bests
<1>4. \A a, b \in best :
        <<a, b>> \in R <=>
          IF a.exact # b.exact THEN a.exact
          ELSE IF a.score # b.score THEN a.score > b.score
          ELSE place[a.text] < place[b.text]
  BY DEF Better
<1> HIDE DEF R, place
<1>5. \A a \in best : <<a, a>> \notin R
  BY <1>2, <1>4
<1>6. ASSUME NEW a \in best, NEW b \in best PROVE a = b \/ <<a, b>> \in R \/ <<b, a>> \in R
  <2>1. CASE a.exact # b.exact
    BY <1>1, <1>4, <2>1
  <2>2. CASE a.exact = b.exact /\ a.score # b.score
    <3>1. a.score > b.score \/ b.score > a.score
      BY <1>1, <2>2
    <3>2. QED
      BY <1>4, <2>2, <3>1
  <2>3. CASE a.exact = b.exact /\ a.score = b.score
    <3>1. a = b \/ place[a.text] < place[b.text] \/ place[b.text] < place[a.text]
      BY <1>2, <1>3
    <3>2. QED
      BY <1>4, <2>3, <3>1
  <2>4. QED
    BY <2>1, <2>2, <2>3
<1>7. ASSUME NEW a \in best, NEW b \in best, NEW c \in best, <<a, b>> \in R, <<b, c>> \in R
      PROVE  <<a, c>> \in R
  <2>1. CASE a.exact # b.exact
    <3>1. a.exact = TRUE /\ b.exact = FALSE /\ c.exact = FALSE
      BY <1>1, <1>4, <1>7, <2>1
    <3>2. QED
      BY <1>4, <3>1
  <2>2. CASE a.exact = b.exact /\ b.exact # c.exact
    <3>1. a.exact = TRUE /\ c.exact = FALSE
      BY <1>1, <1>4, <1>7, <2>2
    <3>2. QED
      BY <1>4, <3>1
  <2>3. CASE a.exact = b.exact /\ b.exact = c.exact
    <3>1. /\ IF a.score # b.score THEN a.score > b.score ELSE place[a.text] < place[b.text]
          /\ IF b.score # c.score THEN b.score > c.score ELSE place[b.text] < place[c.text]
      BY <1>4, <1>7, <2>3
    <3>2. IF a.score # c.score THEN a.score > c.score ELSE place[a.text] < place[c.text]
      <4> DEFINE x == a.score
                 y == b.score
                 z == c.score
      <4>1. x \in Nat /\ y \in Nat /\ z \in Nat
        BY <1>1
      <4>2. place[a.text] \in Nat /\ place[b.text] \in Nat /\ place[c.text] \in Nat
        BY <1>2
      <4>3. /\ IF x # y THEN x > y ELSE place[a.text] < place[b.text]
            /\ IF y # z THEN y > z ELSE place[b.text] < place[c.text]
        BY <3>1
      <4>4. IF x # z THEN x > z ELSE place[a.text] < place[c.text]
        <5> HIDE DEF x, y, z
        <5> QED BY <4>1, <4>2, <4>3
      <4>5. QED
        BY <4>4
    <3>3. QED
      BY <1>4, <2>3, <3>2
  <2>4. QED
    BY <2>1, <2>2, <2>3
<1>8. StrictOrder(R, best)
  BY <1>5, <1>6, <1>7 DEF StrictOrder
<1> QED BY <1>8 DEF R

LEMMA RankedLists ==
  ASSUME NEW best \in Bests
  PROVE  InOrder(best, Better) \in Seq(best)
<1> DEFINE R == {w \in best \X best : Better(w[1], w[2])}
           At(n) == CHOOSE x \in best : Cardinality({y \in best : Better(y, x)}) = n - 1
           f == [n \in 1..Cardinality(best) |-> At(n)]
<1>1. StrictOrder(R, best) /\ IsFiniteSet(best)
  BY BetterIsStrict DEF Bests
<1>2. \A x \in best : {y \in best : <<y, x>> \in R} = {y \in best : Better(y, x)}
  OBVIOUS
<1>3. \A n \in 1..Cardinality(best) :
        (\E x \in best : Cardinality({y \in best : Better(y, x)}) = n - 1)
          => f[n] \in best /\ Cardinality({y \in best : Better(y, f[n])}) = n - 1
  OBVIOUS
<1>4. f = InOrder(best, Better)
  BY DEF InOrder
<1>5. DOMAIN f = 1..Cardinality(best) /\ f = [n \in DOMAIN f |-> f[n]]
  <2> HIDE DEF At
  <2> QED OBVIOUS
<1> HIDE DEF f, R
<1>6. \A n \in 1..Cardinality(best) :
        (\E x \in best : Cardinality({y \in best : <<y, x>> \in R}) = n - 1)
          => f[n] \in best /\ Cardinality({y \in best : <<y, f[n]>> \in R}) = n - 1
  BY <1>2, <1>3
<1>7. Numbers(f, best, R)
  BY <1>5, <1>6 DEF Numbers
<1>8. f \in [1..Cardinality(best) -> best] /\ Cardinality(best) \in Nat
  BY <1>1, <1>7, InOrderLists
<1>9. f \in Seq(best)
  BY <1>8
<1> QED BY <1>4, <1>9

LEMMA EnsureStays ==
  ASSUME NEW S, NEW picked \in Seq(S), NEW ranked \in Seq(S), NEW source
  PROVE  Ensure(source, picked, ranked) \in Seq(S)
<1> DEFINE outside == {i \in DOMAIN ranked : i > Len(picked) /\ ranked[i].source = source}
           others  == {i \in DOMAIN picked : picked[i].source # source}
           m == Max(others)
           x == ranked[Min(outside)]
           t == [picked EXCEPT ![m] = x]
<1>1. Ensure(source, picked, ranked) = picked \/ (outside # {} /\ Ensure(source, picked, ranked) = t)
  BY DEF Ensure
<1>2. ASSUME outside # {} PROVE x \in S
  <2>1. outside \subseteq Nat /\ outside \subseteq DOMAIN ranked
    OBVIOUS
  <2> HIDE DEF outside
  <2>2. PICK i \in outside : \A j \in outside : ~ (<<j, i>> \in OpToRel(<, Nat))
    BY <1>2, <2>1, NatLessThanWellFounded, WFMin
  <2>3. \A j \in outside : ~ (j < i)
    BY <2>1, <2>2 DEF OpToRel
  <2>4. \A j \in outside : i <= j
    BY <2>1, <2>3
  <2>5. Min(outside) \in outside
    BY <2>4 DEF Min
  <2> DEFINE k == Min(outside)
  <2>6. k \in DOMAIN ranked
    BY <2>1, <2>5
  <2> HIDE DEF k
  <2>7. ranked[k] \in S
    BY <2>6
  <2> QED BY <2>7 DEF k
<1> HIDE DEF outside, x, m
<1>3. ASSUME outside # {} PROVE t \in Seq(S)
  <2>1. Len(picked) \in Nat /\ picked \in [1..Len(picked) -> S]
    OBVIOUS
  <2>2. t \in [1..Len(picked) -> S]
    BY <1>2, <1>3, <2>1
  <2>3. QED
    BY <2>1, <2>2
<1> QED BY <1>1, <1>3

LEMMA FewerBests == ASSUME NEW best \in Bests, NEW S \in SUBSET best PROVE S \in Bests
BY FS_Subset DEF Bests

\* An answer shows what the merge holds.
LEMMA BlendShowsBests ==
  ASSUME NEW list \in Seq(CandidateRows), NEW limit \in Nat
  PROVE  Blend(list, limit) \in Seq(FoldLeft(Merge, {}, list))
<1> DEFINE best == FoldLeft(Merge, {}, list)
           ranked == InOrder(best, Better)
           top == SubSeq(ranked, 1, limit)
           withHistory == Ensure("history", top, ranked)
           withDoc == Ensure("doc", withHistory, ranked)
<1>1. best \in Bests
  BY MergeKnowsEach
<1>2. /\ Ranked(list) = ranked
      /\ Blend(list, limit) = IF Len(ranked) <= limit THEN ranked ELSE InOrder(ToSet(withDoc), Better)
  BY DEF Blend, ReserveSlots, Ranked
<1> HIDE DEF best
<1>3. ranked \in Seq(best) /\ Len(ranked) \in Nat
  BY <1>1, RankedLists
<1>4. CASE Len(ranked) > limit
  <2> HIDE DEF ranked
  <2>1. top \in Seq(best)
    <3>1. \A i \in 1..limit : ranked[i] \in best
      BY <1>3, <1>4
    <3>2. top = [i \in 1..limit |-> ranked[i]]
      BY <1>3, <1>4
    <3>3. [i \in 1..limit |-> ranked[i]] \in [1..limit -> best]
      BY <3>1
    <3>4. QED
      BY <3>2, <3>3
  <2> HIDE DEF top
  <2>2. withHistory \in Seq(best)
    BY <1>3, <2>1, EnsureStays
  <2> HIDE DEF withHistory
  <2>3. withDoc \in Seq(best)
    BY <1>3, <2>2, EnsureStays
  <2> HIDE DEF withDoc
  <2>4. ToSet(withDoc) \in SUBSET best
    BY <2>3 DEF ToSet
  <2>5. ToSet(withDoc) \in Bests
    BY <1>1, <2>4, FewerBests
  <2>6. InOrder(ToSet(withDoc), Better) \in Seq(ToSet(withDoc))
    BY <2>5, RankedLists
  <2>7. Seq(ToSet(withDoc)) \subseteq Seq(best)
    BY <2>4
  <2>8. Blend(list, limit) \in Seq(best)
    BY <1>2, <1>3, <1>4, <2>6, <2>7
  <2>9. QED
    BY <2>8 DEF best
<1>5. CASE Len(ranked) <= limit
  BY <1>2, <1>3, <1>5 DEF best
<1> QED BY <1>3, <1>4, <1>5

LEMMA BlendKeepsVideos ==
  ASSUME NEW list \in Seq(CandidateRows), NEW limit \in Nat,
         NEW i \in DOMAIN Blend(list, limit), NEW c \in ToSet(list),
         c.text = Blend(list, limit)[i].text, c.video # NoVideo
  PROVE  Blend(list, limit)[i].video # NoVideo
<1> DEFINE best == FoldLeft(Merge, {}, list)
           blended == Blend(list, limit)
<1>1. best \in Bests /\ \A j \in DOMAIN list : \E b \in best : Keeps(b, list[j])
  BY MergeKnowsEach
<1>2. blended \in Seq(best)
  BY BlendShowsBests
<1>3. PICK j \in DOMAIN list : c = list[j]
  BY DEF ToSet
<1> HIDE DEF best
<1>4. blended[i] \in best
  BY <1>2
<1>5. PICK b \in best : Keeps(b, c)
  BY <1>1, <1>3
<1>6. b = blended[i]
  BY <1>1, <1>4, <1>5 DEF Keeps, Bests
<1> QED BY <1>5, <1>6 DEF Keeps

AskedAndGathered ==
  /\ asking = [phase |-> asking.phase, caller |-> asking.caller, limit |-> asking.limit]
  /\ asking.limit \in Nat
  /\ gathered \in Seq(CandidateRows)
  /\ asking.phase = "answered" => offered = Blend(gathered, asking.limit)

LEMMA GatheredAreRows ==
  ASSUME NEW rows, Gather(rows) PROVE gathered' \in Seq(CandidateRows)
<1> DEFINE heard == Within(StreamRows, {c \in rows : c.source = "history" => asking.caller \in Callers})
           exact == Within(heard, {c \in ToSet(heard) : c.exact})
<1>1. \A S : Seq(S \cap CandidateRows) \subseteq Seq(CandidateRows)
  OBVIOUS
<1>2. heard \in Seq(CandidateRows)
  BY <1>1, WithinLists, SuggestionsAssumption
<1>3. gathered' = IF Len(exact) < asking.limit THEN heard ELSE exact
  BY DEF Gather
<1> HIDE DEF heard
<1>4. exact \in Seq(CandidateRows)
  BY <1>1, <1>2, WithinLists
<1> QED BY <1>2, <1>3, <1>4

LEMMA AnswersGoOn ==
  AskedAndGathered /\ [SuggestionsNext]_suggestionsVars => AskedAndGathered'
<1> SUFFICES ASSUME AskedAndGathered, [SuggestionsNext]_suggestionsVars PROVE AskedAndGathered'
  OBVIOUS
<1>0. <<>> \in Seq(CandidateRows) /\ NoAsk.limit \in Nat /\ NoAsk.phase = "idle"
      /\ NoAsk = [phase |-> NoAsk.phase, caller |-> NoAsk.caller, limit |-> NoAsk.limit]
  BY DEF NoAsk
<1>1. CASE UNCHANGED suggestionsVars \/ ForgetShared
  BY <1>1 DEF suggestionsVars, ForgetShared, AskedAndGathered
<1>2. ASSUME NEW caller, NEW limit \in PageSizes, Ask(caller, limit) PROVE AskedAndGathered'
  <2>1. asking' = [phase |-> "asked", caller |-> caller, limit |-> limit] /\ gathered' = <<>>
        /\ limit \in Nat
    BY <1>2, SuggestionsAssumption DEF Ask
  <2> QED BY <2>1, <1>0 DEF AskedAndGathered
<1>3. ASSUME NEW rows, Gather(rows) PROVE AskedAndGathered'
  <2>1. asking' = [asking EXCEPT !.phase = "gathered"] /\ gathered' \in Seq(CandidateRows)
    BY <1>3, GatheredAreRows DEF Gather
  <2>2. asking' = [phase |-> "gathered", caller |-> asking.caller, limit |-> asking.limit]
    BY <2>1 DEF AskedAndGathered
  <2> QED BY <2>1, <2>2 DEF AskedAndGathered
<1>4. CASE AnswerBlended
  <2>1. asking' = [asking EXCEPT !.phase = "answered"] /\ gathered' = gathered
        /\ offered' = Blend(gathered, asking.limit)
    BY <1>4 DEF AnswerBlended
  <2>2. asking' = [phase |-> "answered", caller |-> asking.caller, limit |-> asking.limit]
    BY <2>1 DEF AskedAndGathered
  <2>3. asking'.limit = asking.limit
    BY <2>2
  <2> QED BY <2>1, <2>2, <2>3 DEF AskedAndGathered
<1>5. CASE AnswerFromCache \/ Degrade \/ NextCaller
  <2>1. asking' = NoAsk /\ gathered' \in {gathered, <<>>}
    BY <1>5 DEF AnswerFromCache, Degrade, NextCaller
  <2> QED BY <2>1, <1>0 DEF AskedAndGathered
<1> QED BY <1>1, <1>2, <1>3, <1>4, <1>5 DEF SuggestionsNext

(* For any streams, weights, texts and limits: a text some stream proposed *)
(* with a video is offered with one, whichever variant won the merge and   *)
(* whichever slots were reserved (ranking/suggest.go, Blend; the id is what *)
(* the gateway checks a title by).                                         *)
THEOREM TitlesAlwaysKeepTheirVideo == SuggestionsSpec => []TitlesKeepTheirVideo
<1>1. SuggestionsInit => AskedAndGathered
  <2>1. <<>> \in Seq(CandidateRows)
    OBVIOUS
  <2> QED BY <2>1 DEF SuggestionsInit, NoAsk, AskedAndGathered
<1>2. AskedAndGathered => TitlesKeepTheirVideo
  <2> SUFFICES ASSUME AskedAndGathered, asking.phase = "answered", NEW i \in DOMAIN offered,
                      NEW c \in ToSet(gathered), c.text = offered[i].text, c.video # NoVideo
               PROVE  offered[i].video # NoVideo
    BY DEF TitlesKeepTheirVideo
  <2>1. gathered \in Seq(CandidateRows) /\ asking.limit \in Nat /\ offered = Blend(gathered, asking.limit)
    BY DEF AskedAndGathered
  <2> QED BY <2>1, BlendKeepsVideos
<1>3. QED
  BY <1>1, <1>2, AnswersGoOn, PTL DEF SuggestionsSpec
-----------------------------------------------------------------------------
(* The feeds (Recommendation).  The argument: what a read returns was        *)
(* eligible during the request, a composer that holds a fit list goes on to  *)
(* hold one, and an advanced feed knows eligibility and channel of all its   *)
(* candidates, and has hidden what it hides, before it composes.             *)

RecommendationSpec == RecommendationInit /\ [][RecommendationNext]_recommendationVars

\* A list of A without repeats that keeps to the cap of each channel
Spread(s) ==
  /\ \A i, j \in DOMAIN s : s[i] = s[j] => i = j
  /\ \A v \in ToSet(s) :
        ChannelOf[v] # NoChannel => OfChannel(s, ChannelOf[v], ChannelOf) <= PerChannelCap

FitLists(A) == {s \in Seq(A) : Spread(s)}

LEMMA ListsHold ==
  ASSUME NEW T, NEW s \in Seq(T)
  PROVE  /\ Len(s) \in Nat /\ DOMAIN s = 1..Len(s) /\ \A i \in DOMAIN s : s[i] \in T
         /\ ToSet(s) \subseteq T
BY DEF ToSet

LEMMA OneMoreOfChannel ==
  ASSUME NEW T, NEW s \in Seq(T), NEW v, NEW c, NEW channel
  PROVE  /\ OfChannel(s, c, channel) \in Nat
         /\ OfChannel(Append(s, v), c, channel) =
              OfChannel(s, c, channel) + (IF channel[v] = c THEN 1 ELSE 0)
<1> DEFINE n == Len(s)
           of == {i \in 1..n : channel[s[i]] = c}
           longer == {i \in 1..n+1 : channel[Append(s, v)[i]] = c}
<1>1. n \in Nat /\ DOMAIN s = 1..n /\ DOMAIN Append(s, v) = 1..n+1
      /\ Append(s, v)[n+1] = v /\ \A i \in 1..n : Append(s, v)[i] = s[i]
  OBVIOUS
<1>2. IsFiniteSet(of) /\ Cardinality(of) \in Nat /\ n + 1 \notin of
  <2>1. IsFiniteSet(1..n)
    BY <1>1, FS_Interval
  <2>2. of \subseteq 1..n /\ n + 1 \notin 1..n
    BY <1>1
  <2> HIDE DEF of
  <2>3. QED
    BY <2>1, <2>2, FS_Subset, FS_CardinalityType
<1>3. OfChannel(s, c, channel) = Cardinality(of)
      /\ OfChannel(Append(s, v), c, channel) = Cardinality(longer)
  BY <1>1 DEF OfChannel
<1>4. CASE channel[v] = c
  <2>1. longer = of \cup {n + 1}
    BY <1>1, <1>4
  <2> HIDE DEF longer, of, n
  <2>2. Cardinality(of \cup {n + 1}) = Cardinality(of) + 1
    BY <1>2, FS_AddElement
  <2>3. QED
    BY <1>2, <1>3, <1>4, <2>1, <2>2
<1>5. CASE channel[v] # c
  <2>1. longer = of
    BY <1>1, <1>5
  <2> HIDE DEF longer, of
  <2>2. QED
    BY <1>2, <1>3, <1>5, <2>1
<1>6. QED
  BY <1>4, <1>5

LEMMA AppendedIsFit ==
  ASSUME NEW A, NEW R, A \subseteq R, NEW s \in FitLists(A), NEW v \in R,
         NEW channel, \A w \in R : channel[w] = ChannelOf[w],
         NEW excluded, R \ excluded \subseteq A, Fits(s, v, channel, excluded)
  PROVE  Append(s, v) \in FitLists(A)
<1> DEFINE t == Append(s, v)
           n == Len(s)
<1>1. /\ s \in Seq(A) /\ Spread(s) /\ v \in A /\ v \notin ToSet(s) /\ n \in Nat
      /\ channel[v] # NoChannel => OfChannel(s, channel[v], channel) < PerChannelCap
  BY ListsHold DEF FitLists, Fits
<1>2. t \in Seq(A) /\ Len(t) = n + 1 /\ DOMAIN t = 1..n+1 /\ DOMAIN s = 1..n
      /\ t[n+1] = v /\ \A i \in 1..n : t[i] = s[i] /\ s[i] \in A /\ s[i] \in ToSet(s)
  BY <1>1, ListsHold DEF ToSet
<1>3. ToSet(t) = ToSet(s) \cup {v}
  <2>1. ToSet(t) = {t[i] : i \in 1..n+1} /\ ToSet(s) = {s[i] : i \in 1..n}
    BY <1>2 DEF ToSet
  <2> HIDE DEF t, n
  <2>2. 1..n+1 = (1..n) \cup {n+1}
    BY <1>1
  <2>3. \A x \in ToSet(t) : x \in ToSet(s) \cup {v}
    BY <1>2, <2>1, <2>2
  <2>4. \A x \in ToSet(s) : x \in ToSet(t)
    BY <1>2, <2>1, <2>2
  <2>5. v \in ToSet(t)
    BY <1>2, <2>1, <2>2
  <2>6. QED
    BY <2>3, <2>4, <2>5
<1>4. \A i, j \in DOMAIN t : t[i] = t[j] => i = j
  <2> HIDE DEF t, n
  <2> QED BY <1>1, <1>2 DEF Spread
<1>5. OfChannel(s, channel[v], channel) = OfChannel(s, ChannelOf[v], ChannelOf)
  <2>1. channel[v] = ChannelOf[v] /\ \A i \in DOMAIN s : channel[s[i]] = ChannelOf[s[i]]
    BY <1>1, <1>2
  <2>2. QED
    BY <2>1 DEF OfChannel
<1>6. \A c : /\ OfChannel(s, c, ChannelOf) \in Nat
             /\ OfChannel(t, c, ChannelOf) =
                  OfChannel(s, c, ChannelOf) + (IF ChannelOf[v] = c THEN 1 ELSE 0)
  BY <1>1, OneMoreOfChannel
<1>7. ASSUME NEW w \in ToSet(t), ChannelOf[w] # NoChannel
      PROVE  OfChannel(t, ChannelOf[w], ChannelOf) <= PerChannelCap
  <2>1. PerChannelCap \in Nat /\ channel[v] = ChannelOf[v]
    BY RecommendationAssumption
  <2> HIDE DEF t
  <2>2. CASE ChannelOf[w] = ChannelOf[v]
    BY <1>1, <1>5, <1>6, <1>7, <2>1, <2>2
  <2>3. CASE ChannelOf[w] # ChannelOf[v]
    <3>1. w \in ToSet(s) /\ OfChannel(t, ChannelOf[w], ChannelOf) = OfChannel(s, ChannelOf[w], ChannelOf)
      BY <1>3, <1>6, <2>3
    <3>2. QED
      BY <1>1, <1>7, <3>1 DEF Spread
  <2>4. QED
    BY <2>2, <2>3
<1>8. QED
  BY <1>2, <1>4, <1>7 DEF FitLists, Spread

\* What the composer is given, it turns into a fit list.
LEMMA ComposedIsFit ==
  ASSUME NEW A, NEW R, A \subseteq R, NEW start \in FitLists(A), NEW rows \in Seq(R),
         NEW channel, \A w \in R : channel[w] = ChannelOf[w],
         NEW excluded, R \ excluded \subseteq A
  PROVE  Compose(start, rows, channel, excluded) \in FitLists(A)
<1> DEFINE n == Len(rows)
           V == FitLists(A)
           Keep(kept, v) == IF Fits(kept, v, channel, excluded) THEN Append(kept, v) ELSE kept
           H == [p \in V \X (1..n) |-> Keep(p[1], rows[p[2]])]
           out == Compose(start, rows, channel, excluded)
<1>1. n \in Nat /\ DOMAIN rows = 1..n /\ \A i \in 1..n : rows[i] \in R
  BY ListsHold
<1>2. \A d \in V, v \in R : Keep(d, v) \in V
  BY AppendedIsFit
<1> HIDE DEF n, V
<1>3. \A d \in V, i \in 1..n : H[<<d, i>>] = Keep(d, rows[i])
  OBVIOUS
<1> HIDE DEF H
<1>4. StepsIn(H, V, n)
  <2> HIDE DEF Keep
  <2> QED BY <1>1, <1>2, <1>3 DEF StepsIn
<1>5. FoldsTo(out, n, V, start, H)
  <2>1. SUFFICES ASSUME NEW g \in [SUBSET (1..n) -> V], LeftFolds(g, n, start, H)
        PROVE  \E h : FoldsIn(h, out, n, V, start, H)
    BY DEF FoldsTo
  <2>2. \A s \in SUBSET (1..n) : s # {} => Max(s) \in 1..n /\ g[s \ {Max(s)}] \in V
    BY <1>1, LargestOf
  <2>3. g = [s \in SUBSET DOMAIN rows |->
               IF s = {} THEN start ELSE Keep(g[s \ {Max(s)}], rows[Max(s)])]
    <3> HIDE DEF Keep
    <3> QED BY <1>1, <1>3, <2>1, <2>2 DEF LeftFolds
  <2>4. PICK h : /\ h = [s \in SUBSET DOMAIN rows |->
                           IF s = {} THEN start ELSE Keep(h[s \ {Max(s)}], rows[Max(s)])]
                 /\ out = h[DOMAIN rows]
    BY <2>3 DEF Compose, FoldLeft, MapThenFoldSet
  <2> HIDE DEF Keep, out
  <2>5. \A s \in SUBSET (1..n) :
          h[s] = IF s = {} THEN start ELSE Keep(h[s \ {Max(s)}], rows[Max(s)])
    BY <1>1, <2>4
  <2>6. h[{}] = start /\ out = h[1..n]
    BY <1>1, <2>4, <2>5
  <2>7. ASSUME NEW s \in SUBSET (1..n), s # {}, h[s \ {Max(s)}] \in V
        PROVE  h[s] = H[<<h[s \ {Max(s)}], Max(s)>>]
    BY <1>3, <2>2, <2>5, <2>7
  <2> QED BY <2>6, <2>7 DEF FoldsIn
<1> HIDE DEF out
<1>6. start \in V
  BY DEF V
<1>7. PICK r \in [0..n -> V] : IsRun(r, n, start, H, out)
  BY <1>1, <1>4, <1>5, <1>6, LeftFoldRun
<1>8. n \in 0..n
  BY <1>1
<1> QED BY <1>7, <1>8 DEF IsRun, V, out

LEMMA FitListsGrow ==
  ASSUME NEW A, NEW B, A \subseteq B
  PROVE  FitLists(A) \subseteq FitLists(B) /\ <<>> \in FitLists(A)
<1>1. Seq(A) \subseteq Seq(B)
  OBVIOUS
<1>2. ToSet(<<>>) = {} /\ <<>> \in Seq(A)
  BY DEF ToSet
<1>3. QED
  BY <1>1, <1>2 DEF FitLists, Spread

LEMMA TakenIs ==
  ASSUME NEW T, NEW s \in Seq(T), NEW n \in Nat
  PROVE  Take(s, n) \in Seq(T)
<1> DEFINE m == IF n < Len(s) THEN n ELSE Len(s)
<1>1. Len(s) \in Nat /\ m \in 0..Len(s) /\ \A i \in 1..Len(s) : s[i] \in T
  BY ListsHold
<1> HIDE DEF m
<1>2. SubSeq(s, 1, m) = [i \in 1..m |-> s[i]]
  BY <1>1
<1>3. [i \in 1..m |-> s[i]] \in [1..m -> T]
  BY <1>1
<1>4. \A f \in [1..m -> T] : f \in Seq(T)
  BY <1>1
<1>5. QED
  BY <1>2, <1>3, <1>4 DEF Take, m

LEMMA RowsAre ==
  ASSUME NEW list \in {PopularOrder, RecentOrder, TrendingList}, NEW S, NEW T, S \subseteq T, NEW n \in Nat
  PROVE  Rows(list, S, n) \in Seq(T) /\ Within(list, S) \in Seq(T)
<1>1. list \in Seq(Videos)
  BY RecommendationAssumption
<1>2. Within(list, S) \in Seq(S \cap Videos)
  BY <1>1, WithinLists
<1>3. Seq(S \cap Videos) \subseteq Seq(T)
  OBVIOUS
<1>4. QED
  BY <1>2, <1>3, TakenIs DEF Rows
-----------------------------------------------------------------------------
(* Interleaving *)

LEMMA LengthsAreBounded ==
  ASSUME NEW T, NEW s \in Seq(Seq(T))
  PROVE  \E m \in Nat : \A i \in DOMAIN s : Len(s[i]) <= m
<1> DEFINE Bound == {k \in Nat : \E m \in Nat : \A i \in DOMAIN s : i <= k => Len(s[i]) <= m}
<1>1. Len(s) \in Nat /\ DOMAIN s = 1..Len(s) /\ \A i \in DOMAIN s : s[i] \in Seq(T)
  BY ListsHold
<1>2. \A i \in DOMAIN s : Len(s[i]) \in Nat
  BY <1>1, ListsHold
<1>3. 0 \in Bound
  BY <1>1
<1>4. ASSUME NEW k \in Nat, k \in Bound PROVE k + 1 \in Bound
  <2>1. PICK m \in Nat : \A i \in DOMAIN s : i <= k => Len(s[i]) <= m
    BY <1>4
  <2>2. CASE k + 1 \in DOMAIN s
    <3> DEFINE o == Len(s[k + 1])
               p == IF m < o THEN o ELSE m
    <3>1. o \in Nat
      BY <1>2, <2>2
    <3>2. p \in Nat /\ m <= p /\ o <= p
      BY <3>1
    <3> HIDE DEF o, p
    <3>3. ASSUME NEW i \in DOMAIN s, i <= k + 1 PROVE Len(s[i]) <= p
      <4>1. i <= k \/ i = k + 1
        BY <1>1, <3>3
      <4>2. Len(s[i]) \in Nat
        BY <1>2
      <4>3. CASE i <= k
        BY <2>1, <3>2, <4>2, <4>3
      <4>4. CASE i = k + 1
        BY <3>2, <4>4 DEF o
      <4>5. QED
        BY <4>1, <4>3, <4>4
    <3>4. QED
      BY <3>2, <3>3
  <2>3. CASE k + 1 \notin DOMAIN s
    <3>1. \A i \in DOMAIN s : i <= k + 1 => i <= k
      BY <1>1, <2>3
    <3>2. QED
      BY <2>1, <3>1
  <2>4. QED
    BY <2>2, <2>3
<1>5. \A k \in Nat : k \in Bound
  <2> HIDE DEF Bound
  <2> QED BY <1>3, <1>4, NatSetInduction
<1>6. Len(s) \in Bound
  BY <1>1, <1>5
<1>7. QED
  BY <1>1, <1>6

LEMMA RoundIsTyped ==
  ASSUME NEW T, streams \in Seq(Seq(T)), NEW i
  PROVE  FoldLeft(LAMBDA row, rows : IF i \in DOMAIN rows THEN Append(row, rows[i]) ELSE row,
                  <<>>, streams) \in Seq(T)
<1> DEFINE n == Len(streams)
           V == Seq(T)
           Add(row, rows) == IF i \in DOMAIN rows THEN Append(row, rows[i]) ELSE row
           H == [p \in V \X (1..n) |-> Add(p[1], streams[p[2]])]
           out == FoldLeft(LAMBDA row, rows : IF i \in DOMAIN rows THEN Append(row, rows[i]) ELSE row,
                           <<>>, streams)
<1>1. n \in Nat /\ DOMAIN streams = 1..n /\ \A k \in 1..n : streams[k] \in Seq(T)
  BY ListsHold
<1>2. \A d \in V, rows \in Seq(T) : Add(d, rows) \in V
  OBVIOUS
<1>3. <<>> \in V
  OBVIOUS
<1> HIDE DEF n, V
<1>4. \A d \in V, k \in 1..n : H[<<d, k>>] = Add(d, streams[k])
  OBVIOUS
<1> HIDE DEF H
<1>5. StepsIn(H, V, n)
  <2> HIDE DEF Add
  <2> QED BY <1>1, <1>2, <1>4 DEF StepsIn
<1>6. FoldsTo(out, n, V, <<>>, H)
  <2>1. SUFFICES ASSUME NEW g \in [SUBSET (1..n) -> V], LeftFolds(g, n, <<>>, H)
        PROVE  \E h : FoldsIn(h, out, n, V, <<>>, H)
    BY DEF FoldsTo
  <2>2. \A s \in SUBSET (1..n) : s # {} => Max(s) \in 1..n /\ g[s \ {Max(s)}] \in V
    BY <1>1, LargestOf
  <2>3. g = [s \in SUBSET DOMAIN streams |->
               IF s = {} THEN <<>> ELSE Add(g[s \ {Max(s)}], streams[Max(s)])]
    <3> HIDE DEF Add
    <3> QED BY <1>1, <1>4, <2>1, <2>2 DEF LeftFolds
  <2>4. PICK h : /\ h = [s \in SUBSET DOMAIN streams |->
                           IF s = {} THEN <<>> ELSE Add(h[s \ {Max(s)}], streams[Max(s)])]
                 /\ out = h[DOMAIN streams]
    BY <2>3 DEF FoldLeft, MapThenFoldSet
  <2> HIDE DEF Add, out
  <2>5. \A s \in SUBSET (1..n) :
          h[s] = IF s = {} THEN <<>> ELSE Add(h[s \ {Max(s)}], streams[Max(s)])
    BY <1>1, <2>4
  <2>6. h[{}] = <<>> /\ out = h[1..n]
    BY <1>1, <2>4, <2>5
  <2>7. ASSUME NEW s \in SUBSET (1..n), s # {}, h[s \ {Max(s)}] \in V
        PROVE  h[s] = H[<<h[s \ {Max(s)}], Max(s)>>]
    BY <1>4, <2>2, <2>5, <2>7
  <2> QED BY <2>6, <2>7 DEF FoldsIn
<1> HIDE DEF out
<1>7. PICK r \in [0..n -> V] : IsRun(r, n, <<>>, H, out)
  BY <1>1, <1>3, <1>5, <1>6, LeftFoldRun
<1>8. n \in 0..n
  BY <1>1
<1>9. out \in Seq(T)
  BY <1>7, <1>8 DEF IsRun, V
<1> QED BY <1>9 DEF out

LEMMA InterleavedIsTyped ==
  ASSUME NEW T, streams \in Seq(Seq(T)), streams # <<>>
  PROVE  Interleaved \in Seq(T)
<1> DEFINE n == Max({Len(rows) : rows \in ToSet(streams)})
           turns == [i \in 1..n |-> i]
           V == Seq(T)
           Round(i) == FoldLeft(LAMBDA row, rows : IF i \in DOMAIN rows THEN Append(row, rows[i]) ELSE row,
                                <<>>, streams)
           Add(s, i) == s \o Round(i)
           H == [p \in V \X (1..n) |-> Add(p[1], turns[p[2]])]
<1>1. n \in Nat
  <2> DEFINE lens == {Len(rows) : rows \in ToSet(streams)}
  <2>1. Len(streams) \in Nat /\ DOMAIN streams = 1..Len(streams)
        /\ \A k \in 1..Len(streams) : streams[k] \in Seq(T)
    BY ListsHold
  <2>2. PICK m \in Nat : \A i \in DOMAIN streams : Len(streams[i]) <= m
    BY LengthsAreBounded
  <2>3. \A x \in lens : x \in Nat /\ x <= m
    <3>1. \A rows \in ToSet(streams) : \E i \in DOMAIN streams : rows = streams[i]
      BY DEF ToSet
    <3>2. \A i \in DOMAIN streams : Len(streams[i]) \in Nat
      BY <2>1, ListsHold
    <3>3. QED
      BY <2>2, <3>1, <3>2
  <2>4. lens # {}
    <3>1. 1 \in DOMAIN streams
      BY <2>1
    <3>2. streams[1] \in ToSet(streams)
      BY <3>1 DEF ToSet
    <3>3. QED
      BY <3>2
  <2> HIDE DEF lens
  <2>5. \E x \in lens : \A y \in lens : x >= y
    <3> DEFINE up == {x + 1 : x \in lens}
    <3>1. up \in SUBSET (1..m+1) /\ up # {} /\ m + 1 \in Nat
      BY <2>3, <2>4
    <3>2. Max(up) \in up /\ \A y \in up : y <= Max(up)
      BY <3>1, LargestOf
    <3>3. PICK x \in lens : Max(up) = x + 1
      BY <3>2
    <3>4. \A y \in lens : y + 1 <= x + 1
      BY <3>2, <3>3
    <3>5. QED
      BY <2>3, <3>4
  <2>6. Max(lens) \in lens
    BY <2>5 DEF Max
  <2>7. QED
    BY <2>3, <2>6 DEF lens
<1> HIDE DEF n
<1>2. \A i : Round(i) \in V
  BY RoundIsTyped
<1>3. DOMAIN turns = 1..n /\ \A i \in 1..n : turns[i] = i
  OBVIOUS
<1> HIDE DEF Round, turns
<1>4. \A d \in V, i \in 1..n : Add(d, i) \in V
  BY <1>2, ConcatProperties
<1>5. <<>> \in V
  OBVIOUS
<1> HIDE DEF V
<1>6. \A d \in V, i \in 1..n : H[<<d, i>>] = Add(d, turns[i])
  OBVIOUS
<1> HIDE DEF H
<1>7. StepsIn(H, V, n)
  <2> HIDE DEF Add
  <2> QED BY <1>3, <1>4, <1>6 DEF StepsIn
<1>8. FoldsTo(Interleaved, n, V, <<>>, H)
  <2>1. SUFFICES ASSUME NEW g \in [SUBSET (1..n) -> V], LeftFolds(g, n, <<>>, H)
        PROVE  \E h : FoldsIn(h, Interleaved, n, V, <<>>, H)
    BY DEF FoldsTo
  <2>2. \A s \in SUBSET (1..n) : s # {} => Max(s) \in 1..n /\ g[s \ {Max(s)}] \in V
    BY <1>1, LargestOf
  <2>3. g = [s \in SUBSET DOMAIN turns |->
               IF s = {} THEN <<>> ELSE Add(g[s \ {Max(s)}], turns[Max(s)])]
    <3> HIDE DEF Add
    <3>1. ASSUME NEW s \in SUBSET DOMAIN turns
          PROVE  g[s] = IF s = {} THEN <<>> ELSE Add(g[s \ {Max(s)}], turns[Max(s)])
      <4>1. s \in SUBSET (1..n)
        BY <1>3
      <4>2. g[s] = IF s = {} THEN <<>> ELSE H[<<g[s \ {Max(s)}], Max(s)>>]
        BY <2>1, <4>1 DEF LeftFolds
      <4> QED BY <1>6, <2>2, <4>1, <4>2
    <3>2. DOMAIN g = SUBSET DOMAIN turns /\ g = [s \in DOMAIN g |-> g[s]]
      BY <1>3, <2>1
    <3> QED BY <3>1, <3>2
  <2>4. Interleaved = FoldLeft(LAMBDA s, i : s \o Round(i), <<>>, turns)
    BY DEF Interleaved, Round, turns, n
  <2>5. PICK h : /\ h = [s \in SUBSET DOMAIN turns |->
                           IF s = {} THEN <<>> ELSE Add(h[s \ {Max(s)}], turns[Max(s)])]
                 /\ Interleaved = h[DOMAIN turns]
    BY <2>3, <2>4 DEF FoldLeft, MapThenFoldSet
  <2> HIDE DEF Add
  <2>6. \A s \in SUBSET (1..n) :
          h[s] = IF s = {} THEN <<>> ELSE Add(h[s \ {Max(s)}], turns[Max(s)])
    BY <1>3, <2>5
  <2>7. h[{}] = <<>> /\ Interleaved = h[1..n]
    BY <1>3, <2>5, <2>6
  <2>8. ASSUME NEW s \in SUBSET (1..n), s # {}, h[s \ {Max(s)}] \in V
        PROVE  h[s] = H[<<h[s \ {Max(s)}], Max(s)>>]
    BY <1>6, <2>2, <2>6, <2>8
  <2> QED BY <2>7, <2>8 DEF FoldsIn
<1>9. PICK r \in [0..n -> V] : IsRun(r, n, <<>>, H, Interleaved)
  BY <1>1, <1>5, <1>7, <1>8, LeftFoldRun
<1>10. n \in 0..n
  BY <1>1
<1> QED BY <1>9, <1>10 DEF IsRun, V
-----------------------------------------------------------------------------
FeedTypeOK ==
  /\ feed \in {"idle", "related", "home"} /\ advanced \in BOOLEAN
  /\ eligible \subseteq Videos /\ sinceStart \subseteq Videos /\ seed \in Videos
  /\ watches \in Seq(Videos)
  /\ streams \in Seq(Seq(sinceStart))
  /\ candidates = [v \in DOMAIN candidates |-> candidates[v]] /\ DOMAIN candidates \subseteq Videos
  /\ picks \in FitLists(sinceStart \ hidden)

\* A request is under way, and what is eligible now was so during it.
RequestRuns ==
  IF feed = "idle" THEN step = "none" ELSE eligible \subseteq sinceStart

\* Nothing hidden is a candidate; excludes are complete before anything is proposed.
HiddenIsOut ==
  /\ DOMAIN candidates \cap hidden = {}
  /\ step = "watched" => picks = <<>> /\ DOMAIN candidates = {}

\* Once their documents were read, candidates are eligible and have their channels.
CandidatesAreRead ==
  step \in {"explore", "compose"} =>
    /\ DOMAIN candidates \subseteq sinceStart
    /\ \A v \in DOMAIN candidates : candidates[v] = ChannelOf[v]
    /\ order \in Seq(DOMAIN candidates)

StreamsAreThere == step = "interleave" => streams # <<>>

FeedInv == FeedTypeOK /\ RequestRuns /\ HiddenIsOut /\ CandidatesAreRead /\ StreamsAreThere

LEMMA VideosAreFinite == IsFiniteSet(Videos)
<1>1. PopularOrder \in Seq(Videos) /\ ToSet(PopularOrder) = Videos
  BY RecommendationAssumption
<1>2. Len(PopularOrder) \in Nat /\ PopularOrder \in Surjection(1..Len(PopularOrder), Videos)
  BY <1>1, ListsHold DEF ToSet, Surjection
<1>3. QED
  BY <1>2, FS_Interval, FS_Surjection

\* A read step changes the next step, and one of picks, streams and candidates.
ReadKeeps ==
  /\ feed # "idle"
  /\ UNCHANGED <<catalogVars, feed, advanced, seed, order>>

LEMMA PickKeeps ==
  ASSUME FeedInv, ReadKeeps, NEW rows \in Seq(sinceStart), Pick(rows), UNCHANGED hidden,
         step' \notin {"watched", "explore", "compose", "interleave"}
  PROVE  FeedInv'
<1>1. picks' = Compose(picks, rows, ChannelOf, hidden)
      /\ UNCHANGED <<streams, candidates, hidden, eligible, watches, sinceStart, feed, advanced, seed>>
      /\ feed # "idle"
  BY DEF Pick, ReadKeeps, catalogVars
<1>2. picks' \in FitLists(sinceStart \ hidden)
  BY <1>1, ComposedIsFit DEF FeedInv, FeedTypeOK
<1>3. FeedTypeOK'
  BY <1>1, <1>2 DEF FeedInv, FeedTypeOK
<1>4. QED
  BY <1>1, <1>3 DEF FeedInv, RequestRuns, HiddenIsOut, CandidatesAreRead, StreamsAreThere

LEMMA StreamKeeps ==
  ASSUME FeedInv, ReadKeeps, NEW rows \in Seq(sinceStart), Stream(rows), UNCHANGED hidden,
         step' \notin {"watched", "explore", "compose"}
  PROVE  FeedInv'
<1>1. streams' = Append(streams, rows)
      /\ UNCHANGED <<picks, candidates, hidden, eligible, watches, sinceStart, feed, advanced, seed>>
      /\ feed # "idle"
  BY DEF Stream, ReadKeeps, catalogVars
<1>2. streams' \in Seq(Seq(sinceStart)) /\ streams' # <<>>
  BY <1>1 DEF FeedInv, FeedTypeOK
<1>3. FeedTypeOK'
  BY <1>1, <1>2 DEF FeedInv, FeedTypeOK
<1>4. QED
  BY <1>1, <1>2, <1>3 DEF FeedInv, RequestRuns, HiddenIsOut, CandidatesAreRead, StreamsAreThere

LEMMA CollectKeeps ==
  ASSUME FeedInv, ReadKeeps, NEW S \in SUBSET Videos, NEW channel, Collect(S, channel),
         UNCHANGED hidden, step' \notin {"watched", "explore", "compose", "interleave"}
  PROVE  FeedInv'
<1> DEFINE new == S \ (hidden \cup DOMAIN candidates)
<1>1. UNCHANGED <<picks, streams, eligible, watches, sinceStart, feed, advanced, seed>>
      /\ feed # "idle"
      /\ candidates' = [v \in DOMAIN candidates \cup new |->
                           IF v \in new THEN channel[v] ELSE candidates[v]]
  BY DEF Collect, WithCandidates, ReadKeeps, catalogVars
<1>2. /\ DOMAIN candidates' = DOMAIN candidates \cup new
      /\ candidates' = [v \in DOMAIN candidates' |-> candidates'[v]]
  <2> HIDE DEF new
  <2> QED BY <1>1
<1>3. DOMAIN candidates' \subseteq Videos /\ DOMAIN candidates' \cap hidden' = {}
  BY <1>2 DEF FeedInv, FeedTypeOK, HiddenIsOut
<1>4. picks' \in FitLists(sinceStart' \ hidden')
  BY <1>1 DEF FeedInv, FeedTypeOK
<1>5. FeedTypeOK'
  BY <1>1, <1>2, <1>3, <1>4 DEF FeedInv, FeedTypeOK
<1>6. QED
  BY <1>1, <1>3, <1>5 DEF FeedInv, RequestRuns, HiddenIsOut, CandidatesAreRead, StreamsAreThere

LEMMA EligibleRows ==
  ASSUME FeedInv, feed # "idle", NEW list \in {PopularOrder, RecentOrder, TrendingList},
         NEW S, S \subseteq eligible, NEW n \in Nat
  PROVE  /\ Rows(list, S, n) \in Seq(sinceStart) /\ Within(list, S) \in Seq(sinceStart)
         /\ ToSet(Rows(list, S, n)) \in SUBSET Videos
<1>1. S \subseteq sinceStart /\ sinceStart \subseteq Videos
  BY DEF FeedInv, RequestRuns, FeedTypeOK
<1>2. Rows(list, S, n) \in Seq(sinceStart) /\ Within(list, S) \in Seq(sinceStart)
  BY <1>1, RowsAre
<1>3. QED
  BY <1>1, <1>2, ListsHold

LEMMA Sizes ==
  /\ FeedLimit * 3 \in Nat /\ FeedLimit * 2 \in Nat /\ FeedLimit \in Nat
  /\ SameChannelCap \in Nat /\ WatchedLimit \in Nat
BY RecommendationAssumption

LEMMA RelatedReads ==
  ASSUME FeedInv, ReadNeighbors \/ ReadSameChannel \/ ReadOverlap
  PROVE  FeedInv'
<1>1. CASE ReadNeighbors
  <2>1. ReadKeeps /\ Collect(CoWatched[seed], Unlabelled) /\ UNCHANGED hidden
        /\ step' = "same channel"
    BY <1>1 DEF ReadNeighbors, Read, ReadKeeps
  <2>2. CoWatched[seed] \in SUBSET Videos
    BY RecommendationAssumption DEF FeedInv, FeedTypeOK
  <2>3. QED
    BY <2>1, <2>2, CollectKeeps
<1>2. CASE ReadSameChannel
  <2> DEFINE S == {v \in eligible : v # seed /\ ChannelOf[seed] # NoChannel
                                             /\ ChannelOf[v] = ChannelOf[seed]}
             rows == Rows(RecentOrder, S, SameChannelCap)
  <2>1. ReadKeeps /\ UNCHANGED hidden /\ step' = "overlap" /\ feed # "idle"
        /\ (Collect(ToSet(rows), ChannelOf) \/ Pick(rows))
    BY <1>2 DEF ReadSameChannel, Read, ReadKeeps
  <2>2. S \subseteq eligible
    OBVIOUS
  <2> HIDE DEF S
  <2>3. rows \in Seq(sinceStart) /\ ToSet(rows) \in SUBSET Videos
    BY <2>1, <2>2, EligibleRows, Sizes
  <2> HIDE DEF rows
  <2>4. QED
    BY <2>1, <2>3, CollectKeeps, PickKeeps
<1>3. CASE ReadOverlap
  <2> DEFINE S == (eligible \cap Similar[seed]) \ {seed}
             rows == Rows(PopularOrder, S, FeedLimit * 3)
             given == IF Full THEN <<>> ELSE rows
  <2>1. ReadKeeps /\ UNCHANGED hidden /\ step' \in {"session", "popular"} /\ feed # "idle"
        /\ (Collect(ToSet(rows), ChannelOf) \/ Pick(given))
    BY <1>3 DEF ReadOverlap, Read, ReadKeeps
  <2>2. S \subseteq eligible
    OBVIOUS
  <2> HIDE DEF S
  <2>3. rows \in Seq(sinceStart) /\ ToSet(rows) \in SUBSET Videos
    BY <2>1, <2>2, EligibleRows, Sizes
  <2>4. given \in Seq(sinceStart)
    BY <2>3
  <2> HIDE DEF rows, given
  <2>5. QED
    BY <2>1, <2>3, <2>4, CollectKeeps, PickKeeps
<1>4. QED
  BY <1>1, <1>2, <1>3

LEMMA WatchedRead ==
  ASSUME FeedInv, NEW personalized \in BOOLEAN, ReadWatched(personalized)
  PROVE  FeedInv'
<1>1. /\ step = "watched" /\ step' \in {"taste", "trending"} /\ feed # "idle"
      /\ UNCHANGED <<picks, streams, candidates, eligible, watches, sinceStart, feed, advanced, seed>>
  BY DEF ReadWatched, Read, catalogVars
<1>2. picks' \in FitLists(sinceStart' \ hidden')
  BY <1>1, FitListsGrow DEF FeedInv, HiddenIsOut
<1>3. FeedTypeOK'
  BY <1>1, <1>2 DEF FeedInv, FeedTypeOK
<1>4. DOMAIN candidates' \cap hidden' = {}
  BY <1>1 DEF FeedInv, HiddenIsOut
<1>5. QED
  BY <1>1, <1>3, <1>4 DEF FeedInv, RequestRuns, HiddenIsOut, CandidatesAreRead, StreamsAreThere

LEMMA TasteRead ==
  ASSUME FeedInv, ReadTaste PROVE FeedInv'
<1> DEFINE S == WatchedWith(ToSet(watches))
<1>1. ReadKeeps /\ Collect(S, Unlabelled) /\ UNCHANGED hidden /\ step' = "trending"
  BY DEF ReadTaste, Read, ReadKeeps
<1>2. S \in SUBSET Videos
  <2>1. ToSet(watches) \subseteq Videos
    BY ListsHold DEF FeedInv, FeedTypeOK
  <2>2. \A v \in ToSet(watches) : CoWatched[v] \in SUBSET Videos
    BY <2>1, RecommendationAssumption
  <2>3. QED
    BY <2>2 DEF WatchedWith
<1> HIDE DEF S
<1>3. QED
  BY <1>1, <1>2, CollectKeeps

LEMMA HomeReads ==
  ASSUME FeedInv, ReadRecent \/ ReadGravity \/ \E list \in {TrendingList, <<>>} : ReadTrending(list)
  PROVE  FeedInv'
<1>1. CASE ReadRecent
  <2> DEFINE rows == Rows(RecentOrder, eligible, FeedLimit * 2)
  <2>1. ReadKeeps /\ UNCHANGED hidden /\ step' = "popular" /\ feed # "idle"
        /\ (Collect(ToSet(rows), ChannelOf) \/ Stream(rows))
    BY <1>1 DEF ReadRecent, Read, ReadKeeps
  <2>2. rows \in Seq(sinceStart) /\ ToSet(rows) \in SUBSET Videos
    BY <2>1, EligibleRows, Sizes
  <2> HIDE DEF rows
  <2>3. QED
    BY <2>1, <2>2, CollectKeeps, StreamKeeps
<1>2. CASE ReadGravity
  <2> DEFINE rows == Rows(PopularOrder, eligible, FeedLimit * 2)
  <2>1. ReadKeeps /\ UNCHANGED hidden /\ step' = "recent" /\ feed # "idle"
        /\ (Collect(ToSet(rows), ChannelOf) \/ Collect({}, ChannelOf) \/ Stream(rows))
    BY <1>2 DEF ReadGravity, Read, ReadKeeps
  <2>2. rows \in Seq(sinceStart) /\ ToSet(rows) \in SUBSET Videos /\ {} \in SUBSET Videos
    BY <2>1, EligibleRows, Sizes
  <2> HIDE DEF rows
  <2>3. QED
    BY <2>1, <2>2, CollectKeeps, StreamKeeps
<1>3. ASSUME NEW list \in {TrendingList, <<>>}, ReadTrending(list) PROVE FeedInv'
  <2> DEFINE rows == Within(list, eligible)
  <2>1. /\ ReadKeeps /\ UNCHANGED hidden /\ feed # "idle"
        /\ \/ step' = "gravity" /\ UNCHANGED <<picks, streams, candidates>>
           \/ step' = "recent" /\ (Collect(ToSet(rows), ChannelOf) \/ Stream(rows))
    BY <1>3 DEF ReadTrending, Read, ReadKeeps
  <2>2. eligible \subseteq sinceStart /\ sinceStart \subseteq Videos
    BY <2>1 DEF FeedInv, RequestRuns, FeedTypeOK
  <2>3. rows \in Seq(sinceStart)
    <3>1. TrendingList \in Seq(Videos) /\ <<>> \in Seq(Videos)
      BY RecommendationAssumption
    <3>2. Within(list, eligible) \in Seq(eligible \cap Videos)
      BY <3>1, WithinLists
    <3>3. Seq(eligible \cap Videos) \subseteq Seq(sinceStart)
      BY <2>2
    <3>4. QED
      BY <3>2, <3>3
  <2>4. ToSet(rows) \in SUBSET Videos
    BY <2>2, <2>3, ListsHold
  <2>5. CASE step' = "gravity" /\ UNCHANGED <<picks, streams, candidates>>
    <3>1. UNCHANGED <<hidden, eligible, watches, sinceStart, feed, advanced, seed>> /\ feed # "idle"
      BY <2>1 DEF ReadKeeps, catalogVars
    <3>2. QED
      BY <2>5, <3>1 DEF FeedInv, FeedTypeOK, RequestRuns, HiddenIsOut, CandidatesAreRead,
           StreamsAreThere
  <2> HIDE DEF rows
  <2>6. QED
    BY <2>1, <2>3, <2>4, <2>5, CollectKeeps, StreamKeeps
<1>4. QED
  BY <1>1, <1>2, <1>3

LEMMA PopularRead ==
  ASSUME FeedInv, ReadPopular PROVE FeedInv'
<1>1. /\ ReadKeeps /\ UNCHANGED hidden /\ feed # "idle"
      /\ step' \in {"session", "features", "interleave", "done"}
      /\ \/ Collect(ToSet(PopularRows), ChannelOf) /\ step' # "interleave"
         \/ Stream(PopularRows)
         \/ Pick(PopularRows) /\ step' # "interleave"
  <2>1. feed \in {"home", "related"} /\ advanced \in BOOLEAN
    BY DEF ReadPopular, Read, FeedInv, FeedTypeOK
  <2>2. QED
    BY <2>1 DEF ReadPopular, Read, ReadKeeps
<1>2. PopularRows \in Seq(sinceStart)
  <2>1. Rows(PopularOrder, eligible, FeedLimit * 2) \in Seq(sinceStart)
    BY <1>1, EligibleRows, Sizes
  <2>2. Rows(PopularOrder, eligible \ (hidden \cup ToSet(picks)), FeedLimit) \in Seq(sinceStart)
    <3>1. eligible \ (hidden \cup ToSet(picks)) \subseteq eligible
      OBVIOUS
    <3>2. QED
      BY <1>1, <3>1, EligibleRows, Sizes
  <2>3. QED
    BY <2>1, <2>2 DEF PopularRows
<1>3. ToSet(PopularRows) \in SUBSET Videos
  BY <1>2, ListsHold DEF FeedInv, FeedTypeOK
<1>4. QED
  BY <1>1, <1>2, <1>3, CollectKeeps, StreamKeeps, PickKeeps

LEMMA SessionRead ==
  ASSUME FeedInv, NEW videos \in SUBSET Videos, ReadSession(videos) PROVE FeedInv'
<1> DEFINE S == WatchedWith(videos)
<1>1. ReadKeeps /\ Collect(S, Unlabelled) /\ UNCHANGED hidden
      /\ step' \in {"features", "popular"}
  BY DEF ReadSession, Read, ReadKeeps
<1>2. S \in SUBSET Videos
  <2>1. \A v \in videos : CoWatched[v] \in SUBSET Videos
    BY RecommendationAssumption
  <2>2. QED
    BY <2>1 DEF WatchedWith
<1> HIDE DEF S
<1>3. QED
  BY <1>1, <1>2, CollectKeeps

LEMMA StreamsComposed == ASSUME FeedInv, ComposeStreams PROVE FeedInv'
<1>1. ReadKeeps /\ Pick(Interleaved) /\ UNCHANGED hidden /\ step' = "done" /\ step = "interleave"
  BY DEF ComposeStreams, Read, ReadKeeps
<1>2. Interleaved \in Seq(sinceStart)
  BY <1>1, InterleavedIsTyped DEF FeedInv, FeedTypeOK, StreamsAreThere
<1>3. QED
  BY <1>1, <1>2, PickKeeps

LEMMA FeaturesRead == ASSUME FeedInv, ReadFeatures PROVE FeedInv'
<1> DEFINE found == {v \in DOMAIN candidates : Survives(v)}
<1>1. /\ step = "features" /\ step' \in {"done", "explore"}
      /\ candidates' = [v \in found |-> FeatureChannel(v)] /\ order' \in Reordered(found)
      /\ UNCHANGED <<catalogVars, feed, advanced, seed, hidden, streams, picks>>
  BY DEF ReadFeatures
<1>2. found \subseteq eligible /\ found \subseteq DOMAIN candidates /\ found \subseteq Videos
  BY DEF Survives, FeedInv, FeedTypeOK
<1> HIDE DEF found
<1>3. feed # "idle" /\ eligible \subseteq sinceStart
  BY <1>1 DEF FeedInv, RequestRuns
<1>4. DOMAIN candidates' = found /\ candidates' = [v \in DOMAIN candidates' |-> candidates'[v]]
      /\ \A v \in found : candidates'[v] = ChannelOf[v]
  BY <1>1 DEF FeatureChannel
<1>5. order' \in Seq(found)
  <2>1. Cardinality(found) \in Nat
    BY <1>2, VideosAreFinite, FS_Subset, FS_CardinalityType
  <2>2. order' \in [1..Cardinality(found) -> found]
    BY <1>1 DEF Reordered, SetToSeqs
  <2>3. QED
    BY <2>1, <2>2
<1>6. FeedTypeOK'
  BY <1>1, <1>2, <1>4 DEF FeedInv, FeedTypeOK, catalogVars
<1>7. RequestRuns' /\ HiddenIsOut' /\ StreamsAreThere'
  BY <1>1, <1>2, <1>3, <1>4 DEF FeedInv, RequestRuns, HiddenIsOut, StreamsAreThere, catalogVars
<1>8. CandidatesAreRead'
  BY <1>1, <1>2, <1>3, <1>4, <1>5 DEF CandidatesAreRead, catalogVars
<1>9. QED
  BY <1>6, <1>7, <1>8 DEF FeedInv

LEMMA Explored == ASSUME FeedInv, Explore PROVE FeedInv'
<1>1. /\ step = "explore" /\ step' = "compose"
      /\ UNCHANGED <<catalogVars, feed, advanced, seed, hidden, streams, picks>>
  BY DEF Explore
<1>2. feed # "idle" /\ eligible \subseteq sinceStart
  BY <1>1 DEF FeedInv, RequestRuns
<1>3. CASE UNCHANGED <<candidates, order>>
  BY <1>1, <1>2, <1>3 DEF FeedInv, FeedTypeOK, RequestRuns, HiddenIsOut, CandidatesAreRead,
       StreamsAreThere, catalogVars
<1>4. ASSUME NEW v \in ExplorationPool, NEW slot,
             slot = IF ExploreSlot < Len(order) THEN ExploreSlot ELSE Len(order),
             order' = InsertAt(order, slot + 1, v),
             candidates' = [w \in DOMAIN candidates \cup {v} |->
                               IF w = v THEN ChannelOf[v] ELSE candidates[w]]
      PROVE  FeedInv'
  <2>1. v \in eligible /\ v \notin hidden \cup DOMAIN candidates
    <3>1. Rows(RecentOrder, eligible \cap LowViews, FeedLimit * 2) \in Seq(eligible)
      BY RowsAre, Sizes
    <3>2. QED
      BY <3>1, ListsHold DEF ExplorationPool
  <2> DEFINE D == DOMAIN candidates \cup {v}
  <2>2. /\ DOMAIN candidates' = D /\ candidates' = [w \in DOMAIN candidates' |-> candidates'[w]]
        /\ \A w \in D : candidates'[w] = ChannelOf[w]
    BY <1>1, <1>4 DEF FeedInv, CandidatesAreRead
  <2>3. D \subseteq sinceStart /\ D \subseteq Videos /\ D \cap hidden = {}
    BY <1>1, <1>2, <2>1 DEF FeedInv, CandidatesAreRead, FeedTypeOK, HiddenIsOut
  <2>4. order' \in Seq(D)
    <3>1. order \in Seq(D) /\ v \in D
      BY <1>1 DEF FeedInv, CandidatesAreRead
    <3>2. Len(order) \in Nat /\ slot \in 0..Len(order)
      BY <1>4, <3>1, RecommendationAssumption
    <3> HIDE DEF D
    <3>3. \A a \in Nat : a <= Len(order) => SubSeq(order, 1, a) \in Seq(D)
      <4>1. ASSUME NEW a \in Nat, a <= Len(order) PROVE SubSeq(order, 1, a) \in Seq(D)
        <5>1. \A i \in 1..a : order[i] \in D
          BY <3>1, <3>2, <4>1
        <5>2. SubSeq(order, 1, a) = [i \in 1..a |-> order[i]]
          BY <4>1
        <5>3. QED
          BY <5>1, <5>2
      <4>2. QED
        BY <4>1
    <3>4. SubSeq(order, slot + 1, Len(order)) \in Seq(D)
      <4>1. \A i \in slot+1..Len(order) : order[i] \in D
        BY <3>1, <3>2
      <4>2. slot + 1 \in Int /\ \A i \in slot+1..Len(order) : i \in DOMAIN order
        BY <3>1, <3>2
      <4>3. QED
        BY <3>1, <3>2, <4>1, <4>2, SubSeqProperties
    <3>5. SubSeq(order, 1, (slot + 1) - 1) = SubSeq(order, 1, slot)
      BY <3>2
    <3>6. order' = SubSeq(order, 1, slot) \o <<v>> \o SubSeq(order, slot + 1, Len(order))
      BY <1>4, <3>5 DEF InsertAt
    <3>7. SubSeq(order, 1, slot) \in Seq(D) /\ <<v>> \in Seq(D)
      BY <3>1, <3>2, <3>3
    <3>8. QED
      BY <3>4, <3>6, <3>7, ConcatProperties
  <2> HIDE DEF D
  <2>5. FeedTypeOK'
    BY <1>1, <2>2, <2>3 DEF FeedInv, FeedTypeOK, catalogVars
  <2>6. RequestRuns' /\ HiddenIsOut' /\ StreamsAreThere'
    BY <1>1, <1>2, <2>2, <2>3 DEF FeedInv, RequestRuns, HiddenIsOut, StreamsAreThere, catalogVars
  <2>7. CandidatesAreRead'
    BY <1>1, <2>2, <2>3, <2>4 DEF CandidatesAreRead, catalogVars
  <2>8. QED
    BY <2>5, <2>6, <2>7 DEF FeedInv
<1>5. QED
  BY <1>3, <1>4 DEF Explore

LEMMA AdvancedComposed == ASSUME FeedInv, ComposeAdvanced PROVE FeedInv'
<1>1. /\ step = "compose" /\ step' = "done" /\ picks' = Compose(<<>>, order, candidates, {})
      /\ UNCHANGED <<catalogVars, feed, advanced, seed, hidden, streams, candidates, order>>
  BY DEF ComposeAdvanced
<1> DEFINE A == DOMAIN candidates
<1>2. A \subseteq sinceStart \ hidden /\ order \in Seq(A)
      /\ \A v \in A : candidates[v] = ChannelOf[v]
  BY <1>1 DEF FeedInv, CandidatesAreRead, HiddenIsOut
<1> HIDE DEF A
<1>3. picks' \in FitLists(A)
  <2>1. <<>> \in FitLists(A) /\ A \ {} \subseteq A /\ A \subseteq A
    BY FitListsGrow
  <2>2. QED
    BY <1>1, <1>2, <2>1, ComposedIsFit
<1>4. picks' \in FitLists(sinceStart \ hidden)
  BY <1>2, <1>3, FitListsGrow
<1>5. FeedTypeOK'
  BY <1>1, <1>4 DEF FeedInv, FeedTypeOK, catalogVars
<1>6. QED
  BY <1>1, <1>5 DEF FeedInv, RequestRuns, HiddenIsOut, CandidatesAreRead, StreamsAreThere,
       catalogVars

LEMMA NoStreamsAre == ASSUME NEW T PROVE <<>> \in Seq(Seq(T))
OBVIOUS

LEMMA NoCandidatesAre ==
  DOMAIN NoCandidates = {} /\ NoCandidates = [v \in DOMAIN NoCandidates |-> NoCandidates[v]]
BY DEF NoCandidates

LEMMA Begun ==
  ASSUME FeedInv, NEW kind \in {"related", "home"}, NEW how \in BOOLEAN, NEW v \in Videos,
         Begin(kind, how, v)
  PROVE  FeedInv'
<1>1. /\ feed' = kind /\ advanced' = how /\ seed' = v
      /\ step' \in {"neighbors", "same channel", "watched", "trending"}
      /\ hidden' \subseteq Videos
      /\ streams' = <<>> /\ candidates' = NoCandidates /\ picks' = <<>>
      /\ sinceStart' = eligible /\ UNCHANGED <<eligible, watches>>
  BY DEF Begin
<1>2. picks' \in FitLists(sinceStart' \ hidden')
  BY <1>1, FitListsGrow
<1>3. FeedTypeOK'
  BY <1>1, <1>2, NoStreamsAre, NoCandidatesAre DEF FeedInv, FeedTypeOK
<1>4. QED
  BY <1>1, <1>3, NoCandidatesAre
     DEF FeedInv, RequestRuns, HiddenIsOut, CandidatesAreRead, StreamsAreThere

LEMMA Finished == ASSUME FeedInv, Finish PROVE FeedInv'
<1>1. /\ feed' = "idle" /\ step' = "none" /\ hidden' = {}
      /\ streams' = <<>> /\ candidates' = NoCandidates /\ picks' = <<>>
      /\ UNCHANGED <<catalogVars, advanced, seed>>
  BY DEF Finish
<1>2. picks' \in FitLists(sinceStart' \ hidden')
  BY <1>1, FitListsGrow
<1>3. FeedTypeOK'
  BY <1>1, <1>2, NoStreamsAre, NoCandidatesAre DEF FeedInv, FeedTypeOK, catalogVars
<1>4. QED
  BY <1>1, <1>3, NoCandidatesAre
     DEF FeedInv, RequestRuns, HiddenIsOut, CandidatesAreRead, StreamsAreThere

LEMMA CatalogMoves ==
  ASSUME FeedInv, NEW v \in Videos, CatalogChanges(v) \/ CallerWatches(v) PROVE FeedInv'
<1>1. CASE CatalogChanges(v)
  <2>1. /\ eligible' \subseteq Videos
        /\ sinceStart' = IF feed = "idle" THEN sinceStart ELSE sinceStart \cup eligible'
        /\ UNCHANGED <<watches, feed, advanced, seed, step, hidden, streams, candidates, order, picks>>
    BY <1>1 DEF CatalogChanges, requestVars, FeedInv, FeedTypeOK
  <2>2. sinceStart \subseteq sinceStart' /\ sinceStart' \subseteq Videos
    BY <2>1 DEF FeedInv, FeedTypeOK
  <2>3. picks' \in FitLists(sinceStart' \ hidden')
    <3>1. sinceStart \ hidden \subseteq sinceStart' \ hidden
      BY <2>2
    <3>2. FitLists(sinceStart \ hidden) \subseteq FitLists(sinceStart' \ hidden)
      BY <3>1, FitListsGrow
    <3>3. QED
      BY <2>1, <3>2 DEF FeedInv, FeedTypeOK
  <2>4. streams' \in Seq(Seq(sinceStart'))
    <3>1. Seq(sinceStart) \subseteq Seq(sinceStart')
      BY <2>2
    <3>2. Seq(Seq(sinceStart)) \subseteq Seq(Seq(sinceStart'))
      BY <3>1
    <3>3. QED
      BY <2>1, <3>2 DEF FeedInv, FeedTypeOK
  <2>5. FeedTypeOK'
    BY <2>1, <2>2, <2>3, <2>4 DEF FeedInv, FeedTypeOK
  <2>6. QED
    BY <2>1, <2>2, <2>5 DEF FeedInv, RequestRuns, HiddenIsOut, CandidatesAreRead, StreamsAreThere
<1>2. CASE CallerWatches(v)
  <2>1. watches' = <<v>> \o Within(watches, Videos \ {v})
        /\ UNCHANGED <<eligible, sinceStart, feed, advanced, seed, step, hidden, streams,
                       candidates, order, picks>>
    BY <1>2 DEF CallerWatches, requestVars
  <2>2. Within(watches, Videos \ {v}) \in Seq(Videos)
    <3>1. Within(watches, Videos \ {v}) \in Seq((Videos \ {v}) \cap Videos)
      BY WithinLists DEF FeedInv, FeedTypeOK
    <3>2. Seq((Videos \ {v}) \cap Videos) \subseteq Seq(Videos)
      OBVIOUS
    <3>3. QED
      BY <3>1, <3>2
  <2>3. watches' \in Seq(Videos)
    <3>1. <<v>> \in Seq(Videos)
      OBVIOUS
    <3>2. QED
      BY <2>1, <2>2, <3>1, ConcatProperties
  <2>4. FeedTypeOK'
    BY <2>1, <2>3 DEF FeedInv, FeedTypeOK
  <2>5. QED
    BY <2>1, <2>4 DEF FeedInv, RequestRuns, HiddenIsOut, CandidatesAreRead, StreamsAreThere
<1>3. QED
  BY <1>1, <1>2

LEMMA FeedStarts == RecommendationInit => FeedInv
<1> SUFFICES ASSUME RecommendationInit PROVE FeedInv
  OBVIOUS
<1>1. picks \in FitLists(sinceStart \ hidden)
  BY FitListsGrow DEF RecommendationInit
<1>2. FeedTypeOK
  <2>1. <<>> \in Seq(Videos)
    OBVIOUS
  <2>2. QED
    BY <1>1, <2>1, NoStreamsAre, NoCandidatesAre DEF RecommendationInit, FeedTypeOK
<1>3. QED
  BY <1>2, NoCandidatesAre
     DEF RecommendationInit, FeedInv, RequestRuns, HiddenIsOut, CandidatesAreRead, StreamsAreThere

LEMMA FeedGoesOn == FeedInv /\ [RecommendationNext]_recommendationVars => FeedInv'
<1> SUFFICES ASSUME FeedInv, [RecommendationNext]_recommendationVars PROVE FeedInv'
  OBVIOUS
<1>1. CASE UNCHANGED recommendationVars
  BY <1>1 DEF recommendationVars, requestVars, FeedInv, FeedTypeOK, RequestRuns, HiddenIsOut,
       CandidatesAreRead, StreamsAreThere
<1>2. ASSUME NEW v \in Videos, ReadSession({v}) PROVE FeedInv'
  <2>1. {v} \in SUBSET Videos
    OBVIOUS
  <2>2. QED
    BY <1>2, <2>1, SessionRead
<1>3. CASE ReadSession({})
  <2>1. {} \in SUBSET Videos
    OBVIOUS
  <2>2. QED
    BY <1>3, <2>1, SessionRead
<1>4. QED
  BY <1>1, <1>2, <1>3, Begun, WatchedRead, TasteRead, CatalogMoves, RelatedReads,
     HomeReads, PopularRead,
     StreamsComposed, FeaturesRead, Explored, AdvancedComposed, Finished
     DEF RecommendationNext

(* However the catalog changes between the reads of a request, and whatever  *)
(* the stale lists name, a feed of any length, cap and catalog holds what was *)
(* eligible during its own request, without a repeat, a hidden video or too  *)
(* many of a channel (service.go, composer; advanced.go, composeAdvanced).   *)
THEOREM FeedsAreFit == RecommendationSpec => []FeedIsFit
<1>1. FeedInv => FeedIsFit
  <2> SUFFICES ASSUME FeedInv PROVE FeedIsFit
    OBVIOUS
  <2>1. picks \in Seq(sinceStart \ hidden) /\ Spread(picks)
    BY DEF FeedInv, FeedTypeOK, FitLists
  <2>2. ToSet(picks) \subseteq sinceStart \ hidden
    BY <2>1, ListsHold
  <2>3. QED
    BY <2>1, <2>2 DEF FeedIsFit, FeedWasEligible, FeedIsSpread, FeedHidesSeen, Spread
<1>2. QED
  BY <1>1, FeedStarts, FeedGoesOn, PTL DEF RecommendationSpec
=============================================================================
