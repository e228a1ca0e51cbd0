---------------------------- MODULE StartupProofs ----------------------------
(***************************************************************************)
(* The properties of Startup for every set of replicas and of settings and *)
(* any number of starts.                                                   *)
(***************************************************************************)
EXTENDS Startup, TLAPS

(* What is true of a serving replica depends only on its own position and  *)
(* settings and on the committed schema.                                   *)
LEMMA ServingPreserved ==
    ASSUME StartupInv,
           schema' = schema \/ schema' = Complete,
           \A r \in Replicas :
              phase'[r] = "serving" =>
                 phase[r] = "serving" /\ env'[r] = env[r] /\ ready'[r] = ready[r]
    PROVE  GuardsStand' /\ ProductionPosture'
<1>1. GuardsStand'
  BY DEF StartupInv, GuardsStand, AnswersFromDatabase
<1>2. ProductionPosture'
  BY DEF StartupInv, ProductionPosture, production_ready
<1> QED BY <1>1, <1>2

(* A fresh start touches only the replica that was down.                   *)
LEMMA BootPreserves ==
    ASSUME StartupInv, NEW r \in Replicas, NEW e \in Settings, Boot(r, e)
    PROVE  StartupInv'
<1>1. TypeOK'
  BY StartupAssumption DEF StartupInv, TypeOK, Boot, Phases
<1>2. GuardsStand' /\ ProductionPosture'
  BY ServingPreserved DEF StartupInv, TypeOK, Boot
<1>3. \A q \in Replicas : phase'[q] = "applying" <=> phase[q] = "applying"
  BY DEF StartupInv, TypeOK, Boot
<1> QED BY <1>1, <1>2, <1>3 DEF StartupInv, Boot

(* Connecting decides whether to migrate.                                  *)
LEMMA ConnectPreserves ==
    ASSUME StartupInv, NEW r \in Replicas, Connect(r)
    PROVE  StartupInv'
<1>1. TypeOK'
  BY DEF StartupInv, TypeOK, Connect, Phases
<1>2. GuardsStand' /\ ProductionPosture'
  BY ServingPreserved DEF StartupInv, TypeOK, Connect
<1>3. \A q \in Replicas : phase'[q] = "applying" <=> phase[q] = "applying"
  BY DEF StartupInv, TypeOK, Connect
<1> QED BY <1>1, <1>2, <1>3 DEF StartupInv, Connect

(* The lock was free, so nobody else is applying migrations.               *)
LEMMA BeginPreserves ==
    ASSUME StartupInv, NEW r \in Replicas, BeginMigration(r)
    PROVE  StartupInv'
<1>1. TypeOK'
  BY DEF StartupInv, TypeOK, BeginMigration, Phases, FirstMigration, LastMigration
<1>2. GuardsStand' /\ ProductionPosture'
  BY ServingPreserved DEF StartupInv, TypeOK, BeginMigration
<1>3. \A q \in Replicas : phase'[q] = "applying" <=> lock' = q
  BY StartupAssumption DEF StartupInv, TypeOK, BeginMigration
<1>4. ASSUME NEW q \in Replicas, phase'[q] = "applying"
      PROVE  next'[q] - 1 <= staged'[q].installed /\ (next'[q] > 6 => staged'[q].evidence = 6)
  <2>1. q = r
    BY <1>3, <1>4 DEF BeginMigration
  <2>2. next'[q] = 2 /\ staged'[q] = schema
    BY <2>1 DEF StartupInv, TypeOK, BeginMigration, FirstMigration
  <2>3. schema.installed \in 1..7
    BY DEF StartupInv, TypeOK, Schemas, LastMigration
  <2> QED BY <2>2, <2>3
<1> QED BY <1>1, <1>2, <1>3, <1>4 DEF StartupInv, BeginMigration, Evidence

(* A migration changes only what its own transaction sees.                 *)
LEMMA ApplyPreserves ==
    ASSUME StartupInv, NEW r \in Replicas, ApplyMigration(r)
    PROVE  StartupInv'
<1>1. /\ staged[r].installed \in 1..7 /\ staged[r].evidence \in {0, 5, 6}
      /\ next[r] \in 2..7
  BY DEF StartupInv, TypeOK, ApplyMigration, Schemas, FirstMigration, LastMigration
<1>2. Applied(staged[r], next[r]) \in Schemas
  BY <1>1 DEF Applied, Schemas, LastMigration
<1>3. TypeOK'
  BY <1>1, <1>2 DEF StartupInv, TypeOK, ApplyMigration, FirstMigration, LastMigration
<1>4. GuardsStand' /\ ProductionPosture'
  BY ServingPreserved DEF ApplyMigration
<1>5. ASSUME NEW q \in Replicas, phase'[q] = "applying"
      PROVE  next'[q] - 1 <= staged'[q].installed /\ (next'[q] > 6 => staged'[q].evidence = 6)
  <2>1. q = r
    BY <1>5, StartupAssumption DEF StartupInv, ApplyMigration
  <2>2. next'[q] = next[r] + 1 /\ staged'[q] = Applied(staged[r], next[r])
    BY <2>1 DEF StartupInv, TypeOK, ApplyMigration
  <2>3. next[r] > 6 => staged[r].evidence = 6
    BY DEF StartupInv, ApplyMigration
  <2> QED BY <1>1, <2>2, <2>3 DEF Applied
<1> QED BY <1>3, <1>4, <1>5 DEF StartupInv, ApplyMigration, Evidence

(* What a replica commits is the complete schema.                          *)
LEMMA CommitCompletes ==
    ASSUME StartupInv, NEW r \in Replicas, CommitMigrations(r)
    PROVE  schema' = Complete
<1>1. staged[r] \in Schemas /\ next[r] = 8
  BY DEF StartupInv, TypeOK, CommitMigrations, FirstMigration, LastMigration
<1>2. staged[r].installed = 7 /\ staged[r].evidence = 6
  BY <1>1 DEF StartupInv, CommitMigrations, Schemas, LastMigration
<1>3. staged[r] = Complete
  BY <1>1, <1>2 DEF Schemas, Complete, LastMigration
<1> QED BY <1>3 DEF CommitMigrations

(* The commit keeps every serving replica on a complete schema.            *)
LEMMA CommitPreserves ==
    ASSUME StartupInv, NEW r \in Replicas, CommitMigrations(r)
    PROVE  StartupInv'
<1>1. schema' = Complete
  BY CommitCompletes
<1>2. Complete \in Schemas /\ Complete.evidence = Evidence(Complete.installed)
  BY DEF Complete, Schemas, Evidence, LastMigration
<1>3. TypeOK'
  BY <1>1, <1>2 DEF StartupInv, TypeOK, CommitMigrations, Phases
<1>4. GuardsStand' /\ ProductionPosture'
  BY <1>1, ServingPreserved DEF StartupInv, TypeOK, CommitMigrations
<1>5. lock = r /\ lock' = NoReplica
  BY DEF StartupInv, CommitMigrations
<1>6. \A q \in Replicas : phase'[q] # "applying"
  BY <1>5 DEF StartupInv, TypeOK, CommitMigrations
<1> QED BY <1>1, <1>2, <1>3, <1>4, <1>5, <1>6, StartupAssumption DEF StartupInv, Evidence

(***************************************************************************)
(* schema_ready is true of complete schemas only, because the trigger of   *)
(* 007 is among its conditions and the guard follows the schema.           *)
(***************************************************************************)
LEMMA ReadyMeansComplete ==
    ASSUME StartupInv, NEW e \in Environment, schema_ready(e)
    PROVE  schema = Complete
<1>1. schema \in Schemas /\ schema.installed = 7
  BY DEF StartupInv, TypeOK, schema_ready, Schemas, LastMigration
<1>2. schema.evidence = 6
  BY <1>1 DEF StartupInv, Evidence
<1> QED BY <1>1, <1>2 DEF Schemas, Complete, LastMigration

(* The startup decision lets a replica serve only what the policy allows.  *)
LEMMA VerifyPreserves ==
    ASSUME StartupInv, NEW r \in Replicas, Verify(r)
    PROVE  StartupInv'
<1>1. env[r] \in Environment
  BY StartupAssumption DEF StartupInv, TypeOK
<1>2. schema_ready(env[r]) \in BOOLEAN
  BY DEF schema_ready
<1>3. TypeOK'
  BY <1>2 DEF StartupInv, TypeOK, Verify, Phases
<1>4. /\ ready'[r] = schema_ready(env[r])
      /\ phase'[r] = "serving" => validate_startup_policy(env[r], schema_ready(env[r]))
      /\ env' = env /\ schema' = schema
      /\ \A q \in Replicas \ {r} : phase'[q] = phase[q] /\ ready'[q] = ready[q]
  BY <1>2 DEF StartupInv, TypeOK, Verify
<1>5. GuardsStand'
  BY <1>1, <1>4, ReadyMeansComplete DEF StartupInv, GuardsStand, AnswersFromDatabase
<1>6. ProductionPosture'
  BY <1>1, <1>4, ReadyMeansComplete
     DEF StartupInv, ProductionPosture, production_ready, validate_startup_policy
<1>7. \A q \in Replicas : phase'[q] = "applying" <=> phase[q] = "applying"
  BY DEF StartupInv, TypeOK, Verify
<1> QED BY <1>3, <1>5, <1>6, <1>7 DEF StartupInv, Verify

(* A failure drops what was staged and frees the lock.                     *)
LEMMA FailPreserves ==
    ASSUME StartupInv, NEW r \in Replicas, Fail(r)
    PROVE  StartupInv'
<1>1. TypeOK'
  BY DEF StartupInv, TypeOK, Fail, Phases
<1>2. GuardsStand' /\ ProductionPosture'
  BY ServingPreserved DEF StartupInv, TypeOK, Fail
<1>3. \A q \in Replicas : phase'[q] = "applying" <=> lock' = q
  BY StartupAssumption DEF StartupInv, TypeOK, Fail
<1>4. \A q \in Replicas : phase'[q] = "applying" => phase[q] = "applying"
  BY DEF StartupInv, TypeOK, Fail
<1> QED BY <1>1, <1>2, <1>3, <1>4 DEF StartupInv, Fail

(* The deployment job runs while nobody serves from the database.          *)
LEMMA JobPreserves ==
    ASSUME StartupInv, DeployJob
    PROVE  StartupInv'
<1>1. schema \in Schemas /\ schema.installed \in 1..6
  BY DEF StartupInv, TypeOK, DeployJob, Schemas, LastMigration
<1>2. schema' = Applied(schema, schema.installed + 1)
  BY DEF DeployJob
<1>3. /\ schema'.installed = schema.installed + 1
      /\ schema'.evidence = Evidence(schema.installed + 1)
      /\ schema' \in Schemas
  BY <1>1, <1>2 DEF StartupInv, Applied, Evidence, Schemas, LastMigration
<1>4. schema # Complete
  BY <1>1 DEF Complete, LastMigration
<1>5. TypeOK'
  BY <1>3 DEF StartupInv, TypeOK, DeployJob
<1>6. GuardsStand' /\ ProductionPosture'
  BY <1>4 DEF StartupInv, DeployJob, GuardsStand, AnswersFromDatabase, ProductionPosture,
              production_ready
<1>7. \A q \in Replicas : phase'[q] # "applying" /\ lock' = lock /\ phase' = phase
  BY StartupAssumption DEF StartupInv, DeployJob
<1> QED BY <1>3, <1>5, <1>6, <1>7 DEF StartupInv, DeployJob, Evidence

(***************************************************************************)
(* The inductive invariant: position, lock, staged and committed schema    *)
(* agree in every reachable state of any number of replicas.               *)
(***************************************************************************)
THEOREM StartupInvariance == Spec => []StartupInv
<1>1. Init => StartupInv
  <2> SUFFICES ASSUME Init PROVE StartupInv
    OBVIOUS
  <2>1. schema \in Schemas /\ schema.evidence = Evidence(schema.installed)
    BY DEF Init, Schemas, Evidence, LastMigration
  <2>2. TypeOK
    BY <2>1, StartupAssumption DEF Init, TypeOK, Phases, FirstMigration, LastMigration
  <2> QED BY <2>1, <2>2, StartupAssumption
          DEF Init, StartupInv, GuardsStand, AnswersFromDatabase, ProductionPosture
<1>2. StartupInv /\ [Next]_vars => StartupInv'
  <2> SUFFICES ASSUME StartupInv, [Next]_vars PROVE StartupInv'
    OBVIOUS
  <2>1. CASE \E r \in Replicas, e \in Settings : Boot(r, e)
    BY <2>1, BootPreserves
  <2>2. CASE \E r \in Replicas : Advance(r)
    BY <2>2, ConnectPreserves, BeginPreserves, ApplyPreserves, CommitPreserves, VerifyPreserves
       DEF Advance
  <2>3. CASE \E r \in Replicas : Fail(r)
    BY <2>3, FailPreserves
  <2>4. CASE DeployJob
    BY <2>4, JobPreserves
  <2>5. CASE UNCHANGED vars
    BY <2>5 DEF vars, StartupInv, TypeOK, GuardsStand, AnswersFromDatabase, ProductionPosture,
               production_ready, Evidence
  <2> QED BY <2>1, <2>2, <2>3, <2>4, <2>5 DEF Next
<1> QED BY <1>1, <1>2, PTL DEF Spec

(***************************************************************************)
(* While a replica answers from the database, every migration is in force, *)
(* although schema_ready was read once and others migrate meanwhile.       *)
(***************************************************************************)
THEOREM Guarded == Spec => []GuardsStand
<1>1. StartupInv => GuardsStand
  BY DEF StartupInv
<1> QED BY <1>1, StartupInvariance, PTL

(* Whatever the settings, a serving production replica is production ready.*)
THEOREM Posture == Spec => []ProductionPosture
<1>1. StartupInv => ProductionPosture
  BY DEF StartupInv
<1> QED BY <1>1, StartupInvariance, PTL

(* The advisory lock of migrate_all admits one migrating replica at a time.*)
THEOREM MigratorsExclude == Spec => []OneMigrator
<1>1. StartupInv => OneMigrator
  BY DEF StartupInv, OneMigrator
<1> QED BY <1>1, StartupInvariance, PTL

(***************************************************************************)
(* No step of a replica or of the deployment job takes a migration back or *)
(* reinstates the weaker evidence guard.                                   *)
(***************************************************************************)
THEOREM Advancing == Spec => SchemaAdvances
<1>1. StartupInv /\ [Next]_vars
        => [schema'.installed >= schema.installed /\ schema'.evidence >= schema.evidence]_vars
  <2> SUFFICES ASSUME StartupInv, [Next]_vars
               PROVE  schema'.installed >= schema.installed /\ schema'.evidence >= schema.evidence
    OBVIOUS
  <2>1. schema.installed \in 1..7 /\ schema.evidence \in {0, 5, 6}
    BY DEF StartupInv, TypeOK, Schemas, LastMigration
  <2>2. CASE schema' = schema
    BY <2>1, <2>2
  <2>3. CASE schema' = Complete
    BY <2>1, <2>3 DEF Complete, LastMigration
  <2>4. CASE DeployJob
    BY <2>1, <2>4 DEF StartupInv, DeployJob, Applied, Evidence, LastMigration
  <2>5. schema' = schema \/ schema' = Complete \/ DeployJob
    <3>1. \A r \in Replicas : CommitMigrations(r) => schema' = Complete
      BY CommitCompletes
    <3> QED BY <3>1 DEF Next, Boot, Advance, Connect, BeginMigration, ApplyMigration, Verify,
                        Fail, vars
  <2> QED BY <2>2, <2>3, <2>4, <2>5
<1> QED BY <1>1, StartupInvariance, PTL DEF Spec, SchemaAdvances
=============================================================================
