------------------------------- MODULE Startup -------------------------------
(***************************************************************************)
(* Startup of the API: main and validate_startup_policy                    *)
(* (src/server_runtime.rs), migrate_all and schema_ready                   *)
(* (src/migrations.rs), AuthConfig::from_env (src/auth_runtime.rs).        *)
(*                                                                         *)
(* Replicas start, fail and are started again, with other settings,        *)
(* against one database.  Every migration can be applied again.  What a    *)
(* second application changes is the function behind the trigger           *)
(* eal_match_candidates_evidence_immutable: 005 installs a version that    *)
(* does not protect the columns of 006, and 006 replaces it.               *)
(***************************************************************************)
EXTENDS Naturals

CONSTANTS
    Replicas,
    Settings,    \* the environments a replica may be started with
    NoReplica,   \* nobody holds the migration lock
    MaxBoots     \* bound on the number of starts

FirstMigration == 2
LastMigration == 7

(* What the environment configures.  auth: complete JWT settings, only     *)
(* ALLOW_INSECURE_TENANT_HEADER, or neither.                               *)
Environment ==
    [production : BOOLEAN, auth : {"jwt", "headers", "none"}, database : BOOLEAN,
     migrate : BOOLEAN, ingest : BOOLEAN, origins : BOOLEAN]

ASSUME StartupAssumption ==
    /\ Settings \subseteq Environment
    /\ NoReplica \notin Replicas
    /\ MaxBoots \in Nat

(* The last migration applied (1: none) and the migration whose version of *)
(* eal_reject_match_evidence_mutation is in force (0: none).               *)
Schemas == [installed : 1..LastMigration, evidence : {0, 5, 6}]
Complete == [installed |-> LastMigration, evidence |-> 6]

Phases == {"down", "configured", "connected", "applying", "verifying", "serving"}

VARIABLES
    schema,     \* the committed schema
    lock,       \* holder of the advisory lock of migrate_all
    phase,      \* phase[r]: where main is in replica r
    env,        \* env[r]: the settings r was started with
    next,       \* next[r]: the migration r applies next
    staged,     \* staged[r]: the schema as the transaction of r sees it
    ready,      \* ready[r]: AppState.schema_ready
    boots       \* starts so far

vars == <<schema, lock, phase, env, next, staged, ready, boots>>

(* Settings, phases and schemas are what the code and the SQL allow.       *)
TypeOK ==
    /\ schema \in Schemas
    /\ lock \in Replicas \cup {NoReplica}
    /\ phase \in [Replicas -> Phases]
    /\ env \in [Replicas -> Settings]
    /\ next \in [Replicas -> FirstMigration..LastMigration + 1]
    /\ staged \in [Replicas -> Schemas]
    /\ ready \in [Replicas -> BOOLEAN]
    /\ boots \in 0..MaxBoots

(* A database left by an earlier release, or an empty one.                 *)
Evidence(m) == IF m < 5 THEN 0 ELSE IF m = 5 THEN 5 ELSE 6

Init ==
    /\ schema \in {[installed |-> m, evidence |-> Evidence(m)] : m \in 1..LastMigration}
    /\ lock = NoReplica
    /\ phase = [r \in Replicas |-> "down"]
    /\ env \in {[r \in Replicas |-> e] : e \in Settings}
    /\ next = [r \in Replicas |-> FirstMigration]
    /\ staged = [r \in Replicas |-> schema]
    /\ ready = [r \in Replicas |-> FALSE]
    /\ boots = 0

-----------------------------------------------------------------------------
(* from_env: without JWT settings only the development headers, and those  *)
(* never in production.                                                    *)
from_env(e) == e.auth = "jwt" \/ (e.auth = "headers" /\ ~e.production)

(* main reads APP_ENV and the authentication settings; an error exits.     *)
Boot(r, e) ==
    /\ phase[r] = "down" /\ boots < MaxBoots
    /\ boots' = boots + 1
    /\ env' = [env EXCEPT ![r] = e]
    /\ phase' = [phase EXCEPT ![r] = IF from_env(e) THEN "configured" ELSE "down"]
    /\ ready' = [ready EXCEPT ![r] = FALSE]
    /\ UNCHANGED <<schema, lock, next, staged>>

(* Database::connect, and the choice to migrate.                           *)
Connect(r) ==
    /\ phase[r] = "configured"
    /\ phase' = [phase EXCEPT ![r] =
          CASE env[r].migrate /\ ~env[r].database -> "down"
            [] env[r].migrate /\ env[r].database -> "connected"
            [] OTHER -> "verifying"]
    /\ UNCHANGED <<schema, lock, env, next, staged, ready, boots>>

(* migrate_all: begin, then pg_advisory_xact_lock.                         *)
BeginMigration(r) ==
    /\ phase[r] = "connected" /\ lock = NoReplica
    /\ lock' = r
    /\ phase' = [phase EXCEPT ![r] = "applying"]
    /\ next' = [next EXCEPT ![r] = FirstMigration]
    /\ staged' = [staged EXCEPT ![r] = schema]
    /\ UNCHANGED <<schema, env, ready, boots>>

(* What migration m makes of schema s.                                     *)
Applied(s, m) ==
    [installed |-> IF m > s.installed THEN m ELSE s.installed,
     evidence |-> IF m \in {5, 6} THEN m ELSE s.evidence]

(* Mutant: every migration is executed on the pool, not in the transaction.*)
ApplyMigration_Autocommits(r) ==
    /\ phase[r] = "applying" /\ next[r] <= LastMigration
    /\ schema' = Applied(schema, next[r])
    /\ staged' = [staged EXCEPT ![r] = schema']
    /\ next' = [next EXCEPT ![r] = @ + 1]
    /\ UNCHANGED <<lock, phase, env, ready, boots>>

(* One execute_unprepared of migrate_all.                                  *)
ApplyMigration(r) ==
    /\ phase[r] = "applying" /\ next[r] <= LastMigration
    /\ staged' = [staged EXCEPT ![r] = Applied(@, next[r])]
    /\ next' = [next EXCEPT ![r] = @ + 1]
    /\ UNCHANGED <<schema, lock, phase, env, ready, boots>>

(* The commit makes the schema visible and ends the lock.                  *)
CommitMigrations(r) ==
    /\ phase[r] = "applying" /\ next[r] > LastMigration
    /\ schema' = staged[r]
    /\ lock' = IF lock = r THEN NoReplica ELSE lock
    /\ phase' = [phase EXCEPT ![r] = "verifying"]
    /\ UNCHANGED <<env, next, staged, ready, boots>>

(***************************************************************************)
(* schema_ready.  Each migration has a table, column or trigger among the  *)
(* conditions; the last one is the trigger of 007.  The cast of            *)
(* eal_match_candidates to regclass is an error when 002 is missing.       *)
(***************************************************************************)
SchemaError(e) == e.database /\ schema.installed < FirstMigration

(* Mutant: the conditions stop at the columns of 006.                      *)
schema_ready_Columns(e) == e.database /\ schema.installed >= 6

schema_ready(e) == e.database /\ schema.installed >= 7

(* Mutant: crawler authentication is not required.                         *)
validate_startup_policy_Open(e, ready_now) ==
    ~e.production \/ (e.database /\ ready_now /\ e.auth = "jwt")

validate_startup_policy(e, ready_now) ==
    ~e.production \/ (e.database /\ ready_now /\ e.auth = "jwt" /\ e.ingest)

(* configured_origins: defaults outside production only.                   *)
configured_origins(e) == e.origins \/ ~e.production

(* schema_ready is read once; policy, origins and the listener follow.     *)
Verify(r) ==
    /\ phase[r] = "verifying"
    /\ ready' = [ready EXCEPT ![r] = schema_ready(env[r])]
    /\ phase' = [phase EXCEPT ![r] =
          IF /\ ~SchemaError(env[r])
             /\ validate_startup_policy(env[r], schema_ready(env[r]))
             /\ configured_origins(env[r])
          THEN "serving" ELSE "down"]
    /\ UNCHANGED <<schema, lock, env, next, staged, boots>>

(* Mutant: the lock belongs to a session of the pool and outlives the      *)
(* transaction.                                                            *)
Fail_KeepsLock(r) ==
    /\ phase[r] # "down"
    /\ phase' = [phase EXCEPT ![r] = "down"]
    /\ UNCHANGED <<schema, lock, env, next, staged, ready, boots>>

(* The connection, a statement or the listener fails, the process crashes  *)
(* or is stopped.  An open transaction is rolled back.                     *)
Fail(r) ==
    /\ phase[r] # "down"
    /\ phase' = [phase EXCEPT ![r] = "down"]
    /\ lock' = IF lock = r THEN NoReplica ELSE lock
    /\ UNCHANGED <<schema, env, next, staged, ready, boots>>

(* External: the deployment job applies the next migration on its own,     *)
(* while no replica migrates.                                              *)
DeployJob ==
    /\ lock = NoReplica /\ schema.installed < LastMigration
    /\ schema' = Applied(schema, schema.installed + 1)
    /\ UNCHANGED <<lock, phase, env, next, staged, ready, boots>>

Advance(r) ==
    Connect(r) \/ BeginMigration(r) \/ ApplyMigration(r) \/ CommitMigrations(r) \/ Verify(r)

Next ==
    \/ \E r \in Replicas : (\E e \in Settings : Boot(r, e)) \/ Advance(r) \/ Fail(r)
    \/ DeployJob

Spec == Init /\ [][Next]_vars

(***************************************************************************)
(* main is one sequence of awaits that the runtime resumes, and PostgreSQL *)
(* grants a lock that stays free to a waiter.                              *)
(***************************************************************************)
FairSpec == Spec /\ \A r \in Replicas : WF_vars(Advance(r))

-----------------------------------------------------------------------------
(* health: what production_ready reports.                                  *)
production_ready(r) == env[r].database /\ ready[r] /\ env[r].auth = "jwt" /\ env[r].ingest

(* require_database lets requests of replica r through to the database.    *)
AnswersFromDatabase(r) == phase[r] = "serving" /\ ready[r] /\ env[r].database

(***************************************************************************)
(* The cached schema_ready never becomes a lie: while a replica answers    *)
(* requests from the database every migration is in force, the active      *)
(* limit and the full evidence guard included, also while another replica  *)
(* applies the migrations again, fails half way or is rolled back.         *)
(***************************************************************************)
GuardsStand == \A r \in Replicas : AnswersFromDatabase(r) => schema = Complete

(***************************************************************************)
(* A production replica that serves has durable storage with the complete  *)
(* schema, verified identities and authenticated ingestion, and reports    *)
(* itself as production ready (server_runtime.rs, validate_startup_policy).*)
(***************************************************************************)
ProductionPosture ==
    \A r \in Replicas : phase[r] = "serving" /\ env[r].production =>
        schema = Complete /\ production_ready(r)

(***************************************************************************)
(* Only one replica migrates at a time, from the committed schema:         *)
(* concurrent CREATE ... IF NOT EXISTS of the same objects fail in         *)
(* PostgreSQL (README.md, Database).                                       *)
(***************************************************************************)
OneMigrator ==
    \A r, q \in Replicas : phase[r] = "applying" /\ phase[q] = "applying" => r = q

(***************************************************************************)
(* The strengthening that makes GuardsStand and ProductionPosture          *)
(* inductive: the lock follows the position, the guard in force is that of *)
(* the schema, and a transaction about to commit has the complete schema.  *)
(***************************************************************************)
StartupInv ==
    /\ TypeOK
    /\ \A r \in Replicas : phase[r] = "applying" <=> lock = r
    /\ schema.evidence = Evidence(schema.installed)
    /\ \A r \in Replicas : phase[r] = "applying" =>
          /\ next[r] - 1 <= staged[r].installed
          /\ next[r] > 6 => staged[r].evidence = 6
    /\ GuardsStand
    /\ ProductionPosture

(***************************************************************************)
(* The committed schema only advances: no step removes a migration or      *)
(* brings back the weaker evidence guard of 005.                           *)
(***************************************************************************)
SchemaAdvances ==
    [][schema'.installed >= schema.installed /\ schema'.evidence >= schema.evidence]_vars

(***************************************************************************)
(* Every start is decided: it serves or exits.  A replica never waits for  *)
(* ever for the migration lock, whoever failed while holding it.           *)
(***************************************************************************)
EveryStartDecides ==
    \A r \in Replicas : phase[r] = "configured" ~> phase[r] \in {"serving", "down"}
=============================================================================
