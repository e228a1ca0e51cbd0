----------------------------- MODULE AlertRules -----------------------------
(***************************************************************************)
(* Durable alert rules: src/alert_store.rs, the create handler of          *)
(* src/server_routes.rs and the ten-active-rules trigger of                *)
(* migrations/007_active_alert_limit.sql, under PostgreSQL READ COMMITTED. *)
(*                                                                         *)
(* A transaction is a request of POST /api/v1/records (a member of         *)
(* Requests) or the transaction of some other client of the database that  *)
(* re-points the active revision of an existing rule (a member of          *)
(* Clients; the tests contain such clients, src/ does not).  Every         *)
(* identifier is a fresh UUID, so the rule a request creates is named by   *)
(* the request and the revision a transaction writes by the transaction.   *)
(*                                                                         *)
(* The tables hold what is committed.  What a transaction has written and  *)
(* not yet committed is in staged[t]: only t sees it, commit installs it,  *)
(* rollback forgets it.                                                    *)
(***************************************************************************)
EXTENDS Naturals, FiniteSets

CONSTANTS
    Requests,   \* create requests
    Clients,    \* transactions of other database clients
    Owners,     \* pairs <<tenant, subject>>
    OwnerOf,    \* the authenticated tenant and subject of each request
    Keys,       \* 64-bit advisory lock keys
    LockKey,    \* hashtextextended of tenant:owner, possibly colliding
    Limit,      \* enabled active rules an owner may have (ten)
    PoolSize,   \* connections of the API's pool
    None        \* SQL NULL, and "no transaction"

Txns == Requests \cup Clients

ASSUME ConstantsAssumption ==
    /\ Requests \cap Clients = {}
    /\ None \notin Txns
    /\ OwnerOf \in [Requests -> Owners]
    /\ LockKey \in [Owners -> Keys]
    /\ Limit \in Nat
    /\ PoolSize \in Nat \ {0}

VARIABLES
    input,      \* input[t]: what transaction t was asked for
    pc,         \* pc[t]: how far transaction t has come
    staged,     \* staged[t]: the uncommitted writes of t
    rules,      \* committed rows of eal_alert_rules
    revisions,  \* committed rows of eal_alert_rule_revisions
    active,     \* committed eal_alert_rules.active_revision_id
    lock,       \* holder of each advisory transaction lock
    found,      \* found[t]: what create_alert_rule's read-back returned
    events      \* rules for which alert_rule.created was published

vars == <<input, pc, staged, rules, revisions, active, lock, found, events>>

-----------------------------------------------------------------------------
(***************************************************************************)
(* A request asks for a rule of its own; a client for a revision of some   *)
(* rule.  NEW.tenant_id and NEW.owner_subject are the rule's.              *)
(***************************************************************************)
Input == [owner : Owners, enabled : BOOLEAN, rule : Requests]

Inputs == {f \in [Txns -> Input] :
              /\ \A t \in Requests : f[t].rule = t /\ f[t].owner = OwnerOf[t]
              /\ \A t \in Clients : f[t].owner = f[f[t].rule].owner}

(***************************************************************************)
(* The positions of a transaction.  "limited" is the raised check          *)
(* violation before the rollback; "rejected", "failed", "created", "lost"  *)
(* and "done" are ends: 500 because of the limit, 500 because of a fault,  *)
(* 201, committed but not acknowledged, and the end of a client.           *)
(***************************************************************************)
Begun == {"begun", "inserted", "revised"}
Holding == {"locked", "activated", "read", "limited"}
Ended == {"rejected", "failed", "created", "lost", "done"}
Positions == {"idle", "committed"} \cup Begun \cup Holding \cup Ended

Writes == {"rule", "revision", "activation"}

TypeOK ==
    /\ input \in Inputs
    /\ pc \in [Txns -> Positions]
    /\ staged \in [Txns -> SUBSET Writes]
    /\ rules \in SUBSET Requests
    /\ revisions \in SUBSET Txns
    /\ active \in [Requests -> Txns \cup {None}]
    /\ lock \in [Keys -> Txns \cup {None}]
    /\ found \in [Txns -> BOOLEAN]
    /\ events \in SUBSET Requests

KeyOf(t) == LockKey[input[t].owner]
InTransaction(t) == pc[t] \in Begun \cup Holding

(***************************************************************************)
(* The rules of owner o whose active revision exists, is a revision of the *)
(* rule and is enabled: the join the trigger counts over.  It sees the     *)
(* committed tables; the only uncommitted rows visible to the counting     *)
(* transaction belong to the rule the count leaves out.                    *)
(***************************************************************************)
EnabledActive(o) ==
    {r \in rules : /\ input[r].owner = o
                   /\ active[r] \in revisions
                   /\ input[active[r]].rule = r
                   /\ input[active[r]].enabled}

(***************************************************************************)
(* get_alert_rule: the rule exists, its active revision joins, and it is   *)
(* the subject's own.  (An administrator's read drops the last conjunct.)  *)
(***************************************************************************)
get_alert_rule(o, r) ==
    /\ r \in rules
    /\ active[r] \in revisions
    /\ input[r].owner = o

-----------------------------------------------------------------------------
Init ==
    /\ input \in Inputs
    /\ pc = [t \in Txns |-> "idle"]
    /\ staged = [t \in Txns |-> {}]
    /\ rules = {}
    /\ revisions = {}
    /\ active = [r \in Requests |-> None]
    /\ lock = [k \in Keys |-> None]
    /\ found = [t \in Txns |-> FALSE]
    /\ events = {}

(* Mutant: the rollback or commit forgets the lock.                        *)
Release_Leaks(t) == lock

(***************************************************************************)
(* The end of a transaction releases its advisory lock, if it has one.     *)
(***************************************************************************)
Release(t) == [k \in Keys |-> IF lock[k] = t THEN None ELSE lock[k]]

(* db.begin() takes a connection of the pool; set_request_context follows. *)
Begin(t) ==
    /\ t \in Requests
    /\ pc[t] = "idle"
    /\ Cardinality({u \in Requests : InTransaction(u)}) < PoolSize
    /\ pc' = [pc EXCEPT ![t] = "begun"]
    /\ UNCHANGED <<input, staged, rules, revisions, active, lock, found, events>>

(* Mutant: the rule row is committed by itself, outside the transaction.   *)
InsertRule_Autocommits(t) ==
    /\ t \in Requests
    /\ pc[t] = "begun"
    /\ pc' = [pc EXCEPT ![t] = "inserted"]
    /\ rules' = rules \cup {t}
    /\ UNCHANGED <<input, staged, revisions, active, lock, found, events>>

(* INSERT INTO eal_alert_rules: the pointer is NULL, the trigger returns.  *)
InsertRule(t) ==
    /\ t \in Requests
    /\ pc[t] = "begun"
    /\ pc' = [pc EXCEPT ![t] = "inserted"]
    /\ staged' = [staged EXCEPT ![t] = @ \cup {"rule"}]
    /\ UNCHANGED <<input, rules, revisions, active, lock, found, events>>

(* INSERT INTO eal_alert_rule_revisions, with the rule as foreign key.     *)
InsertRevision(t) ==
    /\ t \in Requests
    /\ pc[t] = "inserted"
    /\ pc' = [pc EXCEPT ![t] = "revised"]
    /\ staged' = [staged EXCEPT ![t] = @ \cup {"revision"}]
    /\ UNCHANGED <<input, rules, revisions, active, lock, found, events>>

(***************************************************************************)
(* Another client: its transaction has inserted a further revision of a    *)
(* committed rule and updates the rule's row, which locks the row before   *)
(* the BEFORE UPDATE trigger runs.                                         *)
(***************************************************************************)
ClientRevision(t) ==
    /\ t \in Clients
    /\ pc[t] = "idle"
    /\ input[t].rule \in rules
    /\ \A u \in Clients \ {t} : InTransaction(u) => input[u].rule # input[t].rule
    /\ pc' = [pc EXCEPT ![t] = "revised"]
    /\ staged' = [staged EXCEPT ![t] = {"revision"}]
    /\ UNCHANGED <<input, rules, revisions, active, lock, found, events>>

(* UPDATE ... SET active_revision_id fires the trigger, which first waits  *)
(* for pg_advisory_xact_lock; the lock is kept until the transaction ends. *)
AcquireLock(t) ==
    /\ pc[t] = "revised"
    /\ lock[KeyOf(t)] = None
    /\ lock' = [lock EXCEPT ![KeyOf(t)] = t]
    /\ pc' = [pc EXCEPT ![t] = "locked"]
    /\ UNCHANGED <<input, staged, rules, revisions, active, found, events>>

(* Mutant: a count that includes the rule itself.                          *)
UnderLimit_CountsItself(t) ==
    \/ ~input[t].enabled
    \/ Cardinality(EnabledActive(input[t].owner)) < Limit

(***************************************************************************)
(* The rest of the trigger and of the UPDATE.  A disabled revision is      *)
(* admitted without a count.  An enabled one is admitted when fewer than   *)
(* Limit OTHER rules of the owner are enabled and active: every query of   *)
(* the trigger function reads a fresh snapshot.                            *)
(***************************************************************************)
UnderLimit(t) ==
    \/ ~input[t].enabled
    \/ Cardinality(EnabledActive(input[t].owner) \ {input[t].rule}) < Limit

(* Mutant: a session lock released with the statement.                     *)
Activate_Unlocks(t) ==
    /\ pc[t] = "locked"
    /\ UnderLimit(t)
    /\ pc' = [pc EXCEPT ![t] = "activated"]
    /\ staged' = [staged EXCEPT ![t] = @ \cup {"activation"}]
    /\ lock' = Release(t)
    /\ UNCHANGED <<input, rules, revisions, active, found, events>>

Activate(t) ==
    /\ pc[t] = "locked"
    /\ UnderLimit(t)
    /\ pc' = [pc EXCEPT ![t] = "activated"]
    /\ staged' = [staged EXCEPT ![t] = @ \cup {"activation"}]
    /\ UNCHANGED <<input, rules, revisions, active, lock, found, events>>

RaiseLimit(t) ==
    /\ pc[t] = "locked"
    /\ ~UnderLimit(t)
    /\ pc' = [pc EXCEPT ![t] = "limited"]
    /\ UNCHANGED <<input, staged, rules, revisions, active, lock, found, events>>

(* Mutant: the event is published before the commit.                       *)
ReadBack_Publishes(t) ==
    /\ t \in Requests
    /\ pc[t] = "activated"
    /\ found' = [found EXCEPT ![t] = staged[t] = Writes]
    /\ pc' = [pc EXCEPT ![t] = "read"]
    /\ events' = events \cup {t}
    /\ UNCHANGED <<input, staged, rules, revisions, active, lock>>

(* The read-back joins the rule and its active revision, both staged.      *)
ReadBack(t) ==
    /\ t \in Requests
    /\ pc[t] = "activated"
    /\ found' = [found EXCEPT ![t] = staged[t] = Writes]
    /\ pc' = [pc EXCEPT ![t] = "read"]
    /\ UNCHANGED <<input, staged, rules, revisions, active, lock, events>>

(* COMMIT: the staged writes become visible and the lock is released.      *)
InstallWrites(t) ==
    /\ rules' = IF "rule" \in staged[t] THEN rules \cup {t} ELSE rules
    /\ revisions' = IF "revision" \in staged[t] THEN revisions \cup {t}
                                                ELSE revisions
    /\ active' = IF "activation" \in staged[t]
                 THEN [active EXCEPT ![input[t].rule] = t] ELSE active
    /\ staged' = [staged EXCEPT ![t] = {}]
    /\ lock' = Release(t)

(* The answer to COMMIT may be lost on its way: then commit().await?       *)
(* returns an error although the rule is durable.                          *)
Commit(t) ==
    /\ \/ t \in Requests /\ pc[t] = "read"
       \/ t \in Clients /\ pc[t] = "activated"
    /\ InstallWrites(t)
    /\ \E p \in IF t \in Clients THEN {"done"} ELSE {"committed", "lost"} :
            pc' = [pc EXCEPT ![t] = p]
    /\ UNCHANGED <<input, found, events>>

(***************************************************************************)
(* After the commit create_alert_rule returns what the read-back found and *)
(* create_record publishes the event and answers 201.                      *)
(***************************************************************************)
Respond(t) ==
    /\ t \in Requests
    /\ pc[t] = "committed"
    /\ IF found[t]
       THEN /\ events' = events \cup {t}
            /\ pc' = [pc EXCEPT ![t] = "created"]
       ELSE /\ events' = events
            /\ pc' = [pc EXCEPT ![t] = "lost"]
    /\ UNCHANGED <<input, staged, rules, revisions, active, lock, found>>

(* An error in any statement returns early; dropping the transaction rolls *)
(* it back.                                                                *)
Rollback(t) ==
    /\ InTransaction(t)
    /\ pc' = [pc EXCEPT ![t] = IF pc[t] = "limited" THEN "rejected" ELSE "failed"]
    /\ staged' = [staged EXCEPT ![t] = {}]
    /\ lock' = Release(t)
    /\ UNCHANGED <<input, rules, revisions, active, found, events>>

(* The server stops between the commit and the answer.                     *)
Crash(t) ==
    /\ pc[t] = "committed"
    /\ pc' = [pc EXCEPT ![t] = "lost"]
    /\ UNCHANGED <<input, staged, rules, revisions, active, lock, found, events>>

(* Every transaction that can begin has ended.                             *)
AllEnded ==
    /\ \A t \in Txns : pc[t] \in Ended \/ (t \in Clients /\ input[t].rule \notin rules)
    /\ UNCHANGED vars

(* A step the handler or the database takes by itself.                     *)
Proceed(t) ==
    \/ InsertRule(t) \/ InsertRevision(t) \/ AcquireLock(t)
    \/ Activate(t) \/ RaiseLimit(t) \/ ReadBack(t) \/ Commit(t) \/ Respond(t)

Step(t) == Begin(t) \/ ClientRevision(t) \/ Proceed(t) \/ Rollback(t) \/ Crash(t)

Next == (\E t \in Txns : Step(t)) \/ AllEnded

Spec == Init /\ [][Next]_vars

(***************************************************************************)
(* A begun transaction goes on: the runtime polls the handler's future and *)
(* PostgreSQL grants a free advisory lock to a waiter.  A raised error is  *)
(* followed by the rollback.  Faults are not fair.                         *)
(***************************************************************************)
Fairness ==
    \A t \in Txns :
        /\ WF_vars(Begin(t))
        /\ WF_vars(Proceed(t))
        /\ WF_vars(pc[t] = "limited" /\ Rollback(t))

FairSpec == Spec /\ Fairness

-----------------------------------------------------------------------------
(***************************************************************************)
(* The refinement mapping to the ledger: a transaction takes effect when   *)
(* it commits, and is refused when the trigger raises.                     *)
(***************************************************************************)
On == UNION {EnabledActive(o) : o \in Owners}

Verdict(t) ==
    CASE pc[t] \in {"committed", "created", "lost", "done"} -> "stored"
      [] pc[t] \in {"limited", "rejected"} -> "limit"
      [] pc[t] = "failed" -> "fault"
      [] OTHER -> "open"

Ledger == INSTANCE AlertLedger WITH
    on <- On, verdict <- [t \in Txns |-> Verdict(t)]

(***************************************************************************)
(* The statements, locks, faults and lost answers implement the atomic     *)
(* ledger: in particular a request is refused only at a moment when the    *)
(* owner has Limit other committed enabled rules.                          *)
(***************************************************************************)
ImplementsLedger == Ledger!LSpec

-----------------------------------------------------------------------------
(***************************************************************************)
(* The guardrail of migration 007: at no time do the committed tables give *)
(* an owner more than Limit enabled active rules, whatever requests and    *)
(* other clients activate concurrently and even when lock keys collide.    *)
(***************************************************************************)
ActiveLimit == \A o \in Owners : Cardinality(EnabledActive(o)) <= Limit

(***************************************************************************)
(* A rule is created whole or not at all: a committed rule points to a     *)
(* committed revision of that same rule and no committed revision is       *)
(* without its rule, so the inner joins of list and get hide no rule.      *)
(***************************************************************************)
CreateIsAtomic ==
    /\ \A r \in rules : active[r] \in revisions /\ input[active[r]].rule = r
    /\ \A v \in revisions : input[v].rule \in rules
    /\ \A r \in Requests \ rules : active[r] = None

(***************************************************************************)
(* What the client is told is durable: a 201 or an alert_rule.created      *)
(* event is never about a rule that its owner could not read back, and a   *)
(* request that was rejected or rolled back has left no row behind.        *)
(***************************************************************************)
AnswersAreDurable ==
    \A t \in Requests :
        /\ pc[t] = "created" \/ t \in events => get_alert_rule(input[t].owner, t)
        /\ pc[t] \in {"rejected", "failed"} => t \notin rules \cup revisions \cup events

(***************************************************************************)
(* The advisory lock serialises activations of one owner: of all           *)
(* transactions between the trigger and the end of their transaction, no   *)
(* two have the same key, and a lock that is held is held by one of them   *)
(* (no rollback or commit leaks it).                                       *)
(***************************************************************************)
ActivationsSerialised ==
    /\ \A t, u \in Txns :
          pc[t] \in Holding /\ pc[u] \in Holding /\ KeyOf(t) = KeyOf(u) => t = u
    /\ \A k \in Keys : lock[k] # None => pc[lock[k]] \in Holding /\ KeyOf(lock[k]) = k

(***************************************************************************)
(* The trigger's count is not stale when it is used: from the count to the *)
(* commit the owner keeps fewer than Limit other enabled active rules.     *)
(***************************************************************************)
AdmissionHolds ==
    \A t \in Txns :
        pc[t] \in {"activated", "read"} /\ input[t].enabled =>
            Cardinality(EnabledActive(input[t].owner) \ {input[t].rule}) < Limit

(***************************************************************************)
(* Every create request is answered, whoever else waits for the pool or    *)
(* for the owner's lock.                                                   *)
(***************************************************************************)
EveryRequestEnds == \A t \in Requests : <>(pc[t] \in Ended)

-----------------------------------------------------------------------------
(***************************************************************************)
(* The inductive invariant of AlertRulesProofs.  A transaction's position  *)
(* determines what it has staged; the holder of a lock is the transaction  *)
(* whose position says so.                                                 *)
(***************************************************************************)
StagedAt(t) ==
    CASE pc[t] = "inserted" -> {"rule"}
      [] pc[t] \in {"revised", "locked", "limited"} ->
            IF t \in Requests THEN {"rule", "revision"} ELSE {"revision"}
      [] pc[t] \in {"activated", "read"} ->
            IF t \in Requests THEN Writes ELSE {"revision", "activation"}
      [] OTHER -> {}

StagedByPosition ==
    \A t \in Txns :
        /\ staged[t] = StagedAt(t)
        /\ t \in Clients => pc[t] \notin {"begun", "inserted", "read", "committed"}
        /\ t \in Clients /\ pc[t] # "idle" => input[t].rule \in rules

LocksByPosition ==
    /\ \A t \in Txns : pc[t] \in Holding => lock[KeyOf(t)] = t
    /\ \A k \in Keys : lock[k] # None => pc[lock[k]] \in Holding /\ KeyOf(lock[k]) = k

IndInv ==
    /\ TypeOK
    /\ IsFiniteSet(rules)
    /\ StagedByPosition
    /\ LocksByPosition
    /\ CreateIsAtomic
    /\ AdmissionHolds
    /\ ActiveLimit
=============================================================================
