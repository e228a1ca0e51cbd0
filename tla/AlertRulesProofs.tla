-------------------------- MODULE AlertRulesProofs --------------------------
(***************************************************************************)
(* Proofs about AlertRules for every set of requests, clients and owners,  *)
(* every limit and pool size, and every (possibly colliding) key function. *)
(***************************************************************************)
EXTENDS AlertRules, FiniteSetTheorems, TLAPS

LEMMA InitInv == Init => IndInv
<1> SUFFICES ASSUME Init PROVE IndInv
  OBVIOUS
<1>1. TypeOK
  BY DEF Init, TypeOK, Positions
<1>2. IsFiniteSet(rules)
  BY FS_EmptySet DEF Init
<1>3. StagedByPosition
  BY <1>1 DEF Init, StagedByPosition, StagedAt, TypeOK
<1>4. LocksByPosition
  BY DEF Init, LocksByPosition, Holding
<1>5. CreateIsAtomic
  BY DEF Init, CreateIsAtomic
<1>6. AdmissionHolds
  BY DEF Init, AdmissionHolds
<1>7. ActiveLimit
  <2>1. \A o \in Owners : EnabledActive(o) = {}
    BY DEF Init, EnabledActive
  <2> QED BY <2>1, FS_EmptySet, ConstantsAssumption DEF ActiveLimit
<1> QED BY <1>1, <1>2, <1>3, <1>4, <1>5, <1>6, <1>7 DEF IndInv

(***************************************************************************)
(* Types and write sets, preserved together: that a client never stages a  *)
(* rule row is what keeps the rules table well typed.                      *)
(***************************************************************************)
LEMMA TypeStep ==
    ASSUME TypeOK, StagedByPosition, [Next]_vars
    PROVE  TypeOK' /\ StagedByPosition'
<1> USE DEF TypeOK, StagedByPosition, StagedAt, Writes, Txns
<1>1. ASSUME NEW t \in Txns, Begin(t) PROVE TypeOK' /\ StagedByPosition'
  BY <1>1, ConstantsAssumption DEF Begin, Positions, Begun
<1>2. ASSUME NEW t \in Txns, InsertRule(t) PROVE TypeOK' /\ StagedByPosition'
  BY <1>2, ConstantsAssumption DEF InsertRule, Positions, Begun
<1>3. ASSUME NEW t \in Txns, InsertRevision(t) PROVE TypeOK' /\ StagedByPosition'
  BY <1>3, ConstantsAssumption DEF InsertRevision, Positions, Begun
<1>4. ASSUME NEW t \in Txns, ClientRevision(t) PROVE TypeOK' /\ StagedByPosition'
  BY <1>4, ConstantsAssumption DEF ClientRevision, Positions, Begun
<1>5. ASSUME NEW t \in Txns, AcquireLock(t) PROVE TypeOK' /\ StagedByPosition'
  <2>1. TypeOK'
    BY <1>5 DEF AcquireLock, Positions, Holding
  <2>2. StagedByPosition'
    BY <1>5, <2>1 DEF AcquireLock
  <2> QED BY <2>1, <2>2
<1>6. ASSUME NEW t \in Txns, Activate(t) PROVE TypeOK' /\ StagedByPosition'
  <2>1. TypeOK'
    BY <1>6 DEF Activate, Positions, Holding
  <2>2. StagedByPosition'
    <3>1. staged'[t] = StagedAt(t)'
      BY <1>6, <2>1 DEF Activate
    <3>2. \A u \in Txns \ {t} : staged'[u] = staged[u] /\ pc'[u] = pc[u]
      BY <1>6 DEF Activate
    <3>3. pc[t] = "locked" /\ pc'[t] = "activated" /\ rules' = rules /\ input' = input
      BY <1>6 DEF Activate
    <3> QED BY <3>1, <3>2, <3>3
  <2> QED BY <2>1, <2>2
<1>7. ASSUME NEW t \in Txns, RaiseLimit(t) PROVE TypeOK' /\ StagedByPosition'
  BY <1>7 DEF RaiseLimit, Positions, Holding
<1>8. ASSUME NEW t \in Txns, ReadBack(t) PROVE TypeOK' /\ StagedByPosition'
  BY <1>8, ConstantsAssumption DEF ReadBack, Positions, Holding
<1>9. ASSUME NEW t \in Txns, Commit(t) PROVE TypeOK' /\ StagedByPosition'
  <2>0. input[t].rule \in Requests /\ (t \in Requests \/ "rule" \notin staged[t])
    BY <1>9, ConstantsAssumption DEF Commit, Inputs, Input
  <2>1. TypeOK'
    BY <1>9, <2>0 DEF Commit, InstallWrites, Release, Positions, Ended
  <2>2. StagedByPosition'
    BY <1>9, <2>1, ConstantsAssumption DEF Commit, InstallWrites
  <2> QED BY <2>1, <2>2
<1>10. ASSUME NEW t \in Txns, Respond(t) PROVE TypeOK' /\ StagedByPosition'
  BY <1>10, ConstantsAssumption DEF Respond, Positions, Ended
<1>11. ASSUME NEW t \in Txns, Rollback(t) PROVE TypeOK' /\ StagedByPosition'
  <2>1. TypeOK'
    BY <1>11 DEF Rollback, Release, Positions, Ended
  <2>2. StagedByPosition'
    BY <1>11, <2>1 DEF Rollback, InTransaction, Begun, Holding
  <2> QED BY <2>1, <2>2
<1>12. ASSUME NEW t \in Txns, Crash(t) PROVE TypeOK' /\ StagedByPosition'
  BY <1>12 DEF Crash, Positions, Ended
<1>13. CASE UNCHANGED vars
  BY <1>13 DEF vars
<1> QED
  BY <1>1, <1>2, <1>3, <1>4, <1>5, <1>6, <1>7, <1>8, <1>9, <1>10, <1>11, <1>12, <1>13
     DEF Next, Step, Proceed, AllEnded

(***************************************************************************)
(* Advisory locks: only AcquireLock takes one, only the end of the holding *)
(* transaction releases it.                                                *)
(***************************************************************************)
LEMMA LocksStep ==
    ASSUME TypeOK, TypeOK', LocksByPosition, StagedByPosition, [Next]_vars
    PROVE  LocksByPosition'
<1> USE DEF TypeOK, LocksByPosition, KeyOf
<1>0. /\ input' = input
      /\ \A t \in Txns : KeyOf(t) \in Keys
  BY ConstantsAssumption
     DEF vars, Inputs, Input, Next, Step, Proceed, AllEnded, Begin, InsertRule, InsertRevision,
         ClientRevision, AcquireLock, Activate, RaiseLimit, ReadBack, Commit, Respond,
         Rollback, Crash
<1>1. ASSUME NEW t \in Txns,
             lock' = lock,
             \/ pc[t] \notin Holding
             \/ pc'[t] \in Holding,
             \/ pc'[t] \notin Holding
             \/ pc[t] \in Holding,
             \A u \in Txns \ {t} : pc'[u] = pc[u]
      PROVE  LocksByPosition'
  BY <1>0, <1>1, ConstantsAssumption
<1>2. ASSUME NEW t \in Txns, AcquireLock(t) PROVE LocksByPosition'
  BY <1>0, <1>2, ConstantsAssumption DEF AcquireLock, Holding
<1>3. ASSUME NEW t \in Txns, lock' = Release(t), pc'[t] \notin Holding,
             \A u \in Txns \ {t} : pc'[u] = pc[u]
      PROVE  LocksByPosition'
  BY <1>0, <1>3, ConstantsAssumption DEF Release
<1>4. ASSUME NEW t \in Txns, Commit(t) \/ Rollback(t) PROVE LocksByPosition'
  <2>1. /\ lock' = Release(t)
        /\ pc'[t] \notin Holding
        /\ \A u \in Txns \ {t} : pc'[u] = pc[u]
    BY <1>4 DEF Commit, InstallWrites, Rollback, Holding
  <2> QED BY <2>1, <1>3
<1>5. ASSUME NEW t \in Txns,
             Begin(t) \/ ClientRevision(t) \/ InsertRule(t) \/ InsertRevision(t)
             \/ Activate(t) \/ RaiseLimit(t) \/ ReadBack(t) \/ Respond(t) \/ Crash(t)
      PROVE  LocksByPosition'
  <2>1. /\ lock' = lock
        /\ pc[t] \in Holding <=> pc'[t] \in Holding
        /\ \A u \in Txns \ {t} : pc'[u] = pc[u]
    BY <1>5 DEF Begin, InsertRule, InsertRevision, ClientRevision, Activate, RaiseLimit,
                ReadBack, Respond, Crash, Holding
  <2> QED BY <2>1, <1>1
<1>6. CASE UNCHANGED vars
  BY <1>6 DEF vars
<1> QED
  BY <1>2, <1>4, <1>5, <1>6 DEF Next, Step, Proceed, AllEnded

(***************************************************************************)
(* Two transactions between their trigger and their end have different     *)
(* keys.                                                                   *)
(***************************************************************************)
LEMMA HoldersDiffer ==
    ASSUME TypeOK, LocksByPosition, NEW t \in Txns, NEW u \in Txns,
           pc[t] \in Holding, pc[u] \in Holding, KeyOf(t) = KeyOf(u)
    PROVE  t = u
BY DEF LocksByPosition

(***************************************************************************)
(* What a commit does to the enabled active rules: the rule's own entry    *)
(* becomes what the new revision says, and nothing else changes.           *)
(***************************************************************************)
LEMMA CommitEffect ==
    ASSUME IndInv, NEW t \in Txns, Commit(t), NEW o \in Owners
    PROVE  EnabledActive(o)' =
              IF o # input[t].owner THEN EnabledActive(o)
              ELSE IF input[t].enabled THEN EnabledActive(o) \cup {input[t].rule}
              ELSE EnabledActive(o) \ {input[t].rule}
<1> DEFINE r == input[t].rule
<1>1. /\ t \in Requests => r = t
      /\ r \in Requests
      /\ input[r].owner = input[t].owner
      /\ input' = input
  BY DEF IndInv, TypeOK, Inputs, Input, Txns, Commit
<1>2. "revision" \in staged[t] /\ "activation" \in staged[t]
  BY DEF Commit, IndInv, StagedByPosition, StagedAt, Writes
<1>3. "rule" \in staged[t] <=> t \in Requests
  BY ConstantsAssumption
     DEF Commit, IndInv, StagedByPosition, StagedAt, Writes, Txns
<1>4. /\ revisions' = revisions \cup {t}
      /\ active' = [active EXCEPT ![r] = t]
      /\ active' \in [Requests -> Txns \cup {None}]
  BY <1>1, <1>2 DEF Commit, InstallWrites, IndInv, TypeOK
<1>5. rules' = rules \cup {r}
  <2>1. CASE t \in Requests
    BY <1>1, <1>3, <2>1 DEF Commit, InstallWrites
  <2>2. CASE t \in Clients
    <3>1. r \in rules
      BY <2>2, ConstantsAssumption DEF Commit, IndInv, StagedByPosition
    <3> QED BY <3>1, <2>2, <1>3, ConstantsAssumption DEF Commit, InstallWrites
  <2> QED BY <2>1, <2>2 DEF Txns
<1>6. active'[r] = t /\ \A q \in Requests \ {r} : active'[q] = active[q]
  BY <1>1, <1>4 DEF IndInv, TypeOK
<1>7. ASSUME NEW q \in Requests, q # r
      PROVE  q \in EnabledActive(o)' <=> q \in EnabledActive(o)
  <2>1. q \in rules => active[q] \in revisions
    BY DEF IndInv, CreateIsAtomic
  <2> QED BY <2>1, <1>1, <1>4, <1>5, <1>6, <1>7 DEF EnabledActive
<1>8. r \in EnabledActive(o)' <=> o = input[t].owner /\ input[t].enabled
  BY <1>1, <1>4, <1>5, <1>6 DEF EnabledActive
<1>9. r \in EnabledActive(o) => o = input[t].owner
  BY <1>1 DEF EnabledActive
<1>10. EnabledActive(o) \subseteq Requests /\ EnabledActive(o)' \subseteq Requests
  BY <1>1, <1>5 DEF EnabledActive, IndInv, TypeOK
<1> QED BY <1>7, <1>8, <1>9, <1>10

(***************************************************************************)
(* A step that is not a commit leaves every owner's rules as they are.     *)
(***************************************************************************)
LEMMA QuietStep ==
    ASSUME [Next]_vars, ~(\E t \in Txns : Commit(t))
    PROVE  /\ input' = input /\ rules' = rules
           /\ revisions' = revisions /\ active' = active
BY DEF vars, Next, Step, Proceed, AllEnded, Begin, InsertRule, InsertRevision,
       ClientRevision, AcquireLock, Activate, RaiseLimit, ReadBack, Respond,
       Rollback, Crash

LEMMA TablesStep ==
    ASSUME IndInv, TypeOK', [Next]_vars
    PROVE  IsFiniteSet(rules)' /\ CreateIsAtomic'
<1>1. CASE ~(\E t \in Txns : Commit(t))
  BY <1>1, QuietStep DEF IndInv, CreateIsAtomic
<1>2. ASSUME NEW t \in Txns, Commit(t)
      PROVE  IsFiniteSet(rules)' /\ CreateIsAtomic'
  <2>1. IsFiniteSet(rules)'
    BY <1>2, FS_AddElement DEF IndInv, Commit, InstallWrites
  <2>2. /\ t \in Requests => input[t].rule = t
        /\ t \in Clients => input[t].rule \in rules
        /\ input[t].rule \in Requests
        /\ input' = input
    BY <1>2, ConstantsAssumption
       DEF IndInv, TypeOK, Inputs, Input, Txns, Commit, StagedByPosition
  <2>3. /\ "revision" \in staged[t] /\ "activation" \in staged[t]
        /\ "rule" \in staged[t] <=> t \in Requests
    BY <1>2, ConstantsAssumption
       DEF Commit, IndInv, StagedByPosition, StagedAt, Writes, Txns
  <2>4. /\ revisions' = revisions \cup {t}
        /\ active' = [active EXCEPT ![input[t].rule] = t]
        /\ rules' = rules \cup {input[t].rule}
    BY <1>2, <2>2, <2>3 DEF Commit, InstallWrites, Txns
  <2>5. CreateIsAtomic'
    BY <2>2, <2>4 DEF IndInv, CreateIsAtomic, TypeOK
  <2> QED BY <2>1, <2>5
<1> QED BY <1>1, <1>2

(***************************************************************************)
(* The count stays valid: while a transaction holds its owner's key no     *)
(* other transaction of that owner can commit an activation.               *)
(***************************************************************************)
LEMMA AdmissionStep ==
    ASSUME IndInv, TypeOK', [Next]_vars
    PROVE  AdmissionHolds'
<1>0. input' = input /\ \A t \in Txns : input[t].owner \in Owners
  BY DEF vars, Next, Step, Proceed, AllEnded, Begin, InsertRule, InsertRevision,
         ClientRevision, AcquireLock, Activate, RaiseLimit, ReadBack, Commit, Respond,
         Rollback, Crash, IndInv, TypeOK, Inputs, Input
<1> SUFFICES ASSUME NEW t \in Txns, pc'[t] \in {"activated", "read"}, input[t].enabled,
                    NEW o \in Owners, o = input[t].owner
             PROVE  Cardinality(EnabledActive(o)' \ {input[t].rule}) < Limit
  BY <1>0 DEF AdmissionHolds, EnabledActive
<1>1. CASE ~(\E u \in Txns : Commit(u))
  <2>1. EnabledActive(o)' = EnabledActive(o)
    BY <1>1, QuietStep DEF EnabledActive
  <2>2. CASE pc[t] \in {"activated", "read"}
    BY <2>1, <2>2, <1>0 DEF IndInv, AdmissionHolds
  <2>3. CASE pc[t] \notin {"activated", "read"}
    <3>1. PICK u \in Txns : Step(u)
      BY <2>3 DEF vars, Next, AllEnded
    <3>2. Activate(t)
      BY <2>3, <1>1, <3>1
         DEF Step, Proceed, Begin, InsertRule, InsertRevision, ClientRevision,
             AcquireLock, Activate, RaiseLimit, ReadBack, Respond, Rollback, Crash,
             IndInv, TypeOK
    <3> QED BY <3>2, <2>1, <1>0 DEF Activate, UnderLimit
  <2> QED BY <2>2, <2>3
<1>2. ASSUME NEW u \in Txns, Commit(u)
      PROVE  Cardinality(EnabledActive(o)' \ {input[t].rule}) < Limit
  <2>1. /\ pc[u] \in Holding /\ pc[t] = pc'[t] /\ t # u
        /\ pc[t] \in Holding
    BY <1>2 DEF Commit, Holding, IndInv, TypeOK
  <2>2. o # input[u].owner
    BY <2>1, HoldersDiffer DEF IndInv, KeyOf
  <2>3. EnabledActive(o)' = EnabledActive(o)
    BY <2>2, <1>2, CommitEffect
  <2> QED BY <2>1, <2>3 DEF IndInv, AdmissionHolds
<1> QED BY <1>1, <1>2

LEMMA LimitStep ==
    ASSUME IndInv, [Next]_vars
    PROVE  ActiveLimit'
<1> SUFFICES ASSUME NEW o \in Owners PROVE Cardinality(EnabledActive(o)') <= Limit
  BY DEF ActiveLimit
<1>1. IsFiniteSet(EnabledActive(o)) /\ Cardinality(EnabledActive(o)) <= Limit
  BY FS_Subset DEF IndInv, EnabledActive, ActiveLimit
<1>2. CASE ~(\E t \in Txns : Commit(t))
  BY <1>1, <1>2, QuietStep DEF EnabledActive
<1>3. ASSUME NEW t \in Txns, Commit(t)
      PROVE  Cardinality(EnabledActive(o)') <= Limit
  <2> DEFINE E == EnabledActive(o)
             r == input[t].rule
  <2>1. CASE o # input[t].owner
    BY <1>1, <1>3, <2>1, CommitEffect
  <2>2. CASE o = input[t].owner /\ ~input[t].enabled
    <3>1. EnabledActive(o)' = E \ {r}
      BY <1>3, <2>2, CommitEffect
    <3> QED BY <3>1, <1>1, FS_Subset, FS_CardinalityType, ConstantsAssumption
  <2>3. CASE o = input[t].owner /\ input[t].enabled
    <3>1. EnabledActive(o)' = (E \ {r}) \cup {r}
      BY <1>3, <2>3, CommitEffect
    <3>2. Cardinality(E \ {r}) < Limit
      BY <1>3, <2>3 DEF Commit, IndInv, AdmissionHolds
    <3>3. IsFiniteSet(E \ {r}) /\ Cardinality(E \ {r}) \in Nat
      BY <1>1, FS_Subset, FS_CardinalityType
    <3>4. Cardinality((E \ {r}) \cup {r}) = Cardinality(E \ {r}) + 1
      BY <3>3, FS_AddElement
    <3> QED BY <3>1, <3>2, <3>3, <3>4, ConstantsAssumption
  <2> QED BY <2>1, <2>2, <2>3
<1> QED BY <1>2, <1>3

(***************************************************************************)
(* The invariant of AlertRules is inductive.                               *)
(***************************************************************************)
THEOREM Invariance == Spec => []IndInv
<1>1. IndInv /\ [Next]_vars => IndInv'
  <2> SUFFICES ASSUME IndInv, [Next]_vars PROVE IndInv'
    OBVIOUS
  <2>1. TypeOK' /\ StagedByPosition'
    BY TypeStep DEF IndInv
  <2>2. LocksByPosition'
    BY <2>1, LocksStep DEF IndInv
  <2> QED BY <2>1, <2>2, TablesStep, AdmissionStep, LimitStep DEF IndInv
<1> QED BY <1>1, InitInv, PTL DEF Spec

(***************************************************************************)
(* Type correctness of the tables, the locks and the positions of the      *)
(* transactions of alert_store.rs.                                         *)
(***************************************************************************)
THEOREM Typing == Spec => []TypeOK
<1>1. IndInv => TypeOK
  BY DEF IndInv
<1> QED BY <1>1, Invariance, PTL

(***************************************************************************)
(* The guardrail of migration 007 for any number of concurrent activations *)
(* by any clients, any limit, and any hash of the owner.                   *)
(***************************************************************************)
THEOREM LimitHolds == Spec => []ActiveLimit
<1>1. IndInv => ActiveLimit
  BY DEF IndInv
<1> QED BY <1>1, Invariance, PTL

(***************************************************************************)
(* create_alert_rule leaves a whole rule or none.                          *)
(***************************************************************************)
THEOREM Atomicity == Spec => []CreateIsAtomic
<1>1. IndInv => CreateIsAtomic
  BY DEF IndInv
<1> QED BY <1>1, Invariance, PTL

(***************************************************************************)
(* pg_advisory_xact_lock serialises the activations of an owner, and no    *)
(* transaction ends with the lock still held.                              *)
(***************************************************************************)
THEOREM Serialised == Spec => []ActivationsSerialised
<1>1. IndInv => ActivationsSerialised
  BY HoldersDiffer DEF IndInv, ActivationsSerialised, LocksByPosition
<1> QED BY <1>1, Invariance, PTL

(***************************************************************************)
(* The trigger's count is still right when the activation commits.         *)
(***************************************************************************)
THEOREM Admission == Spec => []AdmissionHolds
<1>1. IndInv => AdmissionHolds
  BY DEF IndInv
<1> QED BY <1>1, Invariance, PTL

-----------------------------------------------------------------------------
(* The rows of a request are durable exactly when it has committed, and    *)
(* its event is published only when it has answered.                       *)
RowsByPosition ==
    \A t \in Requests :
        /\ t \in rules <=> pc[t] \in {"committed", "created", "lost"}
        /\ t \in revisions <=> pc[t] \in {"committed", "created", "lost"}
        /\ t \in events => pc[t] = "created"

LEMMA RowsStep ==
    ASSUME IndInv, RowsByPosition, [Next]_vars
    PROVE  RowsByPosition'
<1> SUFFICES ASSUME NEW t \in Requests
             PROVE  /\ t \in rules' <=> pc'[t] \in {"committed", "created", "lost"}
                    /\ t \in revisions' <=> pc'[t] \in {"committed", "created", "lost"}
                    /\ t \in events' => pc'[t] = "created"
  BY DEF RowsByPosition
<1> USE DEF RowsByPosition
<1>1. t \in Txns /\ pc \in [Txns -> Positions]
  BY DEF IndInv, TypeOK, Txns
<1>2. ASSUME NEW u \in Txns, Commit(u)
      PROVE  /\ t \in rules' <=> pc'[t] \in {"committed", "created", "lost"}
             /\ t \in revisions' <=> pc'[t] \in {"committed", "created", "lost"}
             /\ t \in events' => pc'[t] = "created"
  <2>1. /\ "revision" \in staged[u]
        /\ "rule" \in staged[u] <=> u \in Requests
    BY <1>2, ConstantsAssumption DEF Commit, IndInv, StagedByPosition, StagedAt, Writes, Txns
  <2>2. CASE u = t
    <3>1. t \in rules' /\ t \in revisions' /\ pc'[t] \in {"committed", "lost"}
      BY <1>1, <1>2, <2>1, <2>2, ConstantsAssumption DEF Commit, InstallWrites
    <3>2. events' = events /\ t \notin events
      BY <1>2, <2>2, ConstantsAssumption DEF Commit
    <3> QED BY <3>1, <3>2
  <2>3. CASE u # t
    BY <1>1, <1>2, <2>1, <2>3 DEF Commit, InstallWrites
  <2> QED BY <2>2, <2>3
<1>3. ASSUME NEW u \in Txns, Respond(u)
      PROVE  /\ t \in rules' <=> pc'[t] \in {"committed", "created", "lost"}
             /\ t \in revisions' <=> pc'[t] \in {"committed", "created", "lost"}
             /\ t \in events' => pc'[t] = "created"
  BY <1>1, <1>3 DEF Respond
<1>4. ASSUME NEW u \in Txns,
             Begin(u) \/ ClientRevision(u) \/ InsertRule(u) \/ InsertRevision(u) \/ AcquireLock(u)
             \/ Activate(u) \/ RaiseLimit(u) \/ ReadBack(u) \/ Rollback(u) \/ Crash(u)
      PROVE  /\ t \in rules' <=> pc'[t] \in {"committed", "created", "lost"}
             /\ t \in revisions' <=> pc'[t] \in {"committed", "created", "lost"}
             /\ t \in events' => pc'[t] = "created"
  <2>1. UNCHANGED <<rules, revisions, events>>
    BY <1>4 DEF Begin, InsertRule, InsertRevision, ClientRevision, AcquireLock, Activate,
                RaiseLimit, ReadBack, Rollback, Crash
  <2>2. /\ pc'[t] \in {"committed", "created", "lost"} <=> pc[t] \in {"committed", "created", "lost"}
        /\ pc[t] = "created" => pc'[t] = "created"
    BY <1>1, <1>4 DEF Begin, InsertRule, InsertRevision, ClientRevision, AcquireLock, Activate,
                RaiseLimit, ReadBack, Rollback, Crash, InTransaction, Begun, Holding
  <2> QED BY <2>1, <2>2
<1>5. CASE UNCHANGED vars
  BY <1>5 DEF vars
<1> QED BY <1>2, <1>3, <1>4, <1>5 DEF Next, Step, Proceed, AllEnded

LEMMA RowsInvariance == Spec => []RowsByPosition
<1>1. Init => RowsByPosition
  BY DEF Init, RowsByPosition, Txns
<1>2. IndInv /\ RowsByPosition /\ [Next]_vars => RowsByPosition'
  BY RowsStep
<1> QED BY <1>1, <1>2, Invariance, PTL DEF Spec

(***************************************************************************)
(* create_record: a 201 or an event is about a rule its owner can read     *)
(* back, and a request that was rejected or failed has left nothing.       *)
(***************************************************************************)
THEOREM Answers == Spec => []AnswersAreDurable
<1>1. ASSUME IndInv, RowsByPosition PROVE AnswersAreDurable
  <2>1. ASSUME NEW t \in Requests, pc[t] = "created" \/ t \in events
        PROVE  get_alert_rule(input[t].owner, t)
    BY <1>1, <2>1 DEF IndInv, CreateIsAtomic, RowsByPosition, get_alert_rule
  <2>2. ASSUME NEW t \in Requests, pc[t] \in {"rejected", "failed"}
        PROVE  t \notin rules \cup revisions \cup events
    BY <1>1, <2>2 DEF RowsByPosition
  <2> QED BY <2>1, <2>2 DEF AnswersAreDurable
<1> QED BY <1>1, Invariance, RowsInvariance, PTL

-----------------------------------------------------------------------------
(* The mapping to the ledger.                                              *)
Verdicts == [t \in Txns |-> Verdict(t)]

(* The ledger's cardinality is the one of this module.                     *)
LEMMA SameCardinality == ASSUME NEW S PROVE Ledger!Cardinality(S) = Cardinality(S)
  BY Zenon DEF Cardinality, Ledger!Cardinality

(* What the ledger counts for a transaction is what its trigger counts.    *)
LEMMA OthersAreCounted ==
    ASSUME IndInv, NEW t \in Txns
    PROVE  /\ Ledger!Others(t) = EnabledActive(input[t].owner) \ {input[t].rule}
           /\ IsFiniteSet(Ledger!Others(t)) /\ Cardinality(Ledger!Others(t)) \in Nat
<1>1. input[t].owner \in Owners
  BY DEF IndInv, TypeOK, Inputs, Input
<1>2. Ledger!Others(t) = EnabledActive(input[t].owner) \ {input[t].rule}
  BY <1>1 DEF Ledger!Others, On, EnabledActive
<1>3. IsFiniteSet(EnabledActive(input[t].owner) \ {input[t].rule})
  BY FS_Subset DEF IndInv, EnabledActive
<1> QED BY <1>2, <1>3, FS_CardinalityType

(* When the trigger raises, the ledger refuses too.                        *)
LEMMA LimitReached ==
    ASSUME IndInv, NEW t \in Txns, RaiseLimit(t)
    PROVE  input[t].enabled /\ Ledger!Cardinality(Ledger!Others(t)) >= Limit
<1> DEFINE n == Cardinality(EnabledActive(input[t].owner) \ {input[t].rule})
<1>1. Ledger!Cardinality(Ledger!Others(t)) = n /\ n \in Nat
  BY OthersAreCounted, SameCardinality
<1>2. input[t].enabled /\ ~(n < Limit)
  BY DEF RaiseLimit, UnderLimit
<1> QED BY <1>1, <1>2, ConstantsAssumption

(* A step that moves no verdict and writes no table is invisible.          *)
LEMMA Invisible ==
    ASSUME TypeOK, NEW t \in Txns, \A u \in Txns \ {t} : pc'[u] = pc[u],
           Verdict(t)' = Verdict(t), UNCHANGED <<input, rules, revisions, active, events>>
    PROVE  UNCHANGED Ledger!ledger
<1>1. Verdicts' = Verdicts
  BY DEF Verdicts, Verdict
<1>2. On' = On
  BY DEF On, EnabledActive
<1> QED BY <1>1, <1>2 DEF Ledger!ledger, Verdicts

(* Only the verdict of t changes.                                          *)
LEMMA VerdictOf ==
    ASSUME NEW t \in Txns, \A u \in Txns \ {t} : pc'[u] = pc[u], NEW v, Verdict(t)' = v
    PROVE  [u \in Txns |-> Verdict(u)]' = [[u \in Txns |-> Verdict(u)] EXCEPT ![t] = v]
  BY DEF Verdict

(* COMMIT is the ledger's Store.                                           *)
LEMMA CommitStores ==
    ASSUME IndInv, NEW t \in Txns, Commit(t)
    PROVE  Ledger!Store(t)
<1>1. /\ pc[t] \in {"activated", "read"} /\ UNCHANGED <<input, events>>
      /\ pc'[t] \in {"committed", "lost", "done"}
      /\ \A u \in Txns \ {t} : pc'[u] = pc[u]
  BY DEF Commit, IndInv, TypeOK
<1>2. Verdict(t) = "open" /\ Verdict(t)' = "stored"
  BY <1>1 DEF Verdict
<1>3. [u \in Txns |-> Verdict(u)]' = [[u \in Txns |-> Verdict(u)] EXCEPT ![t] = "stored"]
  BY <1>1, <1>2, VerdictOf
<1>4. t \in Clients => input[t].rule \in rules
  BY <1>1 DEF IndInv, StagedByPosition
<1>5. input[t].enabled => Ledger!Cardinality(Ledger!Others(t)) < Limit
  BY <1>1, OthersAreCounted, SameCardinality DEF IndInv, AdmissionHolds
<1>6. rules' = rules \cup {input[t].rule}
  <2>1. "rule" \in staged[t] <=> t \in Requests
    BY ConstantsAssumption DEF Commit, IndInv, StagedByPosition, StagedAt, Writes, Txns
  <2>2. t \in Requests => input[t].rule = t
    BY DEF IndInv, TypeOK, Inputs
  <2> QED BY <1>4, <2>1, <2>2 DEF Commit, InstallWrites, Txns
<1>7. On' = IF input[t].enabled THEN On \cup {input[t].rule} ELSE On \ {input[t].rule}
  <2>1. input[t].owner \in Owners
    BY DEF IndInv, TypeOK, Inputs, Input
  <2>2. \A o \in Owners : input[t].rule \in EnabledActive(o) => o = input[t].owner
    BY DEF EnabledActive, IndInv, TypeOK, Inputs, Input, Txns
  <2>3. \A o \in Owners : EnabledActive(o)' =
              IF o # input[t].owner THEN EnabledActive(o)
              ELSE IF input[t].enabled THEN EnabledActive(o) \cup {input[t].rule}
              ELSE EnabledActive(o) \ {input[t].rule}
    BY CommitEffect
  <2>4. On' = UNION {EnabledActive(o)' : o \in Owners}
    BY DEF On
  <2>5. CASE input[t].enabled
    BY <2>1, <2>3, <2>4, <2>5 DEF On
  <2>6. CASE ~input[t].enabled
    BY <2>1, <2>2, <2>3, <2>4, <2>6 DEF On
  <2> QED BY <2>5, <2>6
<1> QED BY <1>1, <1>2, <1>3, <1>4, <1>5, <1>6, <1>7 DEF Ledger!Store

(***************************************************************************)
(* The statements, the lock, faults and lost answers implement the ledger  *)
(* in which every transaction takes effect in one step.                    *)
(***************************************************************************)
LEMMA LedgerStep ==
    ASSUME IndInv, RowsByPosition, [Next]_vars
    PROVE  [Ledger!LNext]_Ledger!ledger
<1> USE DEF IndInv, TypeOK
<1>1. ASSUME NEW t \in Txns, Commit(t) PROVE Ledger!LNext
  BY <1>1, CommitStores DEF Ledger!LNext, Txns
<1>2. ASSUME NEW t \in Txns, RaiseLimit(t) PROVE Ledger!LNext
  <2>1. /\ pc[t] = "locked" /\ pc'[t] = "limited" /\ \A u \in Txns \ {t} : pc'[u] = pc[u]
        /\ UNCHANGED <<input, rules, revisions, active, events>>
    BY <1>2 DEF RaiseLimit
  <2>2. Verdict(t) = "open" /\ Verdict(t)' = "limit"
    BY <2>1 DEF Verdict
  <2>3. [u \in Txns |-> Verdict(u)]' = [[u \in Txns |-> Verdict(u)] EXCEPT ![t] = "limit"]
    BY <2>1, <2>2, VerdictOf
  <2>4. input[t].enabled /\ Ledger!Cardinality(Ledger!Others(t)) >= Limit
    BY <1>2, LimitReached
  <2>5. On' = On
    BY <2>1 DEF On, EnabledActive
  <2>6. Ledger!Refuse(t)
    BY <2>1, <2>2, <2>3, <2>4, <2>5 DEF Ledger!Refuse
  <2> QED BY <2>6 DEF Ledger!LNext, Txns
<1>3. ASSUME NEW t \in Txns, Rollback(t) PROVE [Ledger!LNext]_Ledger!ledger
  <2>1. /\ pc[t] \in Begun \cup Holding /\ \A u \in Txns \ {t} : pc'[u] = pc[u]
        /\ pc'[t] = IF pc[t] = "limited" THEN "rejected" ELSE "failed"
        /\ UNCHANGED <<input, rules, revisions, active, events>>
    BY <1>3 DEF Rollback, InTransaction
  <2>2. CASE pc[t] = "limited"
    BY <2>1, <2>2, Invisible DEF Verdict
  <2>3. CASE pc[t] # "limited"
    <3>1. Verdict(t) = "open" /\ Verdict(t)' = "fault"
      BY <2>1, <2>3 DEF Verdict, Begun, Holding
    <3>2. [u \in Txns |-> Verdict(u)]' = [[u \in Txns |-> Verdict(u)] EXCEPT ![t] = "fault"]
      BY <2>1, <3>1, VerdictOf
    <3>3. On' = On
      BY <2>1 DEF On, EnabledActive
    <3>4. Ledger!Fail(t)
      BY <2>1, <3>1, <3>2, <3>3 DEF Ledger!Fail
    <3> QED BY <3>4 DEF Ledger!LNext, Txns
  <2> QED BY <2>2, <2>3
<1>4. ASSUME NEW t \in Txns, Respond(t) PROVE [Ledger!LNext]_Ledger!ledger
  <2>1. /\ t \in Requests /\ pc[t] = "committed" /\ pc'[t] \in {"created", "lost"}
        /\ \A u \in Txns \ {t} : pc'[u] = pc[u]
        /\ UNCHANGED <<input, rules, revisions, active>>
        /\ events' = events \/ events' = events \cup {t}
    BY <1>4 DEF Respond
  <2>2. Verdict(t) = "stored" /\ Verdict(t)' = "stored"
    BY <2>1 DEF Verdict
  <2>3. CASE events' = events
    BY <2>1, <2>2, <2>3, Invisible
  <2>4. CASE events' = events \cup {t}
    <3>1. Verdicts' = Verdicts
      BY <2>1, <2>2 DEF Verdicts, Verdict
    <3>2. On' = On
      BY <2>1 DEF On, EnabledActive
    <3>3. t \notin events
      BY <2>1 DEF RowsByPosition
    <3>4. Ledger!Announce(t)
      BY <2>1, <2>2, <2>4, <3>1, <3>2, <3>3 DEF Ledger!Announce, Verdicts
    <3> QED BY <3>4 DEF Ledger!LNext, Txns
  <2> QED BY <2>1, <2>3, <2>4
<1>5. ASSUME NEW t \in Txns,
             Begin(t) \/ ClientRevision(t) \/ InsertRule(t) \/ InsertRevision(t) \/ AcquireLock(t)
             \/ Activate(t) \/ ReadBack(t) \/ Crash(t)
      PROVE  UNCHANGED Ledger!ledger
  <2>1. /\ \A u \in Txns \ {t} : pc'[u] = pc[u]
        /\ UNCHANGED <<input, rules, revisions, active, events>>
        /\ Verdict(t)' = Verdict(t)
    BY <1>5 DEF Begin, InsertRule, InsertRevision, ClientRevision, AcquireLock, Activate,
                ReadBack, Crash, Verdict
  <2> QED BY <2>1, Invisible
<1>6. CASE UNCHANGED vars
  <2>1. Verdicts' = Verdicts /\ On' = On
    BY <1>6 DEF Verdicts, Verdict, On, EnabledActive, vars
  <2> QED BY <1>6, <2>1 DEF Ledger!ledger, Verdicts, vars
<1> QED BY <1>1, <1>2, <1>3, <1>4, <1>5, <1>6 DEF Next, Step, Proceed, AllEnded

(***************************************************************************)
(* The refinement: create_alert_rule and the trigger of migration 007      *)
(* implement the atomic ledger.                                            *)
(***************************************************************************)
THEOREM Refinement == Spec => ImplementsLedger
<1>1. Init => Ledger!LInit
  <2> SUFFICES ASSUME Init PROVE Ledger!LInit
    OBVIOUS
  <2>1. On = {}
    BY DEF Init, On, EnabledActive
  <2>2. [t \in Txns |-> Verdict(t)] = [t \in Txns |-> "open"]
    BY DEF Init, Verdict
  <2> QED BY <2>1, <2>2 DEF Init, Ledger!LInit, Txns
<1>2. IndInv /\ RowsByPosition /\ [Next]_vars => [Ledger!LNext]_Ledger!ledger
  BY LedgerStep
<1> QED BY <1>1, <1>2, Invariance, RowsInvariance, PTL DEF Spec, Ledger!LSpec, ImplementsLedger
=============================================================================
