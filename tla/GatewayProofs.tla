--------------------------- MODULE GatewayProofs ---------------------------
(***************************************************************************)
(* Proofs about Gateway, for any requests, credentials, connections and    *)
(* limit: connections lend no context, reads are exact, identities are     *)
(* issued, and pages are stored under the policy of a source.              *)
(***************************************************************************)
EXTENDS Gateway, FiniteSetTheorems, SequenceTheorems, WellFoundedInduction, TLAPS

InTransaction == {"begun", "ready", "selected"}

(* The variables have their domains, the clock and the counts are natural. *)
Types ==
    /\ script \in Scripts
    /\ now \in Nat
    /\ DOMAIN phase = Requests /\ DOMAIN auth = Requests /\ DOMAIN admitted = Requests
    /\ DOMAIN answer = Requests /\ DOMAIN under = Requests
    /\ holder \in [Connections -> Requests \cup {None}]
    /\ DOMAIN context = Connections
    /\ rules \in Seq(Rows)
    /\ seen \in [Requests -> Nat]
    /\ \A r \in Requests : seen[r] <= Len(rules)

(* A request that has not been looked at has no identity and has run no    *)
(* statement; one that has a connection is a read in a transaction, and    *)
(* has no other.                                                           *)
Holding ==
    /\ \A r \in Requests : phase[r] = "arriving" => auth[r] = None /\ under[r] = {}
    /\ \A c \in Connections :
          holder[c] # None => phase[holder[c]] \in InTransaction /\ Op(holder[c]) \in Reads
    /\ \A c, d \in Connections : holder[c] # None /\ holder[c] = holder[d] => c = d

(* The settings of a connection, by what its transaction has done.         *)
Settings ==
    \A c \in Connections :
        /\ holder[c] = None => context[c] \in NoContext
        /\ holder[c] # None /\ phase[holder[c]] = "begun" => context[c] \in NoContext
        /\ holder[c] # None /\ phase[holder[c]] # "begun" => context[c] = auth[holder[c]]

Statements == \A r \in Requests : under[r] \subseteq NoContext \cup {auth[r]}

Inv == Types /\ Holding /\ Settings /\ Statements

-----------------------------------------------------------------------------
LEMMA NotARequest == None \notin Requests
BY GatewayAssumption

LEMMA RowsAreFull == \A row \in Rows : {row.tenant, row.owner} \cap {None, Blank} = {}
BY GatewayAssumption

(* Next, one action at a time.                                             *)
LEMMA Cases ==
    ASSUME Next
    PROVE  \/ Tick
           \/ \E row \in Rows : CommitRule(row)
           \/ \E r \in Requests : Admit(r)
           \/ \E r \in Requests : create_source(r) \/ read_source(r) \/ LoadSource(r)
                                  \/ StorePage(r) \/ ws_upgrade(r)
           \/ \E r \in Requests, c \in Connections : BeginRead(r, c)
           \/ \E r \in Requests, c \in Connections : set_request_context(r, c)
           \/ \E r \in Requests, c \in Connections : Select(r, c)
           \/ \E r \in Requests, c \in Connections : CommitRead(r, c)
           \/ \E r \in Requests, c \in Connections : AbortRead(r, c)
           \/ \E r \in Requests, c \in Connections :
                 upsert_alert_embedding(r, c) \/ reverse_match_page(r, c)
BY DEF Next, Handle, Read

(* What a handler without a connection does to the state of the reads: it  *)
(* moves a request that has been admitted and is not a read.               *)
Moved(r) ==
    /\ UNCHANGED <<script, now, auth, admitted, holder, context, rules>>
    /\ Op(r) \notin Reads
    /\ phase[r] \notin InTransaction \cup {"arriving"}
    /\ DOMAIN phase' = Requests /\ phase'[r] # "arriving"
    /\ \A q \in Requests \ {r} : phase'[q] = phase[q]

LEMMA Handlers ==
    ASSUME NEW r \in Requests, Types,
           create_source(r) \/ read_source(r) \/ LoadSource(r) \/ StorePage(r) \/ ws_upgrade(r)
    PROVE  Moved(r) /\ UNCHANGED <<seen, answer, under>>
<1> USE DEF Types, Moved, Reads, InTransaction, readVars
<1>1. CASE create_source(r)
  BY <1>1 DEF create_source
<1>2. CASE read_source(r)
  BY <1>2 DEF read_source
<1>3. CASE LoadSource(r)
  BY <1>3 DEF LoadSource, Deliveries
<1>4. CASE StorePage(r)
  BY <1>4 DEF StorePage
<1>5. CASE ws_upgrade(r)
  BY <1>5 DEF ws_upgrade
<1> QED BY <1>1, <1>2, <1>3, <1>4, <1>5

(* A worker's statement, likewise: it takes a free connection as it is.    *)
Asked(r, c) ==
    /\ holder[c] = None
    /\ DOMAIN answer' = Requests /\ \A q \in Requests \ {r} : answer'[q] = answer[q]
    /\ seen' = [seen EXCEPT ![r] = Len(rules)]
    /\ under' = [under EXCEPT ![r] = {context[c]}]

LEMMA Workers ==
    ASSUME NEW r \in Requests, NEW c \in Connections, Types,
           upsert_alert_embedding(r, c) \/ reverse_match_page(r, c)
    PROVE  Moved(r) /\ Asked(r, c)
<1> USE DEF Types, Moved, Asked, WorkerQuery, Reads, InTransaction
<1>1. CASE upsert_alert_embedding(r, c)
  BY <1>1 DEF upsert_alert_embedding
<1>2. CASE reverse_match_page(r, c)
  BY <1>2 DEF reverse_match_page
<1> QED BY <1>1, <1>2

-----------------------------------------------------------------------------
LEMMA TypesStep == ASSUME Types, Next PROVE Types'
<1>1. CASE Tick
  BY <1>1 DEF Types, Tick, readVars, storeVars
<1>2. ASSUME NEW row \in Rows, CommitRule(row) PROVE Types'
  <2>1. rules' \in Seq(Rows) /\ Len(rules') = Len(rules) + 1
    BY <1>2 DEF Types, CommitRule
  <2> QED BY <1>2, <2>1 DEF Types, CommitRule, storeVars
<1>3. ASSUME NEW r \in Requests, Admit(r) PROVE Types'
  BY <1>3 DEF Types, Admit, readVars, storeVars
<1>4. ASSUME NEW r \in Requests,
             create_source(r) \/ read_source(r) \/ LoadSource(r) \/ StorePage(r) \/ ws_upgrade(r)
      PROVE  Types'
  <2>1. Moved(r) /\ UNCHANGED <<seen, answer, under>>
    BY <1>4, Handlers
  <2> QED BY <2>1 DEF Moved, Types
<1>5. ASSUME NEW r \in Requests, NEW c \in Connections,
             upsert_alert_embedding(r, c) \/ reverse_match_page(r, c)
      PROVE  Types'
  <2>1. Moved(r) /\ Asked(r, c)
    BY <1>5, Workers
  <2> QED BY <2>1 DEF Moved, Asked, Types
<1>6. ASSUME NEW r \in Requests, NEW c \in Connections, BeginRead(r, c) PROVE Types'
  BY <1>6 DEF Types, BeginRead
<1>7. ASSUME NEW r \in Requests, NEW c \in Connections, set_request_context(r, c) PROVE Types'
  BY <1>7 DEF Types, set_request_context
<1>8. ASSUME NEW r \in Requests, NEW c \in Connections, Select(r, c) PROVE Types'
  BY <1>8 DEF Types, Select
<1>9. ASSUME NEW r \in Requests, NEW c \in Connections, CommitRead(r, c) PROVE Types'
  BY <1>9 DEF Types, CommitRead, Release
<1>10. ASSUME NEW r \in Requests, NEW c \in Connections, AbortRead(r, c) PROVE Types'
  BY <1>10 DEF Types, AbortRead, Release
<1> QED BY Cases, <1>1, <1>2, <1>3, <1>4, <1>5, <1>6, <1>7, <1>8, <1>9, <1>10

(* Identity, transaction and settings of a request change together.        *)
LEMMA ConnectionStep ==
    ASSUME Types, Types', Holding, Settings, Next
    PROVE  Holding' /\ Settings'
<1> USE NotARequest DEF Op
<1>1. CASE Tick
  BY <1>1 DEF Types, Holding, Settings, Tick, readVars
<1>2. ASSUME NEW row \in Rows, CommitRule(row) PROVE Holding' /\ Settings'
  BY <1>2 DEF Types, Holding, Settings, CommitRule
<1>3. ASSUME NEW r \in Requests, Admit(r) PROVE Holding' /\ Settings'
  BY <1>3 DEF Types, Holding, Settings, Admit, readVars, InTransaction
<1>4. ASSUME NEW r \in Requests,
             create_source(r) \/ read_source(r) \/ LoadSource(r) \/ StorePage(r) \/ ws_upgrade(r)
      PROVE  Holding' /\ Settings'
  <2>1. Moved(r) /\ UNCHANGED <<seen, answer, under>>
    BY <1>4, Handlers
  <2>2. \A d \in Connections : holder[d] # None => holder[d] \in Requests \ {r}
    BY <2>1 DEF Moved, Types, Holding
  <2>3. Holding'
    BY <2>1, <2>2 DEF Moved, Types, Holding
  <2>4. Settings'
    BY <2>1, <2>2 DEF Moved, Types, Holding, Settings
  <2> QED BY <2>3, <2>4
<1>5. ASSUME NEW r \in Requests, NEW c \in Connections,
             upsert_alert_embedding(r, c) \/ reverse_match_page(r, c)
      PROVE  Holding' /\ Settings'
  <2>1. Moved(r) /\ Asked(r, c)
    BY <1>5, Workers
  <2> QED BY <2>1 DEF Moved, Asked, Types, Holding, Settings, InTransaction
<1>6. ASSUME NEW r \in Requests, NEW c \in Connections, BeginRead(r, c) PROVE Holding' /\ Settings'
  BY <1>6 DEF Types, Holding, Settings, BeginRead, InTransaction
<1>7. ASSUME NEW r \in Requests, NEW c \in Connections, set_request_context(r, c)
      PROVE  Holding' /\ Settings'
  BY <1>7 DEF Types, Holding, Settings, set_request_context, InTransaction
<1>8. ASSUME NEW r \in Requests, NEW c \in Connections, Select(r, c) PROVE Holding' /\ Settings'
  BY <1>8 DEF Types, Holding, Settings, Select, InTransaction
<1>9. ASSUME NEW r \in Requests, NEW c \in Connections, CommitRead(r, c) PROVE Holding' /\ Settings'
  BY <1>9 DEF Types, Holding, Settings, CommitRead, Release, InTransaction, NoContext
<1>10. ASSUME NEW r \in Requests, NEW c \in Connections, AbortRead(r, c) PROVE Holding' /\ Settings'
  BY <1>10 DEF Types, Holding, Settings, AbortRead, Release, InTransaction, NoContext
<1> QED BY Cases, <1>1, <1>2, <1>3, <1>4, <1>5, <1>6, <1>7, <1>8, <1>9, <1>10

(* A statement on the alert tables sees the settings of its connection.    *)
LEMMA StatementStep == ASSUME Inv, Next PROVE Statements'
<1> USE NotARequest DEF Inv
<1>1. CASE Tick
  BY <1>1 DEF Statements, Tick, readVars
<1>2. ASSUME NEW row \in Rows, CommitRule(row) PROVE Statements'
  BY <1>2 DEF Statements, CommitRule
<1>3. ASSUME NEW r \in Requests, Admit(r) PROVE Statements'
  BY <1>3 DEF Types, Holding, Statements, Admit, readVars
<1>4. ASSUME NEW r \in Requests,
             create_source(r) \/ read_source(r) \/ LoadSource(r) \/ StorePage(r) \/ ws_upgrade(r)
      PROVE  Statements'
  <2>1. Moved(r) /\ UNCHANGED <<seen, answer, under>>
    BY <1>4, Handlers
  <2> QED BY <2>1 DEF Moved, Statements
<1>5. ASSUME NEW r \in Requests, NEW c \in Connections,
             upsert_alert_embedding(r, c) \/ reverse_match_page(r, c)
      PROVE  Statements'
  <2>1. Moved(r) /\ Asked(r, c)
    BY <1>5, Workers
  <2> QED BY <2>1 DEF Moved, Asked, Types, Settings, Statements
<1>6. ASSUME NEW r \in Requests, NEW c \in Connections, BeginRead(r, c) PROVE Statements'
  BY <1>6 DEF Statements, BeginRead
<1>7. ASSUME NEW r \in Requests, NEW c \in Connections, set_request_context(r, c) PROVE Statements'
  BY <1>7 DEF Statements, set_request_context
<1>8. ASSUME NEW r \in Requests, NEW c \in Connections, Select(r, c) PROVE Statements'
  BY <1>8 DEF Types, Settings, Statements, Select
<1>9. ASSUME NEW r \in Requests, NEW c \in Connections, CommitRead(r, c) PROVE Statements'
  BY <1>9 DEF Statements, CommitRead
<1>10. ASSUME NEW r \in Requests, NEW c \in Connections, AbortRead(r, c) PROVE Statements'
  BY <1>10 DEF Statements, AbortRead
<1> QED BY Cases, <1>1, <1>2, <1>3, <1>4, <1>5, <1>6, <1>7, <1>8, <1>9, <1>10

LEMMA InitInv == Init => Inv
<1> SUFFICES ASSUME Init PROVE Inv
  OBVIOUS
<1>1. rules \in Seq(Rows) /\ Len(rules) = 0
  BY DEF Init
<1>2. Types
  BY <1>1 DEF Init, Types
<1>3. Holding
  BY DEF Init, Holding
<1>4. Settings
  BY DEF Init, Settings, NoContext
<1>5. Statements
  BY DEF Init, Statements
<1> QED BY <1>2, <1>3, <1>4, <1>5 DEF Inv

LEMMA StutterInv == ASSUME Inv, UNCHANGED vars PROVE Inv'
BY DEF Inv, Types, Holding, Settings, Statements, vars, Op

(***************************************************************************)
(* The inductive invariant of the pool: a connection is held by one        *)
(* request in a transaction, its settings are those the transaction made,  *)
(* and every statement on the alert tables saw its own or none.            *)
(***************************************************************************)
THEOREM PoolInvariance == Spec => []Inv
<1>1. Init => Inv
  BY InitInv
<1>2. Inv /\ [Next]_vars => Inv'
  BY TypesStep, ConnectionStep, StatementStep, StutterInv DEF Inv
<1> QED BY <1>1, <1>2, PTL DEF Spec

(***************************************************************************)
(* Whatever the order of requests, failures and transactions, and however  *)
(* few connections there are, no request runs under another one's context. *)
(***************************************************************************)
THEOREM OwnContext == Spec => []ContextIsOwn
<1>1. Inv => ContextIsOwn
  BY DEF Inv, Settings, Statements, ContextIsOwn
<1> QED BY PoolInvariance, <1>1, PTL

-----------------------------------------------------------------------------
(* Newer(S, i): the members of S after i.  Newest(S) keeps those that have *)
(* fewer than ListLimit after them.                                        *)
Newer(S, i) == {j \in S : j > i}

LEMMA NewestByNewer ==
    ASSUME NEW S PROVE Newest(S) = {i \in S : Cardinality(Newer(S, i)) < ListLimit}
BY DEF Newest, Newer

(* A set of numbers that leaves members out leaves out a last one.         *)
LEMMA LastOne ==
    ASSUME NEW n \in Nat, NEW T \in SUBSET (1..n), T # {}
    PROVE  \E i \in T : \A j \in T : j <= i
<1> DEFINE Above(i) == {j \in 1..n : j > i}
           F == {Above(i) : i \in T}
<1>1. IsFiniteSet(1..n)
  BY FS_Interval
<1>2. F \subseteq FiniteSubsetsOf(1..n) /\ F # {}
  <2>1. FiniteSubsetsOf(1..n) = SUBSET (1..n)
    BY <1>1, FS_FiniteSubsetsOfFinite
  <2>2. \A i \in T : Above(i) \in SUBSET (1..n)
    OBVIOUS
  <2>3. F \subseteq SUBSET (1..n) /\ F # {}
    BY <2>2, Zenon
  <2> QED BY <2>1, <2>3
<1>3. PICK U \in F : \A V \in F : <<V, U>> \notin StrictSubsetOrdering(1..n)
  BY <1>2, FS_StrictSubsetOrderingWellFounded, WFMin
<1>4. PICK i \in T : U = Above(i)
  OBVIOUS
<1>5. ASSUME NEW j \in T, j > i PROVE FALSE
  <2>1. Above(j) \subseteq Above(i) /\ j \in Above(i) /\ j \notin Above(j)
    BY <1>5
  <2>2. <<Above(j), Above(i)>> \in StrictSubsetOrdering(1..n)
    BY <2>1 DEF StrictSubsetOrdering
  <2> QED BY <1>3, <1>4, <2>2
<1>6. \A j \in T : j \in Int
  OBVIOUS
<1> QED BY <1>5, <1>6

LEMMA FirstOne ==
    ASSUME NEW n \in Nat, NEW T \in SUBSET (1..n), T # {}
    PROVE  \E i \in T : \A j \in T : i <= j
<1> DEFINE Mirror == {n + 1 - i : i \in T}
<1>1. Mirror \in SUBSET (1..n) /\ Mirror # {}
  <2>1. \A i \in T : n + 1 - i \in 1..n
    OBVIOUS
  <2> QED BY <2>1, Zenon
<1>2. PICK k \in Mirror : \A m \in Mirror : m <= k
  BY <1>1, LastOne
<1>3. PICK i \in T : k = n + 1 - i
  OBVIOUS
<1>4. ASSUME NEW j \in T PROVE i <= j
  <2>1. n + 1 - j <= k
    BY <1>2
  <2> QED BY <1>3, <2>1
<1> QED BY <1>4

(***************************************************************************)
(* ORDER BY ... DESC LIMIT: what is left out is older than everything that *)
(* is returned, and nothing is left out unless the limit is reached.       *)
(***************************************************************************)
LEMMA NewestIsExact ==
    ASSUME NEW n \in Nat, NEW S \in SUBSET (1..n)
    PROVE  /\ Newest(S) \subseteq S
           /\ \A i \in S \ Newest(S) : /\ \A j \in Newest(S) : i < j
                                       /\ Cardinality(Newest(S)) = ListLimit
<1> DEFINE Kept == Newest(S)
<1>1. Kept = {i \in S : Cardinality(Newer(S, i)) < ListLimit}
  BY NewestByNewer
<1>2. ListLimit \in Nat /\ ListLimit > 0
  BY GatewayAssumption
<1>3. IsFiniteSet(S) /\ S \subseteq Int /\ Kept \subseteq S
  <2>1. IsFiniteSet(1..n)
    BY FS_Interval
  <2>2. IsFiniteSet(S)
    BY <2>1, FS_Subset
  <2>3. \A i \in S : i \in Int
    OBVIOUS
  <2>4. Kept \subseteq S
    BY <1>1
  <2> QED BY <2>2, <2>3, <2>4
<1>4. ASSUME NEW i \in S
      PROVE  IsFiniteSet(Newer(S, i)) /\ Cardinality(Newer(S, i)) \in Nat
  <2>1. Newer(S, i) \in SUBSET S
    BY DEF Newer
  <2> QED BY <1>3, <2>1, FS_Subset, FS_CardinalityType
<1>5. ASSUME NEW i \in S \ Kept, NEW j \in Kept PROVE i < j
  <2>0. i \in Int /\ j \in Int /\ j \in S
    BY <1>3
  <2>1. SUFFICES ASSUME j <= i PROVE FALSE
    BY <2>0
  <2>2. Newer(S, i) \in SUBSET Newer(S, j)
    <3>1. \A x \in S : x \in Int /\ (x > i => x > j)
      BY <1>3, <2>0, <2>1
    <3> QED BY <3>1, Zenon DEF Newer
  <2>3. Cardinality(Newer(S, i)) <= Cardinality(Newer(S, j))
    BY <1>4, <2>0, <2>2, FS_Subset
  <2>4. Cardinality(Newer(S, j)) < ListLimit /\ ~(Cardinality(Newer(S, i)) < ListLimit)
    BY <1>1
  <2>5. Cardinality(Newer(S, i)) \in Nat /\ Cardinality(Newer(S, j)) \in Nat
    BY <1>4, <2>0
  <2> QED BY <1>2, <2>3, <2>4, <2>5
<1>6. ASSUME S \ Kept # {} PROVE Cardinality(Kept) = ListLimit
  <2>1. PICK i \in S \ Kept : \A j \in S \ Kept : j <= i
    BY <1>6, LastOne
  <2>2. Kept = Newer(S, i)
    <3>1. \A x \in S : x \in Kept <=> x > i
      BY <1>3, <1>5, <2>1
    <3> QED BY <1>3, <3>1, Zenon DEF Newer
  <2>3. Cardinality(Kept) \in Nat /\ Cardinality(Kept) >= ListLimit
    BY <1>1, <1>2, <1>4, <2>1, <2>2
  <2>4. IsFiniteSet(Kept) /\ Kept # {}
    BY <1>2, <1>4, <2>2, <2>3, FS_EmptySet
  <2>5. PICK a \in Kept : \A j \in Kept : a <= j
    BY <1>3, <2>4, FirstOne
  <2>6. Newer(S, a) = Kept \ {a}
    <3>1. \A x \in S : x > a <=> x \in Kept /\ x # a
      <4>1. a \in Int /\ \A x \in S : x \in Int
        BY <1>3
      <4>2. \A x \in S \ Kept : x < a
        BY <1>5
      <4> QED BY <2>5, <4>1, <4>2
    <3> QED BY <1>3, <3>1, Zenon DEF Newer
  <2>7. Cardinality(Newer(S, a)) = Cardinality(Kept) - 1
    BY <2>4, <2>6, FS_RemoveElement
  <2> QED BY <1>1, <1>2, <2>3, <2>5, <2>7
<1> QED BY <1>1, <1>5, <1>6

(* An answer stays exact while its request does nothing: rules are only    *)
(* added after those its statement saw.                                    *)
LEMMA AnswerStays ==
    ASSUME NEW r \in Requests, AnswerIsExact(r), script' = script, auth'[r] = auth[r],
           answer'[r] = answer[r], seen'[r] = seen[r],
           \A i \in 1..seen[r] : rules'[i] = rules[i]
    PROVE  AnswerIsExact(r)'
<1>1. Own(r)' = Own(r)
  BY DEF Own
<1> QED BY <1>1 DEF AnswerIsExact, Op, Arg

(* With its own settings a statement asks for exactly what it may see.     *)
LEMMA SelectIsExact ==
    ASSUME Inv, NEW r \in Requests, NEW c \in Connections, Select(r, c)
    PROVE  AnswerIsExact(r)'
<1> DEFINE found == {i \in DOMAIN rules : Where(rules[i], r) /\ Policy(rules[i], context[c])}
<1>1. context[c] = auth[r]
  BY NotARequest DEF Inv, Settings, Select
<1>2. rules \in Seq(Rows) /\ DOMAIN rules = 1..Len(rules) /\ Len(rules) \in Nat
  BY DEF Inv, Types
<1>3. rules' = rules /\ auth' = auth /\ script' = script /\ seen'[r] = Len(rules)
  BY DEF Select, Inv, Types
<1>4. Own(r)' = found
  <2>1. ASSUME NEW i \in 1..Len(rules)
        PROVE  (rules[i].tenant = auth[r].tenant
                  /\ (rules[i].owner = auth[r].subject \/ auth[r].tenant_admin))
               <=> Where(rules[i], r) /\ Policy(rules[i], context[c])
    <3>1. rules[i].tenant \notin {None, Blank} /\ rules[i].owner \notin {None, Blank}
      <4>1. rules[i] \in Rows
        BY <1>2
      <4>2. {rules[i].tenant, rules[i].owner} \cap {None, Blank} = {}
        BY <4>1, RowsAreFull
      <4> QED BY <4>2
    <3> QED BY <1>1, <3>1 DEF Where, Policy
  <2> QED BY <1>2, <1>3, <2>1 DEF Own
<1>5. found \in SUBSET (1..Len(rules))
  BY <1>2
<1>6. answer'[r] = IF Op(r) = "list_records" THEN Newest(found) ELSE found \cap {Arg(r)}
  BY DEF Select, Inv, Types
<1>7. CASE Op(r) = "get_record"
  BY <1>3, <1>4, <1>6, <1>7 DEF AnswerIsExact, Op, Arg
<1>8. CASE Op(r) = "list_records"
  <2>1. answer'[r] = Newest(found)
    BY <1>6, <1>8
  <2>2. /\ Newest(found) \subseteq found
        /\ \A i \in found \ Newest(found) : /\ \A j \in Newest(found) : i < j
                                            /\ Cardinality(Newest(found)) = ListLimit
    BY <1>2, <1>5, NewestIsExact
  <2> HIDE DEF found
  <2>3. ~(Op(r)' = "get_record")
    BY <1>3, <1>8 DEF Op
  <2> QED BY <1>4, <2>1, <2>2, <2>3 DEF AnswerIsExact
<1>9. Op(r) \in Reads
  BY NotARequest DEF Inv, Holding, Select
<1> QED BY <1>7, <1>8, <1>9 DEF Reads

(***************************************************************************)
(* The read of an alert rule, or of the newest ones, for every number of   *)
(* rules, limit and interleaving of reads, writes and failures.            *)
(***************************************************************************)
LEMMA ReadStep == ASSUME Inv, ReadsAreExact, Next PROVE ReadsAreExact'
<1> USE NotARequest DEF Inv
<1>0. \A r \in Requests : seen[r] \in Nat
  BY DEF Types
<1>1. CASE Tick
  <2>1. SUFFICES ASSUME NEW q \in Requests, AnswerIsExact(q) PROVE AnswerIsExact(q)'
    BY <1>1 DEF ReadsAreExact, Tick, Op
  <2> QED BY <1>1, <2>1, AnswerStays DEF Tick, readVars
<1>2. ASSUME NEW row \in Rows, CommitRule(row) PROVE ReadsAreExact'
  <2>1. SUFFICES ASSUME NEW q \in Requests, AnswerIsExact(q) PROVE AnswerIsExact(q)'
    BY <1>2 DEF ReadsAreExact, CommitRule, Op
  <2>2. \A i \in 1..seen[q] : rules'[i] = rules[i]
    BY <1>0, <1>2 DEF Types, CommitRule
  <2> QED BY <1>2, <2>1, <2>2, AnswerStays DEF CommitRule
<1>3. ASSUME NEW r \in Requests, Admit(r) PROVE ReadsAreExact'
  <2>1. SUFFICES ASSUME NEW q \in Requests \ {r}, AnswerIsExact(q) PROVE AnswerIsExact(q)'
    BY <1>3 DEF ReadsAreExact, Admit, Op, Types
  <2>2. script' = script /\ auth'[q] = auth[q] /\ answer' = answer /\ seen' = seen /\ rules' = rules
    BY <1>3 DEF Admit, readVars, Types
  <2> QED BY <2>1, <2>2, AnswerStays
<1>4. ASSUME NEW r \in Requests,
             create_source(r) \/ read_source(r) \/ LoadSource(r) \/ StorePage(r) \/ ws_upgrade(r)
      PROVE  ReadsAreExact'
  <2>1. Moved(r) /\ UNCHANGED <<seen, answer, under>>
    BY <1>4, Handlers
  <2>2. SUFFICES ASSUME NEW q \in Requests \ {r}, AnswerIsExact(q) PROVE AnswerIsExact(q)'
    BY <2>1 DEF ReadsAreExact, Moved, Op
  <2> QED BY <2>1, <2>2, AnswerStays DEF Moved
<1>5. ASSUME NEW r \in Requests, NEW c \in Connections,
             upsert_alert_embedding(r, c) \/ reverse_match_page(r, c)
      PROVE  ReadsAreExact'
  <2>1. Moved(r) /\ Asked(r, c)
    BY <1>5, Workers
  <2>2. SUFFICES ASSUME NEW q \in Requests \ {r}, AnswerIsExact(q) PROVE AnswerIsExact(q)'
    BY <2>1 DEF ReadsAreExact, Moved, Op
  <2>3. answer'[q] = answer[q] /\ seen'[q] = seen[q]
    BY <2>1 DEF Asked, Types
  <2> QED BY <2>1, <2>2, <2>3, AnswerStays DEF Moved
<1>6. ASSUME NEW r \in Requests, NEW c \in Connections, BeginRead(r, c) PROVE ReadsAreExact'
  <2>1. SUFFICES ASSUME NEW q \in Requests, AnswerIsExact(q) PROVE AnswerIsExact(q)'
    BY <1>6 DEF ReadsAreExact, BeginRead, Op, Types
  <2> QED BY <1>6, <2>1, AnswerStays DEF BeginRead
<1>7. ASSUME NEW r \in Requests, NEW c \in Connections, set_request_context(r, c)
      PROVE  ReadsAreExact'
  <2>1. SUFFICES ASSUME NEW q \in Requests, AnswerIsExact(q) PROVE AnswerIsExact(q)'
    BY <1>7 DEF ReadsAreExact, set_request_context, Op, Types
  <2> QED BY <1>7, <2>1, AnswerStays DEF set_request_context
<1>8. ASSUME NEW r \in Requests, NEW c \in Connections, Select(r, c) PROVE ReadsAreExact'
  <2>1. AnswerIsExact(r)'
    BY <1>8, SelectIsExact
  <2>2. SUFFICES ASSUME NEW q \in Requests \ {r}, AnswerIsExact(q) PROVE AnswerIsExact(q)'
    BY <1>8, <2>1 DEF ReadsAreExact, Select, Op, Types
  <2>3. answer'[q] = answer[q] /\ seen'[q] = seen[q]
    BY <1>8 DEF Select, Types
  <2> QED BY <1>8, <2>2, <2>3, AnswerStays DEF Select
<1>9. ASSUME NEW r \in Requests, NEW c \in Connections, CommitRead(r, c) PROVE ReadsAreExact'
  <2>1. SUFFICES ASSUME NEW q \in Requests, AnswerIsExact(q) PROVE AnswerIsExact(q)'
    BY <1>9 DEF ReadsAreExact, CommitRead, Op, Types
  <2> QED BY <1>9, <2>1, AnswerStays DEF CommitRead
<1>10. ASSUME NEW r \in Requests, NEW c \in Connections, AbortRead(r, c) PROVE ReadsAreExact'
  <2>1. SUFFICES ASSUME NEW q \in Requests \ {r}, AnswerIsExact(q) PROVE AnswerIsExact(q)'
    BY <1>10 DEF ReadsAreExact, AbortRead, Op, Types
  <2>2. answer'[q] = answer[q]
    BY <1>10 DEF AbortRead, Types
  <2> QED BY <1>10, <2>1, <2>2, AnswerStays DEF AbortRead
<1> QED BY Cases, <1>1, <1>2, <1>3, <1>4, <1>5, <1>6, <1>7, <1>8, <1>9, <1>10

(***************************************************************************)
(* Every read of alert rules returns exactly the rules its identity may    *)
(* see, the newest first up to the limit: row-level security takes nothing *)
(* away that the statement asks for, and adds nothing to it.               *)
(***************************************************************************)
THEOREM ExactReads == Spec => []ReadsAreExact
<1>1. Init => ReadsAreExact
  BY DEF Init, ReadsAreExact
<1>2. Inv /\ ReadsAreExact /\ [Next]_vars => ReadsAreExact'
  <2>1. CASE Next
    BY <2>1, ReadStep
  <2>2. ASSUME UNCHANGED vars, ReadsAreExact PROVE ReadsAreExact'
    BY <2>2 DEF vars, ReadsAreExact, AnswerIsExact, Own, Op, Arg
  <2> QED BY <2>1, <2>2
<1> QED BY PoolInvariance, <1>1, <1>2, PTL DEF Spec

-----------------------------------------------------------------------------
(* Headers as GatewayAssumption has them.                                  *)
Wellformed(h) ==
    /\ h.authorization \in Seq(Values(h.authorization))
    /\ h.cookies \in Seq(Values(h.cookies))
    /\ None \notin Presented(h)
    /\ \A token \in Presented(h) \ {Blank, Malformed} :
          /\ token.body.claims.exp \in Int \cup {None}
          /\ token.body.claims.nbf \in Int \cup {None}

LEMMA HeadersAreWellformed ==
    ASSUME NEW r \in Requests, script \in Scripts PROVE Wellformed(Headers(r))
BY GatewayAssumption DEF Wellformed, Headers

(* A request that has a token presented nothing else.                      *)
LEMMA OneToken ==
    ASSUME NEW h, Wellformed(h), extract_token(h) # Malformed
    PROVE  Presented(h) = {extract_token(h)} /\ extract_token(h) # Blank
<1> DEFINE header == Authorization(h.authorization)
           cookie == cookie_token(h.cookies)
<1>1. \/ header = None /\ Values(h.authorization) = {}
      \/ header = Malformed
      \/ header \notin {None, Blank} /\ Values(h.authorization) = {header}
  BY DEF Wellformed, Presented, Authorization, Values
<1>2. \/ cookie = None /\ Values(h.cookies) = {}
      \/ cookie = Malformed
      \/ cookie \notin {None, Blank} /\ Values(h.cookies) = {cookie}
  BY DEF Wellformed, Presented, cookie_token, Values
<1> HIDE DEF header, cookie
<1>3. header # Malformed /\ cookie # Malformed
  BY DEF extract_token, header, cookie
<1>4. header = None => cookie # None /\ extract_token(h) = cookie
  BY <1>3 DEF extract_token, header, cookie
<1>5. header # None => cookie \in {None, header} /\ extract_token(h) = header
  BY <1>3 DEF extract_token, header, cookie
<1>6. CASE header = None
  BY <1>1, <1>2, <1>3, <1>4, <1>6 DEF Presented
<1>7. CASE header # None
  BY <1>1, <1>2, <1>3, <1>5, <1>7 DEF Presented
<1> QED BY <1>6, <1>7

(* What IdentityIsIssued asks of an admitted identity at time t.           *)
IssuedTo(h, identity, t) ==
    \E token \in Presented(h) :
        LET claims == token.body.claims IN
        /\ Presented(h) = {token}
        /\ token.signature = [key |-> Secret, over |-> token.body]
        /\ claims.iss = Issuer /\ Audience \in claims.aud
        /\ claims.exp + Leeway > t
        /\ claims.nbf = None \/ claims.nbf - Leeway <= t
        /\ identity.tenant = Uuid[claims.tenant] /\ identity.subject = Trim[claims.sub]
        /\ identity.tenant_admin <=> \E s \in Values(claims.roles) : Role[s] \in Admin

LEMMA AuthenticatedIsIssued ==
    ASSUME NEW h, Wellformed(h), NEW t \in Nat, authenticate("jwt", h, t) # None
    PROVE  IssuedTo(h, authenticate("jwt", h, t), t)
<1> DEFINE token == extract_token(h)
           claims == token.body.claims
           identity == authenticate("jwt", h, t)
<1>1. token # Malformed /\ VerifyOk(token, t) /\ identity = Verified(claims)
  BY DEF authenticate
<1>2. Presented(h) = {token} /\ token # Blank
  BY <1>1, OneToken
<1> HIDE DEF token
<1>3. /\ token.signature = [key |-> Secret, over |-> token.body]
      /\ claims.iss = Issuer /\ Audience \in claims.aud
      /\ InTime(claims, t)
  BY <1>1 DEF VerifyOk
<1>4. claims.exp + Leeway > t /\ (claims.nbf = None \/ claims.nbf - Leeway <= t)
  <2>1. claims.exp \in Int \cup {None} /\ claims.nbf \in Int \cup {None} /\ Leeway \in Int
    BY <1>1, <1>2, AuthAssumption DEF Wellformed
  <2> QED BY <1>3, <2>1 DEF InTime
<1>5. identity.tenant = Uuid[claims.tenant] /\ identity.subject = Trim[claims.sub]
  BY <1>1 DEF Verified
<1>6. identity.tenant_admin <=> \E s \in Values(claims.roles) : Role[s] \in Admin
  <2>1. identity.tenant_admin = (parse_roles(claims.roles) \cap Admin # {})
    BY <1>1 DEF Verified
  <2>2. Blank \notin Admin
    BY AuthAssumption
  <2> QED BY <2>1, <2>2 DEF parse_roles
<1> QED BY <1>2, <1>3, <1>4, <1>5, <1>6 DEF IssuedTo

(* The property, request by request.                                       *)
LEMMA IdentityByRequest ==
    IdentityIsIssued <=>
        \A r \in Requests : script.mode = "jwt" /\ ~IsWorker(r) /\ auth[r] # None
                              => IssuedTo(Headers(r), auth[r], admitted[r])
BY DEF IdentityIsIssued, IssuedTo

(* Only Admit gives an identity.                                           *)
LEMMA OnlyAdmit ==
    ASSUME Types, Next PROVE \/ UNCHANGED <<script, auth, admitted>>
                             \/ \E r \in Requests : Admit(r)
<1>1. CASE Tick
  BY <1>1 DEF Tick
<1>2. ASSUME NEW row \in Rows, CommitRule(row) PROVE UNCHANGED <<script, auth, admitted>>
  BY <1>2 DEF CommitRule
<1>3. ASSUME NEW r \in Requests,
             create_source(r) \/ read_source(r) \/ LoadSource(r) \/ StorePage(r) \/ ws_upgrade(r)
      PROVE  UNCHANGED <<script, auth, admitted>>
  BY <1>3, Handlers DEF Moved
<1>4. ASSUME NEW r \in Requests, NEW c \in Connections,
             \/ BeginRead(r, c) \/ set_request_context(r, c) \/ Select(r, c)
             \/ CommitRead(r, c) \/ AbortRead(r, c)
      PROVE  UNCHANGED <<script, auth, admitted>>
  BY <1>4 DEF BeginRead, set_request_context, Select, CommitRead, AbortRead
<1>5. ASSUME NEW r \in Requests, NEW c \in Connections,
             upsert_alert_embedding(r, c) \/ reverse_match_page(r, c)
      PROVE  UNCHANGED <<script, auth, admitted>>
  BY <1>5, Workers DEF Moved
<1> QED BY Cases, <1>1, <1>2, <1>3, <1>4, <1>5

LEMMA IdentityStep == ASSUME Types, IdentityIsIssued, [Next]_vars PROVE IdentityIsIssued'
<1>1. CASE UNCHANGED <<script, auth, admitted>>
  <2>1. \A r \in Requests : IsWorker(r)' = IsWorker(r) /\ Headers(r)' = Headers(r)
    BY <1>1 DEF IsWorker, Headers, Op
  <2>2. ASSUME NEW q \in Requests, script'.mode = "jwt", ~IsWorker(q)', auth'[q] # None
        PROVE  IssuedTo(Headers(q), auth[q], admitted[q])'
    <3>1. IssuedTo(Headers(q), auth[q], admitted[q])
      BY <1>1, <2>1, <2>2, IdentityByRequest
    <3> QED BY <1>1, <2>1, <3>1 DEF IssuedTo
  <2> QED BY <2>2 DEF IdentityIsIssued, IssuedTo
<1>2. ASSUME NEW r \in Requests, Admit(r) PROVE IdentityIsIssued'
  <2>1. /\ script' = script
        /\ auth'[r] = Identify(r) /\ admitted'[r] = now
        /\ \A q \in Requests \ {r} : auth'[q] = auth[q] /\ admitted'[q] = admitted[q]
    BY <1>2 DEF Admit, Types
  <2>2. ASSUME script.mode = "jwt", ~IsWorker(r), auth'[r] # None
        PROVE  IssuedTo(Headers(r), auth'[r], admitted'[r])
    <3>1. auth'[r] = authenticate("jwt", Headers(r), now)
      BY <2>1, <2>2 DEF Identify
    <3>2. Wellformed(Headers(r)) /\ now \in Nat
      BY HeadersAreWellformed DEF Types
    <3> QED BY <2>1, <2>2, <3>1, <3>2, AuthenticatedIsIssued
  <2>3. ASSUME NEW q \in Requests, script.mode = "jwt", ~IsWorker(q), auth'[q] # None
        PROVE  IssuedTo(Headers(q), auth'[q], admitted'[q])
    BY <2>1, <2>2, <2>3, IdentityByRequest
  <2>4. \A q \in Requests : IsWorker(q)' = IsWorker(q) /\ Headers(q)' = Headers(q)
    BY <2>1 DEF IsWorker, Headers, Op
  <2>5. ASSUME NEW q \in Requests, script'.mode = "jwt", ~IsWorker(q)', auth'[q] # None
        PROVE  IssuedTo(Headers(q), auth[q], admitted[q])'
    <3>1. IssuedTo(Headers(q), auth'[q], admitted'[q])
      BY <2>1, <2>3, <2>4, <2>5
    <3> QED BY <2>4, <3>1 DEF IssuedTo
  <2> QED BY <2>5 DEF IdentityIsIssued, IssuedTo
<1> QED BY <1>1, <1>2, OnlyAdmit DEF vars

(***************************************************************************)
(* For every set of tokens, headers and cookies and every clock: whoever   *)
(* is admitted holds a token of the issuer for that very identity, in      *)
(* time, and presented nothing else.                                       *)
(***************************************************************************)
THEOREM IssuedIdentities == Spec => []IdentityIsIssued
<1>1. Init => IdentityIsIssued
  BY DEF Init, IdentityIsIssued
<1>2. Inv /\ IdentityIsIssued /\ [Next]_vars => IdentityIsIssued'
  BY IdentityStep DEF Inv
<1> QED BY PoolInvariance, <1>1, <1>2, PTL DEF Spec
-----------------------------------------------------------------------------
(* A set of places moved by d is as large as it was.                       *)
LEMMA ShiftedSet ==
    ASSUME NEW d \in Nat, NEW n \in Nat, NEW S \in SUBSET (1..n)
    PROVE  /\ IsFiniteSet({d + i : i \in S}) /\ IsFiniteSet(S)
           /\ Cardinality({d + i : i \in S}) = Cardinality(S)
<1> DEFINE T == {d + i : i \in S}
           f == [i \in S |-> d + i]
<1>1. IsFiniteSet(S)
  <2>1. IsFiniteSet(1..n)
    BY FS_Interval
  <2> QED BY <2>1, FS_Subset
<1>2. \A i \in S : i \in Int
  OBVIOUS
<1>3. f \in Bijection(S, T)
  BY <1>2 DEF Bijection, Injection, Surjection, IsInjective
<1>4. ExistsBijection(S, T)
  BY <1>3 DEF ExistsBijection
<1> QED BY <1>1, <1>4, FS_Bijection

(* How many parts there are.                                               *)
Total(t, c) == Ended(t, c, Len(t) + 1)

(* How many parts end before a place is a number that grows with the place. *)
LEMMA EndedGrows ==
    ASSUME NEW t, NEW c, NEW i \in Nat, NEW k \in Nat, i <= k
    PROVE  /\ Ended(t, c, i) \in Nat /\ Ended(t, c, k) \in Nat
           /\ Ended(t, c, i) <= Ended(t, c, k)
<1> DEFINE Ends(n) == {j \in 1..(n - 1) : t[j] = c}
<1>1. Ends(i) \in SUBSET Ends(k) /\ Ends(k) \in SUBSET (1..(k - 1))
  OBVIOUS
<1>2. IsFiniteSet(1..(k - 1))
  BY FS_Interval
<1>3. IsFiniteSet(Ends(k)) /\ IsFiniteSet(Ends(i))
  BY <1>1, <1>2, FS_Subset
<1> HIDE DEF Ends
<1>4. Cardinality(Ends(i)) <= Cardinality(Ends(k))
  BY <1>1, <1>3, FS_Subset
<1>5. Cardinality(Ends(i)) \in Nat /\ Cardinality(Ends(k)) \in Nat
  BY <1>3, FS_CardinalityType
<1> QED BY <1>4, <1>5 DEF Ended, Ends

(* The same one place further on.                                          *)
LEMMA EndedAfter ==
    ASSUME NEW t, NEW c, NEW k \in Nat
    PROVE  Ended(t, c, k + 1) = Cardinality({j \in 1..k : t[j] = c})
<1>1. (k + 1) - 1 = k
  OBVIOUS
<1> QED BY <1>1, Zenon DEF Ended

(* u stands in v after d characters.                                       *)
Stands(u, v, d) == d + Len(u) <= Len(v) /\ \A i \in 1..Len(u) : v[d + i] = u[i]

(* The places from a to b of u are those from p to q of v.                 *)
Window(X, u, a, b, v, p, q) ==
    \E d \in Nat : /\ u \in Seq(X) /\ v \in Seq(X) /\ Stands(u, v, d)
                   /\ a \in Nat \ {0} /\ b \in Int /\ b <= Len(u) /\ p = d + a /\ q = d + b

(* A name for SubSeq, so that the lemma can be applied as it stands.       *)
Slice(s, a, b) == SubSeq(s, a, b)

(* Equal characters make equal subsequences.                               *)
LEMMA SubSeqShifted ==
    ASSUME NEW X, NEW u, NEW v, NEW a, NEW b, NEW p, NEW q, Window(X, u, a, b, v, p, q)
    PROVE  Slice(v, p, q) = Slice(u, a, b)
<1>0. PICK d \in Nat : /\ u \in Seq(X) /\ v \in Seq(X) /\ Stands(u, v, d)
                       /\ a \in Nat \ {0} /\ b \in Int /\ b <= Len(u) /\ p = d + a /\ q = d + b
  BY DEF Window
<1> USE <1>0 DEF Slice
<1>1. CASE b < a
  <2>1. p \in Int /\ q \in Int /\ q < p
    BY <1>1
  <2> QED BY <1>1, <2>1, SubSeqEmpty
<1>2. CASE a <= b
  <2>1. PICK x : x = SubSeq(v, p, q)
    OBVIOUS
  <2>2. PICK y : y = SubSeq(u, a, b)
    OBVIOUS
  <2>3. p \in Int /\ q \in Int /\ p <= q /\ q - p + 1 = b - a + 1
    BY <1>2
  <2>4. \A i \in p..q : v[i] \in X
    BY DEF Stands
  <2>5. \A i \in a..b : u[i] \in X
    OBVIOUS
  <2>6. /\ x \in Seq(X) /\ Len(x) = b - a + 1
        /\ \A i \in 1..(b - a + 1) : x[i] = v[p + i - 1]
    <3>1. x = SubSeq(v, p, q)
      BY <2>1
    <3> QED BY ONLY <2>3, <2>4, <3>1, SubSeqProperties
  <2>7. /\ y \in Seq(X) /\ Len(y) = b - a + 1
        /\ \A i \in 1..(b - a + 1) : y[i] = u[a + i - 1]
    <3>1. a \in Int /\ b \in Int /\ a <= b
      BY <1>2
    <3>2. y = SubSeq(u, a, b)
      BY <2>2
    <3> QED BY ONLY <2>5, <3>1, <3>2, SubSeqProperties
  <2>8. ASSUME NEW i \in 1..(b - a + 1) PROVE x[i] = y[i]
    <3>1. a + i - 1 \in 1..Len(u) /\ p + i - 1 = d + (a + i - 1)
      <4>1. Len(u) \in Nat /\ i \in Nat /\ 1 <= i /\ i <= b - a + 1
        BY <1>2
      <4> QED BY <4>1
    <3>2. v[d + (a + i - 1)] = u[a + i - 1]
      BY <3>1 DEF Stands
    <3> QED BY <2>6, <2>7, <3>1, <3>2
  <2>9. x = y
    BY <2>6, <2>7, <2>8, SeqEqual
  <2> QED BY <2>1, <2>2, <2>9
<1> QED BY <1>1, <1>2

(* A part begins at a place in the text or right after it.                 *)
LEMMA StartType ==
    ASSUME NEW X, NEW t \in Seq(X), NEW c, NEW k \in Nat
    PROVE  Start(t, c, k) \in 0..Len(t)
<1> DEFINE S == {i \in DOMAIN t : Ended(t, c, i) < k - 1}
<1>1. S \in SUBSET (1..Len(t)) /\ Len(t) \in Nat
  OBVIOUS
<1>2. IsFiniteSet(1..Len(t)) /\ Cardinality(1..Len(t)) = Len(t)
  <2>1. PICK n \in Nat : n = Len(t)
    OBVIOUS
  <2>2. IsFiniteSet(1..n) /\ Cardinality(1..n) = IF 1 > n THEN 0 ELSE n - 1 + 1
    BY FS_Interval
  <2> QED BY <2>1, <2>2
<1>3. IsFiniteSet(S) /\ Cardinality(S) <= Cardinality(1..Len(t))
  BY <1>1, <1>2, FS_Subset
<1>4. Cardinality(S) \in Nat
  BY <1>3, FS_CardinalityType
<1> HIDE DEF S
<1> QED BY <1>1, <1>2, <1>3, <1>4 DEF Start, S

(* A part that begins and ends d places further on is the same part.       *)
LEMMA SamePart ==
    ASSUME NEW X, NEW u \in Seq(X), NEW v \in Seq(X), NEW c, NEW d \in Nat, Stands(u, v, d),
           NEW k \in Nat, NEW m \in Nat,
           Start(v, c, m) = d + Start(u, c, k), Start(v, c, m + 1) = d + Start(u, c, k + 1)
    PROVE  Part(v, c, m) = Part(u, c, k)
<1>1. PICK a \in Nat \ {0}, p \in Nat \ {0} :
         a = Start(u, c, k) + 1 /\ p = Start(v, c, m) + 1 /\ p = d + a
  <2>1. Start(u, c, k) \in Nat
    BY StartType
  <2> QED BY <2>1
<1>2. PICK b \in Int, q \in Int :
         b = Start(u, c, k + 1) - 1 /\ q = Start(v, c, m + 1) - 1 /\ q = d + b /\ b <= Len(u)
  <2>1. Start(u, c, k + 1) \in 0..Len(u) /\ Len(u) \in Nat
    BY StartType
  <2> QED BY <2>1
<1>3. Slice(v, p, q) = Slice(u, a, b)
  <2>1. Window(X, u, a, b, v, p, q)
    BY <1>1, <1>2, Zenon DEF Window
  <2> QED BY <2>1, SubSeqShifted
<1> QED BY <1>1, <1>2, <1>3 DEF Part, Slice

(* The parts of a text that ends with c are the first parts of any text    *)
(* that begins with it.                                                    *)
LEMMA FirstParts ==
    ASSUME NEW X, NEW u \in Seq(X), NEW v \in Seq(X), NEW c,
           Stands(u, v, 0)
    PROVE  /\ Ended(u, c, Len(u) + 1) <= Ended(v, c, Len(v) + 1)
           /\ \A k \in 1..Ended(u, c, Len(u) + 1) : Part(v, c, k) = Part(u, c, k)
<1> DEFINE N == Ended(u, c, Len(u) + 1)
<1>0. /\ Len(u) \in Nat /\ Len(v) \in Nat /\ DOMAIN u = 1..Len(u) /\ DOMAIN v = 1..Len(v)
      /\ Len(u) <= Len(v) /\ \A i \in 1..Len(u) : u[i] = v[i]
  BY DEF Stands
<1>1. \A i \in 1..(Len(u) + 1) : Ended(u, c, i) = Ended(v, c, i)
  <2>1. ASSUME NEW i \in 1..(Len(u) + 1)
        PROVE  {j \in 1..(i - 1) : u[j] = c} = {j \in 1..(i - 1) : v[j] = c}
    BY <1>0
  <2> QED BY <2>1 DEF Ended
<1>2. N = Ended(v, c, Len(u) + 1) /\ N \in Nat /\ N <= Ended(v, c, Len(v) + 1)
  BY <1>0, <1>1, EndedGrows
<1>3. \A i \in (Len(u) + 1)..Len(v) : Ended(v, c, i) \in Nat /\ Ended(v, c, i) >= N
  <2>1. ASSUME NEW i \in (Len(u) + 1)..Len(v) PROVE Ended(v, c, i) \in Nat /\ Ended(v, c, i) >= N
    <3>1. i \in Nat /\ Len(u) + 1 \in Nat /\ Len(u) + 1 <= i
      BY <1>0
    <3>2. Ended(v, c, i) \in Nat /\ Ended(v, c, Len(u) + 1) <= Ended(v, c, i)
      BY <3>1, EndedGrows
    <3> QED BY <1>2, <3>2
  <2> QED BY <2>1
<1> HIDE DEF N
<1>4. ASSUME NEW k \in 1..(N + 1) PROVE Start(u, c, k) = Start(v, c, k)
  <2>1. ASSUME NEW i \in DOMAIN v, Ended(v, c, i) < k - 1
        PROVE  i \in DOMAIN u /\ Ended(u, c, i) < k - 1
    BY <1>0, <1>1, <1>2, <1>3, <2>1
  <2>2. ASSUME NEW i \in DOMAIN u PROVE i \in DOMAIN v /\ Ended(v, c, i) = Ended(u, c, i)
    BY <1>0, <1>1
  <2>3. {i \in DOMAIN u : Ended(u, c, i) < k - 1} = {i \in DOMAIN v : Ended(v, c, i) < k - 1}
    BY <2>1, <2>2
  <2> QED BY <2>3 DEF Start
<1>5. ASSUME NEW k \in 1..N PROVE Part(v, c, k) = Part(u, c, k)
  <2>1. k \in 1..(N + 1) /\ k + 1 \in 1..(N + 1) /\ k \in Nat /\ N \in Nat
    BY <1>2
  <2>2. Start(u, c, k) \in Nat /\ Start(u, c, k + 1) \in Nat
    BY <1>0, <2>1, StartType
  <2>3. Start(v, c, k) = 0 + Start(u, c, k) /\ Start(v, c, k + 1) = 0 + Start(u, c, k + 1)
    BY <1>4, <2>1, <2>2
  <2> QED BY <2>1, <2>3, SamePart
<1> QED BY <1>2, <1>5 DEF N

(* u stands at the end of v, after a c.                                    *)
Follows(u, v, d, c) == d # 0 /\ Len(v) = d + Len(u) /\ v[d] = c /\ Stands(u, v, d)

(* The parts of a text are the last parts of any text that ends with it    *)
(* after a c: d places and n parts further on.                             *)
LEMMA LastParts ==
    ASSUME NEW X, NEW u \in Seq(X), NEW v \in Seq(X), NEW c, NEW d \in Nat, Follows(u, v, d, c)
    PROVE  /\ Ended(v, c, d + 1) \in Nat \ {0}
           /\ Total(v, c) = Ended(v, c, d + 1) + Total(u, c)
           /\ Start(v, c, Ended(v, c, d + 1) + 1) = d + Start(u, c, 1)
           /\ \A k \in 1..Ended(u, c, Len(u) + 1) :
                 Part(v, c, Ended(v, c, d + 1) + k) = Part(u, c, k)
<1>0. /\ Len(u) \in Nat /\ Len(v) \in Nat /\ DOMAIN u = 1..Len(u) /\ DOMAIN v = 1..Len(v)
      /\ d \in Nat \ {0} /\ Len(v) = d + Len(u) /\ v[d] = c /\ Stands(u, v, d)
      /\ \A i \in 1..Len(u) : v[d + i] = u[i]
  BY DEF Stands, Follows
<1>1. PICK n : n = Ended(v, c, d + 1)
  OBVIOUS
<1>2. Ended(v, c, d) \in Nat /\ n = Ended(v, c, d) + 1
  <2>1. {j \in 1..d : v[j] = c} = {j \in 1..(d - 1) : v[j] = c} \cup {d}
    BY <1>0
  <2>2. IsFiniteSet(1..(d - 1))
    BY FS_Interval
  <2>3. IsFiniteSet({j \in 1..(d - 1) : v[j] = c})
    BY <2>2, FS_Subset
  <2>4. d \notin {j \in 1..(d - 1) : v[j] = c}
    OBVIOUS
  <2>5. Cardinality({j \in 1..(d - 1) : v[j] = c} \cup {d}) = Cardinality({j \in 1..(d - 1) : v[j] = c}) + 1
    BY <2>3, <2>4, FS_AddElement
  <2>6. Ended(v, c, d) \in Nat
    BY EndedGrows
  <2>7. n = Cardinality({j \in 1..d : v[j] = c})
    BY <1>1, EndedAfter
  <2>8. Ended(v, c, d) = Cardinality({j \in 1..(d - 1) : v[j] = c})
    BY Zenon DEF Ended
  <2> QED BY <2>1, <2>5, <2>6, <2>7, <2>8
<1>3. \A i \in 1..d : Ended(v, c, i) \in Nat /\ Ended(v, c, i) <= n - 1
  <2>1. ASSUME NEW i \in 1..d PROVE Ended(v, c, i) \in Nat /\ Ended(v, c, i) <= Ended(v, c, d)
    BY EndedGrows
  <2> QED BY <1>2, <2>1
<1>4. ASSUME NEW i \in 1..(Len(u) + 1)
      PROVE  Ended(u, c, i) \in Nat /\ Ended(v, c, d + i) = n + Ended(u, c, i)
  <2> DEFINE A == {j \in 1..d : v[j] = c}
             B == {j \in 1..(i - 1) : u[j] = c}
             C == {d + j : j \in B}
  <2>1. {j \in 1..(d + i - 1) : v[j] = c} = A \cup C
    <3>1. ASSUME NEW j \in 1..(d + i - 1), v[j] = c, j > d PROVE j \in C
      <4>1. j - d \in 1..(i - 1) /\ j - d \in 1..Len(u) /\ j = d + (j - d)
        BY <1>0, <3>1
      <4>2. u[j - d] = c
        BY <1>0, <3>1, <4>1
      <4> QED BY <4>1, <4>2
    <3>2. ASSUME NEW j \in B PROVE d + j \in 1..(d + i - 1) /\ v[d + j] = c
      BY <1>0
    <3>3. ASSUME NEW j \in 1..d PROVE j \in 1..(d + i - 1)
      OBVIOUS
    <3>4. \A j \in 1..(d + i - 1) : j \in 1..d \/ j > d
      OBVIOUS
    <3> HIDE DEF B
    <3> QED BY <3>1, <3>2, <3>3, <3>4
  <2>2. B \in SUBSET (1..(i - 1)) /\ i - 1 \in Nat
    BY <1>0
  <2>3. IsFiniteSet(C) /\ IsFiniteSet(B) /\ Cardinality(C) = Cardinality(B)
    BY <2>2, ShiftedSet
  <2>4. IsFiniteSet(A)
    <3>1. IsFiniteSet(1..d)
      BY FS_Interval
    <3> QED BY <3>1, FS_Subset
  <2>5. A \cap C = {}
    OBVIOUS
  <2>6. n = Cardinality(A)
    BY <1>1, EndedAfter
  <2>7. Ended(u, c, i) = Cardinality(B) /\ Ended(v, c, d + i) = Cardinality({j \in 1..(d + i - 1) : v[j] = c})
    BY DEF Ended
  <2> HIDE DEF A, B, C
  <2>8. Cardinality(A \cup C) = Cardinality(A) + Cardinality(C)
    <3>1. Cardinality(A \cup C) = Cardinality(A) + Cardinality(C) - Cardinality(A \cap C)
      BY <2>3, <2>4, FS_Union
    <3>2. Cardinality(A) \in Nat /\ Cardinality(C) \in Nat
      BY <2>3, <2>4, FS_CardinalityType
    <3>3. Cardinality(A \cap C) = 0
      BY <2>5, FS_EmptySet
    <3> QED BY <3>1, <3>2, <3>3
  <2>9. Cardinality(B) \in Nat
    BY <2>3, FS_CardinalityType
  <2> QED BY <2>1, <2>3, <2>6, <2>7, <2>8, <2>9
<1>5. n \in Nat \ {0}
  BY <1>2
<1>6. Ended(v, c, Len(v) + 1) = n + Ended(u, c, Len(u) + 1)
  <2>1. Len(u) + 1 \in 1..(Len(u) + 1) /\ d + (Len(u) + 1) = Len(v) + 1
    BY <1>0
  <2> QED BY <1>4, <2>1
<1>7. ASSUME NEW k \in Nat \ {0} PROVE Start(v, c, n + k) = d + Start(u, c, k)
  <2>0. PICK m \in Nat : m = n + k
    BY <1>5
  <2> DEFINE B == {i \in DOMAIN u : Ended(u, c, i) < k - 1}
             C == {d + i : i \in B}
  <2>1. {i \in DOMAIN v : Ended(v, c, i) < m - 1} = (1..d) \cup C
    <3>1. ASSUME NEW i \in 1..d PROVE i \in DOMAIN v /\ Ended(v, c, i) < m - 1
      BY <1>0, <1>3, <1>5, <2>0
    <3>2. ASSUME NEW i \in DOMAIN v, Ended(v, c, i) < m - 1, i > d PROVE i \in C
      <4>1. i - d \in 1..Len(u) /\ i - d \in 1..(Len(u) + 1) /\ i = d + (i - d)
        BY <1>0, <3>2
      <4>2. Ended(u, c, i - d) \in Nat /\ Ended(v, c, i) = n + Ended(u, c, i - d)
        BY <1>4, <4>1
      <4>3. Ended(u, c, i - d) < k - 1
        BY <1>5, <2>0, <3>2, <4>2
      <4> QED BY <1>0, <4>1, <4>3
    <3>3. ASSUME NEW i \in B PROVE d + i \in DOMAIN v /\ Ended(v, c, d + i) < m - 1
      <4>1. i \in 1..Len(u) /\ Ended(u, c, i) < k - 1
        BY <1>0
      <4>2. i \in 1..(Len(u) + 1) /\ d + i \in 1..Len(v)
        BY <1>0, <4>1
      <4>3. Ended(u, c, i) \in Nat /\ Ended(v, c, d + i) = n + Ended(u, c, i)
        BY <1>4, <4>2
      <4> HIDE DEF B
      <4>4. Ended(v, c, d + i) < m - 1
        BY <1>5, <2>0, <4>1, <4>3
      <4> QED BY <1>0, <4>2, <4>4
    <3>4. \A i \in DOMAIN v : i \in 1..d \/ i > d
      BY <1>0
    <3> HIDE DEF B
    <3> QED BY <3>1, <3>2, <3>3, <3>4
  <2>2. B \in SUBSET (1..Len(u))
    BY <1>0
  <2>3. IsFiniteSet(C) /\ IsFiniteSet(B) /\ Cardinality(C) = Cardinality(B)
    BY <1>0, <2>2, ShiftedSet
  <2>4. IsFiniteSet(1..d) /\ Cardinality(1..d) = d
    BY FS_Interval
  <2>5. (1..d) \cap C = {}
    BY <1>0
  <2>6. Start(u, c, k) = Cardinality(B) /\ Start(v, c, m) = Cardinality({i \in DOMAIN v : Ended(v, c, i) < m - 1})
    <3>1. Start(u, c, k) = Cardinality(B)
      BY DEF Start
    <3>2. Start(v, c, m) = Cardinality({i \in DOMAIN v : Ended(v, c, i) < m - 1})
      BY DEF Start
    <3> QED BY <3>1, <3>2
  <2> HIDE DEF B, C
  <2>7. Cardinality((1..d) \cup C) = d + Cardinality(C)
    <3>1. Cardinality((1..d) \cup C) = Cardinality(1..d) + Cardinality(C) - Cardinality((1..d) \cap C)
      BY <2>3, <2>4, FS_Union
    <3>2. Cardinality(C) \in Nat
      BY <2>3, FS_CardinalityType
    <3>3. Cardinality((1..d) \cap C) = 0
      BY <2>5, FS_EmptySet
    <3> QED BY <2>4, <3>1, <3>2, <3>3
  <2> QED BY <2>0, <2>1, <2>3, <2>6, <2>7
<1>8. ASSUME NEW k \in Nat \ {0} PROVE Part(v, c, n + k) = Part(u, c, k)
  <2>1. PICK m \in Nat : m = n + k
    BY <1>5
  <2>2. Start(v, c, n + k) = d + Start(u, c, k) /\ Start(v, c, n + (k + 1)) = d + Start(u, c, k + 1)
    BY <1>7
  <2>3. n + (k + 1) = m + 1
    BY <1>5, <2>1
  <2>4. Start(v, c, m) = d + Start(u, c, k) /\ Start(v, c, m + 1) = d + Start(u, c, k + 1)
    BY <2>1, <2>2, <2>3
  <2> QED BY <1>0, <2>1, <2>4, SamePart
<1>9. Start(v, c, n + 1) = d + Start(u, c, 1)
  BY <1>7
<1>10. \A k \in 1..Ended(u, c, Len(u) + 1) : k \in Nat \ {0}
  <2>1. Ended(u, c, Len(u) + 1) \in Nat
    BY <1>0, EndedGrows
  <2> QED BY <2>1
<1> QED BY <1>1, <1>5, <1>6, <1>8, <1>9, <1>10 DEF Total

(* The characters of a text without its last ones.                         *)
LEMMA TrimEndType ==
    ASSUME NEW X, NEW s \in Seq(X), NEW c PROVE TrimEnd(s, c) \in Seq(X)
<1> DEFINE rest == {i \in DOMAIN s : s[i] # c}
<1>1. CASE rest = {}
  BY <1>1 DEF TrimEnd
<1>2. CASE rest # {}
  <2>1. PICK n \in Nat : n = Len(s)
    OBVIOUS
  <2>2. rest \in SUBSET (1..n)
    BY <2>1
  <2>3. \E i \in rest : \A j \in rest : j <= i
    BY <1>2, <2>2, LastOne
  <2>4. Max(rest) \in rest
    <3>1. \A j \in rest : j \in Int
      BY <2>2
    <3>2. \E i \in rest : \A j \in rest : i >= j
      BY <2>3, <3>1
    <3> QED BY <3>2 DEF Max
  <2>5. TrimEnd(s, c) = SubSeq(s, 1, Max(rest))
    BY <1>2 DEF TrimEnd
  <2>6. Max(rest) \in 1..Len(s)
    BY <2>1, <2>2, <2>4
  <2> HIDE DEF rest
  <2> QED BY <2>5, <2>6
<1> QED BY <1>1, <1>2

(* A suffix stands at the end.                                             *)
LEMMA SuffixByPlaces ==
    ASSUME NEW X, NEW s \in Seq(X), NEW t \in Seq(X), IsSuffix(s, t)
    PROVE  Stands(s, t, Len(t) - Len(s))
<1>1. /\ Len(Reverse(s)) = Len(s) /\ Len(Reverse(t)) = Len(t)
      /\ Reverse(s) \in Seq(X) /\ Reverse(t) \in Seq(X)
      /\ \A i \in 1..Len(s) : Reverse(s)[i] = s[(Len(s) - i) + 1]
      /\ \A i \in 1..Len(t) : Reverse(t)[i] = t[(Len(t) - i) + 1]
  BY DEF Reverse
<1>2. Len(s) <= Len(t) /\ SubSeq(Reverse(s), 1, Len(s)) = SubSeq(Reverse(t), 1, Len(s))
  BY <1>1 DEF IsSuffix, IsPrefix
<1>3. \A i \in 1..Len(s) : Reverse(s)[i] = Reverse(t)[i]
  <2> DEFINE a == Reverse(s)  b == Reverse(t)  n == Len(s)
  <2>1. n \in Nat /\ n <= Len(a) /\ n <= Len(b) /\ a \in Seq(X) /\ b \in Seq(X)
    BY <1>1, <1>2
  <2> HIDE DEF a, b, n
  <2>2. \A i \in 1..n : SubSeq(a, 1, n)[i] = a[i] /\ SubSeq(b, 1, n)[i] = b[i]
    BY <2>1
  <2> QED BY <1>2, <2>2 DEF a, b, n
<1>4. ASSUME NEW i \in 1..Len(s) PROVE t[Len(t) - Len(s) + i] = s[i]
  <2>0. Len(s) - i + 1 \in 1..Len(s)
    OBVIOUS
  <2>1. PICK j \in 1..Len(s) : j = Len(s) - i + 1
    BY <2>0, Zenon
  <2>2. j \in 1..Len(t) /\ (Len(s) - j) + 1 = i /\ (Len(t) - j) + 1 = Len(t) - Len(s) + i
    BY <1>2, <2>1
  <2> QED BY <1>1, <1>3, <2>2
<1> QED BY <1>2, <1>4 DEF Stands

(* What the code takes for a subdomain has the labels of the host in front *)
(* of which further ones stand.                                            *)
LEMMA DotsMakeSubdomains ==
    ASSUME NEW X, NEW host \in Seq(X), NEW parent \in Seq(X), "." \in X,
           IsSuffix(parent, host), Len(host) - Len(parent) > 1,
           host[Len(host) - Len(parent)] = "."
    PROVE  IsSubdomain(host, parent)
<1>1. PICK u, v : u = Append(parent, ".") /\ v = Append(host, ".")
  OBVIOUS
<1>0. Len(host) - Len(parent) \in Nat \ {0}
  OBVIOUS
<1>2. PICK d \in Nat \ {0} : d = Len(host) - Len(parent) /\ d > 1
  BY <1>0, Zenon
<1>3. /\ u \in Seq(X) /\ v \in Seq(X) /\ Len(v) = d + Len(u) /\ Len(u) = Len(parent) + 1
      /\ Follows(u, v, d, ".")
  <2>1. u \in Seq(X) /\ v \in Seq(X) /\ Len(u) = Len(parent) + 1 /\ Len(v) = Len(host) + 1
    BY <1>1
  <2>2. d \in 1..Len(host) /\ v[d] = "."
    BY <1>1, <1>2
  <2>3. ASSUME NEW i \in 1..Len(parent) PROVE v[d + i] = u[i]
    <3>1. host[d + i] = parent[i]
      BY <1>2, SuffixByPlaces DEF Stands
    <3>2. d + i \in 1..Len(host)
      BY <1>2
    <3> QED BY <1>1, <3>1, <3>2
  <2>4. v[d + Len(u)] = u[Len(u)]
    BY <1>1, <1>2, <2>1
  <2>5. Len(v) = d + Len(u)
    BY <1>2, <2>1
  <2>6. \A i \in 1..Len(u) : i = Len(u) \/ i \in 1..Len(parent)
    BY <2>1
  <2>7. Stands(u, v, d)
    <3>1. \A i \in 1..Len(u) : v[d + i] = u[i]
      BY <2>3, <2>4, <2>6, Zenon
    <3>2. d + Len(u) <= Len(v)
      BY <2>1, <2>5
    <3> QED BY <3>1, <3>2, Zenon DEF Stands
  <2> QED BY <1>2, <2>1, <2>2, <2>5, <2>7 DEF Follows
<1>4. PICK n \in Nat \ {0} : n = Ended(v, ".", d + 1)
  <2>1. Ended(v, ".", d + 1) \in Nat \ {0}
    BY <1>3, LastParts
  <2> QED BY <2>1
<1>5. PICK N \in Nat : N = Ended(u, ".", Len(u) + 1)
  <2>1. Len(u) + 1 \in Nat
    BY <1>3
  <2> QED BY <2>1, EndedGrows
<1>6. /\ Ended(v, ".", Len(v) + 1) = n + N
      /\ Start(v, ".", n + 1) = d + Start(u, ".", 1)
      /\ \A k \in 1..N : Part(v, ".", n + k) = Part(u, ".", k)
  <2>1. Ended(v, ".", Len(v) + 1) = n + N
    <3>1. Total(v, ".") = Ended(v, ".", d + 1) + Total(u, ".")
      BY <1>3, LastParts
    <3> QED BY <1>4, <1>5, <3>1 DEF Total
  <2>2. Start(v, ".", Ended(v, ".", d + 1) + 1) = d + Start(u, ".", 1)
    BY <1>3, LastParts
  <2>3. ASSUME NEW k \in 1..Ended(u, ".", Len(u) + 1)
        PROVE  Part(v, ".", Ended(v, ".", d + 1) + k) = Part(u, ".", k)
    BY <1>3, LastParts
  <2> QED BY <1>4, <1>5, <2>1, <2>2, <2>3
<1>7. PICK labels : labels = Split(host, ".")
  OBVIOUS
<1>8. PICK tail : tail = Split(parent, ".")
  OBVIOUS
<1>9. labels = [k \in 1..(n + N) |-> Part(v, ".", k)] /\ tail = [k \in 1..N |-> Part(u, ".", k)]
  BY <1>1, <1>5, <1>6, <1>7, <1>8 DEF Split
<1>10. Len(labels) = n + N /\ Len(tail) = N /\ DOMAIN tail = 1..N
  BY <1>9
<1>11. ASSUME NEW k \in 1..N PROVE labels[n + k] = tail[k]
  <2>1. n + k \in 1..(n + N)
    OBVIOUS
  <2> QED BY <1>6, <1>9, <2>1
<1>12. SubSeq(labels, 1, n) # << <<>> >>
  <2>1. SUFFICES ASSUME SubSeq(labels, 1, n) = << <<>> >> PROVE FALSE
    OBVIOUS
  <2>2. PICK S : S = {labels[i] : i \in 1..n}
    OBVIOUS
  <2>3. \A i \in 1..n : labels[i] \in S
    BY <2>2
  <2>4. /\ Len(SubSeq(labels, 1, n)) = IF 1 <= n THEN n - 1 + 1 ELSE 0
        /\ \A i \in 1..(n - 1 + 1) : SubSeq(labels, 1, n)[i] = labels[1 + i - 1]
    BY <2>3, SubSeqProperties
  <2>5. n = 1
    <3>1. Len(SubSeq(labels, 1, n)) = 1
      BY <2>1
    <3> QED BY <2>4, <3>1
  <2>6. labels[1] = <<>>
    <3>1. SubSeq(labels, 1, n)[1] = labels[1 + 1 - 1]
      BY <2>4, <2>5
    <3>0. << <<>> >>[1] = <<>>
      OBVIOUS
    <3>2. SubSeq(labels, 1, n)[1] = <<>>
      BY <2>1, <3>0, Zenon
    <3>3. 1 + 1 - 1 = 1
      OBVIOUS
    <3> QED BY <3>1, <3>2, <3>3
  <2>7. Start(u, ".", 1) = 0 /\ Start(v, ".", 1) = 0
    <3>1. \A i \in DOMAIN u : Ended(u, ".", i) \in Nat
      BY <1>3, EndedGrows
    <3>2. \A i \in DOMAIN v : Ended(v, ".", i) \in Nat
      BY <1>3, EndedGrows
    <3>3. {i \in DOMAIN u : Ended(u, ".", i) < 1 - 1} = {} /\ {i \in DOMAIN v : Ended(v, ".", i) < 1 - 1} = {}
      BY <3>1, <3>2
    <3> QED BY <3>3, FS_EmptySet DEF Start
  <2>8. Start(v, ".", 1 + 1) = d
    BY <1>6, <2>5, <2>7
  <2>9. labels[1] = SubSeq(v, 0 + 1, d - 1)
    BY <1>9, <2>5, <2>7, <2>8 DEF Part
  <2>10. Len(SubSeq(v, 0 + 1, d - 1)) = d - 1
    BY <1>2, <1>3
  <2> QED BY <1>2, <2>6, <2>9, <2>10
<1>13. Len(labels) - Len(tail) = n
  BY <1>10
<1>14. n > 0
  OBVIOUS
<1> QED BY <1>7, <1>8, <1>10, <1>11, <1>12, <1>13, <1>14, Zenon DEF IsSubdomain

(* What the code takes for a path below a prefix begins with its segments. *)
LEMMA SlashesMakePaths ==
    ASSUME NEW X, NEW path \in Seq(X), NEW root \in Seq(X), "/" \in X,
           path # <<>>, path[1] = "/", path_is_allowed(path, root)
    PROVE  IsBelow(path, root)
<1>1. PICK trimmed : trimmed = TrimEnd(root, "/")
  OBVIOUS
<1>2. trimmed \in Seq(X)
  BY <1>1, TrimEndType
<1>3. /\ Len(trimmed) <= Len(path)
      /\ \A i \in 1..Len(trimmed) : trimmed[i] = path[i]
      /\ trimmed = path \/ (Len(trimmed) < Len(path) /\ path[Len(trimmed) + 1] = "/")
  <2>1. CASE root = <<"/">>
    <3>1. trimmed = <<>>
      BY <1>1, <2>1 DEF TrimEnd
    <3> QED BY <3>1
  <2>2. CASE path = trimmed
    <3>1. Len(trimmed) <= Len(path)
      BY <1>2, <2>2
    <3>2. \A i \in 1..Len(trimmed) : trimmed[i] = path[i]
      BY <2>2
    <3>3. trimmed = path
      BY <2>2
    <3> QED BY <3>1, <3>2, <3>3
  <2>3. CASE IsStrictPrefix(trimmed, path) /\ path[Len(trimmed) + 1] = "/"
    <3>1. Len(trimmed) <= Len(path) /\ SubSeq(trimmed, 1, Len(trimmed)) = SubSeq(path, 1, Len(trimmed)) /\ trimmed # path
      BY <2>3 DEF IsStrictPrefix, IsPrefix
    <3>2. \A i \in 1..Len(trimmed) : SubSeq(trimmed, 1, Len(trimmed))[i] = trimmed[i] /\ SubSeq(path, 1, Len(trimmed))[i] = path[i]
      BY <1>2, <3>1
    <3>3. \A i \in 1..Len(trimmed) : trimmed[i] = path[i]
      BY <3>1, <3>2
    <3>4. Len(trimmed) # Len(path)
      BY <1>2, <3>1, <3>3
    <3> QED BY <1>2, <2>3, <3>1, <3>3, <3>4
  <2> QED BY <1>1, <2>1, <2>2, <2>3 DEF path_is_allowed
<1>4. PICK u, v : u = Append(trimmed, "/") /\ v = Append(path, "/")
  OBVIOUS
<1>5. u \in Seq(X) /\ v \in Seq(X) /\ Stands(u, v, 0)
  BY <1>2, <1>3, <1>4 DEF Stands
<1>6. PICK N \in Nat, M \in Nat :
         N = Ended(u, "/", Len(u) + 1) /\ M = Ended(v, "/", Len(v) + 1)
  <2>1. Len(u) + 1 \in Nat /\ Len(v) + 1 \in Nat
    BY <1>5
  <2> QED BY <2>1, EndedGrows
<1>7. N <= M /\ \A k \in 1..N : Part(v, "/", k) = Part(u, "/", k)
  BY <1>5, <1>6, FirstParts
<1>8. /\ Split(path, "/") = [k \in 1..M |-> Part(v, "/", k)]
      /\ Split(trimmed, "/") = [k \in 1..N |-> Part(u, "/", k)]
  BY <1>4, <1>6 DEF Split
<1>9. ASSUME NEW k \in 1..N
      PROVE  k \in 1..M /\ Split(path, "/")[k] = Split(trimmed, "/")[k]
  <2>1. k \in 1..M
    BY <1>7
  <2> QED BY <1>7, <1>8, <2>1
<1> QED BY <1>1, <1>8, <1>9 DEF IsBelow

-----------------------------------------------------------------------------
(* A normalised host is text in lower case.                                *)
LEMMA HostType ==
    ASSUME NEW host \in Seq(DOMAIN LowerCase)
    PROVE  normalize_host(host) \in Seq(Range(LowerCase) \cup {"."})
<1> DEFINE lower == [i \in DOMAIN host |-> LowerCase[host[i]]]
<1>1. PICK X : X = Range(LowerCase) \cup {"."}
  OBVIOUS
<1>2. \A i \in DOMAIN host : LowerCase[host[i]] \in X
  BY <1>1 DEF Range
<1>3. lower \in Seq(X)
  BY <1>2
<1> HIDE DEF lower
<1>4. TrimEnd(lower, ".") \in Seq(X)
  BY <1>3, TrimEndType
<1> QED BY <1>1, <1>4 DEF normalize_host, lower

(* What the code allows is inside the policy, label by label and segment   *)
(* by segment.                                                             *)
LEMMA AllowedIsInside ==
    ASSUME NEW policy, NEW url, IsPolicy(policy), IsUrl(url), CanonicalizeOk(policy, url)
    PROVE  Inside(policy, url)
<1>1. PICK h \in policy.allowed_hosts :
         \/ normalize_host(url.host) = normalize_host(h)
         \/ /\ policy.include_subdomains
            /\ IsSuffix(normalize_host(h), normalize_host(url.host))
            /\ Len(normalize_host(url.host)) - Len(normalize_host(h)) > 1
            /\ normalize_host(url.host)[Len(normalize_host(url.host)) - Len(normalize_host(h))] = "."
  BY DEF CanonicalizeOk, host_is_allowed
<1>2. PICK root \in policy.allowed_path_prefixes : path_is_allowed(url.path, root)
  BY DEF CanonicalizeOk
<1>3. h \in Seq(DOMAIN LowerCase) /\ url.host \in Seq(DOMAIN LowerCase)
  BY DEF IsPolicy, IsUrl, CanonicalizeOk
<1>4. /\ url.path \in Seq(Range(url.path)) /\ url.path # <<>> /\ url.path[1] = "/"
      /\ root \in Seq(Range(root))
  BY DEF IsPolicy, IsUrl, CanonicalizeOk
<1>5. \/ normalize_host(url.host) = normalize_host(h)
      \/ policy.include_subdomains /\ IsSubdomain(normalize_host(url.host), normalize_host(h))
  <2>1. PICK X : X = Range(LowerCase) \cup {"."}
    OBVIOUS
  <2>2. normalize_host(url.host) \in Seq(X) /\ normalize_host(h) \in Seq(X) /\ "." \in X
    BY <1>3, <2>1, HostType
  <2> QED BY <1>1, <2>2, DotsMakeSubdomains
<1>6. IsBelow(url.path, root)
  <2>1. PICK X : X = Range(url.path) \cup Range(root) \cup {"/"}
    OBVIOUS
  <2>2. Range(url.path) \subseteq X /\ Range(root) \subseteq X /\ "/" \in X
    BY <2>1
  <2>3. url.path \in Seq(X)
    BY <1>4, <2>2, SeqMonotonic
  <2>4. root \in Seq(X)
    BY <1>4, <2>2, SeqMonotonic
  <2> QED BY <1>2, <1>4, <2>2, <2>3, <2>4, SlashesMakePaths
<1> QED BY <1>5, <1>6 DEF Inside

(* Removing the fragment leaves what the policy looks at.                  *)
LEMMA CanonicalStays ==
    ASSUME NEW policy, NEW url, IsUrl(url), CanonicalizeOk(policy, url)
    PROVE  /\ IsUrl(canonicalize(url)) /\ CanonicalizeOk(policy, canonicalize(url))
           /\ canonicalize(canonicalize(url)) = canonicalize(url)
<1>1. PICK w : w = canonicalize(url)
  OBVIOUS
<1>2. /\ DOMAIN w = DOMAIN url /\ w.scheme = url.scheme /\ w.credentials = url.credentials
      /\ w.kind = url.kind /\ w.host = url.host /\ w.path = url.path
  BY <1>1 DEF canonicalize, IsUrl
<1>3. canonicalize(w) = w
  BY <1>1 DEF canonicalize
<1>4. IsUrl(w)
  BY <1>2 DEF IsUrl
<1>5. CanonicalizeOk(policy, w)
  BY <1>2 DEF CanonicalizeOk
<1> QED BY <1>1, <1>3, <1>4, <1>5

-----------------------------------------------------------------------------
(* A source carries the policy and the tenant of the administrator that    *)
(* created it.                                                             *)
SourcesAreGranted ==
    \A s \in sources :
        /\ s.id \in Requests /\ Op(s.id) = "create_source" /\ phase[s.id] # "arriving"
        /\ s.policy = Arg(s.id)
        /\ auth[s.id].tenant_admin /\ s.tenant = auth[s.id].tenant

(* A delivery that has come past the extractor has the credential.         *)
Credential(r) == Headers(r).ingest # None /\ Digest[Headers(r).ingest] = Ingest
WorkersAreKnown ==
    \A r \in Requests : Op(r) \in Deliveries /\ phase[r] \notin {"arriving", "401"} => Credential(r)

(* A source of the worker's tenant allows the page of r.                   *)
Vetted(r) ==
    \E s \in sources : /\ s.id = Arg(r).source /\ s.tenant = auth[r].tenant
                       /\ PageOk(s.policy, Arg(r))
LoadedAreVetted == \A r \in Requests : phase[r] = "loaded" => Op(r) \in Deliveries /\ Vetted(r)

(* A page was delivered by a request that was vetted.                      *)
PagesAreVetted ==
    \A p \in pages : \E r \in Requests :
        /\ Op(r) \in Deliveries /\ phase[r] \notin {"arriving", "401"}
        /\ Page(r) = p /\ Vetted(r)

PolicyInv == SourcesAreGranted /\ WorkersAreKnown /\ LoadedAreVetted /\ PagesAreVetted

(* A request that is answered, or does something else.                     *)
Quiet ==
    /\ UNCHANGED <<script, auth, sources, pages>>
    /\ \A q \in Requests : \/ phase'[q] = phase[q]
                           \/ /\ phase[q] \notin {"arriving", "401"}
                              /\ phase'[q] \notin {"arriving", "401", "loaded"}

(* Next, by what it does to sources and pages.                             *)
LEMMA PolicyCases ==
    ASSUME Inv, [Next]_vars
    PROVE  \/ Quiet
           \/ \E r \in Requests : Admit(r) \/ create_source(r) \/ LoadSource(r) \/ StorePage(r)
           \/ \E r \in Requests, c \in Connections : reverse_match_page(r, c)
<1> USE DEF Quiet, Inv, Types
<1>1. CASE UNCHANGED vars \/ Tick
  BY <1>1 DEF vars, Tick, storeVars
<1>2. ASSUME NEW row \in Rows, CommitRule(row) PROVE Quiet
  BY <1>2 DEF CommitRule, storeVars
<1>3. ASSUME NEW r \in Requests, read_source(r) \/ ws_upgrade(r) PROVE Quiet
  BY <1>3 DEF read_source, ws_upgrade, storeVars
<1>4. ASSUME NEW r \in Requests, NEW c \in Connections, BeginRead(r, c) \/ set_request_context(r, c)
      PROVE  Quiet
  BY <1>4 DEF BeginRead, set_request_context, storeVars
<1>5. ASSUME NEW r \in Requests, NEW c \in Connections, Select(r, c) \/ CommitRead(r, c) PROVE Quiet
  BY <1>5 DEF Select, CommitRead, storeVars
<1>6. ASSUME NEW r \in Requests, NEW c \in Connections, AbortRead(r, c) PROVE Quiet
  <2>1. phase[r] \in InTransaction
    BY <1>6, NotARequest DEF AbortRead, Holding
  <2> QED BY <1>6, <2>1 DEF AbortRead, storeVars, InTransaction
<1>7. ASSUME NEW r \in Requests, NEW c \in Connections, upsert_alert_embedding(r, c) PROVE Quiet
  BY <1>7 DEF upsert_alert_embedding, WorkerQuery
<1> QED BY Cases, <1>1, <1>2, <1>3, <1>4, <1>5, <1>6, <1>7

(* What is known of a request stays true: sources are only added, and the  *)
(* identity of a request is settled once.                                  *)
LEMMA VettedStays ==
    ASSUME NEW r \in Requests, Vetted(r), script' = script, auth'[r] = auth[r],
           sources \subseteq sources'
    PROVE  Vetted(r)'
BY DEF Vetted, Arg

(* Sources stay granted when none is added.                                *)
LEMMA SourcesStay ==
    ASSUME SourcesAreGranted, sources' = sources, script' = script,
           \A q \in Requests : phase[q] # "arriving" => phase'[q] # "arriving" /\ auth'[q] = auth[q]
    PROVE  SourcesAreGranted'
BY DEF SourcesAreGranted, Op, Arg

(* A page that was stored stays vetted.                                    *)
LEMMA PagesStay ==
    ASSUME PagesAreVetted, script' = script, sources \subseteq sources',
           \A q \in Requests : phase[q] \notin {"arriving", "401"} =>
              phase'[q] \notin {"arriving", "401"} /\ auth'[q] = auth[q],
           NEW p \in pages
    PROVE  \E r \in Requests :
              /\ Op(r)' \in Deliveries /\ phase'[r] \notin {"arriving", "401"}
              /\ Page(r)' = p /\ Vetted(r)'
<1>1. PICK r \in Requests : /\ Op(r) \in Deliveries /\ phase[r] \notin {"arriving", "401"}
                            /\ Page(r) = p /\ Vetted(r)
  BY DEF PagesAreVetted
<1>2. phase'[r] \notin {"arriving", "401"} /\ auth'[r] = auth[r]
  BY <1>1
<1>3. Vetted(r)'
  BY <1>1, <1>2, VettedStays
<1>4. Page(r)' = p /\ Op(r)' \in Deliveries
  BY <1>1, <1>2 DEF Page, Arg, Op
<1> QED BY <1>2, <1>3, <1>4

(* Admission, creation, loading and storing keep the invariant.            *)
LEMMA PolicyStep == ASSUME Inv, PolicyInv, [Next]_vars PROVE PolicyInv'
<1> USE DEF PolicyInv
<1>1. CASE Quiet
  <2>1. SourcesAreGranted'
    BY <1>1, SourcesStay DEF Quiet
  <2>2. WorkersAreKnown'
    BY <1>1 DEF Quiet, WorkersAreKnown, Credential, Op, Headers
  <2>3. LoadedAreVetted'
    <3>1. SUFFICES ASSUME NEW q \in Requests, phase[q] = "loaded" PROVE Op(q)' \in Deliveries /\ Vetted(q)'
      BY <1>1 DEF Quiet, LoadedAreVetted
    <3> QED BY <1>1, <3>1, VettedStays DEF Quiet, LoadedAreVetted, Op
  <2>4. PagesAreVetted'
    BY <1>1, PagesStay DEF Quiet, PagesAreVetted
  <2> QED BY <2>1, <2>2, <2>3, <2>4
<1>2. ASSUME NEW r \in Requests, Admit(r) PROVE PolicyInv'
  <2>1. /\ UNCHANGED <<script, sources, pages>>
        /\ phase[r] = "arriving" /\ auth'[r] = Identify(r)
        /\ phase'[r] = (IF Identify(r) = None THEN "401" ELSE "admitted")
        /\ \A q \in Requests \ {r} : phase'[q] = phase[q] /\ auth'[q] = auth[q]
    BY <1>2 DEF Admit, Inv, Types, storeVars
  <2>2. SourcesAreGranted'
    BY <2>1, SourcesStay
  <2>3. WorkersAreKnown'
    <3>1. ASSUME Op(r) \in Deliveries, Identify(r) # None PROVE Credential(r)
      BY <3>1 DEF Identify, IsWorker, authorize, Credential
    <3> QED BY <2>1, <3>1 DEF WorkersAreKnown, Credential, Op, Headers
  <2>4. LoadedAreVetted'
    <3>1. SUFFICES ASSUME NEW q \in Requests \ {r}, phase[q] = "loaded"
                   PROVE  Op(q)' \in Deliveries /\ Vetted(q)'
      BY <2>1 DEF LoadedAreVetted
    <3> QED BY <2>1, <3>1, VettedStays DEF LoadedAreVetted, Op
  <2>5. PagesAreVetted'
    BY <2>1, PagesStay DEF PagesAreVetted
  <2> QED BY <2>2, <2>3, <2>4, <2>5
<1>3. ASSUME NEW r \in Requests, create_source(r) PROVE PolicyInv'
  <2>1. /\ UNCHANGED <<script, auth, pages>>
        /\ Op(r) = "create_source" /\ phase[r] = "admitted"
        /\ phase'[r] \in {"200", "403", "422", "409"}
        /\ \A q \in Requests \ {r} : phase'[q] = phase[q]
    BY <1>3 DEF create_source, Inv, Types
  <2>2. \/ sources' = sources
        \/ \E root : /\ auth[r].tenant_admin
                     /\ sources' = sources \cup {[id |-> r, tenant |-> auth[r].tenant,
                                                  root |-> root, policy |-> Arg(r)]}
    BY <1>3 DEF create_source
  <2>3. sources \subseteq sources'
    BY <2>2
  <2>4. SourcesAreGranted'
    BY <2>1, <2>2 DEF SourcesAreGranted, Op, Arg
  <2>5. WorkersAreKnown'
    BY <2>1 DEF WorkersAreKnown, Credential, Op, Headers
  <2>6. LoadedAreVetted'
    <3>1. SUFFICES ASSUME NEW q \in Requests \ {r}, phase[q] = "loaded"
                   PROVE  Op(q)' \in Deliveries /\ Vetted(q)'
      BY <2>1 DEF LoadedAreVetted
    <3> QED BY <2>1, <2>3, <3>1, VettedStays DEF LoadedAreVetted, Op
  <2>7. PagesAreVetted'
    BY <2>1, <2>3, PagesStay DEF PagesAreVetted
  <2> QED BY <2>4, <2>5, <2>6, <2>7
<1>4. ASSUME NEW r \in Requests, LoadSource(r) PROVE PolicyInv'
  <2>1. /\ UNCHANGED <<script, auth, sources, pages>>
        /\ Op(r) \in Deliveries /\ phase[r] = "admitted"
        /\ phase'[r] \in {"404", "422", "loaded"}
        /\ \A q \in Requests \ {r} : phase'[q] = phase[q]
    BY <1>4 DEF LoadSource, Inv, Types, storeVars
  <2>2. SourcesAreGranted'
    BY <2>1, SourcesStay
  <2>3. WorkersAreKnown'
    BY <2>1 DEF WorkersAreKnown, Credential, Op, Headers
  <2>4. LoadedAreVetted'
    <3>1. phase'[r] = "loaded" => Vetted(r)
      BY <1>4 DEF LoadSource, Named, Vetted, Inv, Types
    <3>2. \A q \in Requests : Vetted(q) => Vetted(q)'
      BY <2>1, VettedStays
    <3> QED BY <2>1, <3>1, <3>2 DEF LoadedAreVetted, Op
  <2>5. PagesAreVetted'
    BY <2>1, PagesStay DEF PagesAreVetted
  <2> QED BY <2>2, <2>3, <2>4, <2>5
<1>5. ASSUME NEW r \in Requests,
             StorePage(r) \/ \E c \in Connections : reverse_match_page(r, c)
      PROVE  PolicyInv'
  <2>1. /\ UNCHANGED <<script, auth, sources>> /\ pages' = pages \cup {Page(r)}
        /\ phase[r] = "loaded" /\ phase'[r] \in {"200", "500"}
        /\ \A q \in Requests \ {r} : phase'[q] = phase[q]
    BY <1>5 DEF StorePage, reverse_match_page, WorkerQuery, Inv, Types
  <2>2. SourcesAreGranted'
    BY <2>1, SourcesStay
  <2>3. WorkersAreKnown'
    BY <2>1 DEF WorkersAreKnown, Credential, Op, Headers
  <2>4. \A q \in Requests : Vetted(q) => Vetted(q)'
    BY <2>1, VettedStays
  <2>5. LoadedAreVetted'
    BY <2>1, <2>4 DEF LoadedAreVetted, Op
  <2>6. PagesAreVetted'
    <3>1. Op(r)' \in Deliveries /\ Vetted(r)' /\ Page(r)' = Page(r) /\ phase'[r] \notin {"arriving", "401"}
      BY <2>1, <2>4 DEF LoadedAreVetted, Op, Page, Arg
    <3>2. ASSUME NEW p \in pages
          PROVE  \E q \in Requests :
                    /\ Op(q)' \in Deliveries /\ phase'[q] \notin {"arriving", "401"}
                    /\ Page(q)' = p /\ Vetted(q)'
      BY <2>1, PagesStay
    <3> QED BY <2>1, <3>1, <3>2 DEF PagesAreVetted
  <2> QED BY <2>2, <2>3, <2>5, <2>6
<1> QED BY PolicyCases, <1>1, <1>2, <1>3, <1>4, <1>5

(***************************************************************************)
(* The inductive invariant of the sources: each is as its administrator    *)
(* asked for it, and whatever was loaded or stored was vetted by one.      *)
(***************************************************************************)
THEOREM PolicyInvariance == Spec => []PolicyInv
<1>1. Init => PolicyInv
  BY DEF Init, PolicyInv, SourcesAreGranted, WorkersAreKnown, LoadedAreVetted, PagesAreVetted
<1>2. Inv /\ PolicyInv /\ [Next]_vars => PolicyInv'
  BY PolicyStep
<1> QED BY PoolInvariance, <1>1, <1>2, PTL DEF Spec

(***************************************************************************)
(* For every host, path and allowlist, and in whatever order sources are   *)
(* created and pages delivered: a page is stored only inside the policy of *)
(* a source that an administrator of its own tenant created, by labels and *)
(* segments, at both ends of its redirect.                                 *)
(***************************************************************************)
THEOREM PolicedPages == Spec => []PagesUnderPolicy
<1>1. Inv /\ PolicyInv => PagesUnderPolicy
  <2> SUFFICES ASSUME Inv, PolicyInv, NEW p \in pages
               PROVE  \E s \in sources :
                         /\ s.id = p.source /\ s.tenant = p.tenant /\ s.policy.enabled
                         /\ auth[s.id].tenant_admin /\ auth[s.id].tenant = s.tenant
                         /\ Inside(s.policy, p.original) /\ Inside(s.policy, p.canonical)
                         /\ CanonicalizeOk(s.policy, p.canonical) /\ canonicalize(p.canonical) = p.canonical
                         /\ \E r \in Requests :
                               /\ Op(r) \in Deliveries /\ Page(r) = p
                               /\ Headers(r).ingest # None /\ Digest[Headers(r).ingest] = Ingest
    BY DEF PagesUnderPolicy
  <2> USE DEF PolicyInv
  <2>1. PICK r \in Requests : /\ Op(r) \in Deliveries /\ phase[r] \notin {"arriving", "401"}
                              /\ Page(r) = p /\ Vetted(r)
    BY DEF PagesAreVetted
  <2>2. PICK s \in sources : /\ s.id = Arg(r).source /\ s.tenant = auth[r].tenant
                             /\ PageOk(s.policy, Arg(r))
    BY <2>1 DEF Vetted
  <2>3. /\ s.id \in Requests /\ Op(s.id) = "create_source" /\ s.policy = Arg(s.id)
        /\ auth[s.id].tenant_admin /\ s.tenant = auth[s.id].tenant
    BY DEF SourcesAreGranted
  <2>4. script \in Scripts
    BY DEF Inv, Types
  <2>5. IsPolicy(s.policy)
    BY <2>3, <2>4, GatewayAssumption DEF ArgIsParsed, Op, Arg
  <2>6. IsUrl(Arg(r).url) /\ IsUrl(Arg(r).final_url)
    BY <2>1, <2>4, GatewayAssumption DEF ArgIsParsed, Op, Arg
  <2>7. /\ p.tenant = auth[r].tenant /\ p.source = Arg(r).source
        /\ p.original = canonicalize(Arg(r).url) /\ p.canonical = canonicalize(Arg(r).final_url)
    BY <2>1 DEF Page
  <2>8. /\ s.policy.enabled
        /\ IsUrl(p.original) /\ CanonicalizeOk(s.policy, p.original)
        /\ IsUrl(p.canonical) /\ CanonicalizeOk(s.policy, p.canonical)
        /\ canonicalize(p.canonical) = p.canonical
    BY <2>2, <2>6, <2>7, CanonicalStays DEF PageOk
  <2>9. Inside(s.policy, p.original) /\ Inside(s.policy, p.canonical)
    BY <2>5, <2>8, AllowedIsInside
  <2>10. Headers(r).ingest # None /\ Digest[Headers(r).ingest] = Ingest
    BY <2>1 DEF WorkersAreKnown, Credential
  <2> QED BY <2>1, <2>2, <2>3, <2>7, <2>8, <2>9, <2>10
<1> QED BY PoolInvariance, PolicyInvariance, <1>1, PTL
=============================================================================
