------------------------- MODULE ReverseMatchProofs -------------------------
(***************************************************************************)
(* The reverse-alert hot path for every set of deliveries, pages, contents *)
(* and alerts, and every number of faults.                                 *)
(*                                                                         *)
(* The invariant has a part about the tables and a part per delivery.  The *)
(* latter survives every step of anybody else that respects what the       *)
(* delivery holds (lemma Undisturbed); that is how the steps of other      *)
(* deliveries, of alerts and, in MatchStoreProofs, of the historical path  *)
(* are dealt with.                                                         *)
(***************************************************************************)
EXTENDS ReverseMatch, FiniteSetTheorems, TLAPS

Created == {a \in Alerts : alert[a] # "absent"}

(* The tables: there are finitely many rules, and only a rule that exists  *)
(* has a vector.                                                           *)
TablesInv ==
    /\ IsFiniteSet(Created)
    /\ \A a \in Alerts : alertVector[a] # None => alert[a] # "absent"
    /\ CandidatesJustified

Holds(d) == rpc[d] \in {"upserted", "matching", "persisting"}
Matched(d) == rpc[d] \in {"matching", "persisting", "committed", "accepted"}
Picked(d) == todo[d] \cup reported[d]

(* What a delivery read from the page's row stays true while it has it.    *)
RowHeld(d) ==
    Holds(d) =>
        /\ pageLock[request[d].page] = d
        /\ staged[d].predecessor = latest[request[d].page]
        /\ staged[d].inserted <=> RevisionOf(d) \notin revisions

(* The keys it has inserted are its own, and nobody else's.                *)
KeysStaged(d) ==
    /\ rpc[d] \notin {"matching", "persisting"} => staged[d].keys = {}
    /\ rpc[d] \in {"upserting", "upserted"} => reported[d] = {}
    /\ rpc[d] \in {"committed", "accepted"} => todo[d] = {} /\ RevisionOf(d) \in revisions
    /\ \A k \in staged[d].keys :
          /\ k \in pendingKeys /\ candidates[k] = None
          /\ k[1] \in reported[d] /\ k[2] = RevisionOf(d)

(* What it has found qualified, and what it reports is or will be durable. *)
ReportBacked(d) ==
    Matched(d) =>
        /\ \A a \in Picked(d) : alertVector[a] # None /\ Score(d, a) >= Threshold[a]
        /\ \A a \in reported[d] : \/ candidates[KeyOf(d, a)] = ReverseEvidence(d, a)
                                  \/ KeyOf(d, a) \in staged[d].keys

(* What it has not found did not fit.                                      *)
NothingMissed(d) ==
    /\ \A a \in armed[d] : alertVector[a] # None
    /\ Matched(d) =>
          \A a \in armed[d] \ Picked(d) :
              alert[a] = "active" /\ Score(d, a) >= Threshold[a] =>
                  Cardinality({b \in Picked(d) : Score(d, b) >= Score(d, a)}) = MaxCandidates

(* A row of its page revision that its insert does not see comes from the  *)
(* historical path: other deliveries are kept out by the page's row.       *)
InsertSees(d) ==
    rpc[d] = "persisting" =>
        /\ statement[d].alert \in todo[d]
        /\ \A k \in MatchKeys \ statement[d].visible :
              k[2] = RevisionOf(d) /\ candidates[k] # None => candidates[k].mode = "historical"

(* Why it was refused.                                                     *)
ConflictBacked(d) ==
    rpc[d] = "conflict" =>
        \E a \in Alerts : /\ alertVector[a] # None
                          /\ candidates[KeyOf(d, a)] \notin {None, ReverseEvidence(d, a)}

DeliveryInv(d) ==
    /\ RowHeld(d) /\ KeysStaged(d) /\ ReportBacked(d) /\ NothingMissed(d)
    /\ InsertSees(d) /\ ConflictBacked(d)

CoreInv == ReverseTypeOK /\ TablesInv /\ \A d \in Deliveries : DeliveryInv(d)

(* The history of pages, when only the reverse path writes them: the       *)
(* pointer of a page names one of its revisions, if it has any.            *)
PointersInv ==
    /\ \A p \in Pages : latest[p] # None => latest[p] \in revisions /\ latest[p][1] = p
    /\ \A r \in revisions : latest[r[1]] # None

ReverseInv == CoreInv /\ PointersInv /\ OneHistory /\ PagesHaveContent

-----------------------------------------------------------------------------
(* Nothing is stored and nothing is under way.                             *)
LEMMA InitCore == ReverseInit => CoreInv
<1> SUFFICES ASSUME ReverseInit PROVE CoreInv
  OBVIOUS
<1> USE StoreAssumption, ReverseAssumption DEF ReverseInit, StoreInit, NothingStaged, NoStatement
<1>1. ReverseTypeOK
  BY DEF ReverseTypeOK, StoreTypeOK, Open, Answers
<1>2. TablesInv
  <2>1. Created = {}
    BY DEF Created
  <2>2. CandidatesJustified
    BY DEF CandidatesJustified
  <2> QED BY <2>1, <2>2, FS_EmptySet DEF TablesInv
<1>3. ASSUME NEW d \in Deliveries PROVE DeliveryInv(d)
  BY <1>3 DEF DeliveryInv, RowHeld, KeysStaged, ReportBacked, NothingMissed, InsertSees,
              ConflictBacked, Holds, Matched
<1> QED BY <1>1, <1>2, <1>3 DEF CoreInv

(***************************************************************************)
(* What anybody else may do to the tables while delivery d is under way:   *)
(* rows are added and not changed, a rule is not activated again, and the  *)
(* page's row and the keys d holds are left alone.                         *)
(***************************************************************************)
Grown ==
    /\ revisions \subseteq revisions'
    /\ \A a \in Alerts : alertVector[a] # None => alertVector'[a] = alertVector[a]
    /\ \A a \in Alerts : alert[a] # "absent" /\ alert'[a] = "active" => alert[a] = "active"
    /\ \A k \in MatchKeys : candidates[k] # None => candidates'[k] = candidates[k]

Respected(d) ==
    /\ pageLock[request[d].page] = d =>
          /\ pageLock'[request[d].page] = d
          /\ latest'[request[d].page] = latest[request[d].page]
          /\ RevisionOf(d) \in revisions' => RevisionOf(d) \in revisions
          /\ \A k \in MatchKeys :
                k[2] = RevisionOf(d) /\ candidates[k] = None /\ candidates'[k] # None =>
                    candidates'[k].mode = "historical"
    /\ \A k \in staged[d].keys : k \in pendingKeys' /\ candidates'[k] = None

(* The key of a candidate and what it is made of.                          *)
LEMMA KeyType ==
    ASSUME ReverseTypeOK, NEW d \in Deliveries
    PROVE  /\ request[d].page \in Pages /\ request[d].vector \in Vectors
           /\ RevisionOf(d) \in Revisions
           /\ \A a \in Alerts : KeyOf(d, a) \in MatchKeys
           /\ staged[d].keys \subseteq MatchKeys /\ todo[d] \subseteq Alerts
           /\ reported[d] \subseteq Alerts /\ armed[d] \subseteq Alerts
  BY StoreAssumption DEF ReverseTypeOK, RevisionOf, KeyOf, Revisions, MatchKeys

LEMMA Undisturbed ==
    ASSUME ReverseTypeOK, TablesInv, NEW d \in Deliveries, DeliveryInv(d), Grown, Respected(d),
           request'[d] = request[d], rpc'[d] = rpc[d], armed'[d] = armed[d],
           staged'[d] = staged[d], todo'[d] = todo[d], statement'[d] = statement[d],
           reported'[d] = reported[d]
    PROVE  DeliveryInv(d)'
<1>1. /\ Holds(d)' <=> Holds(d)
      /\ Matched(d)' <=> Matched(d)
      /\ Picked(d)' = Picked(d)
      /\ RevisionOf(d)' = RevisionOf(d)
      /\ \A a : KeyOf(d, a)' = KeyOf(d, a)
  BY DEF Holds, Matched, Picked, RevisionOf, KeyOf
<1>2. \A a \in Alerts : alertVector[a] # None =>
          /\ alertVector'[a] = alertVector[a]
          /\ Score(d, a)' = Score(d, a)
          /\ ReverseEvidence(d, a)' = ReverseEvidence(d, a)
  BY DEF Grown, Score, ReverseEvidence
<1>3. Picked(d) \subseteq Alerts
  BY KeyType DEF Picked
<1>4. RowHeld(d)'
  BY <1>1 DEF DeliveryInv, RowHeld, Respected, Grown
<1>5. KeysStaged(d)'
  BY <1>1 DEF DeliveryInv, KeysStaged, Respected, Grown
<1>6. ReportBacked(d)'
  <2>1. \A a \in reported[d] : KeyOf(d, a) \in MatchKeys /\ a \in Alerts /\ a \in Picked(d)
    BY KeyType DEF Picked
  <2>2. \A a \in Alerts : ReverseEvidence(d, a) # None \/ alertVector[a] = None
    <3> SUFFICES ASSUME NEW a \in Alerts, alertVector[a] # None
                 PROVE  ReverseEvidence(d, a) \in Evidence
      BY StoreAssumption
    <3> QED BY KeyType, StoreAssumption DEF ReverseTypeOK, StoreTypeOK, ReverseEvidence, Evidence
  <2> SUFFICES ASSUME Matched(d)
               PROVE  /\ \A a \in Picked(d) : alertVector'[a] # None /\ Score(d, a)' >= Threshold[a]
                      /\ \A a \in reported[d] : \/ candidates'[KeyOf(d, a)] = ReverseEvidence(d, a)'
                                                \/ KeyOf(d, a) \in staged[d].keys
    BY <1>1 DEF ReportBacked
  <2>3. \A a \in Picked(d) : alertVector[a] # None /\ Score(d, a) >= Threshold[a]
    BY DEF DeliveryInv, ReportBacked
  <2>4. \A a \in Picked(d) : alertVector'[a] # None /\ Score(d, a)' >= Threshold[a]
    BY <2>3, <1>2, <1>3
  <2>5. ASSUME NEW a \in reported[d], KeyOf(d, a) \notin staged[d].keys
        PROVE  candidates'[KeyOf(d, a)] = ReverseEvidence(d, a)'
    <3>1. candidates[KeyOf(d, a)] = ReverseEvidence(d, a)
      BY <2>5 DEF DeliveryInv, ReportBacked
    <3> QED BY <3>1, <2>1, <2>2, <2>3, <1>2 DEF Grown
  <2> QED BY <2>4, <2>5
<1>7. NothingMissed(d)'
  <2>1. \A a \in armed[d] : a \in Alerts /\ alertVector[a] # None
    BY KeyType DEF DeliveryInv, NothingMissed
  <2>2. \A a \in armed'[d] : alertVector'[a] # None
    BY <2>1, <1>2
  <2>3. ASSUME Matched(d), NEW a \in armed[d] \ Picked(d), alert'[a] = "active",
               Score(d, a)' >= Threshold[a]
        PROVE  Cardinality({b \in Picked(d) : Score(d, b)' >= Score(d, a)'}) = MaxCandidates
    <3>1. alert[a] = "active" /\ Score(d, a)' = Score(d, a)
      BY <2>1, <2>3, <1>2 DEF Grown, TablesInv
    <3>2. \A b \in Picked(d) : Score(d, b)' = Score(d, b)
      BY <2>3, <1>2, <1>3 DEF DeliveryInv, ReportBacked
    <3>3. {b \in Picked(d) : Score(d, b)' >= Score(d, a)'} = {b \in Picked(d) : Score(d, b) >= Score(d, a)}
      BY <3>1, <3>2
    <3> QED BY <3>1, <3>3, <2>3 DEF DeliveryInv, NothingMissed
  <2> QED BY <2>2, <2>3, <1>1 DEF NothingMissed
<1>8. ConflictBacked(d)'
  <2>1. ASSUME rpc[d] = "conflict"
        PROVE  \E a \in Alerts : /\ alertVector'[a] # None
                                 /\ candidates'[KeyOf(d, a)] \notin {None, ReverseEvidence(d, a)'}
    <3>1. PICK a \in Alerts : /\ alertVector[a] # None
                              /\ candidates[KeyOf(d, a)] \notin {None, ReverseEvidence(d, a)}
      BY <2>1 DEF DeliveryInv, ConflictBacked
    <3>2. candidates'[KeyOf(d, a)] = candidates[KeyOf(d, a)]
      BY <3>1, KeyType DEF Grown
    <3> QED BY <3>1, <3>2, <1>2
  <2> QED BY <2>1, <1>1 DEF ConflictBacked
<1>9. InsertSees(d)'
  <2> SUFFICES ASSUME rpc[d] = "persisting"
               PROVE  /\ statement[d].alert \in todo[d]
                      /\ \A k \in MatchKeys \ statement[d].visible :
                            k[2] = RevisionOf(d) /\ candidates'[k] # None =>
                                candidates'[k].mode = "historical"
    BY <1>1 DEF InsertSees
  <2>1. /\ statement[d].alert \in todo[d] /\ pageLock[request[d].page] = d
        /\ \A k \in MatchKeys \ statement[d].visible :
              k[2] = RevisionOf(d) /\ candidates[k] # None => candidates[k].mode = "historical"
    BY DEF DeliveryInv, InsertSees, RowHeld, Holds
  <2> QED BY <2>1 DEF Grown, Respected
<1> QED BY <1>4, <1>5, <1>6, <1>7, <1>8, <1>9 DEF DeliveryInv

-----------------------------------------------------------------------------
StagedRows == [inserted : BOOLEAN, predecessor : Revisions \cup {None}, keys : SUBSET MatchKeys]

(* Staging another key.                                                    *)
LEMMA StageKey ==
    ASSUME NEW rows \in StagedRows, NEW S \in SUBSET MatchKeys
    PROVE  /\ [rows EXCEPT !.keys = S] =
                  [inserted |-> rows.inserted, predecessor |-> rows.predecessor, keys |-> S]
           /\ [rows EXCEPT !.keys = S] \in StagedRows
  BY DEF StagedRows

(* Every step of a delivery keeps the shape of the state.                  *)
LEMMA ReverseTypeStep ==
    ASSUME ReverseTypeOK, NEW d \in Deliveries, DeliveryInv(d),
           ProceedDelivery(d) \/ LoseAnswer(d) \/ AbortDelivery(d)
    PROVE  ReverseTypeOK'
<1> USE StoreAssumption, ReverseAssumption, KeyType
    DEF ReverseTypeOK, StoreTypeOK, Open, Answers, NoStatement, tables, pageTables, alertTables
<1>1. CASE Deliver(d)
  BY <1>1 DEF Deliver
<1>2. CASE upsert_page_revision(d)
  BY <1>2 DEF upsert_page_revision
<1>3. CASE NoDurableRevision(d)
  BY <1>3 DEF NoDurableRevision
<1>4. CASE find_alert_candidates(d)
  <2>1. \A T \in TopK(Qualifying(d), Scores(d), MaxCandidates) : T \subseteq Alerts
    BY DEF TopK, Qualifying
  <2> QED BY <1>4, <2>1 DEF find_alert_candidates
<1>5. CASE persist_reverse_candidate(d)
  <2> DEFINE a == statement[d].alert
  <2>0. a \in Alerts
    BY <1>5 DEF persist_reverse_candidate, DeliveryInv, InsertSees
  <2>1. staged' \in [Deliveries -> [inserted : BOOLEAN, predecessor : Revisions \cup {None},
                                    keys : SUBSET MatchKeys]]
    <3> DEFINE more == [staged[d] EXCEPT !.keys = @ \cup {KeyOf(d, a)}]
    <3>1. more \in StagedRows
      <4>1. staged[d] \in StagedRows /\ staged[d].keys \cup {KeyOf(d, a)} \in SUBSET MatchKeys
        BY <2>0 DEF StagedRows
      <4> HIDE DEF ReverseTypeOK
      <4> QED BY ONLY <4>1, StageKey
    <3>2. staged' = staged \/ staged' = [staged EXCEPT ![d] = more]
      BY <1>5 DEF persist_reverse_candidate
    <3> HIDE DEF more
    <3> QED BY <3>1, <3>2 DEF StagedRows
  <2>2. pendingKeys' \in SUBSET MatchKeys
    BY <1>5, <2>0 DEF persist_reverse_candidate
  <2>3. /\ todo' \in [Deliveries -> SUBSET Alerts] /\ reported' \in [Deliveries -> SUBSET Alerts]
        /\ statement' \in [Deliveries -> [alert : Alerts \cup {None}, visible : SUBSET MatchKeys]]
        /\ rpc' \in [Deliveries -> {"idle", "committed"} \cup Open \cup Answers]
    BY <1>5, <2>0 DEF persist_reverse_candidate
  <2>4. UNCHANGED <<pages, latest, revisions, predecessor, embeddings, alert, alertVector,
                    candidates, pageLock, request, snapshot, armed, faults>>
    BY <1>5 DEF persist_reverse_candidate
  <2> QED BY ONLY ReverseTypeOK, <2>1, <2>2, <2>3, <2>4 DEF ReverseTypeOK, StoreTypeOK
<1>6. EndTransaction(d) => /\ pageLock' \in [Pages -> Deliveries \cup {None}]
                           /\ pendingKeys' \in SUBSET MatchKeys
                           /\ staged' \in [Deliveries -> [inserted : BOOLEAN,
                                  predecessor : Revisions \cup {None}, keys : SUBSET MatchKeys]]
                           /\ todo' \in [Deliveries -> SUBSET Alerts]
                           /\ statement' \in [Deliveries -> [alert : Alerts \cup {None},
                                                             visible : SUBSET MatchKeys]]
  BY DEF EndTransaction, NothingStaged
<1>7. CASE EvidenceConflict(d)
  BY <1>6, <1>7 DEF EvidenceConflict
<1>13. ASSUME NEW a \in Alerts, PersistStart(d, a) PROVE ReverseTypeOK'
  <2>1. [alert |-> a, visible |-> {k \in MatchKeys : candidates[k] # None}] \in
            [alert : Alerts \cup {None}, visible : SUBSET MatchKeys]
    OBVIOUS
  <2> QED BY <1>13, <2>1 DEF PersistStart
<1>8. CASE CommitDelivery(d)
  <2>1. \A k \in staged[d].keys : k[1] \in Alerts /\ alertVector[k[1]] # None
    BY <1>8 DEF CommitDelivery, DeliveryInv, KeysStaged, ReportBacked, Matched, Picked
  <2>2. \A k \in staged[d].keys : ReverseEvidence(d, k[1]) \in Evidence
    BY <2>1 DEF ReverseEvidence, Evidence
  <2>3. candidates' \in [MatchKeys -> Evidence \cup {None}]
    BY <1>8, <2>2 DEF CommitDelivery
  <2> QED BY <1>6, <1>8, <2>3 DEF CommitDelivery
<1>9. CASE AnswerDelivery(d)
  BY <1>9 DEF AnswerDelivery
<1>10. CASE LoseAnswer(d)
  BY <1>10 DEF LoseAnswer
<1>11. CASE AbortDelivery(d)
  BY <1>6, <1>11 DEF AbortDelivery
<1>12. CASE Redeliver(d)
  BY <1>12 DEF Redeliver
<1> QED
  BY <1>1, <1>2, <1>3, <1>4, <1>5, <1>7, <1>8, <1>9, <1>10, <1>11, <1>12, <1>13
     DEF ProceedDelivery

(* Two deliveries that hold rows hold different pages, so the keys that    *)
(* they have inserted are different too.                                   *)
LEMMA HoldersApart ==
    ASSUME ReverseTypeOK, NEW d \in Deliveries, NEW e \in Deliveries, d # e,
           DeliveryInv(d), DeliveryInv(e)
    PROVE  /\ Holds(d) /\ Holds(e) => request[d].page # request[e].page
           /\ Holds(d) /\ pageLock[request[e].page] = e =>
                 request[d].page # request[e].page /\ RevisionOf(d) # RevisionOf(e)
           /\ staged[d].keys \cap staged[e].keys = {}
<1>1. Holds(d) => pageLock[request[d].page] = d
  BY DEF DeliveryInv, RowHeld
<1>2. Holds(e) => pageLock[request[e].page] = e
  BY DEF DeliveryInv, RowHeld
<1>3. RevisionOf(d) = RevisionOf(e) => request[d].page = request[e].page
  BY DEF RevisionOf
<1>4. ASSUME NEW k \in staged[d].keys, k \in staged[e].keys PROVE FALSE
  <2>1. Holds(d) /\ Holds(e) /\ RevisionOf(d) = RevisionOf(e)
    BY <1>4 DEF DeliveryInv, KeysStaged, Holds
  <2> QED BY <2>1, <1>1, <1>2, <1>3
<1> QED BY <1>1, <1>2, <1>3, <1>4

(* What a step of delivery d leaves alone.                                 *)
LEMMA StepIsLocal ==
    ASSUME CoreInv, NEW d \in Deliveries, NEW e \in Deliveries, d # e,
           ProceedDelivery(d) \/ LoseAnswer(d) \/ AbortDelivery(d)
    PROVE  /\ request'[e] = request[e] /\ rpc'[e] = rpc[e] /\ armed'[e] = armed[e]
           /\ staged'[e] = staged[e] /\ todo'[e] = todo[e] /\ statement'[e] = statement[e]
           /\ reported'[e] = reported[e]
  BY DEF CoreInv, ReverseTypeOK, ProceedDelivery, Deliver, upsert_page_revision, NoDurableRevision,
         find_alert_candidates, PersistStart, persist_reverse_candidate, EvidenceConflict, CommitDelivery,
         AnswerDelivery, LoseAnswer, AbortDelivery, Redeliver, EndTransaction

(* A step of a delivery only adds rows: those it commits were not there.   *)
LEMMA StepGrows ==
    ASSUME CoreInv, NEW d \in Deliveries,
           ProceedDelivery(d) \/ LoseAnswer(d) \/ AbortDelivery(d)
    PROVE  Grown
<1>1. CASE CommitDelivery(d)
  <2>1. \A k \in staged[d].keys : candidates[k] = None
    BY DEF CoreInv, DeliveryInv, KeysStaged
  <2> QED BY <1>1, <2>1 DEF CommitDelivery, Grown, alertTables
<1>2. CASE ~CommitDelivery(d)
  <2>1. UNCHANGED <<revisions, alert, alertVector, candidates>>
    BY <1>2 DEF ProceedDelivery, Deliver, upsert_page_revision, NoDurableRevision,
         find_alert_candidates, PersistStart, persist_reverse_candidate, EvidenceConflict,
         AnswerDelivery, LoseAnswer, AbortDelivery, Redeliver, tables, pageTables, alertTables
  <2> QED BY <2>1 DEF Grown
<1> QED BY <1>1, <1>2

(* And it respects what the other deliveries hold.                         *)
LEMMA StepRespects ==
    ASSUME CoreInv, NEW d \in Deliveries, NEW e \in Deliveries, d # e,
           ProceedDelivery(d) \/ LoseAnswer(d) \/ AbortDelivery(d)
    PROVE  Respected(e)
<1>0. DeliveryInv(d) /\ DeliveryInv(e) /\ request[e].page \in Pages /\ request[d].page \in Pages
      /\ pageLock \in [Pages -> Deliveries \cup {None}] /\ latest \in [Pages -> Revisions \cup {None}]
      /\ staged[e].keys \subseteq MatchKeys
  BY KeyType DEF CoreInv, ReverseTypeOK, StoreTypeOK
<1>1. \A k \in staged[e].keys : k \in pendingKeys /\ candidates[k] = None /\ k \notin staged[d].keys
  <2>1. \A k \in staged[e].keys : k \in pendingKeys /\ candidates[k] = None
    BY <1>0 DEF DeliveryInv, KeysStaged
  <2>2. \A k \in staged[e].keys : k \notin staged[d].keys
    BY <1>0, HoldersApart DEF CoreInv
  <2> QED BY <2>1, <2>2
<1>2. EndTransaction(d) => /\ pageLock[request[e].page] = e => pageLock'[request[e].page] = e
                           /\ \A k \in staged[e].keys : k \in pendingKeys'
  BY <1>0, <1>1 DEF EndTransaction
<1>3. ASSUME latest' = latest, revisions' = revisions, candidates' = candidates,
             \/ pageLock' = pageLock /\ pendingKeys \subseteq pendingKeys'
             \/ EndTransaction(d)
      PROVE  Respected(e)
  BY <1>1, <1>2, <1>3 DEF Respected
<1>4. CASE CommitDelivery(d)
  <2>1. Holds(d)
    BY <1>4 DEF CommitDelivery, Holds
  <2>2. pageLock[request[e].page] = e =>
            request[d].page # request[e].page /\ RevisionOf(d) # RevisionOf(e)
    BY <2>1, <1>0, HoldersApart DEF CoreInv
  <2>3. pageLock[request[e].page] = e =>
            /\ latest'[request[e].page] = latest[request[e].page]
            /\ RevisionOf(e) \in revisions' => RevisionOf(e) \in revisions
    BY <1>0, <1>4, <2>2 DEF CommitDelivery
  <2>4. \A k \in staged[e].keys : candidates'[k] = None
    BY <1>0, <1>1, <1>4 DEF CommitDelivery
  <2>5. pageLock[request[e].page] = e =>
            \A k \in MatchKeys : k[2] = RevisionOf(e) => candidates'[k] = candidates[k]
    <3>1. \A k \in staged[d].keys : k[2] = RevisionOf(d)
      BY <1>0 DEF DeliveryInv, KeysStaged
    <3> QED BY <1>4, <2>2, <3>1 DEF CommitDelivery
  <2> QED BY <1>2, <1>4, <2>3, <2>4, <2>5 DEF CommitDelivery, Respected
<1>5. CASE upsert_page_revision(d)
  <2>1. pageLock[request[e].page] = e => pageLock'[request[e].page] = e
    BY <1>0, <1>5, ReverseAssumption DEF upsert_page_revision
  <2> QED BY <1>1, <1>5, <2>1 DEF upsert_page_revision, Respected, pageTables
<1>6. CASE ~CommitDelivery(d) /\ ~upsert_page_revision(d)
  <2>1. /\ UNCHANGED <<latest, revisions, candidates>>
        /\ \/ pageLock' = pageLock /\ pendingKeys \subseteq pendingKeys'
           \/ EndTransaction(d)
    BY <1>6 DEF ProceedDelivery, Deliver, NoDurableRevision,
         find_alert_candidates, PersistStart, persist_reverse_candidate, EvidenceConflict,
         AnswerDelivery, LoseAnswer, AbortDelivery, Redeliver, tables, pageTables, alertTables
  <2> QED BY <1>3, <2>1
<1> QED BY <1>4, <1>5, <1>6

-----------------------------------------------------------------------------
(* The first rows of an ordered result: what is left out is no better than *)
(* any of them, and they are as many as were asked for.                    *)
LEMMA TopKIsFull ==
    ASSUME NEW S, IsFiniteSet(S), NEW score, NEW k \in Nat, NEW T \in TopK(S, score, k),
           NEW y \in S \ T
    PROVE  /\ T \subseteq S /\ Cardinality(T) = k
           /\ \A x \in T : score[x] >= score[y]
<1>1. /\ T \subseteq S
      /\ Cardinality(T) = IF Cardinality(S) < k THEN Cardinality(S) ELSE k
      /\ \A x \in T : score[x] >= score[y]
  BY DEF TopK
<1>2. Cardinality(T) # Cardinality(S)
  BY <1>1, FS_Subset
<1> QED BY <1>1, <1>2

(* begin: what was reported before is forgotten.                           *)
LEMMA DeliverStep ==
    ASSUME CoreInv, NEW d \in Deliveries, Deliver(d)
    PROVE  DeliveryInv(d)'
  BY DEF CoreInv, ReverseTypeOK, Deliver, tables, alertTables, DeliveryInv, RowHeld, KeysStaged, ReportBacked,
         NothingMissed, InsertSees, ConflictBacked, Holds, Matched

(* The page's row is taken, and what it says is what is committed.         *)
LEMMA UpsertStep ==
    ASSUME CoreInv, NEW d \in Deliveries, upsert_page_revision(d)
    PROVE  DeliveryInv(d)'
<1>1. request[d].page \in Pages /\ RevisionOf(d)' = RevisionOf(d)
  BY KeyType DEF CoreInv, upsert_page_revision, RevisionOf
<1>2. rpc'[d] = "upserted" /\ request'[d] = request[d]
  BY DEF CoreInv, ReverseTypeOK, upsert_page_revision
<1>3. RowHeld(d)'
  BY <1>1, <1>2 DEF CoreInv, ReverseTypeOK, upsert_page_revision, RowHeld, pageTables
<1>4. KeysStaged(d)'
  BY <1>1, <1>2 DEF CoreInv, ReverseTypeOK, upsert_page_revision, DeliveryInv, KeysStaged
<1>5. NothingMissed(d)'
  BY <1>2 DEF CoreInv, ReverseTypeOK, upsert_page_revision, DeliveryInv, NothingMissed, Matched, alertTables
<1> QED BY <1>2, <1>3, <1>4, <1>5 DEF DeliveryInv, ReportBacked, InsertSees, ConflictBacked, Matched

(* The query reads the rules: what it leaves out did not fit.              *)
LEMMA FindStep ==
    ASSUME CoreInv, NEW d \in Deliveries, find_alert_candidates(d)
    PROVE  DeliveryInv(d)'
<1> DEFINE Q == Qualifying(d)
<1>1. PICK T \in TopK(Q, Scores(d), MaxCandidates) : todo' = [todo EXCEPT ![d] = T]
  BY DEF find_alert_candidates
<1>2. /\ rpc[d] = "upserted" /\ rpc'[d] = "matching" /\ todo'[d] = T /\ reported[d] = {}
      /\ staged[d].keys = {} /\ UNCHANGED <<tables, request, armed, staged, reported>>
  BY <1>1 DEF CoreInv, ReverseTypeOK, find_alert_candidates, DeliveryInv, KeysStaged
<1>3. /\ UNCHANGED <<latest, revisions, candidates, pageLock, pendingKeys, alert, alertVector>>
      /\ RevisionOf(d)' = RevisionOf(d) /\ Picked(d)' = T
      /\ \A a : Score(d, a)' = Score(d, a)
  BY <1>2 DEF tables, pageTables, alertTables, RevisionOf, Picked, Score
<1>4. IsFiniteSet(Q) /\ Q \subseteq Alerts
  <2>1. Q \subseteq Created
    BY DEF Qualifying, Created
  <2> QED BY <2>1, FS_Subset DEF CoreInv, TablesInv, Qualifying
<1>5. T \subseteq Q
  BY DEF TopK
<1>6. RowHeld(d)'
  BY <1>2, <1>3 DEF CoreInv, DeliveryInv, RowHeld, Holds
<1>7. KeysStaged(d)'
  BY <1>2 DEF KeysStaged
<1>8. ReportBacked(d)'
  BY <1>2, <1>3, <1>5 DEF ReportBacked, Qualifying
<1>9. NothingMissed(d)'
  <2>1. \A a \in armed[d] : alertVector[a] # None
    BY DEF CoreInv, DeliveryInv, NothingMissed
  <2>2. armed[d] \subseteq Alerts
    BY KeyType DEF CoreInv
  <2>3. ASSUME NEW a \in armed[d] \ T, alert[a] = "active", Score(d, a) >= Threshold[a]
        PROVE  Cardinality({b \in T : Score(d, b) >= Score(d, a)}) = MaxCandidates
    <3>1. a \in Q \ T
      BY <2>1, <2>2, <2>3 DEF Qualifying
    <3>2. Cardinality(T) = MaxCandidates /\ \A b \in T : Scores(d)[b] >= Scores(d)[a]
      BY <3>1, <1>4, TopKIsFull, ReverseAssumption
    <3>3. \A b \in T \cup {a} : Scores(d)[b] = Score(d, b)
      BY <3>1, <1>5 DEF Scores, Qualifying
    <3>4. {b \in T : Score(d, b) >= Score(d, a)} = T
      BY <3>2, <3>3
    <3> QED BY <3>2, <3>4
  <2> QED BY <2>1, <2>3, <1>2, <1>3 DEF NothingMissed
<1>10. InsertSees(d)' /\ ConflictBacked(d)'
  BY <1>2 DEF InsertSees, ConflictBacked
<1> QED BY <1>6, <1>7, <1>8, <1>9, <1>10 DEF DeliveryInv

(* The insert starts: it sees every row there is.                          *)
LEMMA StartStep ==
    ASSUME CoreInv, NEW d \in Deliveries, NEW a \in Alerts, PersistStart(d, a)
    PROVE  DeliveryInv(d)'
<1>1. /\ rpc[d] = "matching" /\ rpc'[d] = "persisting" /\ a \in todo[d]
      /\ UNCHANGED <<tables, request, armed, staged, todo, reported>>
      /\ statement'[d] = [alert |-> a, visible |-> {k \in MatchKeys : candidates[k] # None}]
  BY DEF CoreInv, ReverseTypeOK, PersistStart, Nearest
<1>2. /\ UNCHANGED <<latest, revisions, candidates, pageLock, pendingKeys, alert, alertVector>>
      /\ RevisionOf(d)' = RevisionOf(d) /\ Picked(d)' = Picked(d)
      /\ \A b : Score(d, b)' = Score(d, b) /\ KeyOf(d, b)' = KeyOf(d, b)
                /\ ReverseEvidence(d, b)' = ReverseEvidence(d, b)
  BY <1>1 DEF tables, pageTables, alertTables, RevisionOf, KeyOf, Picked, Score, ReverseEvidence
<1>3. RowHeld(d)'
  BY <1>1, <1>2 DEF CoreInv, DeliveryInv, RowHeld, Holds
<1>4. KeysStaged(d)'
  BY <1>1, <1>2 DEF CoreInv, DeliveryInv, KeysStaged
<1>5. ReportBacked(d)'
  BY <1>1, <1>2 DEF CoreInv, DeliveryInv, ReportBacked, Matched
<1>6. NothingMissed(d)'
  BY <1>1, <1>2 DEF CoreInv, DeliveryInv, NothingMissed, Matched
<1>7. InsertSees(d)' /\ ConflictBacked(d)'
  BY <1>1, <1>2 DEF InsertSees, ConflictBacked
<1> QED BY <1>3, <1>4, <1>5, <1>6, <1>7 DEF DeliveryInv

(* A candidate is staged, or is there already with the same evidence.      *)
LEMMA PersistStep ==
    ASSUME CoreInv, NEW d \in Deliveries, persist_reverse_candidate(d)
    PROVE  DeliveryInv(d)'
<1>a. PICK a \in Alerts : a = statement[d].alert /\ a \in todo[d]
  BY KeyType DEF CoreInv, DeliveryInv, InsertSees, persist_reverse_candidate
<1> DEFINE k == KeyOf(d, a)
<1>0. a \in todo[d] /\ rpc[d] = "persisting" /\ rpc'[d] = "matching" /\ k \in MatchKeys
  BY <1>a, KeyType DEF CoreInv, ReverseTypeOK, persist_reverse_candidate
<1>1. /\ UNCHANGED <<latest, revisions, candidates, pageLock, alert, alertVector, request, armed>>
      /\ todo'[d] = todo[d] \ {a} /\ reported'[d] = reported[d] \cup {a}
      /\ pendingKeys \subseteq pendingKeys'
  BY <1>a DEF CoreInv, ReverseTypeOK, persist_reverse_candidate, pageTables, alertTables
<1>2. /\ RevisionOf(d)' = RevisionOf(d) /\ Picked(d)' = Picked(d)
      /\ \A b : Score(d, b)' = Score(d, b) /\ KeyOf(d, b)' = KeyOf(d, b)
                /\ ReverseEvidence(d, b)' = ReverseEvidence(d, b)
  BY <1>0, <1>1 DEF RevisionOf, KeyOf, Picked, Score, ReverseEvidence
<1>3. \/ staged' = staged /\ candidates[k] = ReverseEvidence(d, a)
      \/ /\ candidates[k] = None /\ k \in pendingKeys'
         /\ staged'[d] = [inserted |-> staged[d].inserted, predecessor |-> staged[d].predecessor,
                          keys |-> staged[d].keys \cup {k}]
  <2>1. staged[d] \in StagedRows /\ staged[d].keys \cup {k} \in SUBSET MatchKeys
    BY <1>0, KeyType DEF CoreInv, ReverseTypeOK, StagedRows
  <2> DEFINE more == [staged[d] EXCEPT !.keys = @ \cup {k}]
  <2>2. more = [inserted |-> staged[d].inserted, predecessor |-> staged[d].predecessor,
                keys |-> staged[d].keys \cup {k}]
    BY ONLY <2>1, StageKey
  <2>3. \/ staged' = staged /\ candidates[k] = ReverseEvidence(d, a)
        \/ candidates[k] = None /\ k \in pendingKeys' /\ staged' = [staged EXCEPT ![d] = more]
    BY <1>a DEF persist_reverse_candidate, Selects
  <2> HIDE DEF more, k
  <2> QED BY <2>2, <2>3 DEF CoreInv, ReverseTypeOK
<1>4. /\ staged'[d].inserted = staged[d].inserted /\ staged'[d].predecessor = staged[d].predecessor
      /\ staged[d].keys \subseteq staged'[d].keys /\ staged'[d].keys \subseteq staged[d].keys \cup {k}
      /\ k \in staged'[d].keys => k \in staged[d].keys \/ (candidates[k] = None /\ k \in pendingKeys')
      /\ k \in staged'[d].keys \/ candidates[k] = ReverseEvidence(d, a)
  BY <1>3
<1>5. k[1] = a /\ k[2] = RevisionOf(d)
  BY DEF KeyOf
<1> HIDE DEF k
<1>6. RowHeld(d)'
  BY <1>0, <1>1, <1>2, <1>4 DEF CoreInv, DeliveryInv, RowHeld, Holds
<1>7. KeysStaged(d)'
  BY <1>0, <1>1, <1>2, <1>4, <1>5 DEF CoreInv, DeliveryInv, KeysStaged
<1>8. ReportBacked(d)'
  <2>1. \A b \in Picked(d) : alertVector[b] # None /\ Score(d, b) >= Threshold[b]
    BY <1>0 DEF CoreInv, DeliveryInv, ReportBacked, Matched
  <2>2. \A b \in reported[d] : \/ candidates[KeyOf(d, b)] = ReverseEvidence(d, b)
                               \/ KeyOf(d, b) \in staged[d].keys
    BY <1>0 DEF CoreInv, DeliveryInv, ReportBacked, Matched
  <2> QED BY <1>1, <1>2, <1>4, <2>1, <2>2 DEF ReportBacked, k
<1>9. NothingMissed(d)'
  BY <1>0, <1>1, <1>2 DEF CoreInv, DeliveryInv, NothingMissed, Matched
<1>10. InsertSees(d)' /\ ConflictBacked(d)'
  BY <1>0 DEF InsertSees, ConflictBacked
<1> QED BY <1>6, <1>7, <1>8, <1>9, <1>10 DEF DeliveryInv

(* 409: the row that is there has other evidence, or the insert would have *)
(* seen and selected it.                                                   *)
LEMMA ConflictStep ==
    ASSUME CoreInv, NEW d \in Deliveries, EvidenceConflict(d)
    PROVE  DeliveryInv(d)'
<1>0. PICK a \in Alerts : a = statement[d].alert /\ a \in todo[d]
  BY KeyType DEF CoreInv, DeliveryInv, InsertSees, EvidenceConflict
<1>1. /\ rpc[d] = "persisting" /\ rpc'[d] = "conflict" /\ staged'[d].keys = {}
      /\ UNCHANGED <<alertVector, candidates, request, armed>>
      /\ candidates[KeyOf(d, a)] # None /\ ~Selects(d)
  BY <1>0 DEF CoreInv, ReverseTypeOK, EvidenceConflict, EndTransaction, NothingStaged, alertTables
<1>2. alertVector[a] # None
  BY <1>0, <1>1 DEF CoreInv, DeliveryInv, ReportBacked, Matched, Picked
<1>3. KeyOf(d, a)' = KeyOf(d, a) /\ ReverseEvidence(d, a)' = ReverseEvidence(d, a)
  BY <1>1 DEF KeyOf, RevisionOf, ReverseEvidence
<1>4. candidates[KeyOf(d, a)] # ReverseEvidence(d, a)
  <2>1. CASE KeyOf(d, a) \in statement[d].visible
    BY <1>0, <1>1, <2>1 DEF Selects
  <2>2. CASE KeyOf(d, a) \notin statement[d].visible
    <3>1. KeyOf(d, a) \in MatchKeys /\ KeyOf(d, a)[2] = RevisionOf(d)
      BY KeyType DEF CoreInv, KeyOf
    <3>2. candidates[KeyOf(d, a)].mode = "historical"
      BY <1>1, <2>2, <3>1 DEF CoreInv, DeliveryInv, InsertSees
    <3> QED BY <3>2 DEF ReverseEvidence
  <2> QED BY <2>1, <2>2
<1>5. ConflictBacked(d)'
  BY <1>1, <1>2, <1>3, <1>4 DEF ConflictBacked
<1>6. NothingMissed(d)'
  BY <1>1 DEF CoreInv, DeliveryInv, NothingMissed, Matched
<1> QED BY <1>1, <1>5, <1>6
        DEF DeliveryInv, RowHeld, KeysStaged, ReportBacked, InsertSees, Holds, Matched

(* COMMIT: what was reported becomes durable.                              *)
LEMMA CommitStep ==
    ASSUME CoreInv, NEW d \in Deliveries, CommitDelivery(d)
    PROVE  DeliveryInv(d)'
<1>1. /\ rpc[d] = "matching" /\ rpc'[d] = "committed" /\ todo[d] = {} /\ todo'[d] = {}
      /\ staged'[d].keys = {} /\ RevisionOf(d) \in revisions'
      /\ UNCHANGED <<alert, alertVector, request, armed, reported>>
  BY DEF CoreInv, ReverseTypeOK, CommitDelivery, EndTransaction, NothingStaged, alertTables
<1>2. /\ RevisionOf(d)' = RevisionOf(d) /\ Picked(d)' = Picked(d)
      /\ \A b : Score(d, b)' = Score(d, b) /\ KeyOf(d, b)' = KeyOf(d, b)
                /\ ReverseEvidence(d, b)' = ReverseEvidence(d, b)
  BY <1>1 DEF RevisionOf, KeyOf, Picked, Score, ReverseEvidence
<1>3. \A b \in reported[d] : candidates'[KeyOf(d, b)] = ReverseEvidence(d, b)
  <2> SUFFICES ASSUME NEW b \in reported[d]
               PROVE  candidates'[KeyOf(d, b)] = ReverseEvidence(d, b)
    OBVIOUS
  <2>1. KeyOf(d, b) \in MatchKeys /\ KeyOf(d, b)[1] = b
    BY KeyType DEF CoreInv, KeyOf
  <2>2. \/ candidates[KeyOf(d, b)] = ReverseEvidence(d, b)
        \/ KeyOf(d, b) \in staged[d].keys
    BY <1>1 DEF CoreInv, DeliveryInv, ReportBacked, Matched
  <2> QED BY <2>1, <2>2 DEF CommitDelivery
<1>4. KeysStaged(d)'
  BY <1>1, <1>2 DEF KeysStaged
<1>5. ReportBacked(d)'
  BY <1>1, <1>2, <1>3 DEF CoreInv, DeliveryInv, ReportBacked, Matched
<1>6. NothingMissed(d)'
  BY <1>1, <1>2 DEF CoreInv, DeliveryInv, NothingMissed, Matched
<1> QED BY <1>1, <1>4, <1>5, <1>6 DEF DeliveryInv, RowHeld, InsertSees, ConflictBacked, Holds

(* The remaining steps change the position of the delivery and no row.     *)
LEMMA QuietStep ==
    ASSUME CoreInv, NEW d \in Deliveries,
           NoDurableRevision(d) \/ AnswerDelivery(d) \/ LoseAnswer(d) \/ AbortDelivery(d) \/ Redeliver(d)
    PROVE  DeliveryInv(d)'
<1>1. /\ UNCHANGED <<request, armed, reported, revisions, candidates, alert, alertVector>>
      /\ \/ rpc[d] = "committed" /\ rpc'[d] = "accepted"
         \/ rpc'[d] \in {"norevision", "lost", "failed", "idle"}
      /\ staged'[d].keys = {}
      /\ rpc'[d] = "accepted" => todo' = todo /\ staged' = staged
  BY DEF CoreInv, ReverseTypeOK, DeliveryInv, KeysStaged, NoDurableRevision, AnswerDelivery, LoseAnswer,
         AbortDelivery, Redeliver, EndTransaction, NothingStaged, tables, pageTables, alertTables, Answers, Open
<1>2. /\ RevisionOf(d)' = RevisionOf(d)
      /\ \A b : Score(d, b)' = Score(d, b) /\ KeyOf(d, b)' = KeyOf(d, b)
                /\ ReverseEvidence(d, b)' = ReverseEvidence(d, b)
  BY <1>1 DEF RevisionOf, KeyOf, Score, ReverseEvidence
<1>3. CASE rpc'[d] = "accepted"
  <2>1. Picked(d)' = Picked(d) /\ Matched(d) /\ Matched(d)'
    BY <1>1, <1>3 DEF Picked, Matched
  <2> QED BY <1>1, <1>2, <1>3, <2>1
          DEF CoreInv, DeliveryInv, RowHeld, KeysStaged, ReportBacked, NothingMissed, InsertSees, ConflictBacked, Holds
<1>4. CASE rpc'[d] # "accepted"
  BY <1>1, <1>2, <1>4
     DEF CoreInv, DeliveryInv, RowHeld, KeysStaged, ReportBacked, NothingMissed, InsertSees, ConflictBacked, Holds, Matched
<1> QED BY <1>3, <1>4

-----------------------------------------------------------------------------
(* What justifies a candidate, and that it goes on doing so.               *)
Justified(k, e) ==
    /\ k[2] \in revisions
    /\ e.threshold >= Threshold[k[1]]
    /\ Similarity[<<e.against, e.vector>>] >= Threshold[k[1]]
    /\ Similarity[<<e.against, e.vector>>] >=
          IF e.mode = "reverse" THEN e.threshold ELSE AsF32[e.threshold]
    /\ e.mode = "reverse" => alertVector[k[1]] = e.against
    /\ e.mode = "historical" => embeddings[k[2]] = e.vector

LEMMA JustifiedGrows ==
    ASSUME StoreTypeOK, CandidatesJustified, Grown,
           \A r \in Revisions : embeddings[r] # None => embeddings'[r] = embeddings[r],
           \A k \in MatchKeys : candidates'[k] = candidates[k] \/ Justified(k, candidates[k])'
    PROVE  CandidatesJustified'
<1>1. ASSUME NEW k \in MatchKeys, NEW e, e = candidates[k], e # None
      PROVE  Justified(k, e)'
  <2>1. Justified(k, e) /\ e \in Evidence /\ k[1] \in Alerts /\ k[2] \in Revisions
    BY <1>1 DEF CandidatesJustified, Justified, StoreTypeOK, MatchKeys
  <2>2. e.mode = "reverse" => alertVector[k[1]] # None
    BY <2>1, StoreAssumption DEF Justified, Evidence
  <2>3. e.mode = "historical" => embeddings[k[2]] # None
    BY <2>1, StoreAssumption DEF Justified, Evidence
  <2> QED BY <2>1, <2>2, <2>3 DEF Justified, Grown
<1>2. ASSUME NEW k \in MatchKeys, candidates'[k] # None
      PROVE  Justified(k, candidates[k])'
  <2>1. CASE candidates'[k] = candidates[k]
    BY <1>1, <1>2, <2>1 DEF Justified
  <2> QED BY <2>1
<1> QED BY <1>2 DEF CandidatesJustified, Justified

LEMMA DeliveryTables ==
    ASSUME CoreInv, NEW d \in Deliveries,
           ProceedDelivery(d) \/ LoseAnswer(d) \/ AbortDelivery(d)
    PROVE  TablesInv'
<1>0. UNCHANGED <<alert, alertVector, embeddings>>
  BY DEF ProceedDelivery, Deliver, upsert_page_revision, NoDurableRevision,
         find_alert_candidates, PersistStart, persist_reverse_candidate, EvidenceConflict, CommitDelivery,
         AnswerDelivery, LoseAnswer, AbortDelivery, Redeliver, tables, pageTables, alertTables
<1>1. IsFiniteSet(Created)' /\ \A a \in Alerts : alertVector'[a] # None => alert'[a] # "absent"
  BY <1>0 DEF CoreInv, TablesInv, Created
<1>2. Grown
  BY StepGrows
<1>3. \A k \in MatchKeys : candidates'[k] = candidates[k] \/ Justified(k, candidates[k])'
  <2>1. CASE CommitDelivery(d)
    <3> SUFFICES ASSUME NEW k \in staged[d].keys, candidates'[k] = ReverseEvidence(d, k[1])
                 PROVE  Justified(k, candidates[k])'
      BY <2>1, KeyType DEF CommitDelivery, CoreInv
    <3>1. /\ k[1] \in reported[d] /\ k[2] = RevisionOf(d) /\ k[1] \in Alerts
          /\ alertVector[k[1]] # None /\ Score(d, k[1]) >= Threshold[k[1]]
      BY <2>1, KeyType DEF CoreInv, DeliveryInv, KeysStaged, ReportBacked, Matched, Picked, CommitDelivery
    <3>2. k[2] \in revisions'
      BY <3>1, <2>1 DEF CommitDelivery
    <3>3. Threshold[k[1]] \in Nat
      BY <3>1, StoreAssumption, RoundingAssumption
    <3> QED BY <1>0, <3>1, <3>2, <3>3 DEF Justified, ReverseEvidence, Score
  <2>2. CASE ~CommitDelivery(d)
    BY <2>2 DEF ProceedDelivery, Deliver, upsert_page_revision, NoDurableRevision,
         find_alert_candidates, PersistStart, persist_reverse_candidate, EvidenceConflict,
         AnswerDelivery, LoseAnswer, AbortDelivery, Redeliver, tables
  <2> QED BY <2>1, <2>2
<1>4. CandidatesJustified'
  BY <1>0, <1>2, <1>3, JustifiedGrows DEF CoreInv, TablesInv, ReverseTypeOK
<1> QED BY <1>1, <1>4 DEF TablesInv

(* A step of a delivery keeps the invariant.                               *)
LEMMA CoreReverse ==
    ASSUME CoreInv, ReverseStep
    PROVE  CoreInv'
<1>1. PICK d \in Deliveries : ProceedDelivery(d) \/ LoseAnswer(d) \/ AbortDelivery(d)
  BY DEF ReverseStep
<1>2. ReverseTypeOK' /\ TablesInv'
  BY <1>1, ReverseTypeStep, DeliveryTables DEF CoreInv
<1>3. DeliveryInv(d)'
  BY <1>1, DeliverStep, UpsertStep, FindStep, StartStep, PersistStep, ConflictStep, CommitStep, QuietStep
     DEF ProceedDelivery
<1>4. ASSUME NEW e \in Deliveries, e # d PROVE DeliveryInv(e)'
  BY <1>1, <1>4, StepIsLocal, StepGrows, StepRespects, Undisturbed DEF CoreInv
<1> QED BY <1>2, <1>3, <1>4 DEF CoreInv

(* So does a step of an alert rule.                                        *)
LEMMA CoreAlert ==
    ASSUME CoreInv, AlertStep, UNCHANGED reverseVars
    PROVE  CoreInv'
<1>1. PICK a \in Alerts : \/ CreateAlert(a) \/ SupersedeAlert(a)
                          \/ \E v \in Vectors : upsert_alert_rule_embedding(a, v)
  BY DEF AlertStep
<1>2. UNCHANGED <<pages, latest, revisions, predecessor, embeddings, candidates, pageLock, pendingKeys>>
  BY <1>1 DEF CreateAlert, SupersedeAlert, upsert_alert_rule_embedding, pageTables
<1>3. /\ alert' \in [Alerts -> {"absent", "active", "superseded"}]
      /\ alertVector' \in [Alerts -> Vectors \cup {None}]
  BY <1>1, SMTT(30) DEF CoreInv, ReverseTypeOK, StoreTypeOK, CreateAlert, SupersedeAlert, upsert_alert_rule_embedding
<1>4. ReverseTypeOK'
  BY <1>2, <1>3 DEF CoreInv, ReverseTypeOK, StoreTypeOK, reverseVars
<1>5. Grown
  BY <1>1, <1>2 DEF Grown, CoreInv, ReverseTypeOK, StoreTypeOK, CreateAlert, SupersedeAlert,
                    upsert_alert_rule_embedding
<1>6. TablesInv'
  <2>1. Created' \subseteq Created \cup {a}
    BY <1>1 DEF Created, CoreInv, ReverseTypeOK, StoreTypeOK, CreateAlert, SupersedeAlert,
                upsert_alert_rule_embedding
  <2>2. IsFiniteSet(Created')
    BY <2>1, FS_AddElement, FS_Subset DEF CoreInv, TablesInv
  <2>3. \A b \in Alerts : alertVector'[b] # None => alert'[b] # "absent"
    BY <1>1 DEF CoreInv, TablesInv, ReverseTypeOK, StoreTypeOK, CreateAlert, SupersedeAlert,
                upsert_alert_rule_embedding
  <2>4. CandidatesJustified'
    BY <1>2, <1>5, JustifiedGrows DEF CoreInv, TablesInv, ReverseTypeOK
  <2> QED BY <2>2, <2>3, <2>4 DEF TablesInv
<1>7. ASSUME NEW d \in Deliveries PROVE DeliveryInv(d)'
  <2>1. Respected(d)
    BY <1>2 DEF Respected, CoreInv, DeliveryInv, KeysStaged
  <2> QED BY <1>5, <2>1, Undisturbed DEF CoreInv, reverseVars
<1> QED BY <1>4, <1>6, <1>7 DEF CoreInv

(* Nothing happens.                                                        *)
LEMMA CoreStutter ==
    ASSUME CoreInv, UNCHANGED <<tables, reverseVars>>
    PROVE  CoreInv'
<1>1. ReverseTypeOK' /\ TablesInv'
  BY DEF CoreInv, ReverseTypeOK, StoreTypeOK, TablesInv, Created, CandidatesJustified, tables, pageTables,
         alertTables, reverseVars
<1>2. Grown
  BY DEF Grown, tables, pageTables, alertTables
<1>3. ASSUME NEW d \in Deliveries PROVE DeliveryInv(d)'
  <2>1. Respected(d)
    BY DEF Respected, CoreInv, DeliveryInv, KeysStaged, tables, pageTables
  <2> QED BY <1>2, <2>1, Undisturbed DEF CoreInv, reverseVars
<1> QED BY <1>1, <1>3 DEF CoreInv

-----------------------------------------------------------------------------
(* What a commit does to the history of its page: nothing, or it puts the  *)
(* new revision on top of the latest one.                                  *)
LEMMA CommitHistory ==
    ASSUME CoreInv, NEW d \in Deliveries, CommitDelivery(d)
    PROVE  /\ RevisionOf(d) \in Revisions /\ RevisionOf(d)[1] \in Pages
           /\ pages' = pages \cup {RevisionOf(d)[1]}
           /\ latest' = [latest EXCEPT ![RevisionOf(d)[1]] = RevisionOf(d)]
           /\ revisions' = revisions \cup {RevisionOf(d)}
           /\ RevisionOf(d) \in revisions => predecessor' = predecessor
           /\ RevisionOf(d) \notin revisions =>
                 predecessor' = [predecessor EXCEPT ![RevisionOf(d)] = latest[RevisionOf(d)[1]]]
<1>1. RevisionOf(d)[1] = request[d].page
  BY DEF RevisionOf
<1>2. /\ staged[d].predecessor = latest[request[d].page]
      /\ staged[d].inserted <=> RevisionOf(d) \notin revisions
  BY DEF CoreInv, DeliveryInv, RowHeld, Holds, CommitDelivery
<1>3. RevisionOf(d) \in Revisions /\ request[d].page \in Pages
  BY KeyType DEF CoreInv
<1> QED BY <1>1, <1>2, <1>3 DEF CommitDelivery

(* The only step that writes pages is a commit.                            *)
LEMMA QuietPages ==
    ASSUME ReverseStep \/ (AlertStep /\ UNCHANGED reverseVars) \/ UNCHANGED <<tables, reverseVars>>,
           ~\E d \in Deliveries : CommitDelivery(d)
    PROVE  UNCHANGED <<pages, latest, revisions, predecessor, candidates>>
  BY DEF ReverseStep, ProceedDelivery, Deliver, upsert_page_revision, NoDurableRevision,
         find_alert_candidates, PersistStart, persist_reverse_candidate, EvidenceConflict, AnswerDelivery,
         LoseAnswer, AbortDelivery, Redeliver, AlertStep, CreateAlert, SupersedeAlert,
         upsert_alert_rule_embedding, tables, pageTables

(* The history of a page stays one history when a revision is put on top.  *)
LEMMA HistoryStep ==
    ASSUME ReverseInv, NEW d \in Deliveries, CommitDelivery(d)
    PROVE  (PointersInv /\ OneHistory /\ PagesHaveContent)'
<1> DEFINE r == RevisionOf(d)
           p == RevisionOf(d)[1]
<1>1. /\ r \in Revisions /\ p \in Pages /\ pages' = pages \cup {p} /\ revisions' = revisions \cup {r}
      /\ latest' = [latest EXCEPT ![p] = r]
      /\ r \in revisions => predecessor' = predecessor
      /\ r \notin revisions => predecessor' = [predecessor EXCEPT ![r] = latest[p]]
  BY CommitHistory DEF ReverseInv
<1>2. /\ latest \in [Pages -> Revisions \cup {None}] /\ pages \subseteq Pages
      /\ predecessor \in [Revisions -> Revisions \cup {None}] /\ revisions \subseteq Revisions
  BY DEF ReverseInv, CoreInv, ReverseTypeOK, StoreTypeOK
<1>3. None \notin Revisions
  BY StoreAssumption
<1>4. r[1] = p
  OBVIOUS
<1>5. \A s \in Revisions : s[1] \in Pages
  BY DEF Revisions
<1> HIDE DEF r, p
<1>6. latest'[p] = r /\ \A q \in Pages \ {p} : latest'[q] = latest[q]
  BY <1>1, <1>2
<1>7. PointersInv'
  <2>1. \A q \in Pages : latest'[q] # None => latest'[q] \in revisions' /\ latest'[q][1] = q
    BY <1>1, <1>4, <1>6 DEF ReverseInv, PointersInv
  <2>2. \A s \in revisions' : latest'[s[1]] # None
    BY <1>1, <1>2, <1>3, <1>4, <1>5, <1>6 DEF ReverseInv, PointersInv
  <2> QED BY <2>1, <2>2 DEF PointersInv
<1>8. PagesHaveContent'
  BY <1>1, <1>2, <1>4, <1>6 DEF ReverseInv, PagesHaveContent
<1>9. CASE r \in revisions
  <2>1. revisions' = revisions /\ predecessor' = predecessor
    BY <1>1, <1>9
  <2> QED BY <2>1, <1>7, <1>8 DEF ReverseInv, OneHistory
<1>10. CASE r \notin revisions
  <2>1. /\ predecessor'[r] = latest[p]
        /\ \A s \in revisions : predecessor'[s] = predecessor[s]
    BY <1>1, <1>2, <1>10
  <2>2. latest[p] # r /\ (latest[p] # None => latest[p] \in revisions /\ latest[p][1] = p)
    BY <1>1, <1>3, <1>10 DEF ReverseInv, PointersInv
  <2>3. \A s \in revisions' : predecessor'[s] # None =>
            predecessor'[s] \in revisions' /\ predecessor'[s][1] = s[1]
    BY <1>1, <1>4, <2>1, <2>2 DEF ReverseInv, OneHistory
  <2>4. \A s, t \in revisions' :
            s[1] = t[1] /\ predecessor'[s] = None /\ predecessor'[t] = None => s = t
    <3>1. latest[p] = None => \A s \in revisions : s[1] # p
      BY DEF ReverseInv, PointersInv
    <3> QED BY <1>1, <1>4, <2>1, <3>1 DEF ReverseInv, OneHistory
  <2>5. ASSUME NEW S \in SUBSET revisions', S # {} PROVE \E s \in S : predecessor'[s] \notin S
    <3>1. CASE S \ {r} = {}
      BY <2>1, <2>2, <2>5, <3>1
    <3>2. CASE S \ {r} # {}
      <4>1. S \ {r} \in SUBSET revisions
        BY <1>1
      <4>2. PICK s \in S \ {r} : predecessor[s] \notin S \ {r}
        BY <4>1, <3>2 DEF ReverseInv, OneHistory
      <4>3. predecessor[s] # r
        BY <4>1, <1>1, <1>3, <1>10 DEF ReverseInv, OneHistory
      <4> QED BY <4>1, <4>2, <4>3, <2>1
    <3> QED BY <3>1, <3>2
  <2> QED BY <1>7, <1>8, <2>3, <2>4, <2>5 DEF OneHistory
<1> QED BY <1>9, <1>10

(***************************************************************************)
(* The invariant of the reverse path is inductive.                         *)
(***************************************************************************)
THEOREM ReverseInvariance == ReverseSpec => []ReverseInv
<1>1. ReverseInit => ReverseInv
  <2> SUFFICES ASSUME ReverseInit PROVE PointersInv /\ OneHistory /\ PagesHaveContent
    BY InitCore DEF ReverseInv
  <2> QED BY DEF ReverseInit, StoreInit, PointersInv, OneHistory, PagesHaveContent
<1>2. ASSUME ReverseInv, [ReverseNext]_<<tables, reverseVars>> PROVE ReverseInv'
  <2>1. ReverseStep \/ (AlertStep /\ UNCHANGED reverseVars) \/ UNCHANGED <<tables, reverseVars>>
    BY <1>2 DEF ReverseNext, AllAccepted
  <2>2. CoreInv'
    BY <1>2, <2>1, CoreReverse, CoreAlert, CoreStutter DEF ReverseInv
  <2>3. CASE \E d \in Deliveries : CommitDelivery(d)
    BY <1>2, <2>2, <2>3, HistoryStep DEF ReverseInv
  <2>4. CASE ~\E d \in Deliveries : CommitDelivery(d)
    <3>1. UNCHANGED <<pages, latest, revisions, predecessor>>
      BY <2>1, <2>4, QuietPages
    <3> QED BY <1>2, <2>2, <3>1 DEF ReverseInv, PointersInv, OneHistory, PagesHaveContent
  <2> QED BY <2>3, <2>4
<1> QED BY <1>1, <1>2, PTL DEF ReverseSpec

(***************************************************************************)
(* upsert_page_revision, for any number of concurrent deliveries of a      *)
(* page: its revisions form one history.                                   *)
(***************************************************************************)
THEOREM History == ReverseSpec => []OneHistory
<1>1. ReverseInv => OneHistory
  BY DEF ReverseInv
<1> QED BY <1>1, ReverseInvariance, PTL

(***************************************************************************)
(* The page, its revision and its pointer become durable together: no page *)
(* is without content.                                                     *)
(***************************************************************************)
THEOREM Content == ReverseSpec => []PagesHaveContent
<1>1. ReverseInv => PagesHaveContent
  BY DEF ReverseInv
<1> QED BY <1>1, ReverseInvariance, PTL

(* What the parts of the invariant say of a delivery.                      *)
LEMMA CoreImplies ==
    ASSUME CoreInv
    PROVE  /\ CandidatesJustified /\ AcceptedIsDurable /\ NoMissedMatch
           /\ ConflictsAreGenuine /\ PredecessorIsFresh
<1>1. CandidatesJustified
  BY DEF CoreInv, TablesInv
<1>2. AcceptedIsDurable
  BY DEF CoreInv, DeliveryInv, KeysStaged, ReportBacked, Matched, AcceptedIsDurable
<1>3. NoMissedMatch
  <2> SUFFICES ASSUME NEW d \in Deliveries, rpc[d] = "accepted",
                      NEW a \in (armed[d] \cap Qualifying(d)) \ reported[d]
               PROVE  Cardinality({b \in reported[d] : Score(d, b) >= Score(d, a)}) = MaxCandidates
    BY DEF NoMissedMatch
  <2>1. Picked(d) = reported[d] /\ Matched(d)
    BY DEF CoreInv, DeliveryInv, KeysStaged, Picked, Matched
  <2>2. alert[a] = "active" /\ Score(d, a) >= Threshold[a]
    BY DEF Qualifying
  <2> QED BY <2>1, <2>2 DEF CoreInv, DeliveryInv, NothingMissed
<1>4. ConflictsAreGenuine
  BY DEF CoreInv, DeliveryInv, ConflictBacked, ConflictsAreGenuine
<1>5. PredecessorIsFresh
  BY DEF CoreInv, DeliveryInv, RowHeld, Holds, PredecessorIsFresh
<1> QED BY <1>1, <1>2, <1>3, <1>4, <1>5

(* What is written stays: the bodies of the two action properties.         *)
EvidenceKept == \A k \in MatchKeys : candidates[k] # None => candidates'[k] = candidates[k]

HistoryKept ==
    /\ revisions \subseteq revisions'
    /\ \A r \in revisions : predecessor'[r] = predecessor[r]
    /\ \A r \in Revisions : embeddings[r] # None => embeddings'[r] = embeddings[r]
    /\ \A a \in Alerts : alertVector[a] # None => alertVector'[a] = alertVector[a]

(* No step of the reverse path or of an alert rule changes what is stored. *)
LEMMA ReverseKeeps ==
    ASSUME CoreInv,
           ReverseStep \/ (AlertStep /\ UNCHANGED reverseVars) \/ UNCHANGED <<tables, reverseVars>>
    PROVE  EvidenceKept /\ HistoryKept
<1>1. CASE \E d \in Deliveries : CommitDelivery(d)
  <2>1. PICK d \in Deliveries : CommitDelivery(d)
    BY <1>1
  <2>2. Grown
    BY <2>1, StepGrows DEF ProceedDelivery
  <2>3. \A r \in revisions : predecessor'[r] = predecessor[r]
    BY <2>1, CommitHistory DEF CoreInv, ReverseTypeOK, StoreTypeOK
  <2>4. embeddings' = embeddings
    BY <2>1 DEF CommitDelivery
  <2> QED BY <2>2, <2>3, <2>4 DEF Grown, EvidenceKept, HistoryKept
<1>2. CASE ~\E d \in Deliveries : CommitDelivery(d)
  <2>1. UNCHANGED <<pages, latest, revisions, predecessor, candidates>>
    BY <1>2, QuietPages
  <2>2. embeddings' = embeddings /\ \A a \in Alerts : alertVector[a] # None => alertVector'[a] = alertVector[a]
    BY <1>2 DEF ReverseStep, ProceedDelivery, Deliver, upsert_page_revision, NoDurableRevision,
         find_alert_candidates, PersistStart, persist_reverse_candidate, EvidenceConflict, AnswerDelivery,
         LoseAnswer, AbortDelivery, Redeliver, AlertStep, CreateAlert, SupersedeAlert,
         upsert_alert_rule_embedding, tables, alertTables, CoreInv, ReverseTypeOK, StoreTypeOK
  <2> QED BY <2>1, <2>2 DEF EvidenceKept, HistoryKept
<1> QED BY <1>1, <1>2

(***************************************************************************)
(* persist_reverse_candidate and COMMIT: whatever is a durable candidate   *)
(* is justified by durable rows, for any interleaving of deliveries and    *)
(* alert rules.                                                            *)
(***************************************************************************)
THEOREM ReverseCandidates == ReverseSpec => []CandidatesJustified
<1>1. ReverseInv => CandidatesJustified
  BY CoreImplies DEF ReverseInv
<1> QED BY <1>1, ReverseInvariance, PTL

(***************************************************************************)
(* reverse_match_page: what an accepted delivery reported is durable, with *)
(* the evidence of that delivery.                                          *)
(***************************************************************************)
THEOREM ReverseDurable == ReverseSpec => []AcceptedIsDurable
<1>1. ReverseInv => AcceptedIsDurable
  BY CoreImplies DEF ReverseInv
<1> QED BY <1>1, ReverseInvariance, PTL

(***************************************************************************)
(* find_alert_candidates: the accepted delivery missed no match that fits  *)
(* its max_candidates.                                                     *)
(***************************************************************************)
THEOREM ReverseComplete == ReverseSpec => []NoMissedMatch
<1>1. ReverseInv => NoMissedMatch
  BY CoreImplies DEF ReverseInv
<1> QED BY <1>1, ReverseInvariance, PTL

(***************************************************************************)
(* persist_reverse_candidate answers 409 only for evidence that differs,   *)
(* although its fallback may overlook a row committed meanwhile: the row   *)
(* lock of upsert_page_revision keeps out whoever could insert a row with  *)
(* the same evidence.                                                      *)
(***************************************************************************)
THEOREM ReverseConflicts == ReverseSpec => []ConflictsAreGenuine
<1>1. ReverseInv => ConflictsAreGenuine
  BY CoreImplies DEF ReverseInv
<1> QED BY <1>1, ReverseInvariance, PTL

(***************************************************************************)
(* The row lock of upsert_page_revision: the predecessor that a delivery   *)
(* read is still the latest revision when it commits.                      *)
(***************************************************************************)
THEOREM ReversePredecessor == ReverseSpec => []PredecessorIsFresh
<1>1. ReverseInv => PredecessorIsFresh
  BY CoreImplies DEF ReverseInv
<1> QED BY <1>1, ReverseInvariance, PTL

(***************************************************************************)
(* No step of the reverse path or of an alert rule rewrites a revision, a  *)
(* predecessor or a stored vector, nor a candidate.                        *)
(***************************************************************************)
THEOREM ReverseImmutable == ReverseSpec => HistoryImmutable /\ EvidenceImmutable
<1>1. ASSUME ReverseInv, [ReverseNext]_<<tables, reverseVars>> PROVE EvidenceKept /\ HistoryKept
  <2>1. ReverseStep \/ (AlertStep /\ UNCHANGED reverseVars) \/ UNCHANGED <<tables, reverseVars>>
    BY <1>1 DEF ReverseNext, AllAccepted
  <2> QED BY <1>1, <2>1, ReverseKeeps DEF ReverseInv
<1>2. ReverseInv /\ [ReverseNext]_<<tables, reverseVars>> => [EvidenceKept /\ HistoryKept]_tables
  BY <1>1
<1>3. ReverseSpec => [][EvidenceKept /\ HistoryKept]_tables
  BY <1>2, ReverseInvariance, PTL DEF ReverseSpec
<1> QED BY <1>3, PTL DEF EvidenceImmutable, HistoryImmutable, EvidenceKept, HistoryKept
=============================================================================
