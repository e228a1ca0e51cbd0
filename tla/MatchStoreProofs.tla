-------------------------- MODULE MatchStoreProofs --------------------------
(***************************************************************************)
(* Both matching paths on one database, for every number of deliveries,    *)
(* ingests and evaluations.  The invariant of the reverse path survives    *)
(* the steps of the historical one because they only add rows and respect  *)
(* what an open delivery holds (Grown and Respected in                     *)
(* ReverseMatchProofs); the invariant of the historical path is below.     *)
(***************************************************************************)
EXTENDS MatchStore, ReverseMatchProofs

HistoricalTypeOK ==
    /\ page \in [Ingests -> Requests]
    /\ ipc \in [Ingests -> {"idle", "executing", "indexed", "failed"}]
    /\ seen \in [Ingests -> [pages : SUBSET Pages, revisions : SUBSET Revisions,
                             latest : [Pages -> Revisions \cup {None}]]]
    /\ query \in [Evaluations -> EvaluateRequests]
    /\ epc \in [Evaluations -> {"idle", "loaded", "searched", "upserting", "answered",
                                "refused", "norow", "failed"}]
    /\ hits \in [Evaluations -> SUBSET Revisions]
    /\ current \in [Evaluations -> MatchKeys \cup {None}]
    /\ known \in [Evaluations -> SUBSET MatchKeys]
    /\ answer \in [Evaluations -> SUBSET MatchKeys]
    /\ announced \in SUBSET MatchKeys

(* Evaluation e may store revision r as a match.                           *)
Found(e, r) ==
    /\ r \in revisions
    /\ embeddings[r] # None
    /\ HitScore(e, r) >= MinSimilarity(e)

(* What an evaluation has found stays found until it is stored, and the    *)
(* key it cannot store is taken.                                           *)
EvaluationInv(e) ==
    /\ \A r \in hits[e] : Found(e, r)
    /\ epc[e] \in {"upserting", "norow"} =>
          /\ current[e] \in MatchKeys
          /\ current[e][1] = query[e].alert
          /\ Found(e, current[e][2])
    /\ epc[e] = "norow" => candidates[current[e]] # None

(* A durable candidate of the historical path.                             *)
Historical(k) == candidates[k] # None /\ candidates[k].mode = "historical"

HistoricalInv ==
    /\ \A e \in Evaluations : EvaluationInv(e) /\ \A k \in answer[e] : Historical(k)
    /\ \A k \in announced : Historical(k)

StoreInv == CoreInv /\ HistoricalTypeOK /\ HistoricalInv

-----------------------------------------------------------------------------
(* Neither path has done anything.                                         *)
LEMMA InitStore == Init => StoreInv
<1> SUFFICES ASSUME Init PROVE StoreInv
  OBVIOUS
<1>1. CoreInv
  BY InitCore DEF Init
<1>2. HistoricalTypeOK
  BY DEF Init, HistoricalInit, HistoricalTypeOK, NoSnapshot
<1>3. HistoricalInv
  BY DEF Init, HistoricalInit, HistoricalInv, EvaluationInv
<1> QED BY <1>1, <1>2, <1>3 DEF StoreInv

(* The thresholds of an evaluation: the one it records is not below the    *)
(* rule's, and the one it searches with is not below either's rounding.    *)
LEMMA Thresholds ==
    ASSUME HistoricalTypeOK, NEW e \in Evaluations
    PROVE  /\ query[e].alert \in Alerts /\ query[e].query \in Vectors
           /\ Threshold[query[e].alert] \in Nat /\ AsF32[EffectiveThreshold(e)] \in Nat
           /\ EffectiveThreshold(e) \in Levels /\ EffectiveThreshold(e) >= Threshold[query[e].alert]
           /\ MinSimilarity(e) \in Nat /\ MinSimilarity(e) >= AsF32[EffectiveThreshold(e)]
           /\ MinSimilarity(e) >= Threshold[query[e].alert]
<1>1. /\ query[e].alert \in Alerts /\ query[e].query \in Vectors
      /\ query[e].threshold \in Levels /\ query[e].min_similarity \in {AsF32[x] : x \in Levels}
  BY HistoricalAssumption DEF HistoricalTypeOK
<1>2. /\ Threshold[query[e].alert] \in Levels /\ query[e].min_similarity \in Nat
      /\ AsF32[Threshold[query[e].alert]] = Threshold[query[e].alert]
  BY <1>1, StoreAssumption, RoundingAssumption
<1>3. /\ EffectiveThreshold(e) \in Levels
      /\ EffectiveThreshold(e) >= Threshold[query[e].alert]
  <2>1. query[e].threshold \in Nat /\ Threshold[query[e].alert] \in Nat
    BY <1>1, <1>2, RoundingAssumption
  <2> QED BY ONLY <1>1, <1>2, <2>1 DEF EffectiveThreshold
<1>4. /\ AsF32[EffectiveThreshold(e)] \in Nat
      /\ AsF32[EffectiveThreshold(e)] >= Threshold[query[e].alert]
  <2>1. Threshold[query[e].alert] <= EffectiveThreshold(e)
    BY <1>2, <1>3, RoundingAssumption
  <2>2. AsF32[Threshold[query[e].alert]] <= AsF32[EffectiveThreshold(e)]
    BY <1>2, <1>3, <2>1, RoundingAssumption
  <2> QED BY <1>2, <1>3, <2>2, RoundingAssumption
<1>5. /\ MinSimilarity(e) \in Nat /\ MinSimilarity(e) >= AsF32[EffectiveThreshold(e)]
      /\ MinSimilarity(e) >= Threshold[query[e].alert]
  <2>1. Threshold[query[e].alert] \in Nat
    BY <1>2, RoundingAssumption
  <2> QED BY <1>2, <1>4, <2>1 DEF MinSimilarity
<1> QED BY <1>1, <1>2, <1>3, <1>4, <1>5, RoundingAssumption

(* What an evaluation has found is still there when rows are added.        *)
LEMMA FoundStays ==
    ASSUME StoreTypeOK, HistoryKept, NEW e \in Evaluations, query'[e] = query[e],
           NEW r, Found(e, r)
    PROVE  Found(e, r)'
<1>1. r \in Revisions /\ embeddings'[r] = embeddings[r] /\ r \in revisions'
  BY DEF StoreTypeOK, HistoryKept, Found
<1>2. HitScore(e, r)' = HitScore(e, r) /\ MinSimilarity(e)' = MinSimilarity(e)
  BY <1>1 DEF HitScore, MinSimilarity, EffectiveThreshold
<1> QED BY <1>1, <1>2 DEF Found

(* A durable candidate of the historical path remains one.                 *)
LEMMA HistoricalStays ==
    ASSUME EvidenceKept, NEW k \in MatchKeys, Historical(k)
    PROVE  Historical(k)'
  BY DEF EvidenceKept, Historical

(* An evaluation that does not move is not disturbed.                      *)
LEMMA EvaluationUndisturbed ==
    ASSUME StoreTypeOK, EvidenceKept, HistoryKept, NEW e \in Evaluations, EvaluationInv(e),
           query'[e] = query[e], epc'[e] = epc[e], hits'[e] = hits[e], current'[e] = current[e]
    PROVE  EvaluationInv(e)'
<1>1. \A r : Found(e, r) => Found(e, r)'
  BY FoundStays
<1>2. epc[e] = "norow" => candidates'[current[e]] # None
  BY DEF EvaluationInv, EvidenceKept
<1> QED BY <1>1, <1>2 DEF EvaluationInv

(* The historical path is not disturbed by a step that only adds rows.     *)
LEMMA HistoricalUndisturbed ==
    ASSUME StoreTypeOK, HistoricalTypeOK, HistoricalInv, EvidenceKept, HistoryKept,
           UNCHANGED historicalVars
    PROVE  HistoricalTypeOK' /\ HistoricalInv'
<1>1. HistoricalTypeOK'
  BY DEF HistoricalTypeOK, historicalVars, ingestVars, evaluateVars
<1>2. \A e \in Evaluations : EvaluationInv(e)'
  BY EvaluationUndisturbed DEF HistoricalInv, historicalVars, ingestVars, evaluateVars
<1>3. \A k \in MatchKeys : Historical(k) => Historical(k)'
  BY HistoricalStays
<1>4. UNCHANGED <<answer, announced>>
  BY DEF historicalVars, evaluateVars
<1> QED BY <1>1, <1>2, <1>3, <1>4 DEF HistoricalInv, HistoricalTypeOK

-----------------------------------------------------------------------------
(* What CoreInv needs of a step of the historical path.                    *)
LEMMA CoreUndisturbed ==
    ASSUME CoreInv, UNCHANGED reverseVars, UNCHANGED <<alert, alertVector, latest, pageLock, pendingKeys>>,
           StoreTypeOK', EvidenceKept, HistoryKept,
           \A d \in Deliveries : Respected(d),
           \A k \in MatchKeys : candidates'[k] = candidates[k] \/ Justified(k, candidates[k])'
    PROVE  CoreInv'
<1>1. ReverseTypeOK'
  BY DEF CoreInv, ReverseTypeOK, reverseVars
<1>2. Grown
  BY DEF EvidenceKept, HistoryKept, Grown
<1>3. CandidatesJustified'
  BY <1>2, JustifiedGrows DEF CoreInv, TablesInv, ReverseTypeOK, HistoryKept
<1>4. TablesInv'
  BY <1>3 DEF CoreInv, TablesInv, Created
<1>5. ASSUME NEW d \in Deliveries PROVE DeliveryInv(d)'
  BY <1>2, Undisturbed DEF CoreInv, reverseVars
<1> QED BY <1>1, <1>4, <1>5 DEF CoreInv

(* A statement of ingest_page writes rows of a page nobody holds, and no   *)
(* pointer.                                                                *)
LEMMA IngestStore ==
    ASSUME StoreInv, NEW i \in Ingests, IngestExecute(i), UNCHANGED reverseVars
    PROVE  StoreInv'
<1> DEFINE p == page[i].page
           r == IngestRevision(i)
<1>1. p \in Pages /\ r \in Revisions /\ page[i].vector \in Vectors /\ r[1] = p
      /\ seen[i].latest[p] \in Revisions \cup {None}
  BY StoreAssumption DEF StoreInv, HistoricalTypeOK, IngestRevision, Revisions
<1>2. ~updated_page(i)
  BY DEF updated_page
<1>3. UNCHANGED <<alert, alertVector, latest, pageLock, pendingKeys, candidates>>
  BY <1>2 DEF IngestExecute, alertTables
<1>4. StoreTypeOK
  BY DEF StoreInv, CoreInv, ReverseTypeOK
<1>5. StoreTypeOK'
  BY <1>1, <1>3, <1>4 DEF StoreTypeOK, IngestExecute
<1>6. EvidenceKept /\ HistoryKept
  BY <1>1, <1>3, <1>4 DEF EvidenceKept, HistoryKept, StoreTypeOK, IngestExecute, inserted_revision, alertTables
<1>7. ASSUME NEW d \in Deliveries PROVE Respected(d)
  <2>1. pageLock[request[d].page] = d => RevisionOf(d) # r
    BY <1>1, ReverseAssumption DEF IngestExecute, RevisionOf
  <2>2. \A k \in staged[d].keys : k \in pendingKeys /\ candidates[k] = None
    BY DEF StoreInv, CoreInv, DeliveryInv, KeysStaged
  <2> QED BY <1>3, <2>1, <2>2 DEF Respected, IngestExecute
<1>8. CoreInv'
  BY <1>3, <1>5, <1>6, <1>7, CoreUndisturbed DEF StoreInv
<1>9. UNCHANGED evaluateVars /\ page' = page /\ ipc' \in [Ingests -> {"idle", "executing", "indexed", "failed"}]
  BY DEF IngestExecute, StoreInv, HistoricalTypeOK
<1>10. seen' \in [Ingests -> [pages : SUBSET Pages, revisions : SUBSET Revisions,
                              latest : [Pages -> Revisions \cup {None}]]]
  BY DEF IngestExecute, StoreInv, HistoricalTypeOK, NoSnapshot
<1>11. HistoricalTypeOK'
  BY <1>9, <1>10 DEF StoreInv, HistoricalTypeOK, evaluateVars
<1>12. \A e \in Evaluations : EvaluationInv(e)'
  BY <1>4, <1>6, <1>9, EvaluationUndisturbed DEF StoreInv, HistoricalInv, evaluateVars
<1>13. \A k : Historical(k)' <=> Historical(k)
  BY <1>3 DEF Historical
<1> QED BY <1>8, <1>9, <1>11, <1>12, <1>13 DEF StoreInv, HistoricalInv, evaluateVars

(* A step that writes no table.                                            *)
LEMMA TablesStill ==
    ASSUME CoreInv, UNCHANGED <<tables, reverseVars>>
    PROVE  CoreInv' /\ EvidenceKept /\ HistoryKept /\ StoreTypeOK
           /\ \A k : Historical(k)' <=> Historical(k)
<1>1. CoreInv'
  BY CoreStutter
<1> QED BY <1>1 DEF EvidenceKept, HistoryKept, Historical, CoreInv, ReverseTypeOK, tables, pageTables, alertTables

LEMMA IngestMoves ==
    ASSUME StoreInv, NEW i \in Ingests, IngestStart(i) \/ IngestAgain(i), UNCHANGED reverseVars
    PROVE  StoreInv'
<1>1. UNCHANGED <<tables, reverseVars>> /\ UNCHANGED evaluateVars /\ page' = page
  BY DEF IngestStart, IngestAgain
<1>2. HistoricalTypeOK'
  <2>1. pages \subseteq Pages /\ revisions \subseteq Revisions /\ latest \in [Pages -> Revisions \cup {None}]
    BY DEF StoreInv, CoreInv, ReverseTypeOK, StoreTypeOK
  <2>2. seen' \in [Ingests -> [pages : SUBSET Pages, revisions : SUBSET Revisions,
                               latest : [Pages -> Revisions \cup {None}]]]
    <3>1. [pages |-> pages, revisions |-> revisions, latest |-> latest] \in
              [pages : SUBSET Pages, revisions : SUBSET Revisions, latest : [Pages -> Revisions \cup {None}]]
      BY <2>1
    <3> QED BY <3>1 DEF IngestStart, IngestAgain, StoreInv, HistoricalTypeOK
  <2>3. ipc' \in [Ingests -> {"idle", "executing", "indexed", "failed"}]
    BY DEF IngestStart, IngestAgain, StoreInv, HistoricalTypeOK
  <2> QED BY <1>1, <2>2, <2>3 DEF StoreInv, HistoricalTypeOK, evaluateVars
<1>3. CoreInv' /\ EvidenceKept /\ HistoryKept /\ StoreTypeOK /\ \A k : Historical(k)' <=> Historical(k)
  BY <1>1, TablesStill DEF StoreInv
<1>4. \A e \in Evaluations : EvaluationInv(e)'
  BY <1>1, <1>3, EvaluationUndisturbed DEF StoreInv, HistoricalInv, evaluateVars
<1> QED BY <1>1, <1>2, <1>3, <1>4 DEF StoreInv, HistoricalInv, evaluateVars

-----------------------------------------------------------------------------
(* The steps of an evaluation other than the one that stores a match.      *)
Reading(e) ==
    \/ LoadRule(e) \/ search_embeddings(e) \/ UpsertStart(e)
    \/ NoDurableMatch(e) \/ Publish(e) \/ AbortEvaluation(e)

LEMMA ReadingType ==
    ASSUME StoreInv, NEW e \in Evaluations, Reading(e)
    PROVE  HistoricalTypeOK'
<1>1. UNCHANGED ingestVars /\ query' = query
  BY DEF Reading, LoadRule, search_embeddings, UpsertStart, NoDurableMatch, Publish, AbortEvaluation
<1>2. epc' \in [Evaluations -> {"idle", "loaded", "searched", "upserting", "answered",
                                "refused", "norow", "failed"}]
  BY DEF Reading, LoadRule, search_embeddings, UpsertStart, NoDurableMatch, Publish, AbortEvaluation,
         StoreInv, HistoricalTypeOK
<1>3. hits' \in [Evaluations -> SUBSET Revisions]
  <2>1. revisions \subseteq Revisions
    BY DEF StoreInv, CoreInv, ReverseTypeOK, StoreTypeOK
  <2>2. CASE search_embeddings(e)
    BY <2>1, <2>2 DEF search_embeddings, TopK, Behind, StoreInv, HistoricalTypeOK
  <2>3. CASE ~search_embeddings(e)
    BY <2>3 DEF Reading, LoadRule, UpsertStart, NoDurableMatch, Publish, AbortEvaluation,
                StoreInv, HistoricalTypeOK
  <2> QED BY <2>2, <2>3
<1>4. current' \in [Evaluations -> MatchKeys \cup {None}] /\ known' \in [Evaluations -> SUBSET MatchKeys]
  <2>1. \A r \in hits[e] : <<query[e].alert, r>> \in MatchKeys
    BY Thresholds DEF StoreInv, HistoricalTypeOK, MatchKeys
  <2>2. CASE UpsertStart(e)
    BY <2>1, <2>2 DEF UpsertStart, Nearest, StoreInv, HistoricalTypeOK
  <2>3. CASE ~UpsertStart(e)
    BY <2>3 DEF Reading, LoadRule, search_embeddings, NoDurableMatch, Publish, AbortEvaluation,
                StoreInv, HistoricalTypeOK
  <2> QED BY <2>2, <2>3
<1>5. answer' = answer /\ announced' \in SUBSET MatchKeys
  BY DEF Reading, LoadRule, search_embeddings, UpsertStart, NoDurableMatch, Publish, AbortEvaluation,
         StoreInv, HistoricalTypeOK
<1> QED BY <1>1, <1>2, <1>3, <1>4, <1>5 DEF StoreInv, HistoricalTypeOK, ingestVars

(* search_embeddings finds what may be stored, UpsertStart takes one hit,  *)
(* and NoDurableMatch gives up on a key that is taken.                     *)
LEMMA ReadingStore ==
    ASSUME StoreInv, NEW e \in Evaluations, Reading(e), UNCHANGED reverseVars
    PROVE  StoreInv'
<1>1. UNCHANGED <<tables, reverseVars>> /\ query' = query /\ answer' = answer
      /\ (announced' = announced \/ announced' = announced \cup answer[e])
  BY DEF Reading, LoadRule, search_embeddings, UpsertStart, NoDurableMatch, Publish, AbortEvaluation
<1>2. CoreInv' /\ EvidenceKept /\ HistoryKept /\ StoreTypeOK /\ \A k : Historical(k)' <=> Historical(k)
  BY <1>1, TablesStill DEF StoreInv
<1>3. HistoricalTypeOK'
  BY ReadingType
<1>4. ASSUME NEW f \in Evaluations, f # e PROVE EvaluationInv(f)'
  <2>1. epc'[f] = epc[f] /\ hits'[f] = hits[f] /\ current'[f] = current[f]
    BY <1>4 DEF Reading, LoadRule, search_embeddings, UpsertStart, NoDurableMatch, Publish,
                AbortEvaluation, StoreInv, HistoricalTypeOK
  <2> QED BY <1>1, <1>2, <2>1, EvaluationUndisturbed DEF StoreInv, HistoricalInv
<1>5. EvaluationInv(e)'
  <2>1. \A r : Found(e, r) => Found(e, r)'
    BY <1>1, <1>2, FoundStays
  <2>2. CASE search_embeddings(e)
    <3>1. \A r \in hits'[e] : Found(e, r)
      BY <2>2 DEF search_embeddings, TopK, Behind, Found, StoreInv, HistoricalTypeOK
    <3>2. epc'[e] = "searched"
      BY <2>2 DEF search_embeddings, StoreInv, HistoricalTypeOK
    <3> QED BY <2>1, <3>1, <3>2 DEF EvaluationInv
  <2>3. CASE UpsertStart(e)
    <3>1. PICK r \in hits[e] : current'[e] = <<query[e].alert, r>> /\ hits'[e] \subseteq hits[e]
      BY <2>3 DEF UpsertStart, Nearest, StoreInv, HistoricalTypeOK
    <3>2. <<query[e].alert, r>> \in MatchKeys
      BY Thresholds DEF StoreInv, HistoricalTypeOK, MatchKeys
    <3>3. epc'[e] = "upserting"
      BY <2>3 DEF UpsertStart, StoreInv, HistoricalTypeOK
    <3> QED BY <1>1, <2>1, <3>1, <3>2, <3>3 DEF EvaluationInv, StoreInv, HistoricalInv
  <2>4. CASE NoDurableMatch(e)
    <3>1. epc[e] = "upserting" /\ epc'[e] = "norow" /\ candidates[current[e]] # None
          /\ hits'[e] = hits[e] /\ current'[e] = current[e] /\ candidates' = candidates
      BY <2>4 DEF NoDurableMatch, StoreInv, HistoricalTypeOK, tables
    <3> QED BY <1>1, <2>1, <3>1 DEF EvaluationInv, StoreInv, HistoricalInv
  <2>5. CASE LoadRule(e) \/ Publish(e) \/ AbortEvaluation(e)
    <3>1. epc'[e] \notin {"upserting", "norow"} /\ hits'[e] = hits[e]
      BY <2>5 DEF LoadRule, Publish, AbortEvaluation, StoreInv, HistoricalTypeOK
    <3> QED BY <2>1, <3>1 DEF EvaluationInv, StoreInv, HistoricalInv
  <2> QED BY <2>2, <2>3, <2>4, <2>5 DEF Reading
<1>6. \A k \in announced' : Historical(k)'
  BY <1>1, <1>2 DEF StoreInv, HistoricalInv
<1> QED BY <1>1, <1>2, <1>3, <1>4, <1>5, <1>6 DEF StoreInv, HistoricalInv

(* UpsertMatch stores a justified row under a key that no delivery is      *)
(* inserting, or gets back a row of its own path.                          *)
LEMMA UpsertStore ==
    ASSUME StoreInv, NEW e \in Evaluations, UpsertMatch(e), UNCHANGED reverseVars
    PROVE  StoreInv'
<1>0. PICK k \in MatchKeys : k = current[e]
  BY DEF UpsertMatch, StoreInv, HistoricalInv, EvaluationInv
<1> DEFINE row == HistoricalEvidence(e, k)
<1>1. UNCHANGED <<pages, latest, revisions, predecessor, embeddings, alert, alertVector, pageLock,
                  pendingKeys, page, ipc, seen, query, hits, announced>>
  BY DEF UpsertMatch, pageTables, alertTables, ingestVars
<1>2. /\ k \in MatchKeys /\ k[1] = query[e].alert /\ Found(e, k[2]) /\ k \notin pendingKeys
      /\ k[1] \in Alerts /\ k[2] \in Revisions
  BY <1>0 DEF UpsertMatch, StoreInv, HistoricalInv, EvaluationInv, MatchKeys
<1>3. StoreTypeOK
  BY DEF StoreInv, CoreInv, ReverseTypeOK
<1>4. embeddings[k[2]] \in Vectors
  BY <1>2, <1>3 DEF StoreTypeOK, Found
<1>5. row \in Evidence /\ row # None /\ row.mode = "historical"
  <2>1. row \in Evidence /\ row.mode = "historical"
    BY <1>4, Thresholds DEF HistoricalEvidence, Evidence, StoreInv
  <2> QED BY <2>1, StoreAssumption
<1>6. Justified(k, row)
  <2>1. /\ Similarity[<<row.against, row.vector>>] >= AsF32[row.threshold]
        /\ Similarity[<<row.against, row.vector>>] >= Threshold[k[1]]
    <3>1. HitScore(e, k[2]) \in Nat /\ HitScore(e, k[2]) >= MinSimilarity(e)
      BY <1>2, <1>4, Thresholds, StoreAssumption, RoundingAssumption DEF HitScore, Found, StoreInv
    <3>2. HitScore(e, k[2]) >= AsF32[EffectiveThreshold(e)] /\ HitScore(e, k[2]) >= Threshold[k[1]]
      BY <1>2, <3>1, Thresholds DEF StoreInv
    <3> QED BY <3>2 DEF HistoricalEvidence, HitScore
  <2>2. row.threshold >= Threshold[k[1]]
    BY <1>2, Thresholds DEF HistoricalEvidence, StoreInv
  <2>3. row.mode = "historical" /\ embeddings[k[2]] = row.vector
    BY DEF HistoricalEvidence
  <2> QED BY <1>2, <2>1, <2>2, <2>3 DEF Justified, Found
<1> HIDE DEF row
<1>7. \/ candidates[k] = None /\ candidates' = [candidates EXCEPT ![k] = row]
      \/ Historical(k) /\ candidates' = candidates
  BY <1>0 DEF UpsertMatch, Selected, Historical, row
<1>8. EvidenceKept /\ HistoryKept
  BY <1>1, <1>2, <1>3, <1>7 DEF EvidenceKept, HistoryKept, StoreTypeOK
<1>9. StoreTypeOK'
  BY <1>1, <1>2, <1>3, <1>5, <1>7 DEF StoreTypeOK
<1>10. ASSUME NEW d \in Deliveries PROVE Respected(d)
  <2>1. \A j \in staged[d].keys : j \in pendingKeys /\ candidates[j] = None /\ j \in MatchKeys
    BY KeyType DEF StoreInv, CoreInv, DeliveryInv, KeysStaged
  <2>2. \A j \in staged[d].keys : candidates'[j] = None
    BY <1>2, <1>3, <1>7, <2>1 DEF StoreTypeOK
  <2>3. \A j \in MatchKeys : candidates[j] = None /\ candidates'[j] # None =>
            candidates'[j].mode = "historical"
    BY <1>3, <1>5, <1>7 DEF StoreTypeOK
  <2> QED BY <1>1, <2>1, <2>2, <2>3 DEF Respected
<1>11. ASSUME NEW j \in MatchKeys, candidates'[j] # candidates[j]
       PROVE  Justified(j, candidates[j])'
  <2>1. j = k /\ candidates'[j] = row
    BY <1>2, <1>3, <1>7, <1>11 DEF StoreTypeOK
  <2> QED BY <1>1, <1>6, <2>1 DEF Justified
<1>12. CoreInv'
  BY <1>1, <1>8, <1>9, <1>10, <1>11, CoreUndisturbed DEF StoreInv
<1>13. /\ epc' = [epc EXCEPT ![e] = "searched"] /\ current' = [current EXCEPT ![e] = None]
       /\ known' = [known EXCEPT ![e] = {}] /\ answer' = [answer EXCEPT ![e] = @ \cup {k}]
  BY <1>0 DEF UpsertMatch
<1>14. HistoricalTypeOK'
  BY <1>1, <1>2, <1>13 DEF StoreInv, HistoricalTypeOK
<1>15. ASSUME NEW f \in Evaluations PROVE EvaluationInv(f)'
  <2>1. CASE f = e
    <3>1. epc'[e] = "searched" /\ hits'[e] = hits[e]
      BY <1>1, <1>13 DEF StoreInv, HistoricalTypeOK
    <3>2. \A r : Found(e, r) => Found(e, r)'
      BY <1>1, <1>3, <1>8, FoundStays
    <3> QED BY <2>1, <3>1, <3>2 DEF EvaluationInv, StoreInv, HistoricalInv
  <2>2. CASE f # e
    <3>1. epc'[f] = epc[f] /\ hits'[f] = hits[f] /\ current'[f] = current[f]
      BY <1>1, <1>13, <2>2 DEF StoreInv, HistoricalTypeOK
    <3> QED BY <1>1, <1>3, <1>8, <3>1, EvaluationUndisturbed DEF StoreInv, HistoricalInv
  <2> QED BY <2>1, <2>2
<1>16. \A j \in MatchKeys : Historical(j) => Historical(j)'
  BY <1>8, HistoricalStays
<1>17. Historical(k)'
  BY <1>2, <1>3, <1>5, <1>7, <1>16 DEF Historical, StoreTypeOK
<1>18. ASSUME NEW f \in Evaluations, NEW j \in answer'[f] PROVE Historical(j)'
  <2>1. j = k \/ (j \in answer[f] /\ j \in MatchKeys)
    BY <1>13, <1>18 DEF StoreInv, HistoricalTypeOK
  <2> QED BY <1>16, <1>17, <2>1 DEF StoreInv, HistoricalInv
<1>19. \A j \in announced' : Historical(j)'
  BY <1>1, <1>16 DEF StoreInv, HistoricalInv, HistoricalTypeOK
<1> QED BY <1>12, <1>14, <1>15, <1>18, <1>19 DEF StoreInv, HistoricalInv

-----------------------------------------------------------------------------
(* A step of the historical path leaves what is stored as it is.           *)
LEMMA HistoricalKeeps ==
    ASSUME StoreInv, HistoricalStep
    PROVE  EvidenceKept /\ HistoryKept
<1>1. StoreTypeOK
  BY DEF StoreInv, CoreInv, ReverseTypeOK
<1>2. ASSUME NEW i \in Ingests, IngestExecute(i) PROVE EvidenceKept /\ HistoryKept
  BY <1>1, <1>2 DEF EvidenceKept, HistoryKept, StoreTypeOK, IngestExecute, inserted_revision, alertTables
<1>3. ASSUME NEW e \in Evaluations, UpsertMatch(e) PROVE EvidenceKept /\ HistoryKept
  <2>1. current[e] \in MatchKeys
    BY <1>3 DEF UpsertMatch, StoreInv, HistoricalInv, EvaluationInv
  <2> QED BY <1>1, <1>3, <2>1 DEF EvidenceKept, HistoryKept, StoreTypeOK, UpsertMatch, pageTables, alertTables
<1>4. ASSUME UNCHANGED tables PROVE EvidenceKept /\ HistoryKept
  BY <1>4 DEF EvidenceKept, HistoryKept, tables, pageTables, alertTables
<1>5. \/ \E i \in Ingests : IngestExecute(i)
      \/ \E e \in Evaluations : UpsertMatch(e)
      \/ UNCHANGED tables
  BY DEF HistoricalStep, IngestStep, EvaluateStep, IngestStart, IngestAgain, LoadRule,
         search_embeddings, UpsertStart, NoDurableMatch, Publish, AbortEvaluation
<1> QED BY <1>2, <1>3, <1>4, <1>5

(* The only kinds of steps there are.                                      *)
LEMMA StoreStep ==
    ASSUME StoreInv, [Next]_vars
    PROVE  StoreInv' /\ EvidenceKept /\ HistoryKept
<1>1. ASSUME HistoricalStep, UNCHANGED reverseVars PROVE StoreInv' /\ EvidenceKept /\ HistoryKept
  <2>1. EvidenceKept /\ HistoryKept
    BY <1>1, HistoricalKeeps
  <2>2. StoreInv'
    BY <1>1, IngestStore, IngestMoves, ReadingStore, UpsertStore
       DEF HistoricalStep, IngestStep, EvaluateStep, Reading
  <2> QED BY <2>1, <2>2
<1>2. ASSUME UNCHANGED historicalVars,
             ReverseStep \/ (AlertStep /\ UNCHANGED reverseVars) \/ UNCHANGED <<tables, reverseVars>>
      PROVE  StoreInv' /\ EvidenceKept /\ HistoryKept
  <2>1. CoreInv'
    BY <1>2, CoreReverse, CoreAlert, CoreStutter DEF StoreInv
  <2>2. EvidenceKept /\ HistoryKept
    BY <1>2, ReverseKeeps DEF StoreInv
  <2>3. HistoricalTypeOK' /\ HistoricalInv'
    BY <1>2, <2>2, HistoricalUndisturbed DEF StoreInv, CoreInv, ReverseTypeOK
  <2> QED BY <2>1, <2>2, <2>3 DEF StoreInv
<1> QED BY <1>1, <1>2 DEF Next, vars

(***************************************************************************)
(* The invariant of the two paths together is inductive.                   *)
(***************************************************************************)
THEOREM StoreInvariance == Spec => []StoreInv
<1>1. StoreInv /\ [Next]_vars => StoreInv'
  BY StoreStep
<1> QED BY <1>1, InitStore, PTL DEF Spec

(* Type correctness of the tables and of every call in progress.           *)
THEOREM StoreTyping == Spec => []TypeOK
<1>1. StoreInv => TypeOK
  BY DEF StoreInv, CoreInv, HistoricalTypeOK, TypeOK
<1> QED BY <1>1, StoreInvariance, PTL

(***************************************************************************)
(* Every candidate of either path is justified by durable rows, whatever   *)
(* threshold the evaluate request asks for: rounding that threshold to f32 *)
(* never admits a page below the rule revision's own.                      *)
(***************************************************************************)
THEOREM Justification == Spec => []CandidatesJustified
<1>1. StoreInv => CandidatesJustified
  BY DEF StoreInv, CoreInv, TablesInv
<1> QED BY <1>1, StoreInvariance, PTL

(***************************************************************************)
(* evaluate_matches: what is answered or announced is durable, as a row of *)
(* the historical path.                                                    *)
(***************************************************************************)
THEOREM Announcements == Spec => []AnnouncedAreDurable
<1>1. StoreInv => AnnouncedAreDurable
  BY DEF StoreInv, HistoricalInv, Historical, AnnouncedAreDurable
<1> QED BY <1>1, StoreInvariance, PTL

(***************************************************************************)
(* The two paths meet on one match key and keep apart: neither reports a   *)
(* row of the other.                                                       *)
(***************************************************************************)
THEOREM Separation == Spec => []PathsKeepApart
<1>1. ASSUME StoreInv PROVE PathsKeepApart
  <2>1. ASSUME NEW d \in Deliveries, NEW a \in Alerts, rpc[d] \in {"committed", "accepted"},
               a \in reported[d]
        PROVE  KeyOf(d, a) \notin announced \cup UNION {answer[e] : e \in Evaluations}
    <3>1. candidates[KeyOf(d, a)] = ReverseEvidence(d, a)
      BY <1>1, <2>1 DEF StoreInv, CoreInv, DeliveryInv, KeysStaged, ReportBacked, Matched
    <3>2. ~Historical(KeyOf(d, a))
      BY <3>1 DEF Historical, ReverseEvidence
    <3> QED BY <1>1, <3>2 DEF StoreInv, HistoricalInv
  <2>2. ASSUME NEW e \in Evaluations, epc[e] = "norow" PROVE candidates[current[e]] # None
    BY <1>1, <2>2 DEF StoreInv, HistoricalInv, EvaluationInv
  <2> QED BY <2>1, <2>2 DEF PathsKeepApart
<1> QED BY <1>1, StoreInvariance, PTL

(***************************************************************************)
(* No step of either path changes or removes a durable candidate, a stored *)
(* vector, a revision or its predecessor.                                  *)
(***************************************************************************)
THEOREM Immutability == Spec => EvidenceImmutable /\ HistoryImmutable
<1>1. StoreInv /\ [Next]_vars => [EvidenceKept /\ HistoryKept]_tables
  BY StoreStep
<1>2. Spec => [][EvidenceKept /\ HistoryKept]_tables
  BY <1>1, StoreInvariance, PTL DEF Spec
<1> QED BY <1>2, PTL DEF EvidenceImmutable, HistoryImmutable, EvidenceKept, HistoryKept

(***************************************************************************)
(* What reverse_match_page promises holds with the historical path running *)
(* beside it: its answers are durable and complete, its conflicts genuine, *)
(* and the predecessor it read stays fresh while it holds the page's row.  *)
(***************************************************************************)
THEOREM ReverseBesideHistorical ==
    Spec => [](/\ AcceptedIsDurable /\ NoMissedMatch
               /\ ConflictsAreGenuine /\ PredecessorIsFresh)
<1>1. StoreInv => AcceptedIsDurable /\ NoMissedMatch /\ ConflictsAreGenuine /\ PredecessorIsFresh
  BY CoreImplies DEF StoreInv
<1> QED BY <1>1, StoreInvariance, PTL
=============================================================================
