--------------------------- MODULE HistoricalMatch ---------------------------
(***************************************************************************)
(* The historical path: store::ingest_page, which stores a vector per page *)
(* revision, and POST /v1/matches/evaluate, which searches the stored      *)
(* vectors for one alert rule (src/store.rs and src/server_routes.rs).     *)
(* Every statement is a transaction of its own.                            *)
(***************************************************************************)
EXTENDS PageStore

CONSTANTS
    Ingests,            \* calls of POST /v1/sources/{id}/pages
    Evaluations,        \* calls of POST /v1/matches/evaluate
    EvaluateRequests,   \* the bodies clients may send
    SearchLimit         \* limit of the search

ASSUME HistoricalAssumption ==
    /\ EvaluateRequests \subseteq
          [alert : Alerts, query : Vectors, threshold : Levels,
           min_similarity : {AsF32[x] : x \in Levels}]
    /\ SearchLimit \in Nat \ {0}

VARIABLES
    page,       \* page[i] = [page, content, vector] of ingest i
    ipc,        \* ipc[i]: position of ingest i
    seen,       \* seen[i]: the snapshot of its statement
    query,      \* query[e] = [alert, query, threshold, min_similarity]
    epc,        \* epc[e]: position of evaluation e
    hits,       \* hits[e]: revisions found and not yet persisted
    current,    \* current[e]: match key of the statement it is executing
    known,      \* known[e]: keys visible to that statement
    answer,     \* answer[e]: keys of the durable rows it got back
    announced   \* keys of published match.candidate events

ingestVars == <<page, ipc, seen>>
evaluateVars == <<query, epc, hits, current, known, answer, announced>>
historicalVars == <<ingestVars, evaluateVars>>

NoSnapshot == [pages |-> {}, revisions |-> {}, latest |-> [p \in Pages |-> None]]

HistoricalInit ==
    /\ page \in [Ingests -> Requests]
    /\ ipc = [i \in Ingests |-> "idle"]
    /\ seen = [i \in Ingests |-> NoSnapshot]
    /\ query \in [Evaluations -> EvaluateRequests]
    /\ epc = [e \in Evaluations |-> "idle"]
    /\ hits = [e \in Evaluations |-> {}]
    /\ current = [e \in Evaluations |-> None]
    /\ known = [e \in Evaluations |-> {}]
    /\ answer = [e \in Evaluations |-> {}]
    /\ announced = {}

-----------------------------------------------------------------------------
(***************************************************************************)
(* store::ingest_page is one statement of six CTEs.  They share the        *)
(* snapshot taken when it starts; only the ON CONFLICT arbiters look at    *)
(* rows committed since.                                                   *)
(***************************************************************************)
IngestStart(i) ==
    /\ ipc[i] = "idle"
    /\ ipc' = [ipc EXCEPT ![i] = "executing"]
    /\ seen' = [seen EXCEPT ![i] =
                    [pages |-> pages, revisions |-> revisions, latest |-> latest]]
    /\ UNCHANGED <<tables, page, evaluateVars>>

IngestRevision(i) == <<page[i].page, page[i].content>>

(* inserted_revision joins eal_pages, where a new page is not visible.     *)
inserted_revision(i) ==
    /\ page[i].page \in seen[i].pages
    /\ IngestRevision(i) \notin revisions

selected_revision(i) == inserted_revision(i) \/ IngestRevision(i) \in seen[i].revisions

(***************************************************************************)
(* updated_page can only change a row that the statement's snapshot shows  *)
(* and that the same command has not written already; upserted_page always *)
(* has.  PostgreSQL then skips the row, and RETURNING yields nothing.      *)
(***************************************************************************)
updated_page(i) ==
    LET upserted_page == {page[i].page} IN
    selected_revision(i) /\ page[i].page \in seen[i].pages \ upserted_page

(***************************************************************************)
(* The statement commits what its CTEs wrote.  The call is answered with   *)
(* 201 or 200 and page.revision_indexed when the final SELECT has a row,   *)
(* that is when updated_page returned one, and with 500 otherwise.         *)
(***************************************************************************)
IngestExecute(i) ==
    LET p == page[i].page
        r == IngestRevision(i) IN
    /\ ipc[i] = "executing"
    /\ pageLock[p] = None
    /\ pages' = pages \cup {p}
    /\ revisions' = IF inserted_revision(i) THEN revisions \cup {r} ELSE revisions
    /\ predecessor' = IF inserted_revision(i)
                      THEN [predecessor EXCEPT ![r] = seen[i].latest[p]]
                      ELSE predecessor
    /\ embeddings' = IF selected_revision(i) /\ embeddings[r] = None
                     THEN [embeddings EXCEPT ![r] = page[i].vector]
                     ELSE embeddings
    /\ latest' = IF updated_page(i) THEN [latest EXCEPT ![p] = r] ELSE latest
    /\ ipc' = [ipc EXCEPT ![i] = IF updated_page(i) THEN "indexed" ELSE "failed"]
    /\ seen' = [seen EXCEPT ![i] = NoSnapshot]
    /\ UNCHANGED <<alertTables, candidates, pageLock, pendingKeys, page, evaluateVars>>

(* The crawler repeats the call, which was not acknowledged.               *)
IngestAgain(i) ==
    /\ ipc[i] = "failed"
    /\ ipc' = [ipc EXCEPT ![i] = "idle"]
    /\ UNCHANGED <<tables, page, seen, evaluateVars>>

-----------------------------------------------------------------------------
(* The handler loads the rule in a transaction of its own: it must be the  *)
(* enabled active revision.  Otherwise the call is refused.                *)
LoadRule(e) ==
    /\ epc[e] = "idle"
    /\ epc' = [epc EXCEPT ![e] =
                 IF alert[query[e].alert] = "active" THEN "loaded" ELSE "refused"]
    /\ UNCHANGED <<tables, ingestVars, query, hits, current, known, answer, announced>>

(* Mutant: the request's threshold is used as it is.                       *)
EffectiveThreshold_Lowered(e) == query[e].threshold

(* The effective threshold: the request may raise the rule's, not lower it. *)
EffectiveThreshold(e) ==
    IF query[e].threshold > Threshold[query[e].alert]
    THEN query[e].threshold ELSE Threshold[query[e].alert]

(***************************************************************************)
(* What the search compares with: the effective threshold rounded to f32,  *)
(* while the row records it as it is.  The search may be stricter still,   *)
(* by its own min_similarity.                                              *)
(***************************************************************************)
MinSimilarity(e) ==
    IF query[e].min_similarity > AsF32[EffectiveThreshold(e)]
    THEN query[e].min_similarity ELSE AsF32[EffectiveThreshold(e)]

HitScore(e, r) == Similarity[<<query[e].query, embeddings[r]>>]
HitScores(e) == [r \in {s \in Revisions : embeddings[s] # None} |-> HitScore(e, r)]

(* The rows that may lie behind the cursor of a request, all of them when  *)
(* it has none (ScopedSearch has the cursor itself).                       *)
Behind(found, score) ==
    {S \in SUBSET found : \A x \in found \ S, y \in S : score[x] >= score[y]}

(* store::search_embeddings: the SearchLimit nearest stored vectors.       *)
search_embeddings(e) ==
    /\ epc[e] = "loaded"
    /\ LET found == {r \in revisions : /\ embeddings[r] # None
                                       /\ HitScore(e, r) >= MinSimilarity(e)}
       IN  \E S \in Behind(found, HitScores(e)) :
               \E T \in TopK(S, HitScores(e), SearchLimit) :
                   hits' = [hits EXCEPT ![e] = T]
    /\ epc' = [epc EXCEPT ![e] = "searched"]
    /\ UNCHANGED <<tables, ingestVars, query, current, known, answer, announced>>

(* The insert statement for the next hit starts and takes its snapshot.    *)
UpsertStart(e) ==
    /\ epc[e] = "searched"
    /\ \E r \in Nearest(hits[e], HitScores(e)) :
            /\ current' = [current EXCEPT ![e] = <<query[e].alert, r>>]
            /\ hits' = [hits EXCEPT ![e] = @ \ {r}]
    /\ known' = [known EXCEPT ![e] = {k \in MatchKeys : candidates[k] # None}]
    /\ epc' = [epc EXCEPT ![e] = "upserting"]
    /\ UNCHANGED <<tables, ingestVars, query, answer, announced>>

HistoricalEvidence(e, k) ==
    [mode |-> "historical", vector |-> embeddings[k[2]],
     against |-> query[e].query, threshold |-> EffectiveThreshold(e)]

(* Mutant: the fallback does not compare embedding_id.                     *)
Selected_AnyMode(e) == candidates[current[e]] # None /\ current[e] \in known[e]

(* A durable row that the fallback selects: visible, same embedding_id.    *)
Selected(e) ==
    LET k == current[e] IN
    /\ candidates[k] # None
    /\ k \in known[e]
    /\ candidates[k].mode = "historical"

(* Mutant: ON CONFLICT DO UPDATE rewrites the evidence.                    *)
UpsertMatch_Updates(e) ==
    LET k == current[e] IN
    /\ epc[e] = "upserting"
    /\ k \notin pendingKeys
    /\ candidates' = [candidates EXCEPT ![k] = HistoricalEvidence(e, k)]
    /\ answer' = [answer EXCEPT ![e] = @ \cup {k}]
    /\ epc' = [epc EXCEPT ![e] = "searched"]
    /\ current' = [current EXCEPT ![e] = None]
    /\ known' = [known EXCEPT ![e] = {}]
    /\ UNCHANGED <<pageTables, embeddings, alertTables, pageLock, pendingKeys,
                   ingestVars, query, hits, announced>>

(***************************************************************************)
(* ON CONFLICT DO NOTHING waits for an open transaction that has inserted  *)
(* the key.  Then the row is inserted, and durable at once, or the         *)
(* existing one is selected.                                               *)
(***************************************************************************)
UpsertMatch(e) ==
    LET k == current[e] IN
    /\ epc[e] = "upserting"
    /\ k \notin pendingKeys
    /\ candidates[k] = None \/ Selected(e)
    /\ candidates' = IF candidates[k] = None
                     THEN [candidates EXCEPT ![k] = HistoricalEvidence(e, k)]
                     ELSE candidates
    /\ answer' = [answer EXCEPT ![e] = @ \cup {k}]
    /\ epc' = [epc EXCEPT ![e] = "searched"]
    /\ current' = [current EXCEPT ![e] = None]
    /\ known' = [known EXCEPT ![e] = {}]
    /\ UNCHANGED <<pageTables, embeddings, alertTables, pageLock, pendingKeys,
                   ingestVars, query, hits, announced>>

(* Neither: 500.  Rows inserted for earlier hits stay, without an event.   *)
NoDurableMatch(e) ==
    /\ epc[e] = "upserting"
    /\ current[e] \notin pendingKeys
    /\ candidates[current[e]] # None
    /\ ~Selected(e)
    /\ epc' = [epc EXCEPT ![e] = "norow"]
    /\ UNCHANGED <<tables, ingestVars, query, hits, current, known, answer, announced>>

(* All hits are durable: one match.candidate event each, then 200.         *)
Publish(e) ==
    /\ epc[e] = "searched"
    /\ hits[e] = {}
    /\ announced' = announced \cup answer[e]
    /\ epc' = [epc EXCEPT ![e] = "answered"]
    /\ UNCHANGED <<tables, ingestVars, query, hits, current, known, answer>>

(* A statement fails or the server stops.                                  *)
AbortEvaluation(e) ==
    /\ epc[e] \in {"loaded", "searched", "upserting"}
    /\ epc' = [epc EXCEPT ![e] = "failed"]
    /\ UNCHANGED <<tables, ingestVars, query, hits, current, known, answer, announced>>

IngestStep(i) == IngestStart(i) \/ IngestExecute(i) \/ IngestAgain(i)

EvaluateStep ==
    \E e \in Evaluations :
        \/ LoadRule(e) \/ search_embeddings(e) \/ UpsertStart(e)
        \/ UpsertMatch(e) \/ NoDurableMatch(e) \/ Publish(e) \/ AbortEvaluation(e)

HistoricalStep == (\E i \in Ingests : IngestStep(i)) \/ EvaluateStep

-----------------------------------------------------------------------------
(***************************************************************************)
(* What a subscriber or a client is told about is durable and keeps the    *)
(* evidence it was told: announced and answered keys name historical       *)
(* candidates.                                                             *)
(***************************************************************************)
AnnouncedAreDurable ==
    \A k \in announced \cup UNION {answer[e] : e \in Evaluations} :
        candidates[k] # None /\ candidates[k].mode = "historical"

(***************************************************************************)
(* README.md: "Embedded Alerts indexes newly published public pages", and  *)
(* ingest_page answers 201 or 200 and publishes page.revision_indexed: a   *)
(* valid page that the crawler keeps delivering is indexed in the end.     *)
(***************************************************************************)
EveryPageIndexed == \A i \in Ingests : <>(ipc[i] = "indexed")

(***************************************************************************)
(* docs/match-revision-identity.md: on conflict the existing row is        *)
(* selected when every stored provenance identifier matches, so an         *)
(* evaluation is refused only for a key with another provenance.           *)
(***************************************************************************)
SameProvenanceIsSelected ==
    \A e \in Evaluations :
        epc[e] = "norow" => candidates[current[e]].mode # "historical"
=============================================================================
