------------------------------ MODULE PageStore ------------------------------
(***************************************************************************)
(* The tables behind page ingestion and matching: eal_pages,               *)
(* eal_page_revisions, eal_embeddings (migration 002),                     *)
(* eal_alert_rule_embeddings and eal_match_candidates (005, 006).          *)
(* ReverseMatch and HistoricalMatch work on them.                          *)
(*                                                                         *)
(* One tenant, one source and one model space (model, version, dimensions, *)
(* normalisation): every query of both modules filters on all of them.     *)
(* Rows are never deleted and the unique constraints make natural keys of  *)
(* them, so a page is named by its canonical URL, a page revision by page  *)
(* and content digest, the embedding of a revision by the revision, and a  *)
(* candidate by its match_key: alert revision and page revision.           *)
(***************************************************************************)
EXTENDS Naturals, FiniteSets

CONSTANTS
    Pages,          \* canonical URLs
    Contents,       \* digests of normalised content
    Vectors,        \* embedding vectors, told apart by embedding_sha256
    Alerts,         \* alert-rule revisions, each the revision of its own rule
    Levels,         \* the f64 values of similarities and thresholds, scaled
    AsF32,          \* AsF32[x]: the f64 value x rounded by 'as f32'
    Similarity,     \* Similarity[<<v, w>>]: 1 - cosine distance
    Threshold,      \* Threshold[a]: similarity_threshold, a REAL column
    Requests,       \* the bodies the crawler may send
    None            \* SQL NULL

Revisions == Pages \X Contents
MatchKeys == Alerts \X Revisions

(***************************************************************************)
(* The evidence columns of a candidate: how it was found, the page's       *)
(* vector (by digest, or through embedding_id), the vector it was compared *)
(* with, and the threshold it was admitted under.                          *)
(***************************************************************************)
Evidence == [mode : {"reverse", "historical"}, vector : Vectors,
             against : Vectors, threshold : Levels]

(* Rounding is monotone and keeps what is an f32 already.                  *)
ASSUME RoundingAssumption ==
    /\ Levels \subseteq Nat
    /\ AsF32 \in [Levels -> Levels]
    /\ \A x, y \in Levels : x <= y => AsF32[x] <= AsF32[y]
    /\ \A a \in Alerts : AsF32[Threshold[a]] = Threshold[a]

ASSUME StoreAssumption ==
    /\ Similarity \in [Vectors \X Vectors -> Levels]
    /\ Threshold \in [Alerts -> Levels]
    /\ Requests \subseteq [page : Pages, content : Contents, vector : Vectors]
    /\ None \notin Revisions \cup Vectors \cup Evidence

VARIABLES
    pages,        \* committed rows of eal_pages
    latest,       \* eal_pages.latest_revision_id
    revisions,    \* committed rows of eal_page_revisions
    predecessor,  \* predecessor_revision_id
    embeddings,   \* embeddings[r]: the stored vector of revision r
    alert,        \* alert[a]: state of alert revision a
    alertVector,  \* alertVector[a]: eal_alert_rule_embeddings
    candidates,   \* eal_match_candidates by match key
    pageLock,     \* the open transaction that has written the page's row
    pendingKeys   \* match keys inserted by transactions still open

pageTables == <<pages, latest, revisions, predecessor>>
alertTables == <<alert, alertVector>>
tables == <<pageTables, embeddings, alertTables, candidates, pageLock, pendingKeys>>

StoreInit ==
    /\ pages = {}
    /\ latest = [p \in Pages |-> None]
    /\ revisions = {}
    /\ predecessor = [r \in Revisions |-> None]
    /\ embeddings = [r \in Revisions |-> None]
    /\ alert = [a \in Alerts |-> "absent"]
    /\ alertVector = [a \in Alerts |-> None]
    /\ candidates = [k \in MatchKeys |-> None]
    /\ pageLock = [p \in Pages |-> None]
    /\ pendingKeys = {}

-----------------------------------------------------------------------------
(***************************************************************************)
(* Alert revisions come and go while pages are matched.                    *)
(***************************************************************************)

(* A rule is created with this revision enabled and active (AlertRules).   *)
CreateAlert(a) ==
    /\ alert[a] = "absent"
    /\ alert' = [alert EXCEPT ![a] = "active"]
    /\ UNCHANGED <<pageTables, embeddings, alertVector, candidates, pageLock, pendingKeys>>

(* Another client of the database points the rule to another revision.     *)
SupersedeAlert(a) ==
    /\ alert[a] = "active"
    /\ alert' = [alert EXCEPT ![a] = "superseded"]
    /\ UNCHANGED <<pageTables, embeddings, alertVector, candidates, pageLock, pendingKeys>>

(* Mutant: the upsert replaces an existing vector.                         *)
upsert_alert_rule_embedding_Replaces(a, v) ==
    /\ alert[a] = "active"
    /\ alertVector' = [alertVector EXCEPT ![a] = v]
    /\ UNCHANGED <<pageTables, embeddings, alert, candidates, pageLock, pendingKeys>>

(***************************************************************************)
(* A worker stores the vector of an alert revision.  Only the enabled      *)
(* active revision is a target (else 422), and the first vector stays: a   *)
(* repeat changes nothing, a different vector is refused with 409.         *)
(* (A repeat that waited for the first may be refused with 422, by the     *)
(* snapshot of its fallback; nothing changes then either.)                 *)
(***************************************************************************)
upsert_alert_rule_embedding(a, v) ==
    /\ alert[a] = "active"
    /\ alertVector[a] = None
    /\ alertVector' = [alertVector EXCEPT ![a] = v]
    /\ UNCHANGED <<pageTables, embeddings, alert, candidates, pageLock, pendingKeys>>

AlertStep ==
    \E a \in Alerts :
        \/ CreateAlert(a)
        \/ SupersedeAlert(a)
        \/ \E v \in Vectors : upsert_alert_rule_embedding(a, v)

-----------------------------------------------------------------------------
(***************************************************************************)
(* ORDER BY distance, id LIMIT k: the k best of S.  Identifiers are random *)
(* UUIDs, so ties are broken either way.                                   *)
(***************************************************************************)
TopK(S, score, k) ==
    {T \in SUBSET S :
        /\ Cardinality(T) = IF Cardinality(S) < k THEN Cardinality(S) ELSE k
        /\ \A x \in T, y \in S \ T : score[x] >= score[y]}

(* The next row of a result that is ordered by distance.                   *)
Nearest(S, score) == {x \in S : \A y \in S : score[x] >= score[y]}

-----------------------------------------------------------------------------
StoreTypeOK ==
    /\ pages \in SUBSET Pages
    /\ latest \in [Pages -> Revisions \cup {None}]
    /\ revisions \in SUBSET Revisions
    /\ predecessor \in [Revisions -> Revisions \cup {None}]
    /\ embeddings \in [Revisions -> Vectors \cup {None}]
    /\ alert \in [Alerts -> {"absent", "active", "superseded"}]
    /\ alertVector \in [Alerts -> Vectors \cup {None}]
    /\ candidates \in [MatchKeys -> Evidence \cup {None}]
    /\ pendingKeys \in SUBSET MatchKeys

(***************************************************************************)
(* Every durable candidate is justified by other durable rows: its page    *)
(* revision exists, it records at least the rule revision's threshold, and *)
(* it was computed from the vectors that are stored (the alert revision's  *)
(* embedding for the reverse path, the page revision's for the historical  *)
(* one).  Its similarity reaches the rule revision's threshold on both     *)
(* paths, although the historical search rounds the threshold it records   *)
(* to f32: only a threshold that a request raised may be missed, and by no *)
(* more than that rounding.                                                *)
(***************************************************************************)
CandidatesJustified ==
    \A k \in MatchKeys :
        LET e == candidates[k] IN
        e # None =>
            /\ k[2] \in revisions
            /\ e.threshold >= Threshold[k[1]]
            /\ Similarity[<<e.against, e.vector>>] >= Threshold[k[1]]
            /\ Similarity[<<e.against, e.vector>>] >=
                  IF e.mode = "reverse" THEN e.threshold ELSE AsF32[e.threshold]
            /\ e.mode = "reverse" => alertVector[k[1]] = e.against
            /\ e.mode = "historical" => embeddings[k[2]] = e.vector

(***************************************************************************)
(* Evidence is immutable: no step changes or removes a durable candidate   *)
(* (the trigger of migration 005 forbids it; no code path may need it).    *)
(***************************************************************************)
EvidenceImmutable ==
    [][\A k \in MatchKeys : candidates[k] # None => candidates'[k] = candidates[k]]_tables

(***************************************************************************)
(* Stored vectors are immutable and so is the history of a page: once a    *)
(* revision, its predecessor or an embedding is written it stays.          *)
(***************************************************************************)
HistoryImmutable ==
    [][/\ revisions \subseteq revisions'
       /\ \A r \in revisions : predecessor'[r] = predecessor[r]
       /\ \A r \in Revisions : embeddings[r] # None => embeddings'[r] = embeddings[r]
       /\ \A a \in Alerts : alertVector[a] # None => alertVector'[a] = alertVector[a]]_tables

(***************************************************************************)
(* The revisions of a page form one history: predecessors are revisions of *)
(* the same page, exactly one has none, and following predecessors never   *)
(* runs in a circle.                                                       *)
(***************************************************************************)
OneHistory ==
    /\ \A r \in revisions : predecessor[r] # None =>
            predecessor[r] \in revisions /\ predecessor[r][1] = r[1]
    /\ \A r, s \in revisions :
            r[1] = s[1] /\ predecessor[r] = None /\ predecessor[s] = None => r = s
    /\ \A S \in SUBSET revisions : S # {} => \E r \in S : predecessor[r] \notin S

(***************************************************************************)
(* A page row that exists points to its latest revision: no reader finds a *)
(* page without content.                                                   *)
(***************************************************************************)
PagesHaveContent ==
    \A p \in pages : latest[p] \in revisions /\ latest[p][1] = p
=============================================================================
