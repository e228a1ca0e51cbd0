---------------------------- MODULE ScopedSearch ----------------------------
(***************************************************************************)
(* Vector search page by page: search_embeddings of src/store.rs with its  *)
(* keyset cursor, called by POST /v1/embeddings/search, whose client       *)
(* follows next_cursor, and by an evaluation of an alert rule, which fixes *)
(* the sources from the rule's scope and drops next_cursor.  Either starts *)
(* behind the cursor its request carries, if it carries one.               *)
(*                                                                         *)
(* The module extends SourceScope: rules, their stored filters and         *)
(* constrain_search_sources are the ones of that module.  Rows of          *)
(* eal_embeddings become visible while a client turns pages; none is ever  *)
(* changed or deleted.  Identifiers are natural numbers, ordered as the    *)
(* uuids are.                                                              *)
(***************************************************************************)
EXTENDS SourceScope, SequencesExt

CONSTANTS
    Embeddings,   \* embedding ids
    SourceOf,     \* SourceOf[e]: the source of the page of e
    Distance,     \* Distance[e]: cosine distance to the query vector
    Scale,        \* the distance that stands for similarity 0
    Limit,        \* hits of a page
    Minima,       \* values of min_similarity
    NoCursor,     \* the absent cursor, and no next_cursor
    Cursors       \* cursors of first requests

ASSUME SearchAssumption ==
    /\ Embeddings \subseteq Nat
    /\ SourceOf \in [Embeddings -> Sources]
    /\ Scale \in Nat
    /\ Distance \in [Embeddings -> 0..Scale]
    /\ Limit \in Nat \ {0}
    /\ Minima \subseteq Nat
    /\ NoCursor \notin [distance : Nat, embedding_id : Nat]
    /\ Cursors \subseteq {NoCursor} \cup [distance : Nat, embedding_id : Nat]

VARIABLES
    rows,         \* committed rows of eal_embeddings
    search        \* the search of a client: request, hits so far, next_cursor

searchVars == <<asked, created, filters, historical, reverse, rows, search>>

(***************************************************************************)
(* "idle" before the request; "more" while the client has a next_cursor;   *)
(* "cut" when an evaluation kept Limit hits and dropped the cursor; "done" *)
(* when a page came without one.  rule and requested are what an           *)
(* evaluation was asked for, after is the cursor the first request came    *)
(* with; first is a history variable: the rows that were visible to the    *)
(* first page.                                                             *)
(***************************************************************************)
NoSearch ==
    [state |-> "idle", rule |-> {}, requested |-> {}, source_ids |-> {}, min_similarity |-> 0,
     after |-> NoCursor, hits |-> <<>>, next_cursor |-> NoCursor, first |-> {}]

-----------------------------------------------------------------------------
(* The WHERE clauses of ranked and filtered.                               *)
Eligible(s, e) ==
    /\ SourceOf[e] \in Searched(s.source_ids)
    /\ Scale - Distance[e] >= s.min_similarity

(* Mutant: the distance alone decides.                                     *)
AfterCursor_Distance(cursor, e) ==
    cursor = NoCursor \/ Distance[e] > cursor.distance

(* The cursor clause.                                                      *)
AfterCursor(cursor, e) ==
    \/ cursor = NoCursor
    \/ Distance[e] > cursor.distance
    \/ Distance[e] = cursor.distance /\ e > cursor.embedding_id

(* ORDER BY distance ASC, embedding_id ASC.                                *)
Before(d, e) == Distance[d] < Distance[e] \/ (Distance[d] = Distance[e] /\ d < e)

(* The rows of S in that order: the i-th is the one with i - 1 before it.  *)
Ordered(S) ==
    [i \in 1..Cardinality(S) |->
        CHOOSE e \in S : Cardinality({d \in S : Before(d, e)}) = i - 1]

(* The rows the statement returns: one more than the page holds.           *)
Fetched(s) ==
    LET ordered == Ordered({e \in rows : Eligible(s, e) /\ AfterCursor(s.next_cursor, e)})
    IN  SubSeq(ordered, 1, IF Len(ordered) > Limit THEN Limit + 1 ELSE Len(ordered))

(* One call of search_embeddings: truncate, and point behind the last hit. *)
Turn(s) ==
    LET records == Fetched(s)
        has_more == Len(records) > Limit
        page == IF has_more THEN Front(records) ELSE records
    IN  [s EXCEPT !.hits = @ \o page,
                  !.next_cursor = IF has_more
                                  THEN [distance |-> Distance[Last(page)], embedding_id |-> Last(page)]
                                  ELSE NoCursor]

Ending(s, open) == IF s.next_cursor = NoCursor THEN "done" ELSE open

Request(rule, requested, source_ids, m, cursor) ==
    [NoSearch EXCEPT !.rule = rule, !.requested = requested, !.source_ids = source_ids,
                     !.min_similarity = m, !.after = cursor, !.next_cursor = cursor,
                     !.first = rows]

-----------------------------------------------------------------------------
SearchInit == Init /\ rows = {} /\ search = NoSearch

(* A page is indexed: another row of eal_embeddings is committed.          *)
AddEmbedding(e) ==
    /\ e \notin rows
    /\ rows' = rows \cup {e}
    /\ UNCHANGED <<asked, created, filters, historical, reverse, search>>

(* search_embeddings of server_routes.rs, first page.                      *)
FirstPage(requested, m, cursor) ==
    /\ search.state = "idle"
    /\ validate(requested)
    /\ LET s == Turn(Request({}, requested, requested, m, cursor)) IN
       search' = [s EXCEPT !.state = Ending(s, "more")]
    /\ UNCHANGED <<asked, created, filters, historical, reverse, rows>>

(* The client repeats its request with next_cursor.                        *)
NextPage ==
    /\ search.state = "more"
    /\ LET s == Turn(search) IN search' = [s EXCEPT !.state = Ending(s, "more")]
    /\ UNCHANGED <<asked, created, filters, historical, reverse, rows>>

(* Mutant: the sources of the request replace those of the rule.           *)
EvaluateRule_AsRequested(r, requested, m, cursor) ==
    /\ search.state = "idle"
    /\ Evaluate(r, requested)
    /\ LET s == Turn(Request({r}, requested, requested, m, cursor)) IN
       search' = [s EXCEPT !.state = Ending(s, "cut")]
    /\ UNCHANGED rows

(* evaluate_matches: the constrained sources and the request's cursor, one *)
(* page, whose next_cursor is dropped.                                     *)
EvaluateRule(r, requested, m, cursor) ==
    /\ search.state = "idle"
    /\ Evaluate(r, requested)
    /\ LET source_ids == constrain_search_sources(filters[r], requested)
           s == Turn(Request({r}, requested, source_ids, m, cursor))
       IN  search' = [s EXCEPT !.state = Ending(s, "cut")]
    /\ UNCHANGED rows

(* The client is done with its hits and asks something else.               *)
NewSearch ==
    /\ search.state \in {"cut", "done"}
    /\ search' = NoSearch
    /\ UNCHANGED <<asked, created, filters, historical, reverse, rows>>

SearchNext ==
    \/ (\E r \in Rules, values \in Values : Create(r, values)) /\ UNCHANGED <<rows, search>>
    \/ (\E source \in Sources : Deliver(source)) /\ UNCHANGED <<rows, search>>
    \/ \E e \in Embeddings : AddEmbedding(e)
    \/ \E requested \in SUBSET Sources, m \in Minima, cursor \in Cursors :
          FirstPage(requested, m, cursor)
    \/ NextPage
    \/ \E r \in Rules, requested \in SUBSET Sources, m \in Minima, cursor \in Cursors :
          EvaluateRule(r, requested, m, cursor)
    \/ NewSearch

SearchSpec == SearchInit /\ [][SearchNext]_searchVars

-----------------------------------------------------------------------------
(***************************************************************************)
(* Pages tile the result: the hits are in order and without repetition,    *)
(* all behind the cursor the first request came with, and every eligible   *)
(* row behind that cursor which was there for the first page has been      *)
(* returned, unless it lies behind the last hit of a search that has more. *)
(* Ties of distance at a page boundary and rows that appear between two    *)
(* pages make no hit be skipped or repeated.                               *)
(***************************************************************************)
PagesTile ==
    search.state # "idle" =>
        /\ \A i, j \in DOMAIN search.hits : i < j => Before(search.hits[i], search.hits[j])
        /\ \A e \in Range(search.hits) : AfterCursor(search.after, e)
        /\ \A e \in search.first :
              Eligible(search, e) /\ AfterCursor(search.after, e) =>
                  \/ e \in Range(search.hits)
                  \/ search.state # "done" /\ Before(Last(search.hits), e)

(***************************************************************************)
(* From the strings the owner gave to the hits of an evaluation: every hit *)
(* is of a source the owner named, and a row of such a source (of the      *)
(* request's sources, when it names some) that is similar enough is missed *)
(* for one of two reasons only: the request carried a cursor and the row   *)
(* is not behind it, or it is farther than the last hit of an answer that  *)
(* was cut off.  Without a cursor the answer is the nearest of the scope.  *)
(***************************************************************************)
EvaluationCoversScope ==
    \A r \in search.rule : LET hits == Range(search.hits) IN
        /\ \A e \in hits : SourceOf[e] \in AskedScope(r)
        /\ \A e \in search.first \ hits :
              /\ SourceOf[e] \in AskedScope(r)
              /\ search.requested = {} \/ SourceOf[e] \in search.requested
              /\ Scale - Distance[e] >= search.min_similarity
              => \/ search.after # NoCursor /\ ~ AfterCursor(search.after, e)
                 \/ search.state = "cut" /\ Before(Last(search.hits), e)
=============================================================================
