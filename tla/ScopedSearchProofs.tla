------------------------- MODULE ScopedSearchProofs -------------------------
(***************************************************************************)
(* Proofs about the source scope of alert rules (SourceScope) and about    *)
(* searching page by page (ScopedSearch).  A search refines SourceScope    *)
(* with the same variables, so what is proved of the scope holds of the    *)
(* composition; what a page returns is proved with an invariant of its own.*)
(***************************************************************************)
EXTENDS ScopedSearch, FiniteSetTheorems, TLAPS

(***************************************************************************)
(* An image of the positions of a list is no larger than the list.         *)
(***************************************************************************)
LEMMA ImageBound ==
    ASSUME NEW n \in Nat, NEW T, NEW f \in Surjection(1..n, T)
    PROVE  Cardinality(T) \in 0..n
<1>1. IsFiniteSet(1..n) /\ Cardinality(1..n) = n
  <2>1. IsFiniteSet(1..n) /\ Cardinality(1..n) = IF 1 > n THEN 0 ELSE n - 1 + 1
    BY FS_Interval
  <2>2. Cardinality(1..n) = n
    BY <2>1
  <2> QED BY <2>1, <2>2
<1>2. Cardinality(T) \in Nat /\ Cardinality(T) <= Cardinality(1..n)
  BY <1>1, FS_Surjection, FS_CardinalityType
<1> QED BY <1>1, <1>2

(***************************************************************************)
(* Neither the sources named by a list of filters nor their canonical      *)
(* strings are more than the list is long: distinct ones come from         *)
(* distinct positions.                                                     *)
(***************************************************************************)
LEMMA NormalisedBound ==
    ASSUME NEW values \in Values,
           \A v \in Elements(values) : Parse[v] # Invalid
    PROVE  /\ Len(values) \in Nat
           /\ Cardinality(normalize_source_filters(Elements(values))) \in 0..Len(values)
           /\ Cardinality(parse_source_filter_ids(Elements(values))) \in 0..Len(values)
<1> DEFINE T == normalize_source_filters(Elements(values))
           P == parse_source_filter_ids(Elements(values))
           f == [i \in 1..Len(values) |-> Canonical[Parse[values[i]]]]
           g == [i \in 1..Len(values) |-> Parse[values[i]]]
<1>1. PICK n \in Nat : values \in [1..n -> Strings]
  BY ScopeAssumption DEF Values
<1>2. DOMAIN values = 1..Len(values) /\ Len(values) \in Nat
  BY <1>1
<1>3. f \in Surjection(1..Len(values), T)
  <2>1. \A i \in 1..Len(values) : f[i] \in T
    BY <1>2 DEF normalize_source_filters, parse_source_filter_ids, Elements
  <2>2. \A t \in T : \E i \in 1..Len(values) : f[i] = t
    BY <1>2 DEF normalize_source_filters, parse_source_filter_ids, Elements
  <2> QED BY <2>1, <2>2 DEF Surjection
<1>4. g \in Surjection(1..Len(values), P)
  <2>1. \A i \in 1..Len(values) : g[i] \in P
    BY <1>2 DEF parse_source_filter_ids, Elements
  <2>2. \A t \in P : \E i \in 1..Len(values) : g[i] = t
    BY <1>2 DEF parse_source_filter_ids, Elements
  <2> QED BY <2>1, <2>2 DEF Surjection
<1> HIDE DEF T, P, f, g
<1>5. Cardinality(T) \in 0..Len(values)
  BY <1>2, <1>3, ImageBound
<1>6. Cardinality(P) \in 0..Len(values)
  BY <1>2, <1>4, ImageBound
<1> QED BY <1>2, <1>5, <1>6 DEF T, P

(***************************************************************************)
(* Parsing undoes canonicalisation: the stored strings name the sources    *)
(* that the request named, and a source is named exactly when its          *)
(* canonical string is stored.                                             *)
(***************************************************************************)
LEMMA RoundTrip ==
    ASSUME NEW strings \in SUBSET Strings,
           \A v \in strings : Parse[v] # Invalid
    PROVE  /\ parse_source_filter_ids(strings) \subseteq Sources
           /\ normalize_source_filters(strings) \subseteq Strings
           /\ \A v \in normalize_source_filters(strings) : Parse[v] # Invalid
           /\ parse_source_filter_ids(normalize_source_filters(strings))
                 = parse_source_filter_ids(strings)
           /\ \A s \in Sources : Canonical[s] \in normalize_source_filters(strings)
                                    <=> s \in parse_source_filter_ids(strings)
           /\ normalize_source_filters(strings) = {} <=> strings = {}
           /\ parse_source_filter_ids(strings) = {} <=> strings = {}
<1>1. \A v \in strings : Parse[v] \in Sources
  BY ScopeAssumption
<1> DEFINE ids == parse_source_filter_ids(strings)
           canonical == normalize_source_filters(strings)
<1>2. ids \subseteq Sources /\ (ids = {} <=> strings = {})
  BY <1>1 DEF parse_source_filter_ids
<1>3. canonical = {Canonical[s] : s \in ids}
  BY DEF normalize_source_filters
<1> HIDE DEF ids, canonical
<1>4. canonical \subseteq Strings /\ (canonical = {} <=> ids = {})
  <2>1. \A s \in ids : Canonical[s] \in Strings
    BY <1>2, ScopeAssumption
  <2>2. canonical \subseteq Strings
    BY <2>1, <1>3
  <2>3. canonical = {} <=> ids = {}
    BY <1>3
  <2> QED BY <2>2, <2>3
<1>5. \A v \in canonical : Parse[v] # Invalid
  BY <1>2, <1>3, ScopeAssumption
<1>6. \A s \in Sources : Canonical[s] \in canonical <=> s \in ids
  BY <1>2, <1>3, ScopeAssumption
<1>7. {Parse[v] : v \in canonical} = ids
  BY <1>2, <1>3, ScopeAssumption
<1>8. parse_source_filter_ids(canonical) = ids
  BY <1>7 DEF parse_source_filter_ids
<1> QED BY <1>2, <1>4, <1>5, <1>6, <1>8 DEF ids, canonical

(* Creation stores canonical filters and touches no earlier rule.          *)
LEMMA CreatePreserves ==
    ASSUME ScopeInv, NEW r \in Rules, NEW values \in Values, Create(r, values)
    PROVE  ScopeInv'
<1>1. Elements(values) \subseteq Strings /\ \A v \in Elements(values) : Parse[v] # Invalid
  BY DEF Values, Elements, Create, ParsesOk
<1>2. normalize_source_filters(Elements(values)) \subseteq Strings
  BY <1>1, RoundTrip
<1>3. TypeOK'
  BY <1>1, <1>2 DEF ScopeInv, TypeOK, Create
<1>4. /\ Cardinality(normalize_source_filters(Elements(values))) <= MaxFilters
      /\ Cardinality(parse_source_filter_ids(Elements(values))) \in 0..MaxFilters
  <2>1. PICK n, p : /\ n = Cardinality(normalize_source_filters(Elements(values)))
                    /\ p = Cardinality(parse_source_filter_ids(Elements(values)))
    OBVIOUS
  <2>2. Len(values) \in Nat /\ n \in 0..Len(values) /\ p \in 0..Len(values)
    BY <1>1, <2>1, NormalisedBound
  <2>3. Len(values) <= MaxFilters
    BY DEF Create, ParsesOk
  <2>4. n <= MaxFilters /\ p \in 0..MaxFilters
    BY <2>2, <2>3, ScopeAssumption
  <2> QED BY <2>1, <2>4
<1>5. ASSUME NEW q \in created'
      PROVE  /\ \A v \in asked'[q] : Parse[v] # Invalid
             /\ filters'[q] = normalize_source_filters(asked'[q])
             /\ Cardinality(filters'[q]) <= MaxFilters
             /\ Cardinality(parse_source_filter_ids(asked'[q])) \in 0..MaxFilters
  <2>1. CASE q = r
    <3>1. asked'[q] = Elements(values) /\ filters'[q] = normalize_source_filters(Elements(values))
      BY <2>1 DEF ScopeInv, TypeOK, Create
    <3> QED BY <3>1, <1>1, <1>4
  <2>2. CASE q # r
    <3>1. q \in created /\ q \in Rules /\ asked'[q] = asked[q] /\ filters'[q] = filters[q]
      BY <2>2 DEF ScopeInv, TypeOK, Create
    <3> QED BY <3>1 DEF ScopeInv
  <2> QED BY <2>1, <2>2
<1>6. \A pair \in historical' \cup reverse' : pair[1] \in created'
  BY DEF ScopeInv, Create
<1> QED BY <1>3, <1>5, <1>6 DEF ScopeInv, normalize_source_filters, parse_source_filter_ids

(* What an evaluation searches are sources.                                *)
LEMMA EvaluatePreserves ==
    ASSUME ScopeInv, NEW r \in Rules, NEW requested \in SUBSET Sources, Evaluate(r, requested)
    PROVE  ScopeInv'
<1> DEFINE S == Searched(constrain_search_sources(filters[r], requested))
<1>1. r \in created /\ historical' = historical \cup {<<r, s>> : s \in S}
  BY DEF Evaluate
<1>2. S \subseteq Sources
  <2>1. filters[r] \subseteq Strings /\ \A v \in filters[r] : Parse[v] # Invalid
    BY <1>1 DEF ScopeInv, TypeOK, Evaluate, ScopeOk, ParsesOk
  <2> QED BY <2>1, RoundTrip DEF Searched, constrain_search_sources
<1> HIDE DEF S
<1>3. TypeOK'
  BY <1>1, <1>2 DEF ScopeInv, TypeOK, Evaluate
<1>4. \A pair \in historical' \cup reverse' : pair[1] \in created'
  BY <1>1 DEF ScopeInv, Evaluate
<1>5. UNCHANGED <<asked, created, filters>>
  BY DEF Evaluate
<1> QED BY <1>3, <1>4, <1>5 DEF ScopeInv, normalize_source_filters, parse_source_filter_ids

(* A delivery matches rules that exist with its own source.                *)
LEMMA DeliverPreserves ==
    ASSUME ScopeInv, NEW source \in Sources, Deliver(source)
    PROVE  ScopeInv'
<1> DEFINE R == {q \in created : Admits(filters[q], source)}
<1>1. R \subseteq created /\ reverse' = reverse \cup {<<r, source>> : r \in R}
  BY DEF Deliver
<1> HIDE DEF R
<1>2. TypeOK'
  BY <1>1 DEF ScopeInv, TypeOK, Deliver
<1>3. \A pair \in historical' \cup reverse' : pair[1] \in created'
  BY <1>1 DEF ScopeInv, Deliver
<1>4. UNCHANGED <<asked, created, filters>>
  BY DEF Deliver
<1> QED BY <1>2, <1>3, <1>4 DEF ScopeInv, normalize_source_filters, parse_source_filter_ids

(***************************************************************************)
(* The inductive invariant of the scope: what is stored for a rule is the  *)
(* canonical form of what its owner asked for, in every reachable state.   *)
(***************************************************************************)
THEOREM ScopeInvariance == Spec => []ScopeInv
<1>1. Init => ScopeInv
  BY DEF Init, ScopeInv, TypeOK
<1>2. ScopeInv /\ [Next]_vars => ScopeInv'
  <2> SUFFICES ASSUME ScopeInv, [Next]_vars PROVE ScopeInv'
    OBVIOUS
  <2>1. CASE \E r \in Rules, values \in Values : Create(r, values)
    BY <2>1, CreatePreserves
  <2>2. CASE \E r \in Rules, requested \in SUBSET Sources : Evaluate(r, requested)
    BY <2>2, EvaluatePreserves
  <2>3. CASE \E source \in Sources : Deliver(source)
    BY <2>3, DeliverPreserves
  <2>4. CASE UNCHANGED vars
    BY <2>4 DEF vars, ScopeInv, TypeOK, normalize_source_filters, parse_source_filter_ids
  <2> QED BY <2>1, <2>2, <2>3, <2>4 DEF Next
<1> QED BY <1>1, <1>2, PTL DEF Spec

(* The scope of a rule that exists, through its stored filters.            *)
LEMMA StoredScope ==
    ASSUME ScopeInv, NEW r \in created
    PROVE  /\ asked[r] \subseteq Strings
           /\ \A v \in filters[r] : Parse[v] # Invalid
           /\ parse_source_filter_ids(filters[r]) = parse_source_filter_ids(asked[r])
           /\ \A s \in Sources : Canonical[s] \in filters[r]
                                    <=> s \in parse_source_filter_ids(filters[r])
           /\ filters[r] = {} <=> asked[r] = {}
           /\ parse_source_filter_ids(filters[r]) = {} <=> asked[r] = {}
<1>1. /\ asked[r] \in SUBSET Strings
      /\ \A v \in asked[r] : Parse[v] # Invalid
      /\ filters[r] = normalize_source_filters(asked[r])
  BY DEF ScopeInv, TypeOK
<1> QED BY <1>1, RoundTrip

(***************************************************************************)
(* The string comparison of the reverse path and the comparison of parsed  *)
(* identifiers of the historical path select the same sources.             *)
(***************************************************************************)
THEOREM Agreement == Spec => []PathsAgree
<1>1. ScopeInv => PathsAgree
  BY StoredScope DEF PathsAgree, Admits, Searched, constrain_search_sources
<1> QED BY <1>1, ScopeInvariance, PTL

(***************************************************************************)
(* A rule that create_record accepted is never refused by evaluate_matches *)
(* for the sources its owner named, neither for the scope of the rule nor  *)
(* for the length of the list it becomes.                                  *)
(***************************************************************************)
THEOREM Usability == Spec => []AcceptedIsUsable
<1>1. ScopeInv => AcceptedIsUsable
  <2> SUFFICES ASSUME ScopeInv, NEW r \in created
               PROVE  LET scope == parse_source_filter_ids(asked[r]) IN
                      /\ ScopeOk(filters[r], scope)
                      /\ validate(constrain_search_sources(filters[r], scope))
                      /\ validate(constrain_search_sources(filters[r], {}))
    BY DEF AcceptedIsUsable
  <2>1. PICK scope : scope = parse_source_filter_ids(asked[r])
    OBVIOUS
  <2>2. parse_source_filter_ids(filters[r]) = scope
    BY <2>1, StoredScope
  <2>3. ScopeOk(filters[r], scope)
    BY <2>2, StoredScope DEF ScopeInv, ScopeOk, ParsesOk
  <2>4. Cardinality(scope) \in 0..MaxFilters
    BY <2>1 DEF ScopeInv
  <2>5. validate(scope)
    BY <2>4, ScopeAssumption DEF validate
  <2> QED BY <2>1, <2>2, <2>3, <2>5 DEF constrain_search_sources
<1> QED BY <1>1, ScopeInvariance, PTL

(***************************************************************************)
(* A step searches or matches only inside the scope of the rule: the       *)
(* evaluation because a request must be a subset of a non-empty scope, the *)
(* delivery because the canonical string of its source is stored.          *)
(***************************************************************************)
LEMMA StepWithinScope ==
    ASSUME ScopeInv, WithinScope, [Next]_vars
    PROVE  WithinScope'
<1> SUFFICES ASSUME NEW r \in Rules, NEW s \in Sources, <<r, s>> \in historical' \cup reverse'
             PROVE  s \in AskedScope(r)'
  BY DEF WithinScope
<1>1. CASE \E q \in Rules, values \in Values : Create(q, values)
  <2>1. PICK q \in Rules, values \in Values : Create(q, values)
    BY <1>1
  <2>2. <<r, s>> \in historical \cup reverse /\ r \in created
    BY <2>1 DEF Create, ScopeInv
  <2>3. q # r
    BY <2>1, <2>2 DEF Create
  <2>4. asked'[r] = asked[r]
    BY <2>1, <2>3 DEF Create, ScopeInv, TypeOK
  <2> QED BY <2>2, <2>4 DEF WithinScope, AskedScope
<1>2. CASE \E q \in Rules, requested \in SUBSET Sources : Evaluate(q, requested)
  <2>1. PICK q \in Rules, requested \in SUBSET Sources : Evaluate(q, requested)
    BY <1>2
  <2>2. asked' = asked /\ reverse' = reverse /\ q \in created
    BY <2>1 DEF Evaluate
  <2>3. CASE <<r, s>> \in historical \cup reverse
    BY <2>2, <2>3 DEF WithinScope, AskedScope
  <2>4. CASE r = q /\ s \in Searched(constrain_search_sources(filters[q], requested))
    <3>1. ScopeOk(filters[r], requested)
      BY <2>1, <2>4 DEF Evaluate
    <3>2. asked[r] # {} => s \in parse_source_filter_ids(asked[r])
      BY <2>2, <2>4, <3>1, StoredScope DEF ScopeOk, Searched, constrain_search_sources
    <3> QED BY <2>2, <3>2 DEF AskedScope, parse_source_filter_ids
  <2> QED BY <2>1, <2>2, <2>3, <2>4 DEF Evaluate
<1>3. CASE \E source \in Sources : Deliver(source)
  <2>1. PICK source \in Sources : Deliver(source)
    BY <1>3
  <2>2. asked' = asked /\ historical' = historical
    BY <2>1 DEF Deliver
  <2>3. CASE <<r, s>> \in historical \cup reverse
    BY <2>2, <2>3 DEF WithinScope, AskedScope
  <2>4. CASE s = source /\ r \in created /\ Admits(filters[r], source)
    <3>1. asked[r] # {} => s \in parse_source_filter_ids(asked[r])
      BY <2>4, StoredScope DEF Admits
    <3> QED BY <2>2, <3>1 DEF AskedScope, parse_source_filter_ids
  <2> QED BY <2>1, <2>2, <2>3, <2>4 DEF Deliver
<1>4. CASE UNCHANGED vars
  BY <1>4 DEF vars, WithinScope, AskedScope
<1> QED BY <1>1, <1>2, <1>3, <1>4 DEF Next

(***************************************************************************)
(* No evaluation and no delivery ever looks outside the sources the owner  *)
(* of a rule named, for any request and any spelling of the filters.       *)
(***************************************************************************)
THEOREM Scope == Spec => []WithinScope
<1>1. Init => WithinScope
  BY DEF Init, WithinScope
<1>2. ScopeInv /\ WithinScope /\ [Next]_vars => WithinScope'
  BY StepWithinScope
<1> QED BY <1>1, <1>2, ScopeInvariance, PTL DEF Spec

-----------------------------------------------------------------------------
(***************************************************************************)
(* Every step of the composition is a step of SourceScope or leaves its    *)
(* variables alone: pages, cursors and new rows never touch a rule or its  *)
(* record of searched sources, and an evaluation is one of SourceScope.    *)
(***************************************************************************)
THEOREM SearchImplementsScope == SearchSpec => Spec
<1>1. SearchInit => Init
  BY DEF SearchInit
<1>2. ASSUME [SearchNext]_searchVars PROVE [Next]_vars
  <2>1. CASE (\E r \in Rules, values \in Values : Create(r, values)) /\ UNCHANGED <<rows, search>>
    BY <2>1 DEF Next
  <2>2. CASE (\E source \in Sources : Deliver(source)) /\ UNCHANGED <<rows, search>>
    BY <2>2 DEF Next
  <2>3. ASSUME NEW e \in Embeddings, AddEmbedding(e) PROVE UNCHANGED vars
    BY <2>3 DEF AddEmbedding, vars
  <2>4. ASSUME NEW requested \in SUBSET Sources, NEW m \in Minima, NEW cursor \in Cursors,
               FirstPage(requested, m, cursor)
        PROVE  UNCHANGED vars
    BY <2>4 DEF FirstPage, vars
  <2>5. ASSUME NextPage PROVE UNCHANGED vars
    BY <2>5 DEF NextPage, vars
  <2>6. ASSUME NEW r \in Rules, NEW requested \in SUBSET Sources, NEW m \in Minima,
               NEW cursor \in Cursors, EvaluateRule(r, requested, m, cursor)
        PROVE  Next
    BY <2>6 DEF EvaluateRule, Next
  <2>7. ASSUME NewSearch PROVE UNCHANGED vars
    BY <2>7 DEF NewSearch, vars
  <2>8. CASE UNCHANGED searchVars
    BY <2>8 DEF searchVars, vars
  <2> QED BY <1>2, <2>1, <2>2, <2>3, <2>4, <2>5, <2>6, <2>7, <2>8 DEF SearchNext
<1> QED BY <1>1, <1>2, PTL DEF SearchSpec, Spec

(***************************************************************************)
(* However a client pages and whatever it asks for, neither matching path  *)
(* looks outside the sources the owner of a rule named, both paths select  *)
(* the same sources, and no accepted scope is refused later.               *)
(***************************************************************************)
THEOREM ScopeOfSearches == SearchSpec => [](WithinScope /\ PathsAgree /\ AcceptedIsUsable)
<1> QED BY SearchImplementsScope, Scope, Agreement, Usability, PTL

-----------------------------------------------------------------------------
SearchType ==
    [state : {"idle", "more", "cut", "done"}, rule : SUBSET Rules, requested : SUBSET Sources,
     source_ids : SUBSET Sources, min_similarity : Nat,
     after : {NoCursor} \cup [distance : Nat, embedding_id : Nat], hits : Seq(Embeddings),
     next_cursor : {NoCursor} \cup [distance : Nat, embedding_id : Nat],
     first : SUBSET Embeddings]

CursorOf(e) == [distance |-> Distance[e], embedding_id |-> e]

Sorted(hits) == \A i, j \in DOMAIN hits : i < j => Before(hits[i], hits[j])

(***************************************************************************)
(* What a search has to show after a page: its hits are sorted, eligible   *)
(* and behind the cursor of the first request, next_cursor names the last  *)
(* of them, and an eligible row of the first page behind the first cursor  *)
(* that is no hit lies behind next_cursor.                                 *)
(***************************************************************************)
Paged(s) ==
    /\ Sorted(s.hits)
    /\ \A i \in DOMAIN s.hits : Eligible(s, s.hits[i]) /\ AfterCursor(s.after, s.hits[i])
    /\ s.next_cursor # NoCursor =>
          s.hits # <<>> /\ s.next_cursor = CursorOf(Last(s.hits))
    /\ \A e \in s.first :
          Eligible(s, e) /\ AfterCursor(s.after, e) =>
              \/ e \in Range(s.hits)
              \/ s.next_cursor # NoCursor /\ Before(Last(s.hits), e)

(* A search that may be continued: new, or with a next_cursor.             *)
Resumable(s) ==
    \/ s.hits = <<>> /\ s.next_cursor = s.after
    \/ Paged(s) /\ s.next_cursor # NoCursor

(***************************************************************************)
(* The inductive invariant: the table only holds rows, and finitely many;  *)
(* a search that has begun is Paged and is over when it has no cursor; one *)
(* that belongs to a rule is never continued, was within the rule's scope  *)
(* and looked at the sources that scope leaves.                            *)
(***************************************************************************)
RowsInv == rows \in SUBSET Embeddings /\ IsFiniteSet(rows)

PageInv ==
    /\ search \in SearchType
    /\ search.first \subseteq rows
    /\ search.state # "idle" =>
          Paged(search) /\ (search.state = "done" <=> search.next_cursor = NoCursor)

RuleInv ==
    /\ search.state \in {"idle", "more"} => search.rule = {}
    /\ \A r \in search.rule :
          /\ r \in created
          /\ ScopeOk(filters[r], search.requested)
          /\ search.source_ids = constrain_search_sources(filters[r], search.requested)

SearchInv == RowsInv /\ PageInv /\ RuleInv

-----------------------------------------------------------------------------
(* Before is a strict total order of the rows.                             *)
LEMMA BeforeOrder ==
    ASSUME NEW d \in Embeddings, NEW e \in Embeddings
    PROVE  /\ ~ Before(d, d)
           /\ d # e => Before(d, e) \/ Before(e, d)
           /\ \A f \in Embeddings : Before(d, e) /\ Before(e, f) => Before(d, f)
<1>1. \A x \in Embeddings : x \in Nat /\ Distance[x] \in Nat
  BY SearchAssumption
<1> QED BY <1>1 DEF Before

(* A cursor that names row d leaves the rows behind d.                     *)
LEMMA BehindCursor ==
    ASSUME NEW d \in Embeddings, NEW e \in Embeddings
    PROVE  /\ CursorOf(d) \in [distance : Nat, embedding_id : Nat]
           /\ CursorOf(d) # NoCursor
           /\ AfterCursor(CursorOf(d), e) <=> Before(d, e)
<1>1. \A x \in Embeddings : x \in Nat /\ Distance[x] \in Nat
  BY SearchAssumption
<1>2. CursorOf(d) \in [distance : Nat, embedding_id : Nat]
  BY <1>1 DEF CursorOf
<1>3. CursorOf(d) # NoCursor
  BY <1>2, SearchAssumption
<1>4. CursorOf(d).distance = Distance[d] /\ CursorOf(d).embedding_id = d
  BY DEF CursorOf
<1>5. AfterCursor(CursorOf(d), e) <=> Before(d, e)
  BY <1>1, <1>3, <1>4 DEF AfterCursor, Before
<1> QED BY <1>2, <1>3, <1>5

(* What lies behind a row that is behind a cursor is behind the cursor.    *)
LEMMA CursorOrder ==
    ASSUME NEW c \in {NoCursor} \cup [distance : Nat, embedding_id : Nat],
           NEW d \in Embeddings, NEW e \in Embeddings,
           AfterCursor(c, d), Before(d, e)
    PROVE  AfterCursor(c, e)
<1>1. \A x \in Embeddings : x \in Nat /\ Distance[x] \in Nat
  BY SearchAssumption
<1>2. CASE c = NoCursor
  BY <1>2 DEF AfterCursor
<1>3. CASE c # NoCursor
  <2>1. c.distance \in Nat /\ c.embedding_id \in Nat
    BY <1>3
  <2> QED BY <1>1, <1>3, <2>1 DEF AfterCursor, Before
<1> QED BY <1>2, <1>3

(***************************************************************************)
(* Ordered is what ORDER BY promises: every row of the set has its place,  *)
(* and an earlier place holds an earlier row.  The rows before e are fewer *)
(* than those before any row behind e, so ranks are distinct, and distinct *)
(* ranks of n rows below n are all the ranks below n.                      *)
(***************************************************************************)
LEMMA OrderedIsSorted ==
    ASSUME NEW S \in SUBSET Embeddings, IsFiniteSet(S)
    PROVE  /\ Cardinality(S) \in Nat
           /\ Ordered(S) \in Seq(S)
           /\ Len(Ordered(S)) = Cardinality(S)
           /\ \A i, j \in 1..Cardinality(S) : i < j => Before(Ordered(S)[i], Ordered(S)[j])
           /\ \A e \in S : \E i \in 1..Cardinality(S) : Ordered(S)[i] = e
<1> DEFINE n == Cardinality(S)
           Preds(e) == {d \in S : Before(d, e)}
           rank == [e \in S |-> Cardinality(Preds(e))]
           place == [e \in S |-> rank[e] + 1]
           o == Ordered(S)
<1>1. n \in Nat
  BY FS_CardinalityType
<1>2. ASSUME NEW e \in S
      PROVE  rank[e] \in Nat /\ rank[e] < n
  <2>1. Preds(e) \in SUBSET S /\ Preds(e) # S
    BY BeforeOrder
  <2> HIDE DEF Preds
  <2>2. /\ IsFiniteSet(Preds(e))
        /\ Cardinality(Preds(e)) <= Cardinality(S)
        /\ Cardinality(S) # Cardinality(Preds(e))
    BY <2>1, FS_Subset
  <2>3. Cardinality(Preds(e)) \in Nat
    BY <2>2, FS_CardinalityType
  <2>4. rank[e] = Cardinality(Preds(e))
    OBVIOUS
  <2> HIDE DEF rank
  <2> QED BY <1>1, <2>2, <2>3, <2>4
<1>3. ASSUME NEW d \in S, NEW e \in S, Before(d, e)
      PROVE  rank[d] < rank[e]
  <2>1. Preds(d) \in SUBSET Preds(e)
    BY <1>3, BeforeOrder
  <2>2. d \in Preds(e) /\ d \notin Preds(d)
    BY <1>3, BeforeOrder
  <2>3. Preds(e) \in SUBSET S
    OBVIOUS
  <2>4. rank[d] = Cardinality(Preds(d)) /\ rank[e] = Cardinality(Preds(e))
    OBVIOUS
  <2>5. rank[d] \in Nat /\ rank[e] \in Nat
    BY <1>2
  <2> HIDE DEF Preds, rank
  <2>6. IsFiniteSet(Preds(e))
    BY <2>3, FS_Subset
  <2>7. /\ Cardinality(Preds(d)) <= Cardinality(Preds(e))
        /\ Cardinality(Preds(e)) # Cardinality(Preds(d))
    BY <2>1, <2>2, <2>6, FS_Subset
  <2> QED BY <2>4, <2>5, <2>7
<1>4. place \in [S -> 1..n]
  BY <1>1, <1>2
<1>5. \A d, e \in S : place[d] = place[e] => d = e
  <2> SUFFICES ASSUME NEW d \in S, NEW e \in S, d # e
               PROVE  place[d] # place[e]
    OBVIOUS
  <2>1. Before(d, e) \/ Before(e, d)
    BY BeforeOrder
  <2>2. rank[d] \in Nat /\ rank[e] \in Nat
    BY <1>2
  <2>3. rank[d] # rank[e]
    BY <1>3, <2>1, <2>2
  <2>4. place[d] = rank[d] + 1 /\ place[e] = rank[e] + 1
    OBVIOUS
  <2> HIDE DEF place, rank
  <2> QED BY <2>2, <2>3, <2>4
<1>6. \A i \in 1..n : \E e \in S : place[e] = i
  <2> HIDE DEF place
  <2>1. place \in Injection(S, 1..n)
    BY <1>4, <1>5 DEF Injection, IsInjective
  <2>2. IsFiniteSet(1..n) /\ Cardinality(1..n) = n
    BY <1>1, FS_Interval
  <2>3. place \in Surjection(S, 1..n)
    BY <2>1, <2>2, FS_Injection
  <2> QED BY <2>3 DEF Surjection
<1>7. ASSUME NEW i \in 1..n
      PROVE  o[i] \in S /\ place[o[i]] = i
  <2>1. o[i] = CHOOSE e \in S : Cardinality(Preds(e)) = i - 1
    BY DEF Ordered
  <2>2. PICK e \in S : place[e] = i
    BY <1>6
  <2>3. rank[e] \in Nat /\ place[e] = rank[e] + 1 /\ rank[e] = Cardinality(Preds(e))
    BY <1>2
  <2>4. Cardinality(Preds(e)) = i - 1
    <3> HIDE DEF place, rank, Preds
    <3> QED BY <1>1, <2>2, <2>3
  <2>5. o[i] \in S /\ Cardinality(Preds(o[i])) = i - 1
    <3> HIDE DEF o, Preds
    <3> QED BY <2>1, <2>4
  <2> HIDE DEF o
  <2>6. place[o[i]] = Cardinality(Preds(o[i])) + 1
    BY <2>5
  <2> HIDE DEF place, rank, Preds
  <2> QED BY <1>1, <2>5, <2>6
<1>8. ASSUME NEW i \in 1..n, NEW j \in 1..n, i < j
      PROVE  Before(o[i], o[j])
  <2>1. o[i] \in S /\ o[j] \in S /\ place[o[i]] = i /\ place[o[j]] = j
    BY <1>7
  <2> HIDE DEF o
  <2>2. rank[o[i]] \in Nat /\ rank[o[j]] \in Nat /\ rank[o[i]] < rank[o[j]]
    <3>1. place[o[i]] = rank[o[i]] + 1 /\ place[o[j]] = rank[o[j]] + 1
      BY <2>1
    <3>2. rank[o[i]] \in Nat /\ rank[o[j]] \in Nat
      BY <2>1, <1>2
    <3> HIDE DEF place, rank
    <3> QED BY <1>1, <1>8, <2>1, <3>1, <3>2
  <2>3. o[i] # o[j] /\ ~ Before(o[j], o[i])
    <3> HIDE DEF rank
    <3> QED BY <1>3, <2>1, <2>2
  <2> QED BY <2>1, <2>3, BeforeOrder
<1>9. ASSUME NEW e \in S
      PROVE  \E i \in 1..n : o[i] = e
  <2>1. place[e] \in 1..n
    BY <1>4
  <2> HIDE DEF place, o
  <2>2. o[place[e]] \in S /\ place[o[place[e]]] = place[e]
    BY <2>1, <1>7
  <2> QED BY <1>5, <2>1, <2>2
<1>10. o \in Seq(S) /\ Len(o) = n
  <2>1. o \in [1..n -> S]
    BY <1>7 DEF Ordered
  <2> HIDE DEF o
  <2> QED BY <1>1, <2>1
<1> QED BY <1>1, <1>8, <1>9, <1>10

-----------------------------------------------------------------------------
(* The rows a page is taken from.                                          *)
Behind(s) == {e \in rows : Eligible(s, e) /\ AfterCursor(s.next_cursor, e)}

(***************************************************************************)
(* One call appends a sorted page of rows behind the cursor and leaves the *)
(* other fields alone; without a new cursor the page holds all those rows, *)
(* and otherwise the rest lies behind its last hit, which the cursor names.*)
(***************************************************************************)
LEMMA TurnTakes ==
    ASSUME RowsInv, NEW s \in SearchType
    PROVE  \E page \in Seq(Embeddings), cursor \in {NoCursor} \cup [distance : Nat, embedding_id : Nat] :
               /\ Turn(s) = [s EXCEPT !.hits = s.hits \o page, !.next_cursor = cursor]
               /\ Sorted(page)
               /\ \A i \in DOMAIN page : page[i] \in Behind(s)
               /\ cursor # NoCursor => page # <<>> /\ cursor = CursorOf(Last(page))
               /\ \A e \in Behind(s) : \/ e \in Range(page)
                                       \/ cursor # NoCursor /\ Before(Last(page), e)
<1> DEFINE S == Behind(s)
           o == Ordered(S)
           n == Cardinality(S)
           records == SubSeq(o, 1, IF Len(o) > Limit THEN Limit + 1 ELSE Len(o))
           has_more == Len(records) > Limit
           page == IF has_more THEN Front(records) ELSE records
           m == IF n > Limit THEN Limit ELSE n
           cursor == IF has_more THEN CursorOf(Last(page)) ELSE NoCursor
<1>1. S \in SUBSET Embeddings /\ IsFiniteSet(S)
  BY FS_Subset DEF RowsInv, Behind
<1>2. Limit \in Nat /\ Limit >= 1
  BY SearchAssumption
<1>3. Turn(s) = [s EXCEPT !.hits = s.hits \o page, !.next_cursor = cursor]
  BY DEF Turn, Fetched, Behind, CursorOf
<1>4. /\ n \in Nat
      /\ o \in Seq(S)
      /\ Len(o) = n
      /\ \A i, j \in 1..n : i < j => Before(o[i], o[j])
      /\ \A e \in S : \E i \in 1..n : o[i] = e
  <2> HIDE DEF S
  <2> QED BY <1>1, OrderedIsSorted
<1> HIDE DEF o, n, S
<1>5. /\ records \in Seq(S)
      /\ Len(records) = IF n > Limit THEN Limit + 1 ELSE n
      /\ \A i \in 1..Len(records) : records[i] = o[i]
  <2>1. CASE n > Limit
    BY <1>2, <1>4, <2>1
  <2>2. CASE ~ (n > Limit)
    BY <1>2, <1>4, <2>2
  <2> QED BY <2>1, <2>2
<1> HIDE DEF records
<1>6. has_more <=> n > Limit
  BY <1>2, <1>4, <1>5
<1>7. /\ page \in Seq(S)
      /\ Len(page) = m
      /\ \A i \in 1..m : page[i] = o[i]
  <2>1. CASE n > Limit
    BY <1>2, <1>4, <1>5, <1>6, <2>1, SMTT(30) DEF Front
  <2>2. CASE ~ (n > Limit)
    BY <1>2, <1>4, <1>5, <1>6, <2>2
  <2> QED BY <2>1, <2>2
<1> HIDE DEF page, has_more
<1>8. m \in Nat /\ m <= n /\ DOMAIN page = 1..m /\ page \in Seq(Embeddings)
  BY <1>1, <1>2, <1>4, <1>7
<1>9. Sorted(page)
  BY <1>4, <1>7, <1>8 DEF Sorted
<1>10. \A i \in DOMAIN page : page[i] \in S
  BY <1>7, <1>8
<1>11. has_more => page # <<>> /\ m = Limit /\ Last(page) = page[m] /\ Last(page) \in Embeddings
  BY <1>2, <1>4, <1>6, <1>7, <1>8 DEF Last
<1>12. /\ cursor \in {NoCursor} \cup [distance : Nat, embedding_id : Nat]
       /\ cursor # NoCursor <=> has_more
  BY <1>11, BehindCursor
<1>13. ASSUME NEW e \in S
       PROVE  e \in Range(page) \/ (cursor # NoCursor /\ Before(Last(page), e))
  <2>1. PICK i \in 1..n : o[i] = e
    BY <1>4
  <2>2. CASE i <= m
    <3>1. i \in DOMAIN page /\ page[i] = e
      BY <1>4, <1>7, <1>8, <2>1, <2>2
    <3> QED BY <3>1 DEF Range
  <2>3. CASE ~ (i <= m)
    <3>1. has_more /\ m \in 1..n /\ m < i
      BY <1>2, <1>4, <1>6, <1>8, <2>1, <2>3
    <3>2. Before(o[m], o[i])
      BY <1>4, <3>1
    <3> QED BY <1>2, <1>7, <1>11, <1>12, <2>1, <3>1, <3>2
  <2> QED BY <2>2, <2>3
<1>14. cursor # NoCursor => page # <<>> /\ cursor = CursorOf(Last(page))
  BY <1>11, <1>12
<1> HIDE DEF cursor
<1> QED BY <1>3, <1>8, <1>9, <1>10, <1>12, <1>13, <1>14 DEF S

(* The fields a page reads and writes decide whether a search is Paged.    *)
LEMMA SamePages ==
    ASSUME NEW s, NEW t, Paged(s), s.source_ids = t.source_ids,
           s.min_similarity = t.min_similarity, s.hits = t.hits,
           s.after = t.after, s.next_cursor = t.next_cursor, s.first = t.first
    PROVE  Paged(t)
<1> QED BY DEF Paged, Eligible

(***************************************************************************)
(* A page keeps a search Paged: the rows it takes lie behind every hit so  *)
(* far, and a row that was there for the first page and is no hit yet is   *)
(* among them.  Rows that were added since only make the page different.   *)
(***************************************************************************)
LEMMA TurnPages ==
    ASSUME RowsInv, NEW s \in SearchType, s.first \subseteq rows, Resumable(s)
    PROVE  /\ Turn(s) \in SearchType
           /\ Paged(Turn(s))
           /\ \A f \in {"state", "rule", "requested", "source_ids", "min_similarity", "after",
                    "first"} :
                 Turn(s)[f] = s[f]
<1>1. PICK page \in Seq(Embeddings), cursor \in {NoCursor} \cup [distance : Nat, embedding_id : Nat] :
          /\ Turn(s) = [s EXCEPT !.hits = s.hits \o page, !.next_cursor = cursor]
          /\ Sorted(page)
          /\ \A i \in DOMAIN page : page[i] \in Behind(s)
          /\ cursor # NoCursor => page # <<>> /\ cursor = CursorOf(Last(page))
          /\ \A e \in Behind(s) : \/ e \in Range(page)
                                  \/ cursor # NoCursor /\ Before(Last(page), e)
  BY TurnTakes
<1> DEFINE t == Turn(s)
           h == s.hits
           k == Len(h)
           g == h \o page
<1>2. /\ h \in Seq(Embeddings) /\ k \in Nat
      /\ Len(page) \in Nat
      /\ g \in Seq(Embeddings)
      /\ Len(g) = k + Len(page)
      /\ \A i \in 1..k : g[i] = h[i]
      /\ \A i \in 1..Len(page) : g[k + i] = page[i]
      /\ DOMAIN g = 1..(k + Len(page))
      /\ DOMAIN page = 1..Len(page)
      /\ DOMAIN h = 1..k
  BY DEF SearchType
<1>3. /\ t \in SearchType
      /\ t.hits = g /\ t.next_cursor = cursor
      /\ t.state = s.state /\ t.rule = s.rule /\ t.requested = s.requested
      /\ t.source_ids = s.source_ids /\ t.min_similarity = s.min_similarity
      /\ t.after = s.after /\ t.first = s.first
  BY <1>1, <1>2 DEF SearchType
<1>4. Sorted(h) /\ (\A i \in 1..k : Eligible(s, h[i]) /\ AfterCursor(s.after, h[i]))
  <2>1. CASE h = <<>>
    BY <1>2, <2>1 DEF Sorted
  <2>2. CASE h # <<>>
    BY <1>2, <2>2 DEF Resumable, Paged
  <2> QED BY <2>1, <2>2
<1>5. k > 0 => /\ h # <<>> /\ Last(h) = h[k] /\ Last(h) \in Embeddings
               /\ s.next_cursor = CursorOf(Last(h))
               /\ Paged(s)
  BY <1>2 DEF Resumable, Paged, Last
<1>6. ASSUME NEW i \in 1..k, NEW e \in Behind(s)
      PROVE  Before(h[i], e)
  <2>1. e \in Embeddings /\ AfterCursor(s.next_cursor, e)
    BY DEF Behind, RowsInv
  <2>2. k > 0 /\ k \in 1..k /\ h[i] \in Embeddings /\ h[k] \in Embeddings
    BY <1>2
  <2>3. Before(h[k], e)
    BY <1>5, <2>1, <2>2, BehindCursor
  <2>4. CASE i = k
    BY <2>3, <2>4
  <2>5. CASE i # k
    <3>1. i < k /\ i \in DOMAIN h /\ k \in DOMAIN h
      BY <1>2, <2>2, <2>5
    <3>2. Before(h[i], h[k])
      BY <1>4, <3>1 DEF Sorted
    <3> QED BY <2>1, <2>2, <2>3, <3>2, BeforeOrder
  <2> QED BY <2>4, <2>5
<1>7. Sorted(g)
  <2> SUFFICES ASSUME NEW i \in DOMAIN g, NEW j \in DOMAIN g, i < j
               PROVE  Before(g[i], g[j])
    BY DEF Sorted
  <2>1. CASE j <= k
    BY <1>2, <1>4, <2>1 DEF Sorted
  <2>2. CASE i <= k /\ j > k
    <3>1. j - k \in 1..Len(page) /\ g[j] = page[j - k] /\ i \in 1..k /\ g[i] = h[i]
      BY <1>2, <2>2
    <3>2. page[j - k] \in Behind(s)
      BY <1>1, <1>2, <3>1
    <3> QED BY <1>6, <3>1, <3>2
  <2>3. CASE i > k
    <3>1. /\ i - k \in 1..Len(page) /\ g[i] = page[i - k]
          /\ j - k \in 1..Len(page) /\ g[j] = page[j - k]
          /\ i - k < j - k
      BY <1>2, <2>3, SMTT(30)
    <3> QED BY <1>1, <1>2, <3>1 DEF Sorted
  <2> QED BY <1>2, <2>1, <2>2, <2>3
<1>8. \A i \in DOMAIN g : Eligible(s, g[i]) /\ AfterCursor(s.after, g[i])
  <2> SUFFICES ASSUME NEW i \in DOMAIN g PROVE Eligible(s, g[i]) /\ AfterCursor(s.after, g[i])
    OBVIOUS
  <2>1. CASE i <= k
    BY <1>2, <1>4, <2>1
  <2>2. CASE i > k
    <3>1. i - k \in 1..Len(page) /\ g[i] = page[i - k]
      BY <1>2, <2>2
    <3>2. page[i - k] \in Behind(s)
      BY <1>1, <1>2, <3>1
    <3>3. Eligible(s, g[i]) /\ AfterCursor(s.next_cursor, g[i]) /\ g[i] \in Embeddings
      BY <3>1, <3>2 DEF Behind, RowsInv
    <3>4. CASE h = <<>>
      <4>1. s.next_cursor = s.after
        BY <3>4 DEF Resumable, Paged
      <4> QED BY <3>3, <4>1
    <3>5. CASE h # <<>>
      <4>1. k \in 1..k /\ h[k] \in Embeddings /\ AfterCursor(s.after, h[k])
        BY <1>2, <1>4, <3>5
      <4>2. Before(h[k], g[i])
        BY <1>6, <3>1, <3>2, <4>1
      <4>3. s.after \in {NoCursor} \cup [distance : Nat, embedding_id : Nat]
        BY DEF SearchType
      <4> QED BY <3>3, <4>1, <4>2, <4>3, CursorOrder
    <3> QED BY <3>4, <3>5
  <2> QED BY <1>2, <2>1, <2>2
<1>9. cursor # NoCursor => g # <<>> /\ Last(g) = Last(page)
  <2> SUFFICES ASSUME cursor # NoCursor PROVE g # <<>> /\ Last(g) = Last(page)
    OBVIOUS
  <2>1. Len(page) > 0
    BY <1>1, <1>2
  <2>2. Len(g) > 0 /\ g[Len(g)] = page[Len(page)]
    BY <1>2, <2>1
  <2> QED BY <1>2, <2>2 DEF Last
<1>10. ASSUME NEW e \in s.first, Eligible(s, e), AfterCursor(s.after, e)
       PROVE  e \in Range(g) \/ (cursor # NoCursor /\ Before(Last(g), e))
  <2>1. e \in rows /\ e \in Embeddings
    BY DEF RowsInv
  <2>2. CASE e \in Range(h)
    <3>1. PICK i \in 1..k : h[i] = e
      BY <1>2, <2>2 DEF Range
    <3>2. i \in DOMAIN g /\ g[i] = e
      BY <1>2, <3>1
    <3> QED BY <3>2 DEF Range
  <2>3. CASE e \notin Range(h)
    <3>1. AfterCursor(s.next_cursor, e)
      <4>1. CASE s.next_cursor = s.after
        BY <1>10, <4>1
      <4>2. CASE s.next_cursor # s.after
        <5>1. Paged(s) /\ s.next_cursor # NoCursor /\ Before(Last(h), e)
          BY <1>10, <2>3, <4>2 DEF Resumable, Paged
        <5>2. k > 0
          BY <1>2, <4>2, <5>1 DEF Paged
        <5> QED BY <1>5, <2>1, <5>1, <5>2, BehindCursor
      <4> QED BY <4>1, <4>2
    <3>2. e \in Behind(s)
      BY <1>10, <2>1, <3>1 DEF Behind
    <3>3. CASE e \in Range(page)
      <4>1. PICK i \in 1..Len(page) : page[i] = e
        BY <1>2, <3>3 DEF Range
      <4>2. k + i \in DOMAIN g /\ g[k + i] = e
        BY <1>2, <4>1
      <4> QED BY <4>2 DEF Range
    <3>4. CASE e \notin Range(page)
      BY <1>1, <1>9, <3>2, <3>4
    <3> QED BY <3>3, <3>4
  <2> QED BY <2>2, <2>3
<1>11. Paged(t)
  <2> HIDE DEF t, g
  <2>1. \A e : Eligible(t, e) <=> Eligible(s, e)
    BY <1>3 DEF Eligible
  <2> QED BY <1>1, <1>3, <1>7, <1>8, <1>9, <1>10, <2>1 DEF Paged
<1> QED BY <1>3, <1>11

(***************************************************************************)
(* What a request leaves in search after one call of search_embeddings.    *)
(***************************************************************************)
LEMMA AnswerPages ==
    ASSUME RowsInv, NEW s \in SearchType, s.first \subseteq rows, Resumable(s),
           NEW open \in {"more", "cut"},
           search' = [Turn(s) EXCEPT !.state = Ending(Turn(s), open)]
    PROVE  /\ search' \in SearchType
           /\ search'.state \in {open, "done"}
           /\ search'.state = "done" <=> search'.next_cursor = NoCursor
           /\ Paged(search')
           /\ search'.first = s.first
           /\ search'.rule = s.rule
           /\ search'.requested = s.requested
           /\ search'.source_ids = s.source_ids
<1>1. PICK t : t = Turn(s)
  OBVIOUS
<1>2. /\ t \in SearchType
      /\ Paged(t)
      /\ t.rule = s.rule /\ t.requested = s.requested /\ t.source_ids = s.source_ids
      /\ t.first = s.first
  BY <1>1, TurnPages
<1>3. PICK u : u = search'
  OBVIOUS
<1>4. u = [t EXCEPT !.state = IF t.next_cursor = NoCursor THEN "done" ELSE open]
  BY <1>1, <1>3 DEF Ending
<1>5. /\ u \in SearchType
      /\ u.state = IF t.next_cursor = NoCursor THEN "done" ELSE open
      /\ u.rule = t.rule /\ u.requested = t.requested /\ u.source_ids = t.source_ids
      /\ u.min_similarity = t.min_similarity /\ u.after = t.after /\ u.hits = t.hits
      /\ u.next_cursor = t.next_cursor /\ u.first = t.first
  BY <1>2, <1>4 DEF SearchType
<1>6. Paged(u)
  BY <1>2, <1>5, SamePages
<1> QED BY <1>2, <1>3, <1>5, <1>6

(* The search of a client that has asked nothing has its type.             *)
LEMMA NoSearchStarts == NoSearch \in SearchType
<1> QED BY DEF NoSearch, SearchType

Started(s, rule, requested, source_ids) ==
    /\ s \in SearchType
    /\ s.first \subseteq rows
    /\ Resumable(s)
    /\ s.rule = rule /\ s.requested = requested /\ s.source_ids = source_ids

(* A new request starts from no hits and behind its own cursor.            *)
LEMMA RequestStarts ==
    ASSUME RowsInv, NEW rule \in SUBSET Rules, NEW requested \in SUBSET Sources,
           NEW source_ids \in SUBSET Sources, NEW m \in Minima, NEW cursor \in Cursors,
           NEW s, s = Request(rule, requested, source_ids, m, cursor)
    PROVE  Started(s, rule, requested, source_ids)
<1>1. m \in Nat /\ cursor \in {NoCursor} \cup [distance : Nat, embedding_id : Nat]
  BY SearchAssumption
<1>2. PICK n : n = NoSearch
  OBVIOUS
<1>3. n \in SearchType /\ n.hits = <<>>
  BY <1>2, NoSearchStarts DEF NoSearch
<1>4. PICK c \in SearchType : c = [n EXCEPT !.after = cursor, !.next_cursor = cursor]
  BY <1>1, <1>3 DEF SearchType
<1>5. c.hits = <<>> /\ c.after = cursor /\ c.next_cursor = cursor
  BY <1>3, <1>4 DEF SearchType
<1>6. s = [c EXCEPT !.rule = rule, !.requested = requested, !.source_ids = source_ids,
                    !.min_similarity = m, !.first = rows]
  BY <1>2, <1>3, <1>4 DEF Request, SearchType
<1>7. s \in SearchType
  <2>1. PICK r \in SUBSET Embeddings : r = rows
    BY DEF RowsInv
  <2>2. PICK t \in SearchType :
            t = [c EXCEPT !.rule = rule, !.requested = requested, !.source_ids = source_ids]
    BY DEF SearchType
  <2>3. s = [t EXCEPT !.min_similarity = m, !.first = r]
    BY <1>6, <2>1, <2>2 DEF SearchType
  <2> QED BY <1>1, <2>3 DEF SearchType
<1>8. /\ s.hits = <<>> /\ s.next_cursor = s.after /\ s.first = rows
      /\ s.rule = rule /\ s.requested = requested /\ s.source_ids = source_ids
  BY <1>5, <1>6 DEF SearchType
<1> QED BY <1>7, <1>8 DEF Started, Resumable

(***************************************************************************)
(* Every step keeps SearchInv, given what is proved of the scope of rules. *)
(***************************************************************************)
LEMMA SearchStep ==
    ASSUME ScopeInv, SearchInv, [SearchNext]_searchVars
    PROVE  SearchInv'
<1> USE DEF SearchInv
<1>1. CASE (\E r \in Rules, values \in Values : Create(r, values)) /\ UNCHANGED <<rows, search>>
  <2>1. PICK r \in Rules, values \in Values : Create(r, values)
    BY <1>1
  <2>2. RowsInv' /\ PageInv'
    BY <1>1 DEF RowsInv, PageInv
  <2>3. \A q \in created : q # r /\ q \in created' /\ filters'[q] = filters[q]
    BY <2>1 DEF Create, ScopeInv, TypeOK
  <2>4. RuleInv'
    BY <1>1, <2>3 DEF RuleInv
  <2> QED BY <2>2, <2>4
<1>2. CASE (\E source \in Sources : Deliver(source)) /\ UNCHANGED <<rows, search>>
  BY <1>2 DEF Deliver, RowsInv, PageInv, RuleInv
<1>3. ASSUME NEW e \in Embeddings, AddEmbedding(e) PROVE SearchInv'
  <2>1. RowsInv'
    BY <1>3, FS_AddElement DEF AddEmbedding, RowsInv
  <2>2. PageInv' /\ RuleInv'
    BY <1>3 DEF AddEmbedding, PageInv, RuleInv
  <2> QED BY <2>1, <2>2
<1>4. ASSUME NEW requested \in SUBSET Sources, NEW m \in Minima, NEW cursor \in Cursors,
             FirstPage(requested, m, cursor)
      PROVE  SearchInv'
  <2>1. PICK s : s = Request({}, requested, requested, m, cursor)
    OBVIOUS
  <2>2. s \in SearchType /\ s.first \subseteq rows /\ Resumable(s) /\ s.rule = {}
    BY <2>1, RequestStarts DEF Started
  <2>3. search' = [Turn(s) EXCEPT !.state = Ending(Turn(s), "more")]
    BY <1>4, <2>1 DEF FirstPage
  <2>4. /\ search' \in SearchType /\ Paged(search') /\ search'.first = s.first
        /\ search'.state \in {"more", "done"} /\ search'.rule = {}
        /\ search'.state = "done" <=> search'.next_cursor = NoCursor
    BY <2>2, <2>3, AnswerPages
  <2>5. UNCHANGED <<created, filters, rows>>
    BY <1>4 DEF FirstPage
  <2> QED BY <2>2, <2>4, <2>5 DEF RowsInv, PageInv, RuleInv
<1>5. CASE NextPage
  <2>1. PICK s : s = search
    OBVIOUS
  <2>2. s \in SearchType /\ s.first \subseteq rows /\ Resumable(s) /\ s.rule = {}
    BY <1>5, <2>1 DEF NextPage, PageInv, RuleInv, Resumable
  <2>3. search' = [Turn(s) EXCEPT !.state = Ending(Turn(s), "more")]
    BY <1>5, <2>1 DEF NextPage
  <2>4. /\ search' \in SearchType /\ Paged(search') /\ search'.first = s.first
        /\ search'.state \in {"more", "done"} /\ search'.rule = {}
        /\ search'.state = "done" <=> search'.next_cursor = NoCursor
    BY <2>2, <2>3, AnswerPages
  <2>5. UNCHANGED <<created, filters, rows>>
    BY <1>5 DEF NextPage
  <2> QED BY <2>2, <2>4, <2>5 DEF RowsInv, PageInv, RuleInv
<1>6. ASSUME NEW r \in Rules, NEW requested \in SUBSET Sources, NEW m \in Minima,
             NEW cursor \in Cursors, EvaluateRule(r, requested, m, cursor)
      PROVE  SearchInv'
  <2>1. r \in created /\ ScopeOk(filters[r], requested) /\ UNCHANGED <<created, filters, rows>>
    BY <1>6 DEF EvaluateRule, Evaluate
  <2>2. constrain_search_sources(filters[r], requested) \in SUBSET Sources
    <3>1. parse_source_filter_ids(filters[r]) \subseteq Sources
      BY <2>1, StoredScope, RoundTrip DEF ScopeInv, TypeOK
    <3> QED BY <3>1 DEF constrain_search_sources
  <2>3. PICK rule \in SUBSET Rules, source_ids \in SUBSET Sources :
            rule = {r} /\ source_ids = constrain_search_sources(filters[r], requested)
    BY <2>2
  <2>4. PICK s : s = Request(rule, requested, source_ids, m, cursor)
    OBVIOUS
  <2>5. /\ s \in SearchType /\ s.first \subseteq rows /\ Resumable(s)
        /\ s.rule = {r} /\ s.requested = requested /\ s.source_ids = source_ids
    <3>1. Started(s, rule, requested, source_ids)
      BY <2>4, RequestStarts, Zenon
    <3> QED BY <2>3, <3>1 DEF Started
  <2>6. search' = [Turn(s) EXCEPT !.state = Ending(Turn(s), "cut")]
    BY <1>6, <2>3, <2>4 DEF EvaluateRule
  <2>7. /\ search' \in SearchType /\ Paged(search') /\ search'.first = s.first
        /\ search'.state \in {"cut", "done"} /\ search'.rule = {r}
        /\ search'.requested = requested /\ search'.source_ids = source_ids
        /\ search'.state = "done" <=> search'.next_cursor = NoCursor
    BY <2>5, <2>6, AnswerPages
  <2>8. RowsInv' /\ PageInv'
    BY <2>1, <2>5, <2>7 DEF RowsInv, PageInv
  <2>9. RuleInv'
    BY <2>1, <2>3, <2>7 DEF RuleInv
  <2> QED BY <2>8, <2>9
<1>7. CASE NewSearch
  <2>1. /\ search' \in SearchType
        /\ search'.first = {} /\ search'.state = "idle" /\ search'.rule = {}
    BY <1>7, NoSearchStarts DEF NewSearch, NoSearch
  <2>2. UNCHANGED <<created, filters, rows>>
    BY <1>7 DEF NewSearch
  <2> QED BY <2>1, <2>2 DEF RowsInv, PageInv, RuleInv
<1>8. CASE UNCHANGED searchVars
  BY <1>8 DEF searchVars, RowsInv, PageInv, RuleInv
<1> QED BY <1>1, <1>2, <1>3, <1>4, <1>5, <1>6, <1>7, <1>8 DEF SearchNext

(***************************************************************************)
(* Search_embeddings, called page by page or once by an evaluation, keeps  *)
(* the invariants of paging and of the scope.                              *)
(***************************************************************************)
THEOREM SearchInvariance == SearchSpec => [](ScopeInv /\ SearchInv)
<1>1. SearchInit => SearchInv
  <2> SUFFICES ASSUME SearchInit PROVE SearchInv
    OBVIOUS
  <2>1. /\ search \in SearchType
        /\ search.first = {} /\ search.state = "idle" /\ search.rule = {}
    BY NoSearchStarts DEF SearchInit, NoSearch
  <2>2. RowsInv
    BY FS_EmptySet DEF SearchInit, RowsInv
  <2> QED BY <2>1, <2>2 DEF SearchInv, PageInv, RuleInv
<1>2. SearchSpec => []ScopeInv
  BY SearchImplementsScope, ScopeInvariance, PTL
<1>3. ScopeInv /\ SearchInv /\ [SearchNext]_searchVars => SearchInv'
  BY SearchStep
<1> QED BY <1>1, <1>2, <1>3, PTL DEF SearchSpec

-----------------------------------------------------------------------------
(***************************************************************************)
(* For every table, page size, threshold, distance function and first      *)
(* cursor: no hit behind that cursor is skipped or repeated across pages,  *)
(* however many rows tie at a page's end or with the cursor, and however   *)
(* many are added while the client pages.                                  *)
(***************************************************************************)
THEOREM Tiling == SearchSpec => []PagesTile
<1>1. SearchInv => PagesTile
  BY DEF SearchInv, PageInv, Paged, Sorted, PagesTile, Range
<1> QED BY <1>1, SearchInvariance, PTL

(***************************************************************************)
(* An evaluation answers for exactly the scope the owner named: its hits   *)
(* are of that scope, and a similar enough row of that scope which is not  *)
(* among them is one the cursor of the request leaves out, or lies behind  *)
(* the last hit of an answer that was cut off.                             *)
(***************************************************************************)
THEOREM Coverage == SearchSpec => []EvaluationCoversScope
<1>1. ScopeInv /\ SearchInv => EvaluationCoversScope
  <2> SUFFICES ASSUME ScopeInv, SearchInv, NEW r \in search.rule
               PROVE  LET hits == Range(search.hits) IN
                      /\ \A e \in hits : SourceOf[e] \in AskedScope(r)
                      /\ \A e \in search.first \ hits :
                            /\ SourceOf[e] \in AskedScope(r)
                            /\ search.requested = {} \/ SourceOf[e] \in search.requested
                            /\ Scale - Distance[e] >= search.min_similarity
                            => \/ search.after # NoCursor /\ ~ AfterCursor(search.after, e)
                               \/ search.state = "cut" /\ Before(Last(search.hits), e)
    BY DEF EvaluationCoversScope
  <2>1. /\ search \in SearchType
        /\ search.state \in {"cut", "done"}
        /\ Paged(search)
        /\ search.state = "done" <=> search.next_cursor = NoCursor
    BY DEF SearchInv, PageInv, RuleInv, SearchType
  <2>2. /\ r \in created
        /\ ScopeOk(filters[r], search.requested)
        /\ search.source_ids = constrain_search_sources(filters[r], search.requested)
    BY DEF SearchInv, RuleInv
  <2>3. /\ parse_source_filter_ids(filters[r]) = parse_source_filter_ids(asked[r])
        /\ parse_source_filter_ids(filters[r]) = {} <=> asked[r] = {}
    BY <2>2, StoredScope
  <2>4. AskedScope(r) = Searched(parse_source_filter_ids(filters[r]))
    BY <2>3 DEF AskedScope, Searched, parse_source_filter_ids
  <2>5. search.requested \subseteq AskedScope(r)
    BY <2>1, <2>2, <2>4 DEF ScopeOk, Searched, SearchType
  <2>6. Searched(search.source_ids) =
            IF search.requested = {} THEN AskedScope(r) ELSE search.requested
    BY <2>2, <2>4 DEF constrain_search_sources, Searched
  <2>7. \A e \in Range(search.hits) : SourceOf[e] \in AskedScope(r)
    BY <2>1, <2>5, <2>6 DEF Paged, Eligible, Range
  <2>8. ASSUME NEW e \in search.first \ Range(search.hits),
               SourceOf[e] \in AskedScope(r),
               search.requested = {} \/ SourceOf[e] \in search.requested,
               Scale - Distance[e] >= search.min_similarity,
               search.after # NoCursor => AfterCursor(search.after, e)
        PROVE  search.state = "cut" /\ Before(Last(search.hits), e)
    <3>1. Eligible(search, e)
      BY <2>6, <2>8 DEF Eligible
    <3>2. AfterCursor(search.after, e)
      BY <2>8 DEF AfterCursor
    <3> QED BY <2>1, <2>8, <3>1, <3>2 DEF Paged
  <2> QED BY <2>7, <2>8
<1> QED BY <1>1, SearchInvariance, PTL
=============================================================================
