----------------------------- MODULE SourceScope -----------------------------
(***************************************************************************)
(* The source scope of alert rules: src/source_scope.rs, its use when a    *)
(* rule is created (alerts.rs), when a rule is evaluated                   *)
(* (server_routes.rs, store.rs) and when a page is delivered               *)
(* (reverse_match.rs).                                                     *)
(*                                                                         *)
(* A filter is a string; Parse says which source it names.  Several        *)
(* strings name one source (upper case, bare, prefixed, padded); one of    *)
(* them is canonical, source:<uuid>.  The reverse path compares strings,   *)
(* the historical path compares sources.                                   *)
(***************************************************************************)
EXTENDS Naturals, Sequences, FiniteSets

CONSTANTS
    Sources,      \* source identifiers
    Strings,      \* filter strings
    Invalid,      \* the error of parse_source_filter
    Parse,        \* Parse[v]: the source v names, or Invalid
    Canonical,    \* Canonical[s]: the string source:<s>
    MaxFilters,   \* MAX_SOURCE_FILTERS (100)
    MaxSourceIds, \* the bound of EmbeddingSearchRequest::validate (eal_interfaces)
    Rules         \* alert rules

ASSUME ScopeAssumption ==
    /\ Invalid \notin Sources
    /\ Parse \in [Strings -> Sources \cup {Invalid}]
    /\ Canonical \in [Sources -> Strings]
    /\ \A s \in Sources : Parse[Canonical[s]] = s
    /\ MaxFilters \in Nat
    /\ MaxSourceIds \in Nat
    /\ MaxFilters <= MaxSourceIds   \* docs/source-filter-enforcement.md: they match

(* The source_filters of a request: one more than the bound is refused.    *)
Values == UNION {[1..n -> Strings] : n \in 0..MaxFilters + 1}

VARIABLES
    asked,        \* asked[r]: the source_filters of the create request
    created,      \* rules that exist
    filters,      \* filters[r]: the stored source_filters
    historical,   \* pairs <<rule, source>> an evaluation has searched
    reverse       \* pairs <<rule, source>> a delivery has matched

vars == <<asked, created, filters, historical, reverse>>

Elements(values) == {values[i] : i \in DOMAIN values}

-----------------------------------------------------------------------------
(* parse_source_filter_ids is Ok: n values, each of which parses.          *)
ParsesOk(n, strings) == n <= MaxFilters /\ \A v \in strings : Parse[v] # Invalid

(* Its Ok value, a BTreeSet collected again: sorted, without repetitions.  *)
parse_source_filter_ids(strings) == {Parse[v] : v \in strings}

(* Mutant: values are checked and kept as they are.                        *)
normalize_source_filters_Keeps(strings) == strings

(* The strings that replace those of a create request.                     *)
normalize_source_filters(strings) ==
    {Canonical[s] : s \in parse_source_filter_ids(strings)}

(* Mutant: a request that overlaps the rule's scope is let through.        *)
ScopeOk_Overlaps(strings, requested) ==
    /\ ParsesOk(Cardinality(strings), strings)
    /\ LET rule_scope == parse_source_filter_ids(strings) IN
       rule_scope = {} \/ requested = {} \/ requested \cap rule_scope # {}

(* constrain_search_sources is Ok.                                         *)
ScopeOk(strings, requested) ==
    /\ ParsesOk(Cardinality(strings), strings)
    /\ LET rule_scope == parse_source_filter_ids(strings) IN
       rule_scope = {} \/ requested \subseteq rule_scope

(* Its Ok value, given the rule's filters and the sources of the request.  *)
(* (Without filters and without sources, both branches are empty.)         *)
constrain_search_sources(strings, requested) ==
    IF requested = {} THEN parse_source_filter_ids(strings) ELSE requested

(* The source_ids part of EmbeddingSearchRequest::validate, an external     *)
(* crate: the list is bounded.                                             *)
validate(source_ids) == Cardinality(source_ids) <= MaxSourceIds

(* search_embeddings: without source_ids there is no source clause.        *)
Searched(source_ids) == IF source_ids = {} THEN Sources ELSE source_ids

(* find_alert_candidates: no filters, or the string is among them.         *)
Admits(strings, source) == strings = {} \/ Canonical[source] \in strings

-----------------------------------------------------------------------------
Init ==
    /\ asked = [r \in Rules |-> {}]
    /\ created = {}
    /\ filters = [r \in Rules |-> {}]
    /\ historical = {}
    /\ reverse = {}

(* Mutant: the number of values is not bounded on creation.                *)
Create_Unbounded(r, values) ==
    /\ r \notin created
    /\ \A v \in Elements(values) : Parse[v] # Invalid
    /\ asked' = [asked EXCEPT ![r] = Elements(values)]
    /\ created' = created \cup {r}
    /\ filters' = [filters EXCEPT ![r] = normalize_source_filters(Elements(values))]
    /\ UNCHANGED <<historical, reverse>>

(* create_record: values that do not normalise are answered with 422.      *)
Create(r, values) ==
    /\ r \notin created
    /\ ParsesOk(Len(values), Elements(values))
    /\ asked' = [asked EXCEPT ![r] = Elements(values)]
    /\ created' = created \cup {r}
    /\ filters' = [filters EXCEPT ![r] = normalize_source_filters(Elements(values))]
    /\ UNCHANGED <<historical, reverse>>

(* evaluate_matches: a request outside the rule's scope, or one that is    *)
(* not valid as given or as constrained, is answered 422.                  *)
Evaluate(r, requested) ==
    /\ validate(requested)
    /\ r \in created
    /\ ScopeOk(filters[r], requested)
    /\ LET source_ids == constrain_search_sources(filters[r], requested) IN
       /\ validate(source_ids)
       /\ historical' = historical \cup {<<r, s>> : s \in Searched(source_ids)}
    /\ UNCHANGED <<asked, created, filters, reverse>>

(* reverse_match_page: every rule that admits the page's source.           *)
Deliver(source) ==
    /\ reverse' = reverse \cup {<<r, source>> : r \in {q \in created : Admits(filters[q], source)}}
    /\ UNCHANGED <<asked, created, filters, historical>>

Next ==
    \/ \E r \in Rules, values \in Values : Create(r, values)
    \/ \E r \in Rules, requested \in SUBSET Sources : Evaluate(r, requested)
    \/ \E source \in Sources : Deliver(source)

Spec == Init /\ [][Next]_vars

-----------------------------------------------------------------------------
(* Rules exist in Rules, filters are strings, searches name rules and      *)
(* sources.                                                                *)
TypeOK ==
    /\ asked \in [Rules -> SUBSET Strings]
    /\ created \in SUBSET Rules
    /\ filters \in [Rules -> SUBSET Strings]
    /\ historical \in SUBSET (Rules \X Sources)
    /\ reverse \in SUBSET (Rules \X Sources)

(* What the owner of rule r asked for: the sources it named, or all.       *)
AskedScope(r) ==
    IF asked[r] = {} THEN Sources ELSE {Parse[v] : v \in asked[r]}

(***************************************************************************)
(* The strengthening that makes the properties below inductive: stored     *)
(* filters are the canonical strings of the accepted values, no more than  *)
(* the bound, and only rules that exist have been searched or matched.     *)
(***************************************************************************)
ScopeInv ==
    /\ TypeOK
    /\ \A r \in created :
          /\ \A v \in asked[r] : Parse[v] # Invalid
          /\ filters[r] = normalize_source_filters(asked[r])
          /\ Cardinality(filters[r]) <= MaxFilters
          /\ Cardinality(parse_source_filter_ids(asked[r])) \in 0..MaxFilters
    /\ \A pair \in historical \cup reverse : pair[1] \in created

(***************************************************************************)
(* Neither path ever looks outside the sources the owner named when the    *)
(* rule was created, whatever strings named them and whatever sources a    *)
(* later request asks for.  An empty source_ids lifts the restriction in   *)
(* search_embeddings, so the constrained scope of a restricted rule must   *)
(* never be empty (docs/source-filter-enforcement.md).                     *)
(***************************************************************************)
WithinScope ==
    \A r \in Rules, s \in Sources :
        <<r, s>> \in historical \cup reverse => s \in AskedScope(r)

(***************************************************************************)
(* The two paths agree: a page of a source is matched on delivery, which   *)
(* compares strings in SQL, exactly when an evaluation without source_ids, *)
(* which compares parsed identifiers, would search it.                     *)
(***************************************************************************)
PathsAgree ==
    \A r \in created, s \in Sources :
        Admits(filters[r], s) <=> s \in Searched(constrain_search_sources(filters[r], {}))

(***************************************************************************)
(* A rule that was accepted can be used: evaluation parses and bounds the  *)
(* stored filters again and validates the list they become, and refuses    *)
(* the sources the owner named at neither point.                           *)
(***************************************************************************)
AcceptedIsUsable ==
    \A r \in created : LET scope == parse_source_filter_ids(asked[r]) IN
        /\ ScopeOk(filters[r], scope)
        /\ validate(constrain_search_sources(filters[r], scope))
        /\ validate(constrain_search_sources(filters[r], {}))
=============================================================================
