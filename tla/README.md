# Verification of eal-api

TLA+ models of the state-changing core of Embedded Alerts, the TLC runs that
check them on small instances, and TLAPS proofs about the alert-rule store, both
matching paths, the source scope of rules and searches, the analysis and
embedding of queries, the edge of the API, the event channel and the startup of replicas.

## 1. Inventory of the system

| Part | Code | State | Operations | What makes it correct |
|---|---|---|---|---|
| Durable alert rules | `src/alert_store.rs`, `server_routes.rs::create_record`, migrations 004 and 007 | `eal_alert_rules` (with `active_revision_id`), `eal_alert_rule_revisions`, advisory locks, connection pool | create (one transaction of four statements and a commit), get, list; a trigger on every activation | never more than ten enabled active rules per owner; all or nothing; what is acknowledged is durable; every request ends |
| Reverse-alert hot path | `src/reverse_match.rs`, `server_routes.rs::reverse_match_page`, `upsert_alert_embedding`, migrations 005 and 006 | pages, page revisions, alert embeddings, match candidates; nothing of the page's vector is kept | store an alert vector; deliver a page: upsert it, find alerts, persist candidates, commit | immutable, justified evidence; no missed alert; one history per page; a repeated delivery is accepted |
| Historical indexing and evaluation | `src/store.rs`, `server_routes.rs::ingest_page`, `evaluate_matches` | the same tables and `eal_embeddings` | ingest a page (one statement of six CTEs); evaluate a rule: search, one upsert per hit, events | the threshold is never lowered; announced rows are durable; a page is indexed |
| Source policies | `store.rs` 81-197, `indexing.rs` | `eal_sources` | create, get, list; canonicalise a URL | no page outside the allow lists of its source is stored, redirects included |
| Source scope | `source_scope.rs`, its callers in `alerts.rs`, `server_routes.rs`, `store.rs` and the SQL of `reverse_match.rs` | `source_filters` of a rule revision | normalise on creation, constrain on evaluation, filter on delivery | a request never widens a rule's scope; both paths agree on it |
| Embedding search | `store.rs::search_embeddings`, `evaluate_matches` | `eal_embeddings`, a cursor in the client's hands | first page, next page, the one page of an evaluation | pages neither repeat nor skip a hit; an evaluation keeps the nearest |
| Live events | `server_websocket.rs`, `server_runtime.rs` | a broadcast channel of 512 slots, two tasks per socket | publish, receive, lag, close | only the audience sees an event; what is lost is reported; no task is left behind |
| Startup and migrations | `server_runtime.rs`, `migrations.rs` | `schema_ready`, the schema | migrate under an advisory lock, verify, policy | production never runs without database, schema, JWT and worker digest |
| Authentication | `auth_runtime.rs`, `worker_auth.rs`, `tenant.rs` | configuration | take one token from headers and cookies, verify it; authorise a worker, an origin | an identity is one the issuer granted; fail closed |
| Row-level security | migrations 004 and 006, `alert_store.rs` 13-84 and 235-256 | `app.*` settings of pooled connections | set the context, list, get | a request reads exactly its own rules, under its own settings |
| Query analysis and embedding | `crates/query`, `query_embedding.rs`, `bin/semantic_query_probe.rs` | none | classify, call the provider, weigh vectors | each vector reaches its input; a bad answer gives no vector |

All parts share one PostgreSQL database.  The handlers run concurrently on
tokio tasks; each takes connections from one pool.  The crawler is a separate
worker that repeats calls which were not acknowledged.  After a commit a
handler publishes to the in-process channel that WebSocket tasks read.

What is hard here is READ COMMITTED: a statement's snapshot is taken when it
starts, a conflict check or a row lock waits and then sees what is committed
later, and the `UNION ALL` fallback of the same statement still reads the old
snapshot.  Nearly every write of the program is such a statement.  The hazards,
each at its line, are listed in `PROJECT.json`.

## 2. Modules

| Module | Models | Extends |
|---|---|---|
| `AlertRules` | the create transaction, the trigger, other clients that re-point a rule | |
| `AlertLedger` | abstract: what the alert-rule store promises, one step per transaction | |
| `AlertRulesProofs` | theorems about `AlertRules` | `AlertRules`, `TLAPS` |
| `PageStore` | the tables of both matching paths, alert revisions and their vectors | |
| `ReverseMatch` | the delivery transaction of the reverse path | `PageStore` |
| `ReverseMatchProofs` | theorems about `ReverseMatch` | `ReverseMatch`, `TLAPS` |
| `HistoricalMatch` | historical ingest and evaluation | `PageStore` |
| `MatchStore` | both paths on one database | `ReverseMatch`, `HistoricalMatch` |
| `MatchStoreProofs` | theorems about both paths together | `MatchStore`, `ReverseMatchProofs` |
| `SourceScope` | the scope of a rule from creation to both matching paths | |
| `ScopedSearch` | searches page by page and evaluations, on a growing table | `SourceScope` |
| `ScopedSearchProofs` | theorems about `SourceScope` and `ScopedSearch` | `ScopedSearch`, `TLAPS` |
| `EventBus` | the broadcast channel and the WebSocket tasks | |
| `EventFeed` | abstract: what live events promise, one step per delivered event | |
| `EventBusProofs` | theorems about `EventBus` | `EventBus`, `TLAPS` |
| `Startup` | replicas that migrate, verify and serve | |
| `StartupProofs` | theorems about `Startup` | `Startup`, `TLAPS` |
| `Authentication` | identities: tokens, development headers, workers, origins (operators only) | |
| `SourcePolicies` | hosts, paths and canonical URLs of a source (operators only) | |
| `Gateway` | requests at the edge: admission, reads under row-level security, sources, pages | `Authentication`, `SourcePolicies` |
| `GatewayProofs` | theorems about `Gateway` | `Gateway`, `TLAPS` |
| `QueryAnalysis` | keywords, entities and embedding inputs of a query (operators only) | |
| `QueryEmbedding` | the embedding service: configuration, the call, the centroid | |
| `SemanticQuery` | the probe: analysis, then the embedding service | `QueryAnalysis`, `QueryEmbedding` |
| `SemanticQueryProofs` | theorems about `QueryAnalysis`, `QueryEmbedding` and `SemanticQuery` | `SemanticQuery`, `TLAPS` |
| `MCAlertRules`, `MCReverseMatch`, `MCMatchStore`, `MCScopedSearch`, `MCEventBus`, `MCStartup`, `MCGateway`, `MCSemanticQuery` | constants of the runs | |

### AlertRules

A transaction is a create request or the transaction of another database
client (the tests contain such clients; the trigger exists to bind them).  Every
identifier is a fresh UUID, so a request names the rule it creates and a
transaction the revision it writes.  `staged[t]` holds the uncommitted writes;
only `t` sees them.

| Action | Code |
|---|---|
| `Begin` | `db.begin()`, `set_request_context`; waits for a connection |
| `InsertRule`, `InsertRevision` | the two INSERTs of `create_alert_rule` |
| `AcquireLock` | the UPDATE reaches `pg_advisory_xact_lock` in the trigger |
| `Activate`, `RaiseLimit` | the rest of the trigger and of the UPDATE, both outcomes |
| `ReadBack`, `Commit`, `Respond` | the SELECT, the COMMIT, the event and the 201 |
| `Rollback`, `Crash` | an error in any statement; the server stops before it answers |
| `ClientRevision` | external: insert a revision, update the pointer |

`LockKey` is an arbitrary function from owners to keys, because
`hashtextextended` may collide.  `AnswersAreDurable` and the others do not
depend on it; in the run the keys of the two owners collide, and the proofs
cover every assignment.

The refinement to `AlertLedger` says that a transaction takes effect at its
commit and is refused at the moment the trigger raises.

### PageStore, ReverseMatch, HistoricalMatch, MatchStore

Rows are named by their natural keys (unique constraints): a revision is page
and content digest, a candidate is its match key.  Tenant, source and model
space are fixed: every query filters on them.  `Similarity` and `Threshold` are
arbitrary functions into `Levels`, the f64 values, and `AsF32` rounds a level as
`as f32` does: it is monotone and keeps a rule's threshold, which is a REAL.  The
runs use the levels 0..6, of which every third is an f32.

`ReverseMatch` splits a delivery where PostgreSQL does: `Deliver` takes the
snapshot of the upsert statement; `upsert_page_revision` waits for the page's
row and keeps it; `NoDurableRevision` is the empty fallback;
`find_alert_candidates` is the top-K search.  The insert of each candidate is
again two steps: `PersistStart` takes the snapshot of its statement, then it
waits for an open transaction with the same key, and its ON CONFLICT check looks
at what is committed now while its fallback (`Selects`) looks at the snapshot;
`persist_reverse_candidate` and `EvidenceConflict` are the outcomes.
`CommitDelivery` installs everything.  `AbortDelivery`, `LoseAnswer` and `Redeliver` are faults
and the crawler's answer to them.

`HistoricalMatch` models `store::ingest_page` by its CTEs, each an operator of
the CTE's name, evaluated on the snapshot `seen[i]`.  `updated_page` is empty
whenever `upserted_page` has written the same row, because PostgreSQL does not
update a row twice in one command.  An evaluation is `LoadRule`,
`search_embeddings`, one `UpsertStart` and `UpsertMatch` (or `NoDurableMatch`)
per hit, nearest first, and `Publish`.  The search compares with the threshold
rounded to f32 (`MinSimilarity`), the row records it unrounded
(`EffectiveThreshold`).  A client's cursor hides the nearest rows; `Behind` is
any such remainder, the cursor itself is in `ScopedSearch`.

### SourceScope

A filter is a string and `Parse` an arbitrary function from strings to sources
or to an error; `Canonical` is the form `source:<uuid>`.  All the model needs of
the formatting is that the canonical string of a source parses back to it.
`Create` normalises, `Evaluate` validates, constrains, validates again and
searches (an empty `source_ids` searches everything, as the SQL does).
`validate` is the bound of `source_ids` in `EmbeddingSearchRequest::validate`, of
an external crate; `MaxFilters <= MaxSourceIds` is assumed because
docs/source-filter-enforcement.md says that the two bounds match.
`Deliver` compares canonical strings as
the `jsonb` operator does.  Result types are split in two: `ParsesOk` and
`ScopeOk` say when a function returns Ok, the operator of the function's name
gives its Ok value.

### ScopedSearch

A row of `eal_embeddings` is a number, its identifier, with a source and a
distance; distances stand for all of the vector arithmetic.  `Turn` is one call
of `search_embeddings`: filter, cursor clause, order, one row more than the page
holds, truncation, next cursor.  A client keeps its cursor (`FirstPage`,
`NextPage`) while `AddEmbedding` commits rows; `EvaluateRule` is the route with
`constrain_search_sources` and the one page `store::evaluate_matches` takes.
Both requests may bring a cursor of their own (`after`), which the routes hand
through: the nearer rows are then skipped because the client asked for it, and
the properties say that nothing else is.  Tenant and embedding space are fixed.

### Authentication, SourcePolicies, Gateway

`Authentication` is a set of operators named after the functions: credentials
are lists of tokens, a token is a body and a signature that names its key and
the body it covers, spellings of tenants, subjects and roles are functions
(`Uuid`, `Trim`, `Role`) with several spellings per value.  `SourcePolicies`
works on sequences of characters, because `indexing.rs` looks for boundaries in
them; `Inside` states the same by labels and segments: `Split` cuts a text at
its separators, by counting those in front of each character.  `IsUrl` is what
`Url::parse` guarantees of a URL.

`Gateway` puts requests on top.  `script` fixes for each request what is called
and with which headers; `Admit` is the extractor of a route at the time `now`.

| Action | Code |
|---|---|
| `BeginRead`, `set_request_context`, `Select`, `CommitRead` | `list_alert_rules` and `get_alert_rule`, statement by statement on a connection of the pool |
| `AbortRead` | any error, or a dropped request: the transaction is rolled back |
| `CommitRule` | the commit of a create transaction (`AlertRules`) |
| `create_source`, `read_source` | the routes of source policies |
| `LoadSource`, `StorePage` | `ingest_page`: source, enabled, both URLs, then the store |
| `upsert_alert_embedding`, `reverse_match_page` | the workers' statements on the alert tables (`WorkerQuery`) |
| `ws_upgrade` | the upgrade after identity and origin |

`context[c]` are the three settings of a connection.  `set_config(..., true)`
is local to the transaction; after it PostgreSQL reports the empty string and
not NULL, which the policies' `NULLIF` absorbs.  The database role is one to
which the policies apply, as the repository's README asks.  The modules of the
matching paths, in contrast, describe a role that bypasses them; what the
documented role does to those paths is the third finding.

### QueryAnalysis, QueryEmbedding, SemanticQuery

A query is a sequence of words; what a word's characters decide (its token, its
lower case, keyword, name or instruction) is a function or a set.  The walk of
`extract_entities` is a fold and is compared with `EntityReference`, which
defines the maximal runs of capitalised words by positions.  `QueryEmbedding` is
`QueryEmbeddingService` for any list of inputs (`HandedOver`; the empty list,
which it refuses, is never handed over); `SemanticQuery` composes the two as the
only caller does, the probe.  The provider answers with anything; vectors lie on
the axes of the space, where dividing by the magnitude is exact, so the weighted
sum is an integer vector and is compared before the last scaling.  `Epsilon` is
the magnitude up to which a vector counts as zero (f64::EPSILON), so the runs
have a vector that is small and not zero.  Every refusal has the code of the
source and its retryable flag.
`Url::host_str` gives "[::1]" for the IPv6 loopback, so the "::1" of
`validate_endpoint` never matches; `loopback` means the other two names.

### EventBus

Events are named by their position in `sent`.  `cursor` and `start` are the
positions of a receiver, `Oldest` is the oldest event tokio's channel still
holds.  A session is `Subscribe`, then for its `send_task` `Receive`, `Lagged`,
`SendOk` and `SendError`, for its `receive_task` `PeerCloses`, and `Select`,
which aborts the task that is left.  `skipped` and `delivered` are history.  An
event that is published while nobody is subscribed disappears, as in the code,
and is not represented.

The refinement to `EventFeed` hides the channel: a session is open while its
`send_task` has not ended, an event is delivered when the send completes, and
what is missed is the visible part of `skipped`.  The feed always delivers the
earliest event that is due and loses, all at once, what is due and followed by
`Capacity` later events.

### Startup

`main` by its awaits: `Boot` (environment and authentication), `Connect`,
`BeginMigration` (the advisory lock), `ApplyMigration` once per file,
`CommitMigrations`, `Verify` (`schema_ready`, the policy, the origins, the
listener) and `Fail` at any point.  A replica can be started again with other
settings.  The schema is the number of the last migration and the version of
`eal_reject_match_evidence_mutation`, the one object that a second application
of the migrations changes on the way (005 installs an older body than 006).
`DeployJob` is the external job of the repository's README; it is assumed not
to run while a replica migrates.

## 3. Runs

| Run | Instance | Shows |
|---|---|---|
| `AlertRules` | 3 requests, 1 client, 2 owners with one lock key, limit 1, pool 2 | limit, atomicity, durable answers, the refinement, every request ends |
| `ReverseSafety` | 2 deliveries, 1 page, 2 contents, 2 vectors, 2 alerts, 1 fault | seven invariants and the immutability of history |
| `ReverseLiveness` | 3 copies of a delivery, 1 fault | every delivery is accepted |
| `MatchPaths` | 1 delivery, 1 ingest, 2 evaluations, 7 levels | both paths on one row |
| `ScopedSearch` | 1 rule, 3 sources, 5 strings, at most 2 filters and 2 source_ids, 4 embeddings, pages of 1, with and without a cursor | scope, agreement, usability, tiling pages, evaluations |
| `Events` | 2 sessions, capacity 2, 3 events | audience, order, no silent loss, the refinement, sockets end whole, events settle |
| `Startup` | 2 replicas, 8 environments, 3 starts | guards, posture, monotonicity, every start is decided |
| `SemanticQuery` | some 680 queries, 2 models, 6 environments, any answer | views, each vector to its input, good answers used, fail closed |
| `Gateway` | 2 requests of some 500 scripts, 1 connection, 2 rules of 3 owners, 3 seconds | issued identities, exact reads, own context, pages under policy |
| `PageIndexed` | 2 ingests that are repeated | violated, see Findings |
| `EvaluateRace` | 1 ingest, 2 evaluations | violated, see Findings |
| `WorkerContext` | as `Gateway` | violated, see Findings |

Bounds.  A limit of one with three requests of one owner reaches below, at and
above the limit; the trigger compares a count with a constant, so ten adds
nothing but states, and the proof covers every limit.  A pool smaller than the
number of requests makes requests wait for connections and for locks at once.
Two deliveries suffice for every race of the reverse path, because the page's
row serialises pairs; three copies in the liveness run let a delivery lose the
race repeatedly.  One page is enough: pages share no row and no lock.  Two
vectors and a strict alert give similarities below, at and above a threshold;
requests raise it to a level that f32 rounds down to a similarity and to one
that it rounds up.
`MaxCandidates = 1` with two alerts makes the LIMIT bite.  `MaxFaults` bounds
faults; without a bound a delivery could fail for ever.

A capacity of two and three events let a receiver lag; a session without lag,
one that lags and one that ends are all reached.
Four strings that parse and a bound of two give lists below, at and above the
bound, with and without repetitions.  Two replicas and three starts give every
pair of overlapping starts and a restart of either with other settings; the
proofs cover every number.

Three embeddings at one distance and a page of one put a tie on every page
boundary; the fourth is farther away.  The cursor a client brings points into
that tie.  A leeway of one and a clock from 0 to 2
let a token of each kind be early, in time and late.  One connection makes two
requests follow each other on it; `GatewayProofs` covers every pool.  A list
limit of one with two rules of three owners makes the limit bite with own and
foreign rules in either order.  Hosts are all texts of up to five characters
over a letter and the dot, paths all of up to four over a letter and the slash:
longer ones add labels and segments, not boundaries.  Two keywords, two names
and three inputs are each exceeded by queries of up to five words, with repeated
keywords and names.

The event, startup and gateway runs do not check for deadlock: sessions,
starts and requests are bounded and end.

Symmetry is used where no definition names an element of the permuted set, and
in no liveness run.

Fairness.  `AlertRules` assumes that a started handler continues and that a
free advisory lock is granted (`WF` of `Begin`, `Proceed`, and of the rollback
after a raised error): tokio polls ready tasks and PostgreSQL queues waiters.
Faults are not fair.  `ReverseFairSpec` assumes the same of a delivery and that
the crawler sends and repeats what was not acknowledged; the crawler is
external, README.md of the repository gives it retry leases.  `FairSpec` of
`MatchStore` assumes the same of ingests.

`EventBus` assumes that a ready task runs and that a peer that stays connected
reads (otherwise a send may wait for ever, and lag is the intended outcome);
that a peer closes or a send fails is never assumed.  `Startup` assumes that
`main` continues and that a lock which stays free is granted; starts are
bounded, so a waiter is not overtaken for ever (PostgreSQL queues waiters).

Every property of a passing run has a mutant: an operator beside the definition
it alters (`UnderLimit_CountsItself`, `Release_Leaks`, ...) that changes it as a
plausible bug would and under which TLC finds the property violated.

## 4. Findings

1. **Historical ingest never succeeds** (`PageIndexed`, `src/store.rs:349`).
   The first call for a page stores only the page row, since
   `inserted_revision` joins a row its own statement has inserted.  Later calls
   store the revision and the vector, but `updated_page` is always empty and
   with it the final SELECT: 500 "page ingestion returned no durable record",
   no event, and `latest_revision_id` stays NULL.  The reverse path avoids both
   (it returns `latest_revision_id` from the upsert and updates the page in a
   second statement).
2. **Concurrent evaluations fail although the row is there** (`EvaluateRace`,
   `src/store.rs:597`).  The fallback SELECT does not see the row whose commit
   made the insert conflict.  A repeat succeeds.
3. **Workers read the alert tables without a context** (`WorkerContext`,
   `src/reverse_match.rs:458`).  Migration 004 says that application queries set
   the three `app.*` settings before they touch these tables;
   `upsert_alert_rule_embedding` and `find_alert_candidates` do not.  With a
   role to which the forced policies apply they see no rule: the upsert is
   answered 422 and a delivery succeeds without candidates.  The paths work only
   for a role that bypasses row-level security.

Observed and not findings: the limit's check violation surfaces as 500, like
every `DbErr`; disabled rules are not limited while the list is cut at 500; a
create has no idempotency key; one content delivered with two vectors is
refused with 409 for ever, and so is a match key first used by the other path
(`ConflictsAreGenuine` says that this is the only reason for a 409); a threshold
that a request raises above the rule's is rounded to f32 for the search and
recorded unrounded, so a stored similarity may lie below the recorded threshold
by that rounding, never below the rule's (`CandidatesJustified`); a late
delivery of old content moves `latest_revision_id` back; a page that only
historical ingest has written gets several first revisions (a consequence of the
first finding); a host with a trailing dot keeps it in its canonical URL; a
WebSocket keeps the identity of its upgrade beyond the expiry of the token.

## 5. Proofs

`AlertRulesProofs` proves, for every finite or infinite set of requests,
clients, owners and keys, every `LockKey`, `Limit` and `PoolSize` allowed by
`ConstantsAssumption`:

- `Invariance`: `Spec => []IndInv`;
- `LimitHolds`: `Spec => []ActiveLimit`;
- `Atomicity`: `Spec => []CreateIsAtomic`;
- `Serialised`: `Spec => []ActivationsSerialised`;
- `Admission`: `Spec => []AdmissionHolds`;
- `Answers`: `Spec => []AnswersAreDurable`;
- `Refinement`: `Spec => ImplementsLedger`;
- `Typing`: `Spec => []TypeOK`.

`ActiveLimit` is not inductive: a commit adds a rule without looking at the
count, which was taken steps earlier.  `IndInv` adds `AdmissionHolds` (from the
count to the commit there is room for one more), which other transactions
could only spoil by committing an activation of the same owner;
`LocksByPosition` excludes that, since such a transaction would hold the same
key (`HoldersDiffer`).  `StagedByPosition` says what a commit installs
(`CommitEffect`) and that a client's rule exists.  `QuietStep` covers the steps
that leave the tables alone.  `IsFiniteSet(rules)` is needed to count.

`AnswersAreDurable` needs `RowsByPosition` besides: a request has rows exactly
when it is past its commit, and an event only when it was answered.  For the
refinement, `COMMIT` is the ledger's `Store` (`CommitStores`, which takes the
room for one more from `AdmissionHolds`), the trigger's error is its refusal
(`LimitReached`), a failure is its failure, and every other step, the lock and
the pool included, stutters (`Invisible`).

`ReverseMatchProofs` proves, for every set of deliveries, pages, contents,
vectors and alerts, every similarity, threshold and `MaxCandidates`, and any
number of faults, from `StoreAssumption`, `RoundingAssumption` and
`ReverseAssumption`:

- `ReverseInvariance`: `ReverseSpec => []ReverseInv`;
- `History`, `Content`: `OneHistory` and `PagesHaveContent`;
- `ReverseCandidates`: `CandidatesJustified`;
- `ReverseDurable`, `ReverseComplete`: `AcceptedIsDurable` and `NoMissedMatch`;
- `ReverseConflicts`, `ReversePredecessor`: `ConflictsAreGenuine` and
  `PredecessorIsFresh`;
- `ReverseImmutable`: the action properties `HistoryImmutable` and
  `EvidenceImmutable`.

None of the invariants is inductive alone, because a delivery acts on what it
read statements ago.  `DeliveryInv(d)` says at each position of a delivery what
is still true of it: the page's row is its own and has not moved (`RowHeld`),
the keys it inserted are nobody else's (`KeysStaged`), what it reports is stored
or staged (`ReportBacked`), what it did not pick did not fit (`NothingMissed`,
with `TopKIsFull` for the LIMIT), that a row of its revision which its insert
does not see is none of another delivery (`InsertSees`), and why it was refused
(`ConflictBacked`).  `InsertSees` is what the page's row lock gives: a copy of
the delivery cannot commit while the statement is under way, so a row that the
fallback overlooks was written by the historical path and is other evidence.  A
step of another delivery or of an alert adds rows only (`Grown`) and leaves the
row and the keys of `d` alone (`Respected`); `Undisturbed` shows once that such
a step keeps `DeliveryInv(d)`, so each action needs an argument for its own
delivery only.  `HistoryStep` adds a revision on top of the page's latest one,
which is what keeps a page's history one line.

`MatchStoreProofs` proves for `Spec` of `MatchStore`, with any number of ingests
and evaluations beside the deliveries: `StoreInvariance`, `StoreTyping`,
`Justification` (`CandidatesJustified`), `Announcements`
(`AnnouncedAreDurable`), `Separation` (`PathsKeepApart`), `Immutability`
(`EvidenceImmutable` and `HistoryImmutable`), and `ReverseBesideHistorical`: the
four properties of the reverse path that survive the historical one.
`CoreUndisturbed` is the composition argument: a historical statement is `Grown`
and `Respected` for every delivery, since it waits for a locked row and a
pending key.  `EvaluationInv` adds that what an evaluation found stays found
until it stores it and that the key it failed on is taken.  `Thresholds` has the
arithmetic of `CandidatesJustified`: a threshold of at least the rule's, rounded,
is still at least the rule's, because rounding is monotone and keeps the rule's.  `OneHistory` and
`PagesHaveContent` are theorems of `ReverseSpec` only: historical ingest breaks
both, see the first finding.

`ScopedSearchProofs` proves of `SourceScope` `WithinScope` (`Scope`),
`PathsAgree` (`Agreement`) and `AcceptedIsUsable` (`Usability`) for all sources,
strings, rules and every `MaxFilters`, from `ScopeAssumption`.  The invariant
`ScopeInv` says that the stored filters are the canonical strings of the
accepted values, and that neither they nor the sources they name are more than
the bound: `NormalisedBound` gets the latter from surjections of the positions
(`ImageBound`), `RoundTrip` undoes the canonicalisation.  That the constrained
list passes the validation of the search needs `MaxFilters <= MaxSourceIds`.  `ScopedSearch` implements `SourceScope`
(`SearchImplementsScope`): a page of a search, a new row and a new search are
stuttering steps, an evaluation is an `Evaluate`.  The three properties follow
for searches (`ScopeOfSearches`).

The module also proves `PagesTile` (`Tiling`) and `EvaluationCoversScope`
(`Coverage`) for every table, distance, page size and threshold, from
`SearchAssumption`.  `OrderedIsSorted` shows that ORDER BY, which the model
writes as ranks, returns every row once and in order (ranks of n rows are
distinct and below n, so they are all of them).  `Paged` is the invariant of a
search: its cursor names its last hit, and an eligible row that was there for
the first page and lies behind the cursor of the request is a hit or lies behind
the present cursor; `CursorOrder` says that what comes after a row behind a
cursor lies behind that cursor too.  `TurnPages` keeps it whatever rows were added
since.  `RuleInv` ties an evaluation's sources to the stored filters of its
rule, and `StoredScope` those to what the owner asked for.

`SemanticQueryProofs` proves `EachVectorReachesItsInput` (`Pairing`),
`GoodAnswersAreUsed` (`Acceptance`) and `FailsClosed` (`Closed`) of `EmbedSpec`,
that is of `embed_inputs` for every list of inputs, model and answer, from
`EmbeddingAssumption`.  `SortedPicks` shows that the stable sort is a
permutation, `SortedContiguous` that it puts the indices 0 to n - 1 at their
places, `CompleteAnswers` and `GoodAnswersPass` what the checks accept.
`GoodAnswersAreUsed` has two halves: an answer is refused for cause, and a
failure is retryable exactly when the provider throttled the call or failed
itself, or could not be reached.

The module also proves `ViewsAreComplete` (`Views`) of the probe, for queries of
any length, all classes of words and all limits, from `QueryAssumption` and
`ProbeAssumption`: what the loops of `analyze_query` compute equals the
definitions by positions.  The argument for each loop:

- `TokenSteps`, `KeywordSteps` and `WordSteps` say what the walk has after each
  word, given what it had before.  They expand `FoldLeft` down to its recursive
  function, which is one because there is a function with these steps
  (`FoldExists`).
- `Upward` is the induction: a set that contains 0 and, with every number below
  n, the next one contains 0 to n.  It comes from the least counterexample.
- `Lists` is the loop invariant of both loops: the output is the first texts of
  a set of positions, in order and cut off at the limit.  `ListsMore` adds a
  position, `AllListed` says that nothing is missing when the limit was not
  reached, and `ListsIsFirst` that such a list is the reference definition.
- A keyword is added at the positions of `NewKeywords` (`KeywordsAreListed`).
  For entities `Kept` is the invariant: the names that begin before the pending
  words are listed, and the pending words are the run that has not ended yet
  (`Pending`).  `NameOfARun` identifies a run that ends with the name by
  position, `NothingBetween` shows that no other name begins inside it, and
  `Flushed` that flushing lists it unless it is a repetition.

`ProbeInvariance` carries this to the probe: `ProbeInv` says that what is handed
over is what the analysis made of the query and satisfies the precondition
`HandedOver` of the call, so that the three properties of `embed_inputs` hold of
the probe as well (`ProbeEmbeds`).

`StartupProofs` proves `GuardsStand` (`Guarded`), `ProductionPosture`
(`Posture`), `OneMigrator` (`MigratorsExclude`) and `SchemaAdvances`
(`Advancing`) for every set of replicas and settings and any number of starts,
from `StartupAssumption`.  `GuardsStand` needs to know what another replica will
commit; `StartupInv` adds that the lock follows the position and that a
transaction about to commit has the complete schema (`CommitCompletes`).
Serving from the database means that the schema is complete, so the deployment
job has nothing left to do.

`GatewayProofs` proves, for every set of requests, connections, rows and
scripts allowed by `GatewayAssumption` and `AuthAssumption`:

- `PoolInvariance`: `Spec => []Inv`;
- `OwnContext`: `Spec => []ContextIsOwn`;
- `ExactReads`: `Spec => []ReadsAreExact`;
- `IssuedIdentities`: `Spec => []IdentityIsIssued`;
- `PolicyInvariance`: `Spec => []PolicyInv`;
- `PolicedPages`: `Spec => []PagesUnderPolicy`.

`ContextIsOwn` is not inductive, because the SELECT takes the settings as it
finds them.  `Inv` adds that a connection has at most one request in a
transaction and a request one connection (`Holding`), and what its settings are
at each position (`Settings`): none before `set_request_context`, the identity
of the holder after it.  `ExactReads` needs `NewestIsExact`, that the LIMIT
keeps exactly the newest of a finite set of positions (`NewestByNewer`,
`LastOne`, `FirstOne` count), and that under the own settings the policy and the
WHERE clause agree (`SelectIsExact`), for which columns must not be empty.
`IssuedIdentities` rests on `OneToken`: what `extract_token` returns is the only
credential presented.

`PolicedPages` has two halves.  `PolicyInv` follows a page back to the request
that delivered it, the source that allowed it and the administrator who created
that source: identities are settled once and sources are only added, so what
was vetted when the source was loaded is still so when the page is stored.
`AllowedIsInside` is about text: the suffix with a dot in front that
`host_is_allowed` looks for has the same labels as the allowed host, with
others before them (`DotsMakeSubdomains`), and the prefix with a slash behind
it that `path_is_allowed` looks for has the first segments of the path
(`SlashesMakePaths`).  `FirstParts` and `LastParts` get this by counting
separators: in front of a character of a prefix there are as many as in the
whole text, in front of one of a suffix a constant number more, so every part
begins and ends at the same or at a shifted place (`SamePart`).  For the prefix
"/", which admits every path, the assumption that the path of a web URL begins
with a slash (`IsUrl`) is needed; `Url::parse` guarantees it.

`EventBusProofs` proves `OnlyAudience` (`Audience`), `NoSilentLoss`
(`NothingLost`) and `MissedWereOverwritten` (`OnlyOverwritten`) for every set of
sessions, capacity and identity, from `BusAssumption`.  `NoSilentLoss` alone is
not inductive: a delivered event must lie before the cursor and before the one
in hand (`Order`), and a missed one before the cursor (`Missed`), or the next
event could repeat or contradict it.  `BusInv` collects these per session;
`Untouched` and `PublishStep` say that other sessions and later events change
nothing in it.

`FeedRefinement` is `Spec => ImplementsFeed`.  `DueIsAhead` is the point: what
the feed says is due to an open session is the event in hand and the visible
events from the cursor on, which `BusInv` gives in both directions.  The event
in hand is then the earliest that is due (`SendDelivers`), and `Lagged` passes
over exactly what is due and overwritten (`LaggedLoses`).  A receive stutters.
`TasksPaired` is needed for `select!`: a session whose `receive_task` has ended
has a `send_task` to abort.

`ScopeInv`, `StartupInv`, `ReverseInv`, `StoreInv`, `SearchInv`, `EmbedInv`,
`ProbeInv`, `BusInv` and `PolicyInv` were checked by TLC on the instances above before they were
proved; they are not listed as properties of the runs, because their conjuncts
that matter are.  The same holds of the type invariants and of
`ActivationsSerialised`, `AdmissionHolds`, `OneMigrator` and
`MissedWereOverwritten`, which are proved.

Only model-checked is liveness (`EveryRequestEnds`, `EveryDeliveryAccepted`,
`EndsWhole`, `EventsSettle`, `EveryStartDecides`): fairness is out of the
prover's reach.  Every invariant and every other action property or refinement
of a passing run is a theorem.

## 6. Not modelled

Wire formats, logging and statuses beyond the ends of a call; floating-point
similarity (naturals instead, with the rounding of a threshold to f32 at
`src/store.rs:523`); the cryptography and encoding of tokens and
digests; URL parsing, which is a library; the WITH CHECK clauses of the
row-level policies (the only writes under them are the create transaction's,
whose context is the caller's); size limits of requests; table locks of a
migration beside running requests (an abort is the failure step of both); the parts marked
`not_modelled` in `PROJECT.json`: data types, and the crawl queue and semantic
input tables, which no code here uses.

Simplified, without effect on the properties: `upsert_alert_rule_embedding` is
one step (its fallback on an old snapshot may answer a concurrent repeat with 422
where the model answers nothing; no row changes either way); `Gateway` orders
rules by commit, where `updated_at` is the start of the transaction;
`create_source` accepts what `CreateSourcePolicy::validate` would refuse; the
deployment job of `Startup` applies the next migration and does not repeat one.

## 7. Possible extensions

Composition of the stores with `EventBus`: `alert_rule.created` and
`match.candidate` are events of the models and not yet steps of the channel.
