------------------------------ MODULE Gateway ------------------------------
(***************************************************************************)
(* Requests at the edge of the API: who may do what (Authentication), the  *)
(* reads of alert rules under row-level security (src/alert_store.rs and   *)
(* the policies of migrations 004 and 006), source policies and the pages  *)
(* stored under them (SourcePolicies, src/store.rs), and the workers'      *)
(* queries on the alert tables (src/reverse_match.rs).                     *)
(*                                                                         *)
(* A read of alert rules is a transaction of four statements on a pooled   *)
(* connection: BEGIN, set_config, SELECT, COMMIT.  The three settings of a *)
(* connection belong to the transaction; when it ends they are the empty   *)
(* string, which is not what they were on a fresh connection, NULL.        *)
(*                                                                         *)
(* The database role is the one the documents ask for: no superuser and    *)
(* without BYPASSRLS, so that the policies apply to it.                    *)
(***************************************************************************)
EXTENDS Authentication, SourcePolicies

CONSTANTS
    Requests,      \* requests
    Scripts,       \* what the requests may be: mode and call of each
    Connections,   \* the pool
    Rows,          \* alert rules that may be created: tenant and owner
    MaxRules,      \* bound on the number of rules
    ListLimit,     \* LIMIT of the list (500)
    MaxNow         \* bound on the clock

Reads == {"list_records", "get_record"}
Deliveries == {"ingest_page", "reverse_match_page"}

Presented(h) == Values(h.authorization) \cup Values(h.cookies)

(* What a request asks for: the URLs of a page and the lists of a policy.  *)
ArgIsParsed(call) ==
    /\ call.op \in Deliveries => IsUrl(call.arg.url) /\ IsUrl(call.arg.final_url)
    /\ call.op = "create_source" => IsPolicy(call.arg)

(* Columns of an alert rule are not empty (migration 004), the headers of  *)
(* a request are lists, the times in a token are integers, and what it     *)
(* asks for has been parsed.                                               *)
ASSUME GatewayAssumption ==
    /\ None \notin Requests
    /\ ListLimit \in Nat \ {0}
    /\ \A row \in Rows : {row.tenant, row.owner} \cap {None, Blank} = {}
    /\ \A s \in Scripts : /\ DOMAIN s.call = Requests
                          /\ \A r \in Requests : ArgIsParsed(s.call[r])
                          /\ \A r \in Requests : LET h == s.call[r].headers IN
                                /\ h.authorization \in Seq(Values(h.authorization))
                                /\ h.cookies \in Seq(Values(h.cookies))
                                /\ None \notin Presented(h)
                                /\ \A token \in Presented(h) \ {Blank, Malformed} :
                                      LET claims == token.body.claims IN
                                      claims.exp \in Int \cup {None} /\ claims.nbf \in Int \cup {None}

VARIABLES
    script,    \* the mode of authentication and the call of each request
    now,       \* the clock, in seconds
    phase,     \* phase[r]: how far request r has come
    auth,      \* auth[r]: the AuthContext, a worker's tenant, or None
    admitted,  \* admitted[r]: the time at which it was authenticated
    holder,    \* holder[c]: the request that has connection c
    context,   \* context[c]: the app.* settings of connection c
    rules,     \* committed alert rules, in order of updated_at
    seen,      \* seen[r]: how many rules the statement of r could see
    answer,    \* answer[r]: positions of the rules it returned
    under,     \* under[r]: the settings its statement on the alert tables saw
    sources,   \* eal_sources
    pages      \* deliveries whose page was stored: tenant, source, both URLs

readVars == <<holder, context, rules, seen, answer, under>>
storeVars == <<sources, pages>>
vars == <<script, now, phase, auth, admitted, holder, context, rules, seen, answer,
          under, sources, pages>>

Op(r) == script.call[r].op
Headers(r) == script.call[r].headers
Arg(r) == script.call[r].arg

(* The settings of a connection without context: NULL before the first     *)
(* transaction that set them, '' after it.                                 *)
Unset == [tenant |-> None, subject |-> None, tenant_admin |-> FALSE]
Empty == [tenant |-> Blank, subject |-> Blank, tenant_admin |-> FALSE]
NoContext == {Unset, Empty}

Init ==
    /\ script \in Scripts
    /\ now = 0
    /\ phase = [r \in Requests |-> "arriving"]
    /\ auth = [r \in Requests |-> None]
    /\ admitted = [r \in Requests |-> 0]
    /\ holder = [c \in Connections |-> None]
    /\ context = [c \in Connections |-> Unset]
    /\ rules = <<>>
    /\ seen = [r \in Requests |-> 0]
    /\ answer = [r \in Requests |-> {}]
    /\ under = [r \in Requests |-> {}]
    /\ sources = {}
    /\ pages = {}

Tick ==
    /\ now < MaxNow
    /\ now' = now + 1
    /\ UNCHANGED <<script, phase, auth, admitted>>
    /\ UNCHANGED readVars /\ UNCHANGED storeVars

(* Someone's create transaction commits; it is the newest rule.            *)
CommitRule(row) ==
    /\ Len(rules) < MaxRules
    /\ rules' = Append(rules, row)
    /\ UNCHANGED <<script, now, phase, auth, admitted, holder, context, seen, answer, under>>
    /\ UNCHANGED storeVars

-----------------------------------------------------------------------------
(* The extractor runs before the handler: a user's request or a worker's.  *)
IsWorker(r) == Op(r) \in Deliveries \cup {"upsert_alert_embedding"}
Identify(r) ==
    IF IsWorker(r) THEN authorize(Headers(r)) ELSE authenticate(script.mode, Headers(r), now)

Admit(r) ==
    /\ phase[r] = "arriving"
    /\ LET identity == Identify(r) IN
       /\ auth' = [auth EXCEPT ![r] = identity]
       /\ phase' = [phase EXCEPT ![r] = IF identity = None THEN "401" ELSE "admitted"]
    /\ admitted' = [admitted EXCEPT ![r] = now]
    /\ UNCHANGED <<script, now>>
    /\ UNCHANGED readVars /\ UNCHANGED storeVars

-----------------------------------------------------------------------------
(* Reads of alert rules.  db.begin() takes a free connection.              *)
BeginRead(r, c) ==
    /\ Op(r) \in Reads
    /\ phase[r] = "admitted"
    /\ holder[c] = None
    /\ holder' = [holder EXCEPT ![c] = r]
    /\ phase' = [phase EXCEPT ![r] = "begun"]
    /\ UNCHANGED <<script, now, auth, admitted, context, rules, seen, answer, under>>
    /\ UNCHANGED storeVars

set_request_context(r, c) ==
    /\ phase[r] = "begun"
    /\ holder[c] = r
    /\ context' = [context EXCEPT ![c] = auth[r]]
    /\ phase' = [phase EXCEPT ![r] = "ready"]
    /\ UNCHANGED <<script, now, auth, admitted, holder, rules, seen, answer, under>>
    /\ UNCHANGED storeVars

(* The policies' USING expression, for the settings s of a connection;     *)
(* NULLIF makes NULL of '', which equals nothing.                          *)
Policy(row, s) ==
    /\ s.tenant \notin {None, Blank}
    /\ row.tenant = s.tenant
    /\ \/ s.subject \notin {None, Blank} /\ row.owner = s.subject
       \/ s.tenant_admin

(* The WHERE clause, with the request's identity as parameters.            *)
Where(row, r) ==
    /\ row.tenant = auth[r].tenant
    /\ auth[r].tenant_admin \/ row.owner = auth[r].subject

(* Mutant: the limit is applied to the table, the filter to what is left.  *)
Newest_Table(S) == {i \in S : i > Len(rules) - ListLimit}

(* ORDER BY updated_at DESC LIMIT: those with fewer than ListLimit newer.  *)
Newest(S) == {i \in S : Cardinality({j \in S : j > i}) < ListLimit}

Select(r, c) ==
    /\ phase[r] = "ready"
    /\ holder[c] = r
    /\ LET found == {i \in DOMAIN rules : Where(rules[i], r) /\ Policy(rules[i], context[c])} IN
       answer' = [answer EXCEPT ![r] =
                     IF Op(r) = "list_records" THEN Newest(found) ELSE found \cap {Arg(r)}]
    /\ seen' = [seen EXCEPT ![r] = Len(rules)]
    /\ under' = [under EXCEPT ![r] = {context[c]}]
    /\ phase' = [phase EXCEPT ![r] = "selected"]
    /\ UNCHANGED <<script, now, auth, admitted, holder, context, rules>>
    /\ UNCHANGED storeVars

(* Mutant: settings of the session, which outlive the transaction.         *)
Release_Session(c) ==
    /\ holder' = [holder EXCEPT ![c] = None]
    /\ UNCHANGED context

(* The transaction ends; its settings end with it.                         *)
Release(c) ==
    /\ holder' = [holder EXCEPT ![c] = None]
    /\ context' = [context EXCEPT ![c] = IF @ \in NoContext THEN @ ELSE Empty]

CommitRead(r, c) ==
    /\ phase[r] = "selected"
    /\ holder[c] = r
    /\ Release(c)
    /\ phase' = [phase EXCEPT ![r] =
                    IF Op(r) = "get_record" /\ answer[r] = {} THEN "404" ELSE "200"]
    /\ UNCHANGED <<script, now, auth, admitted, rules, seen, answer, under>>
    /\ UNCHANGED storeVars

(* A statement fails, or the client goes away: the transaction is dropped  *)
(* and rolled back.                                                        *)
AbortRead(r, c) ==
    /\ holder[c] = r
    /\ Release(c)
    /\ phase' = [phase EXCEPT ![r] = "500"]
    /\ answer' = [answer EXCEPT ![r] = {}]
    /\ UNCHANGED <<script, now, auth, admitted, rules, seen, under>>
    /\ UNCHANGED storeVars

-----------------------------------------------------------------------------
(* Source policies.  A source is named by the request that created it.     *)
Named(S, r, tenant) == {s \in S : s.id = r /\ s.tenant = tenant}

(* create_source: an administrator, a root inside its own policy, and no   *)
(* source of the tenant with the same canonical root.                      *)
create_source(r) ==
    LET policy == Arg(r)
        root == canonicalize(policy.root)
    IN  /\ Op(r) = "create_source"
        /\ phase[r] = "admitted"
        /\ IF /\ auth[r].tenant_admin
              /\ CanonicalizeOk(policy, policy.root)
              /\ \A s \in sources : s.tenant = auth[r].tenant => s.root # root
           THEN /\ sources' = sources \cup {[id |-> r, tenant |-> auth[r].tenant, root |-> root,
                                             policy |-> policy]}
                /\ phase' = [phase EXCEPT ![r] = "200"]
           ELSE /\ phase' = [phase EXCEPT ![r] =
                                CASE ~auth[r].tenant_admin -> "403"
                                  [] auth[r].tenant_admin /\ ~CanonicalizeOk(policy, policy.root) -> "422"
                                  [] OTHER -> "409"]
                /\ UNCHANGED sources
        /\ UNCHANGED <<script, now, auth, admitted, pages>>
        /\ UNCHANGED readVars

(* list_sources and get_source read by tenant, whoever asks.               *)
read_source(r) ==
    /\ Op(r) = "get_source"
    /\ phase[r] = "admitted"
    /\ phase' = [phase EXCEPT ![r] =
                    IF Named(sources, Arg(r), auth[r].tenant) = {} THEN "404" ELSE "200"]
    /\ UNCHANGED <<script, now, auth, admitted>>
    /\ UNCHANGED readVars /\ UNCHANGED storeVars

(* The source is enabled and both ends of a redirect are inside its policy. *)
PageOk(policy, input) ==
    policy.enabled /\ CanonicalizeOk(policy, input.url) /\ CanonicalizeOk(policy, input.final_url)

(* ingest_page and reverse_match_page up to the store: the source of the   *)
(* tenant is loaded and both URLs are looked at.                           *)
LoadSource(r) ==
    /\ Op(r) \in Deliveries
    /\ phase[r] = "admitted"
    /\ LET found == Named(sources, Arg(r).source, auth[r].tenant) IN
       phase' = [phase EXCEPT ![r] =
                    IF found = {} THEN "404"
                    ELSE IF \A s \in found : PageOk(s.policy, Arg(r)) THEN "loaded" ELSE "422"]
    /\ UNCHANGED <<script, now, auth, admitted>>
    /\ UNCHANGED readVars /\ UNCHANGED storeVars

Page(r) ==
    [tenant |-> auth[r].tenant, source |-> Arg(r).source,
     original |-> canonicalize(Arg(r).url), canonical |-> canonicalize(Arg(r).final_url)]

(* store::ingest_page writes the page and returns no record of it, which   *)
(* is answered 500 (HistoricalMatch models the statement).                 *)
StorePage(r) ==
    /\ Op(r) = "ingest_page"
    /\ phase[r] = "loaded"
    /\ pages' = pages \cup {Page(r)}
    /\ phase' = [phase EXCEPT ![r] = "500"]
    /\ UNCHANGED <<script, now, auth, admitted, sources>>
    /\ UNCHANGED readVars

-----------------------------------------------------------------------------
(* A worker's query on the alert tables names the tenant in its SQL and    *)
(* sets nothing: the policies see the settings the connection has.         *)
WorkerQuery(r, c, wanted) ==
    /\ holder[c] = None
    /\ answer' = [answer EXCEPT ![r] =
                     {i \in wanted : rules[i].tenant = auth[r].tenant /\ Policy(rules[i], context[c])}]
    /\ seen' = [seen EXCEPT ![r] = Len(rules)]
    /\ under' = [under EXCEPT ![r] = {context[c]}]
    /\ UNCHANGED <<script, now, auth, admitted, holder, context, rules, sources>>

(* upsert_alert_rule_embedding: the rule is found, or it is answered 422.  *)
upsert_alert_embedding(r, c) ==
    /\ Op(r) = "upsert_alert_embedding"
    /\ phase[r] = "admitted"
    /\ WorkerQuery(r, c, {Arg(r)} \cap DOMAIN rules)
    /\ phase' = [phase EXCEPT ![r] = IF answer'[r] = {} THEN "422" ELSE "200"]
    /\ UNCHANGED pages

(* ingest_and_reverse_match: one transaction stores the page and looks for *)
(* rules (see ReverseMatch for the rest).                                  *)
reverse_match_page(r, c) ==
    /\ Op(r) = "reverse_match_page"
    /\ phase[r] = "loaded"
    /\ WorkerQuery(r, c, DOMAIN rules)
    /\ pages' = pages \cup {Page(r)}
    /\ phase' = [phase EXCEPT ![r] = "200"]

(* ws_upgrade: the origin is checked after the identity.                   *)
ws_upgrade(r) ==
    /\ Op(r) = "ws_upgrade"
    /\ phase[r] = "admitted"
    /\ phase' = [phase EXCEPT ![r] = IF authorize_websocket_origin(Headers(r)) THEN "101" ELSE "403"]
    /\ UNCHANGED <<script, now, auth, admitted>>
    /\ UNCHANGED readVars /\ UNCHANGED storeVars

-----------------------------------------------------------------------------
Read(r, c) ==
    \/ BeginRead(r, c) \/ set_request_context(r, c) \/ Select(r, c)
    \/ CommitRead(r, c) \/ AbortRead(r, c)
    \/ upsert_alert_embedding(r, c) \/ reverse_match_page(r, c)

Handle(r) ==
    \/ Admit(r) \/ create_source(r) \/ read_source(r) \/ LoadSource(r) \/ StorePage(r)
    \/ ws_upgrade(r)

Next ==
    \/ Tick
    \/ \E row \in Rows : CommitRule(row)
    \/ \E r \in Requests : Handle(r)
    \/ \E r \in Requests, c \in Connections : Read(r, c)

Spec == Init /\ [][Next]_vars

-----------------------------------------------------------------------------
(***************************************************************************)
(* An identity is one the issuer granted: a user request that was admitted *)
(* presented exactly one token, in one place or in several, which was      *)
(* signed as it stands with the secret, names this tenant, subject and     *)
(* role, and had begun and not expired, give or take the leeway, when it   *)
(* was admitted (README.md, production authentication).                    *)
(***************************************************************************)
IdentityIsIssued ==
    \A r \in Requests :
        script.mode = "jwt" /\ ~IsWorker(r) /\ auth[r] # None =>
            \E token \in Presented(Headers(r)) :
                LET claims == token.body.claims IN
                /\ Presented(Headers(r)) = {token}
                /\ token.signature = [key |-> Secret, over |-> token.body]
                /\ claims.iss = Issuer /\ Audience \in claims.aud
                /\ claims.exp + Leeway > admitted[r]
                /\ claims.nbf = None \/ claims.nbf - Leeway <= admitted[r]
                /\ auth[r].tenant = Uuid[claims.tenant] /\ auth[r].subject = Trim[claims.sub]
                /\ auth[r].tenant_admin <=> \E s \in Values(claims.roles) : Role[s] \in Admin

(* What the identity of a request may see of the rules its statement saw.  *)
Own(r) ==
    {i \in 1..seen[r] : /\ rules[i].tenant = auth[r].tenant
                        /\ rules[i].owner = auth[r].subject \/ auth[r].tenant_admin}

(* Whatever is not in the answer is older, and did not fit.                *)
AnswerIsExact(r) ==
    IF Op(r) = "get_record" THEN answer[r] = Own(r) \cap {Arg(r)}
    ELSE /\ answer[r] \subseteq Own(r)
         /\ \A i \in Own(r) \ answer[r] :
               (\A j \in answer[r] : i < j) /\ Cardinality(answer[r]) = ListLimit

(***************************************************************************)
(* A read of alert rules returns exactly what its identity may see of the  *)
(* rules there were: the rule it asked for, or the newest ones up to the   *)
(* limit.  Others' rules neither appear nor crowd out its own, and the     *)
(* policies of the database hide no row the statement asks for.            *)
(***************************************************************************)
ReadsAreExact ==
    \A r \in Requests :
        Op(r) \in Reads /\ phase[r] \in {"selected", "200", "404"} => AnswerIsExact(r)

(***************************************************************************)
(* A pooled connection never lends one request's context to another: a     *)
(* free connection has none, and a statement on the alert tables runs      *)
(* under the identity of its own request or under none.                    *)
(***************************************************************************)
ContextIsOwn ==
    /\ \A c \in Connections : holder[c] = None => context[c] \in NoContext
    /\ \A r \in Requests : under[r] \subseteq NoContext \cup {auth[r]}

(***************************************************************************)
(* Every page that is stored lies, with both ends of its redirect, inside  *)
(* the policy of an enabled source of its tenant, by labels and segments;  *)
(* an administrator of that tenant created the source, a worker with the   *)
(* credential sent the page, and its canonical URL is canonical for good.  *)
(***************************************************************************)
PagesUnderPolicy ==
    \A p \in pages : \E s \in sources :
        /\ s.id = p.source /\ s.tenant = p.tenant /\ s.policy.enabled
        /\ auth[s.id].tenant_admin /\ auth[s.id].tenant = s.tenant
        /\ Inside(s.policy, p.original) /\ Inside(s.policy, p.canonical)
        /\ CanonicalizeOk(s.policy, p.canonical) /\ canonicalize(p.canonical) = p.canonical
        /\ \E r \in Requests : /\ Op(r) \in Deliveries /\ Page(r) = p
                               /\ Headers(r).ingest # None /\ Digest[Headers(r).ingest] = Ingest

(***************************************************************************)
(* "Application queries set app.tenant_id, app.subject, and                *)
(* app.is_tenant_admin inside a transaction before touching these tables." *)
(* (migrations/004_durable_alert_rules_and_authz.sql)                      *)
(***************************************************************************)
ContextIsSet == \A r \in Requests : under[r] \cap NoContext = {}
=============================================================================
