----------------------------- MODULE MCGateway -----------------------------
EXTENDS Gateway

CONSTANTS r1, r2

\* Credentials.  Tokens of a member and of an administrator, and what can be
\* wrong with one.
Body(sub, roles, exp, nbf) ==
    [protected |-> [alg |-> "HS256", typ |-> "JWT", crit |-> None],
     claims |-> [iss |-> "issuer", aud |-> {"api", "other"}, sub |-> sub, exp |-> exp,
                 nbf |-> nbf, iat |-> None, tenant |-> "acme", roles |-> roles]]
Token(body, key) == [body |-> body, signature |-> [key |-> key, over |-> body]]
MemberBody == Body(" ann", <<"member">>, 9, 0)
Member == Token(MemberBody, "secret")
AdminToken == Token([Body("root", <<" Admin", "member">>, 9, None) EXCEPT !.claims.tenant = "ACME"], "secret")
ShortLived == Token(Body("ann", <<"member">>, 1, None), "secret")
Forever == Token(Body("ann", <<"member">>, None, None), "secret")
Later == Token(Body("ann", <<"member">>, 9, 2), "secret")
Raised == [Member EXCEPT !.body.claims.roles = <<" Admin">>]
Foreign == Token(MemberBody, "other secret")
Elsewhere == Token([MemberBody EXCEPT !.claims.aud = {"other"}], "secret")
Unsigned == Token([MemberBody EXCEPT !.protected.alg = "none"], "secret")
Nobody == Token(Body(" ", <<"member">>, 9, None), "secret")
Homeless == Token([MemberBody EXCEPT !.claims.tenant = "acme!"], "secret")
Guest == Token(Body("ann", <<"guest">>, 9, None), "secret")
Garbled == Token(Body("ann", <<"member", "b@d">>, 9, None), "secret")

MCUuid == [s \in {"acme", "ACME", "acme!"} |-> IF s = "acme!" THEN Malformed ELSE "acme"]
MCTrim == [s \in {"ann", " ann", "root", " "} |->
              CASE s = " ann" -> "ann" [] s = " " -> Blank [] OTHER -> s]
MCRole ==
    [s \in {"member", " Admin", "guest", " ", "b@d"} |->
        CASE s = " Admin" -> "admin" [] s = " " -> Blank [] s = "b@d" -> Malformed [] OTHER -> s]

NoHeaders ==
    [authorization |-> <<>>, cookies |-> <<>>, tenant |-> None, subject |-> None,
     roles |-> None, ingest |-> None, origin |-> None]
Bearer(t) == [NoHeaders EXCEPT !.authorization = <<t>>, !.origin = "https://app"]
Cookie(t) == [NoHeaders EXCEPT !.cookies = <<t>>]
Credentials ==
    {Bearer(t) : t \in {Member, AdminToken, ShortLived, Forever, Later, Raised, Foreign, Elsewhere,
                        Unsigned, Nobody, Homeless, Guest, Garbled, Malformed}}
    \cup {Cookie(Member), Cookie(Blank), NoHeaders}
    \cup {[Bearer(Member) EXCEPT !.cookies = <<t, u>>] : t, u \in {Member, AdminToken}}
    \cup {[NoHeaders EXCEPT !.cookies = <<Member, AdminToken>>],
          [NoHeaders EXCEPT !.authorization = <<Member, Member>>]}
Development ==
    {[NoHeaders EXCEPT !.tenant = t, !.subject = s, !.roles = q] :
        t \in {"acme", "acme!", None}, s \in {"ann", " "}, q \in {<<"member">>, <<" Admin", " ">>, <<" ">>, None}}
Worker(i) == [NoHeaders EXCEPT !.tenant = "acme", !.ingest = i]
MCDigest == [i \in {"good", "wrong", "short"} |->
                CASE i = "good" -> "digest" [] i = "wrong" -> "other digest" [] OTHER -> None]

Call(op, headers, arg) == [op |-> op, headers |-> headers, arg |-> arg]
Script(mode, call1, call2) ==
    [mode |-> mode, call |-> [r \in Requests |-> IF r = r1 THEN call1 ELSE call2]]

\* Reads of alert rules: any credential beside a valid one.
ReadCalls(H) == {Call("list_records", h, None) : h \in H} \cup {Call("get_record", h, 1) : h \in H}
ReadScripts ==
    {Script("jwt", c1, c2) : c1 \in {Call("list_records", h, None) : h \in Credentials},
                             c2 \in ReadCalls({Bearer(Member), Bearer(AdminToken)})}
    \cup {Script("headers", c1, Call("list_records", Bearer(Member), None)) : c1 \in ReadCalls(Development)}

\* Hosts over two characters, paths over two.
Text(alphabet, n) == UNION {[1..k -> alphabet] : k \in 1..n}
MCLowerCase == [c \in {"x", "X", "."} |-> IF c = "X" THEN "x" ELSE c]
Home == <<"x", ".", "x">>
Url(host, path) ==
    [scheme |-> "https", credentials |-> NoPart, kind |-> "domain", host |-> host, port |-> NoPart,
     path |-> path, fragment |-> NoPart]
HomeUrl == Url(Home, <<"/", "a">>)
Urls ==
    {Url(h, <<"/", "a">>) : h \in Text({"x", "."}, 5)}
    \cup {Url(Home, <<"/">> \o p) : p \in Text({"/", "a"}, 3)}
    \cup {[HomeUrl EXCEPT !.scheme = "ftp"], [HomeUrl EXCEPT !.credentials = "ann"],
          [HomeUrl EXCEPT !.kind = "ip"], [HomeUrl EXCEPT !.fragment = "top"],
          [HomeUrl EXCEPT !.port = 8443]}
Policies ==
    [root : {HomeUrl}, allowed_hosts : {{<<"X", ".", "x", ".">>}}, include_subdomains : BOOLEAN,
     allowed_path_prefixes : {{<<"/">>}, {<<"/", "a", "/">>}}, enabled : {TRUE}]
OnePolicy == CHOOSE p \in Policies : p.include_subdomains /\ p.allowed_path_prefixes = {<<"/">>}

Create(h, p) == Call("create_source", h, p)
Deliver(op, i, url, final) == Call(op, Worker(i), [source |-> r1, url |-> url, final_url |-> final])
SourceScripts ==
    {Script("jwt", Create(Bearer(AdminToken), p), Deliver("ingest_page", "good", HomeUrl, u)) :
        p \in Policies, u \in Urls}
    \cup {Script("jwt", Create(Bearer(AdminToken), p), Deliver("ingest_page", "good", u, HomeUrl)) :
            p \in Policies, u \in {Url(Home, <<"/">>), Url(<<"x">> \o Home, <<"/", "a">>)}}
    \cup {Script("jwt", Create(Bearer(t), p), c) :
            t \in {Member, AdminToken},
            p \in {OnePolicy, [OnePolicy EXCEPT !.enabled = FALSE],
                   [OnePolicy EXCEPT !.allowed_path_prefixes = {<<"/", "b">>}]},
            c \in {Deliver(op, i, HomeUrl, HomeUrl) : op \in Deliveries, i \in {"good", "wrong", "short", None}}
                  \cup {Create(Bearer(AdminToken), [OnePolicy EXCEPT !.root.fragment = "top"]),
                        Call("get_source", Bearer(Member), r1)}}

\* Workers and sockets beside a read.
OtherScripts ==
    {Script("jwt", c, Call("list_records", Bearer(Member), None)) :
        c \in {Call("upsert_alert_embedding", Worker(i), 1) : i \in {"good", "wrong"}}
              \cup {Call("ws_upgrade", h, None) : h \in {Bearer(Member), Cookie(Member)}}}

MCScripts == ReadScripts \cup SourceScripts \cup OtherScripts
MCRows == {[tenant |-> "acme", owner |-> "ann"], [tenant |-> "acme", owner |-> "bob"],
           [tenant |-> "beta", owner |-> "ann"]}
=============================================================================
