--------------------------- MODULE Authentication ---------------------------
(***************************************************************************)
(* Who is asking: src/auth_runtime.rs (bearer tokens and the development   *)
(* headers), src/tenant.rs, src/worker_auth.rs and the origin check of     *)
(* src/server_websocket.rs.                                                *)
(*                                                                         *)
(* A token is a body (protected header and claims) and a signature, which  *)
(* records the key it was made with and the body it was made over.  An     *)
(* absent header, claim or identity is None.  Uuid, Trim and Role say what *)
(* the several spellings of a tenant, a subject and a role stand for; text *)
(* that does not parse is Malformed.                                       *)
(***************************************************************************)
EXTENDS Integers, Sequences

CONSTANTS
    Secret,      \* EAL_JWT_HS256_SECRET
    Issuer,      \* EAL_JWT_ISSUER
    Audience,    \* EAL_JWT_AUDIENCE
    Allowed,     \* EAL_JWT_ALLOWED_ROLES
    Admin,       \* EAL_JWT_TENANT_ADMIN_ROLES
    Leeway,      \* EAL_JWT_LEEWAY_SECONDS
    Uuid,        \* Uuid[s]: the tenant a spelling names, or Malformed
    Trim,        \* Trim[s]: a subject without its outer blanks, or Blank
    Role,        \* Role[s]: the role a spelling names, Blank or Malformed
    Digest,      \* digest of each ingest token, None for one of a bad length
    Ingest,      \* EAL_INGEST_TOKEN_SHA256, None when it is not configured
    Origins,     \* CORS_ALLOWED_ORIGINS
    Blank,       \* text that is empty once it is trimmed
    Malformed,
    None

(* What AuthConfig::jwt insists on; env and secret lengths are left out.   *)
ASSUME AuthAssumption ==
    /\ Admin \subseteq Allowed
    /\ Allowed # {}
    /\ Leeway \in 0..300
    /\ Allowed \cap {Blank, Malformed, None} = {}

-----------------------------------------------------------------------------
Values(s) == {s[i] : i \in DOMAIN s}

(* The value of the cookies that have the configured name.                 *)
cookie_token(cookies) ==
    CASE cookies = <<>> -> None
      [] Blank \in Values(cookies) -> Malformed
      [] \E i, j \in DOMAIN cookies : cookies[i] # cookies[j] -> Malformed
      [] OTHER -> cookies[1]

(* One Authorization header at most, of the Bearer form.                   *)
Authorization(values) ==
    CASE values = <<>> -> None
      [] Len(values) > 1 -> Malformed
      [] OTHER -> IF values[1] = Blank THEN Malformed ELSE values[1]

(* Mutant: the header wins over the cookie.                                *)
extract_token_Header(h) ==
    LET header == Authorization(h.authorization)
        cookie == cookie_token(h.cookies)
    IN  CASE header # None -> header
          [] cookie = None -> Malformed
          [] OTHER -> cookie

(* The token of a request, Malformed when its credentials are not one.     *)
extract_token(h) ==
    LET header == Authorization(h.authorization)
        cookie == cookie_token(h.cookies)
    IN  IF \/ Malformed \in {header, cookie}
           \/ header = None /\ cookie = None
           \/ header # None /\ cookie \notin {None, header}
        THEN Malformed
        ELSE IF header = None THEN cookie ELSE header

(* parse_roles and parse_role_set: blanks are skipped, one bad role spoils *)
(* the list.                                                               *)
RolesOk(spellings) == \A s \in Values(spellings) : Role[s] # Malformed
parse_roles(spellings) == {Role[s] : s \in Values(spellings)} \ {Blank}

(* The clock, with the leeway on either side.  Only exp is required.       *)
InTime(claims, now) ==
    /\ claims.exp # None
    /\ claims.exp > now - Leeway
    /\ claims.nbf = None \/ claims.nbf <= now + Leeway
    /\ claims.iat = None \/ claims.iat <= now + Leeway

(* JwtVerifier::verify is Ok.  The signature is over the body as received; *)
(* a typ that is no string is as good as none.                             *)
VerifyOk(token, now) ==
    LET protected == token.body.protected  claims == token.body.claims IN
    /\ protected.alg = "HS256"
    /\ protected.typ \in {None, "JWT"}
    /\ protected.crit = None
    /\ token.signature = [key |-> Secret, over |-> token.body]
    /\ claims.iss = Issuer
    /\ Audience \in claims.aud
    /\ claims.sub # None /\ Trim[claims.sub] # Blank
    /\ InTime(claims, now)
    /\ claims.tenant # None /\ Uuid[claims.tenant] # Malformed
    /\ claims.roles # None
    /\ RolesOk(claims.roles)
    /\ parse_roles(claims.roles) \cap Allowed # {}

Verified(claims) ==
    [tenant |-> Uuid[claims.tenant], subject |-> Trim[claims.sub],
     tenant_admin |-> parse_roles(claims.roles) \cap Admin # {}]

(* insecure_context: three headers taken at their word.                    *)
InsecureOk(h) ==
    /\ h.tenant # None /\ Uuid[h.tenant] # Malformed
    /\ h.subject # None /\ Trim[h.subject] # Blank
    /\ h.roles # None
    /\ RolesOk(h.roles)
    /\ parse_roles(h.roles) # {}

Insecure(h) ==
    [tenant |-> Uuid[h.tenant], subject |-> Trim[h.subject],
     tenant_admin |-> parse_roles(h.roles) \cap {"admin", "owner"} # {}]

(* AuthConfig::authenticate_at: the AuthContext of a request, or None.     *)
authenticate(mode, h, now) ==
    IF mode = "jwt"
    THEN LET token == extract_token(h) IN
         IF token # Malformed THEN IF VerifyOk(token, now) THEN Verified(token.body.claims) ELSE None
                              ELSE None
    ELSE IF InsecureOk(h) THEN Insecure(h) ELSE None

(* worker_auth::authorize and tenant_id_from_headers: a worker is known by *)
(* the tenant it names alone, or not at all.                               *)
authorize(h) ==
    IF /\ Ingest # None
       /\ h.ingest # None
       /\ Digest[h.ingest] = Ingest
       /\ h.tenant # None /\ Uuid[h.tenant] # Malformed
    THEN [tenant |-> Uuid[h.tenant]] ELSE None

authorize_websocket_origin(h) == h.origin \in Origins
=============================================================================
