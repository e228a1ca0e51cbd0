CONSTANTS
    Secret = "secret"
    Issuer = "issuer"
    Audience = "api"
    Allowed = {"member", "admin"}
    Admin = {"admin"}
    Leeway = 1
    Uuid <- MCUuid
    Trim <- MCTrim
    Role <- MCRole
    Digest <- MCDigest
    Ingest = "digest"
    Origins = {"https://app"}
    Blank = Blank
    Malformed = Malformed
    None = None
    LowerCase <- MCLowerCase
    NoPart = NoPart
    r1 = r1
    r2 = r2
    Requests = {r1, r2}
    Scripts <- MCScripts
    Connections = {c1}
    Rows <- MCRows
    MaxRules = 2
    ListLimit = 1
    MaxNow = 2
SPECIFICATION Spec
INVARIANTS
    IdentityIsIssued
    ReadsAreExact
    ContextIsOwn
    PagesUnderPolicy
CHECK_DEADLOCK FALSE
