--------------------------- MODULE SourcePolicies ---------------------------
(***************************************************************************)
(* Which pages belong to a source: src/indexing.rs.                        *)
(*                                                                         *)
(* Hosts and paths are sequences of characters, because the functions look *)
(* for boundaries in them: "." ends a label of a host, "/" a segment of a  *)
(* path, and every other character is as good as any.  A URL is what       *)
(* Url::parse makes of it: a record of its parts, with None for a part it  *)
(* does not have.  Url::parse has already dropped a default port.          *)
(***************************************************************************)
EXTENDS Integers, FiniteSets, SequencesExt

CONSTANTS
    LowerCase,   \* LowerCase[c]: to_ascii_lowercase of a character
    NoPart       \* a part that a URL does not have

(* What Url::parse returns: a URL with all its parts, of which those of a  *)
(* web URL are a name of characters that LowerCase knows, unless the host  *)
(* is an address, and a path that begins with a slash.                     *)
IsUrl(url) ==
    /\ DOMAIN url = {"scheme", "credentials", "kind", "host", "port", "path", "fragment"}
    /\ url.scheme \in {"http", "https"} =>
          /\ url.kind = "domain" => url.host \in Seq(DOMAIN LowerCase)
          /\ url.path \in Seq(Range(url.path)) /\ url.path # <<>> /\ url.path[1] = "/"

(* The allowlists of a policy hold text.                                   *)
IsPolicy(policy) ==
    /\ \A h \in policy.allowed_hosts : h \in Seq(DOMAIN LowerCase)
    /\ \A prefix \in policy.allowed_path_prefixes : prefix \in Seq(Range(prefix))

(* s without its last characters c.                                        *)
TrimEnd(s, c) ==
    LET rest == {i \in DOMAIN s : s[i] # c}
    IN  IF rest = {} THEN <<>> ELSE SubSeq(s, 1, Max(rest))

normalize_host(host) == TrimEnd([i \in DOMAIN host |-> LowerCase[host[i]]], ".")

(* Mutant: any host that ends like an allowed one.                         *)
host_is_allowed_AnySuffix(host, allowed_hosts, include_subdomains) ==
    \E h \in allowed_hosts : LET allowed == normalize_host(h) IN
        host = allowed \/ (include_subdomains /\ IsSuffix(allowed, host))

(* The host itself or, where they are included, a subdomain: what is left  *)
(* of the host before the allowed one ends with a dot and is more than it. *)
host_is_allowed(host, allowed_hosts, include_subdomains) ==
    \E h \in allowed_hosts : LET allowed == normalize_host(h) IN
        \/ host = allowed
        \/ /\ include_subdomains
           /\ IsSuffix(allowed, host)
           /\ Len(host) - Len(allowed) > 1
           /\ host[Len(host) - Len(allowed)] = "."

(* The prefix itself or something below it.                                *)
path_is_allowed(path, prefix) ==
    LET trimmed == TrimEnd(prefix, "/") IN
    \/ prefix = <<"/">>
    \/ path = trimmed
    \/ IsStrictPrefix(trimmed, path) /\ path[Len(trimmed) + 1] = "/"

(* canonicalize is Ok: a web URL without credentials, a public host (a     *)
(* name with a dot, which "localhost" is not), and the two allowlists of   *)
(* the policy.                                                             *)
CanonicalizeOk(policy, url) ==
    LET host == normalize_host(url.host) IN
    /\ url.scheme \in {"http", "https"}
    /\ url.credentials = NoPart
    /\ url.kind = "domain"
    /\ \E i \in DOMAIN host : host[i] = "."
    /\ host_is_allowed(host, policy.allowed_hosts, policy.include_subdomains)
    /\ \E prefix \in policy.allowed_path_prefixes : path_is_allowed(url.path, prefix)

(* Its Ok value: the fragment is removed.                                  *)
canonicalize(url) == [url EXCEPT !.fragment = NoPart]

-----------------------------------------------------------------------------
(* Reference definitions, by labels and segments instead of by characters. *)
(* Every part is ended by a character c, the last one by one that is added *)
(* to the text.                                                            *)
Ended(t, c, i) == Cardinality({j \in 1..(i - 1) : t[j] = c})
Start(t, c, k) == Cardinality({i \in DOMAIN t : Ended(t, c, i) < k - 1})

Part(t, c, k) == SubSeq(t, Start(t, c, k) + 1, Start(t, c, k + 1) - 1)

Split(s, c) ==
    LET t == Append(s, c) IN [k \in 1..Ended(t, c, Len(t) + 1) |-> Part(t, c, k)]

(* A host is below another one when it has further labels in front, other  *)
(* than a single empty one.                                                *)
IsSubdomain(host, parent) ==
    LET labels == Split(host, ".")  tail == Split(parent, ".")
        n == Len(labels) - Len(tail)
    IN  /\ n > 0
        /\ \A i \in DOMAIN tail : labels[n + i] = tail[i]
        /\ SubSeq(labels, 1, n) # << <<>> >>

(* A path is at or below another one when it begins with its segments.     *)
IsBelow(path, root) ==
    LET segments == Split(path, "/")  head == Split(TrimEnd(root, "/"), "/")
    IN  \A i \in DOMAIN head : i \in DOMAIN segments /\ segments[i] = head[i]

Inside(policy, url) ==
    /\ \E h \in policy.allowed_hosts :
          \/ normalize_host(url.host) = normalize_host(h)
          \/ policy.include_subdomains /\ IsSubdomain(normalize_host(url.host), normalize_host(h))
    /\ \E root \in policy.allowed_path_prefixes : IsBelow(url.path, root)
=============================================================================
