-------------------------- MODULE MCSemanticQuery --------------------------
EXTENDS SemanticQuery

\* An instruction word, a name that is a keyword too, in two spellings, plain
\* keywords, names too short to be keywords, one of them in two cases, a word
\* of no class and one without a token.
MCToken ==
    [w \in {"Find", "Rust,", "rust", "news", "code", "EU", "Eu", "UN", "US", "of", "!"} |->
        CASE w = "Rust," -> "Rust" [] w = "!" -> Empty [] OTHER -> w]
MCWords == DOMAIN MCToken
MCChars ==
    [w \in MCWords |->
        CASE w = "Find" -> 10 [] w \in {"Rust,", "rust", "news", "code"} -> 4
          [] w = "!" -> 1 [] OTHER -> 2]
MCLower ==
    [t \in {"Find", "Rust", "rust", "news", "code", "EU", "Eu", "UN", "US", "of"} |->
        CASE t = "Find" -> "find" [] t = "Rust" -> "rust" [] t \in {"EU", "Eu"} -> "eu"
          [] t = "UN" -> "un" [] t = "US" -> "us" [] OTHER -> t]

\* Short queries of every shape, and names one too many, repeated and joined.
MCQueries ==
    UNION {[1..n -> MCWords \ {"Eu", "UN", "US"}] : n \in 0..3}
        \cup [1..4 -> {"EU", "UN", "of"}]
        \cup {<<"EU", "of", x, "of", y>> : x, y \in {"EU", "Eu", "UN", "US"}}
MCDimensions == {1, 2}

\* With f64::EPSILON as 1: a model whose vectors are apart, and one whose
\* vectors for keywords and names cancel the query's.
MCModels ==
    {<< <<4, 0>>, <<0, 2>>, <<0, -3>> >>, << <<2, 0>>, <<-4, 0>>, <<-2, 0>> >>}
MCDamaged == {<<0, 0>>, <<0, -1>>, <<2, NaN>>, <<2>>}

Good ==
    [production |-> TRUE, normalization |-> "l2",
     scheme |-> "https", loopback |-> FALSE, decorated |-> FALSE]
Local == [Good EXCEPT !.scheme = "http", !.loopback = TRUE]
MCSettings ==
    {Good, Local, [Local EXCEPT !.production = FALSE], [Good EXCEPT !.scheme = "absent"],
     [Good EXCEPT !.normalization = "none"], [Good EXCEPT !.decorated = TRUE]}
=============================================================================
