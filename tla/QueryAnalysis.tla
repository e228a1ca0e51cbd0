--------------------------- MODULE QueryAnalysis ---------------------------
(***************************************************************************)
(* Query analysis: crates/query/src/lib.rs, which splits a query into the  *)
(* texts that are embedded: the whole query, its keywords and its          *)
(* entities.                                                               *)
(*                                                                         *)
(* A query is a sequence of words.  What the functions ask of a word is    *)
(* given by constants: its length, the token that is left of it without    *)
(* punctuation (or none), the lower-case form of a token, and the classes  *)
(* of tokens.                                                              *)
(***************************************************************************)
EXTENDS Naturals, FiniteSets, SequencesExt

CONSTANTS
    Words,
    Chars,          \* Chars[w]: number of characters
    MaxChars,       \* MAX_EMBEDDING_INPUT_CHARS
    clean_token,    \* clean_token[w]: a token, or Empty
    Empty,          \* nothing but punctuation
    Lower,          \* Lower[t]: to_ascii_lowercase of a token
    KeywordLike,    \* lower-case tokens of three characters that are no stopword
    EntityLike,     \* tokens that pass is_probable_entity_word
    Instructions,   \* lower-case tokens that pass is_instruction_word
    MaxKeywords,    \* MAX_KEYWORDS (24)
    MaxEntities,    \* MAX_ENTITIES (12)
    MaxInputs       \* MAX_EMBEDDING_INPUTS

Tokens == Range(clean_token) \ {Empty}

ASSUME QueryAssumption ==
    /\ Chars \in [Words -> Nat \ {0}]
    /\ DOMAIN clean_token = Words
    /\ DOMAIN Lower = Tokens
    /\ EntityLike \subseteq Tokens
    /\ {MaxChars, MaxKeywords, MaxEntities, MaxInputs} \subseteq Nat \ {0}

-----------------------------------------------------------------------------
(* Characters of the query with single spaces between its words.           *)
character_count(query) ==
    FoldLeft(LAMBDA n, w : n + Chars[w], 0, query) + (IF query = <<>> THEN 0 ELSE Len(query) - 1)

(* tokens and raw_tokens: cleaned words, without the empty ones.           *)
AddToken(output, w) ==
    IF clean_token[w] = Empty THEN output ELSE Append(output, clean_token[w])

raw_tokens(query) == FoldLeft(AddToken, <<>>, query)

Lowered(s) == [i \in DOMAIN s |-> Lower[s[i]]]

(* In order of first use; seen holds exactly what is in output.            *)
AddKeyword(output, t) ==
    IF Len(output) >= MaxKeywords \/ t \notin KeywordLike \/ t \in Range(output)
    THEN output ELSE Append(output, t)

Keywords(s) == FoldLeft(AddKeyword, <<>>, s)

extract_keywords(query) == Keywords(Lowered(raw_tokens(query)))

(* output after the pending words were joined into one entity, if they     *)
(* name none that is there already and there is room.                      *)
flush_entity(current, output) ==
    IF \/ current = <<>>
       \/ Len(output) >= MaxEntities
       \/ \E i \in DOMAIN output : Lowered(output[i]) = Lowered(current)
    THEN output ELSE Append(output, current)

(* A leading instruction word is no part of a name.                        *)
EntityWord(words, i) == words[i] \in EntityLike /\ ~(i = 1 /\ Lower[words[i]] \in Instructions)

Idle == [current |-> <<>>, output |-> <<>>]

(* One word: it continues the entity that is pending or it ends it.  The   *)
(* loop has ended when output is full.                                     *)
AddWord(words, state, i) ==
    CASE Len(state.output) >= MaxEntities -> state
      [] Len(state.output) < MaxEntities /\ EntityWord(words, i) ->
            [current |-> Append(state.current, words[i]), output |-> state.output]
      [] OTHER -> [current |-> <<>>, output |-> flush_entity(state.current, state.output)]

Walk(words) ==
    FoldLeftDomain(LAMBDA state, i : AddWord(words, state, i), Idle, words)

(* Mutant: the words that are pending at the end are forgotten.            *)
extract_entities_NoLastFlush(query) == Walk(raw_tokens(query)).output

extract_entities(query) ==
    LET last == Walk(raw_tokens(query)) IN flush_entity(last.current, last.output)

(* The embedding inputs, with ten times their weights: 1.2, 0.6 and 0.9.   *)
(* The ordinal of an input is its position.                                *)
Inputs(query) ==
    LET As(kind, weight, texts) ==
            [i \in DOMAIN texts |-> [kind |-> kind, text |-> texts[i], weight |-> weight]]
    IN  As("query", 12, <<query>>) \o As("keyword", 6, extract_keywords(query))
            \o As("entity", 9, extract_entities(query))

(* analyze_query refuses a query by its length or by the inputs it needs.  *)
Analysable(query) ==
    /\ character_count(query) \in 3..MaxChars
    /\ Len(Inputs(query)) <= MaxInputs

-----------------------------------------------------------------------------
(* Reference definitions, by positions instead of by a walk.               *)

(* The texts at the first positions of a set, from left to right.          *)
Before(S, i) == Cardinality({j \in S : j < i})
Fewer(m, n) == IF m < n THEN m ELSE n
FirstTexts(text, S, limit) ==
    [k \in 1..Fewer(Cardinality(S), limit) |-> text[CHOOSE i \in S : Before(S, i) = k - 1]]

(* Keywords: the positions that repeat no earlier one.                     *)
NewKeywords(s) == {i \in DOMAIN s : s[i] \in KeywordLike /\ \A j \in 1..(i - 1) : s[j] # s[i]}

KeywordReference(query) ==
    LET s == Lowered(raw_tokens(query)) IN FirstTexts(s, NewKeywords(s), MaxKeywords)

(* Entities: the maximal runs of entity words, by where they begin, that   *)
(* repeat no earlier run in another case.                                  *)
Inside(s, i) == i \in DOMAIN s /\ EntityWord(s, i)
Starts(s) == {i \in DOMAIN s : Inside(s, i) /\ ~Inside(s, i - 1)}
Names(s) ==
    [i \in Starts(s) |->
        SubSeq(s, i, CHOOSE e \in i..Len(s) : ~Inside(s, e + 1) /\ \A k \in i..e : Inside(s, k))]
NewNames(s) ==
    {i \in Starts(s) : \A j \in Starts(s) : j < i => Lowered(Names(s)[j]) # Lowered(Names(s)[i])}

EntityReference(query) ==
    LET s == raw_tokens(query) IN FirstTexts(Names(s), NewNames(s), MaxEntities)
=============================================================================
