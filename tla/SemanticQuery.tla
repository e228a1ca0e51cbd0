--------------------------- MODULE SemanticQuery ---------------------------
(***************************************************************************)
(* A query and its vector: the probe src/bin/semantic_query_probe.rs,      *)
(* which analyses a query (QueryAnalysis), configures the embedding        *)
(* provider and calls embed_inputs (QueryEmbedding).                       *)
(***************************************************************************)
EXTENDS QueryAnalysis, QueryEmbedding

CONSTANT Queries   \* queries an operator may ask

ASSUME ProbeAssumption ==
    /\ Queries \subseteq Seq(Words)
    /\ \A m \in Models : DOMAIN m = 1..MaxInputs

VARIABLE query     \* the query text

vars == <<query, setting, model, phase, inputs, reply, vector, error>>

Init ==
    /\ Fresh
    /\ query \in Queries
    /\ phase = "started"
    /\ inputs = <<>>

-----------------------------------------------------------------------------
(* EmbeddingSpaceConfig::validate, on deserialisation.                     *)
SpaceOk == setting.normalization # "none" /\ Cardinality(Dimensions) \in 1..32768

(* Main reads the configuration of the space and analyses the query.       *)
Analyze ==
    /\ phase = "started"
    /\ IF SpaceOk /\ Analysable(query)
       THEN /\ phase' = "analysed"
            /\ inputs' = Inputs(query)
            /\ UNCHANGED <<vector, error>>
       ELSE /\ Fail("invalid_query", FALSE)
            /\ UNCHANGED inputs
    /\ UNCHANGED <<query, setting, model, reply>>

(* QueryTextViews::validate, of another crate, may refuse what it is given. *)
ContractRefuses ==
    /\ phase = "analysed"
    /\ Fail("contract", FALSE)
    /\ UNCHANGED <<query, setting, model, inputs, reply>>

Next == Analyze \/ ContractRefuses \/ (EmbedNext /\ UNCHANGED query)

Spec == Init /\ [][Next]_vars

-----------------------------------------------------------------------------
(***************************************************************************)
(* The views of a query are the ones a reader would name: its distinct     *)
(* keywords in order of first use and its maximal runs of capitalised      *)
(* words, each once, cut off at their limits, with the whole query first.  *)
(***************************************************************************)
ViewsAreComplete ==
    inputs # <<>> =>
        /\ Len(inputs) <= MaxInputs
        /\ inputs[1].text = query
        /\ [k \in 1..Len(inputs) - 1 |-> inputs[k + 1].text]
               = KeywordReference(query) \o EntityReference(query)
        /\ \A j, k \in DOMAIN inputs :
              inputs[j].kind = inputs[k].kind /\ inputs[j].text = inputs[k].text => j = k
=============================================================================
