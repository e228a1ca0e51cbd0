--------------------------- MODULE QueryEmbedding ---------------------------
(***************************************************************************)
(* The vector of a query: QueryEmbeddingService of src/query_embedding.rs, *)
(* which is configured from the environment and turns the inputs it is     *)
(* handed into one vector with one call of the embedding provider.         *)
(*                                                                         *)
(* The provider is external: it answers with any status, any model name    *)
(* and embeddings in any order, repeated, missing or damaged, or not at    *)
(* all.  Vectors lie on the axes, so that their magnitude and normalising  *)
(* them are exact; the centroid is kept before its final scaling to length *)
(* one.                                                                    *)
(***************************************************************************)
EXTENDS Integers, FiniteSets, SequencesExt

CONSTANTS
    Settings,    \* environments of the service
    Dimensions,  \* axes of the configured embedding space
    Models,      \* Models[k]: the vector the model gives to input k of a call
    Damaged,     \* vectors that are no vectors of the space
    Epsilon,     \* f64::EPSILON, in the unit of the components
    NaN          \* a component that is not finite

(* EmbeddingSpaceConfig and the endpoint, "absent" without a variable.  A  *)
(* decorated endpoint has credentials, a query string or a fragment; the   *)
(* loopback names are localhost and 127.0.0.1.                             *)
Setting ==
    [production : BOOLEAN, normalization : {"none", "l2", "unit_length"},
     scheme : {"absent", "http", "https"}, loopback : BOOLEAN, decorated : BOOLEAN]

Zero == [a \in Dimensions |-> 0]
OnAxis(v) == \E a \in Dimensions : \A b \in Dimensions \ {a} : v[b] = 0

(* A vector on an axis has a magnitude above f64::EPSILON.                 *)
HasMagnitude(v) == \E a \in Dimensions : v[a] > Epsilon \/ v[a] < -Epsilon

ASSUME EmbeddingAssumption ==
    /\ Settings \subseteq Setting
    /\ Epsilon \in Nat
    /\ \A m \in Models : \A k \in DOMAIN m :
          m[k] \in [Dimensions -> Int] /\ OnAxis(m[k]) /\ HasMagnitude(m[k])
    /\ NaN \notin Int
    /\ \A v \in Damaged :
          \/ DOMAIN v # Dimensions
          \/ \E a \in Dimensions : v[a] = NaN
          \/ v \in [Dimensions -> Int] /\ OnAxis(v) /\ ~HasMagnitude(v)

VARIABLES
    setting,   \* the environment
    model,     \* the embedding model behind the endpoint
    phase,     \* how far the service, or its caller, has come
    inputs,    \* the embedding inputs
    reply,     \* what the provider answered
    vector,    \* the Ok value of embed_inputs, before its scaling
    error      \* code and retryable of the Err value

embedVars == <<setting, model, phase, inputs, reply, vector, error>>

NoReply == [status |-> "none", model |-> "none", data |-> <<>>]
NoError == [code |-> "none", retryable |-> FALSE]

(* An environment, and nothing asked of the provider yet.                  *)
Fresh ==
    /\ setting \in Settings
    /\ model \in Models
    /\ reply = NoReply
    /\ vector = Zero
    /\ error = NoError

(* A caller hands over a list of inputs; the query is always one of them.  *)
HandedOver ==
    /\ Len(inputs) \in Nat \ {0}
    /\ DOMAIN inputs = 1..Len(inputs)
    /\ DOMAIN inputs \subseteq DOMAIN model

EmbedInit == Fresh /\ HandedOver /\ phase = "analysed"

Fail(code, retryable) ==
    /\ phase' = "failed"
    /\ error' = [code |-> code, retryable |-> retryable]
    /\ UNCHANGED vector

-----------------------------------------------------------------------------
(* No credentials, query string or fragment; HTTPS, or HTTP to the same    *)
(* machine outside production.                                             *)
validate_endpoint ==
    /\ ~setting.decorated
    /\ \/ setting.scheme = "https"
       \/ setting.scheme = "http" /\ setting.loopback /\ ~setting.production

(* QueryEmbeddingService::from_env: without an endpoint there is none.     *)
Configure ==
    /\ phase = "analysed"
    /\ IF setting.scheme # "absent" /\ validate_endpoint
       THEN phase' = "configured" /\ UNCHANGED <<vector, error>>
       ELSE Fail("endpoint", FALSE)
    /\ UNCHANGED <<setting, model, inputs, reply>>

(* EmbeddingInput::validate, of another crate, may refuse an input.        *)
InputRefused ==
    /\ phase = "configured"
    /\ Fail("contract", FALSE)
    /\ UNCHANGED <<setting, model, inputs, reply>>

(* request.send fails: retryable when it is a timeout or a connect error.  *)
Unreachable(retryable) ==
    /\ phase = "configured"
    /\ Fail("embedding_provider_unreachable", retryable)
    /\ UNCHANGED <<setting, model, inputs, reply>>

(* The items of an answer: indices of the inputs and one beyond them, with *)
(* the vectors of their texts; too few, as many, or one too many.  A       *)
(* complete answer may have one damaged vector.                            *)
Item(i) == [index |-> i, embedding |-> model[IF i < Len(inputs) THEN i + 1 ELSE 1]]
InOrder == [k \in DOMAIN inputs |-> Item(k - 1)]
Answers ==
    LET indices == 0..Len(inputs)
        shuffled == UNION {[1..n -> indices] : n \in Len(inputs) - 1..Len(inputs)}
    IN  {[k \in DOMAIN s |-> Item(s[k])] : s \in shuffled}
            \cup {Append(InOrder, Item(i)) : i \in indices}
            \cup {[InOrder EXCEPT ![k].embedding = v] : k \in DOMAIN inputs, v \in Damaged}

(* An answer arrives.  "2xx" is the one that is looked into; an answer     *)
(* that is not JSON has no data to look into.                              *)
Reply(status, name, data) ==
    /\ phase = "configured"
    /\ phase' = "answered"
    /\ reply' = [status |-> status, model |-> name, data |-> data]
    /\ UNCHANGED <<setting, model, inputs, vector, error>>

StatusCodes == {"401", "403", "429", "4xx", "5xx"}

provider_error_code(status) ==
    CASE status \in {"401", "403"} -> "embedding_provider_auth_failed"
      [] status = "429" -> "embedding_provider_throttled"
      [] status = "5xx" -> "embedding_provider_unavailable"
      [] OTHER -> "embedding_provider_rejected_request"

(* Mutant: the model of the answer is not compared.                        *)
validate_provider_model_Ignored == TRUE

(* An answer names the configured model, or none.                          *)
validate_provider_model == reply.model \in {"none", "configured"}

(* data.sort_by_key(index), a stable sort: the i-th item is the one with   *)
(* i - 1 items of a smaller index, or of the same and earlier, before it.  *)
Precedes(data, j, k) ==
    \/ data[j].index < data[k].index
    \/ data[j].index = data[k].index /\ j < k

Sorted(data) ==
    [i \in DOMAIN data |->
        data[CHOOSE k \in DOMAIN data : Cardinality({j \in DOMAIN data : Precedes(data, j, k)}) = i - 1]]

(* Mutant: the number of vectors is checked, their indices are not.        *)
Complete_ByCount(data) == Len(data) = Len(inputs)

(* The checks of the number of vectors and of the index of each.           *)
Complete(data) ==
    /\ Len(data) = Len(inputs)
    /\ \A k \in DOMAIN data : data[k].index = k - 1

(* The dimension, finite values, and a magnitude.                          *)
validate_vector(v) ==
    /\ DOMAIN v = Dimensions
    /\ \A a \in Dimensions : v[a] # NaN
    /\ HasMagnitude(v)

(* The code of the first of these that fails.                              *)
vector_error(v) ==
    CASE DOMAIN v # Dimensions -> "embedding_dimension_mismatch"
      [] DOMAIN v = Dimensions /\ (\E a \in Dimensions : v[a] = NaN) -> "invalid_embedding_values"
      [] OTHER -> "zero_embedding_vector"

(* A vector on an axis divided by its magnitude.                           *)
Unit(v) == [a \in Dimensions |-> IF v[a] = 0 THEN 0 ELSE IF v[a] > 0 THEN 1 ELSE -1]

(* The sum of a sequence of numbers.                                       *)
Total(s) == FoldLeft(LAMBDA sum, x : sum + x, 0, s)

(* weighted_centroid: input and vector are paired by position.  (It checks *)
(* once more what validate_vector has checked.)                            *)
weighted_centroid(vectors) ==
    [a \in Dimensions |->
        Total([k \in DOMAIN vectors |-> inputs[k].weight * Unit(vectors[k])[a]])]

(* The rest of embed_inputs, on data that is sorted.                       *)
Aggregate(data) ==
    LET vectors == [k \in DOMAIN data |-> data[k].embedding]
        invalid == {k \in DOMAIN data : ~validate_vector(vectors[k])}
    IN  CASE ~validate_provider_model -> Fail("embedding_model_mismatch", FALSE)
          [] validate_provider_model /\ ~Complete(data) ->
                Fail(IF Len(data) # Len(inputs) THEN "embedding_count_mismatch"
                                                ELSE "embedding_index_mismatch", FALSE)
          [] OTHER ->
                IF invalid # {}
                THEN Fail(vector_error(vectors[Min(invalid)]), FALSE)
                ELSE IF weighted_centroid(vectors) = Zero
                     THEN Fail("zero_embedding_centroid", FALSE)
                     ELSE /\ phase' = "embedded"
                          /\ vector' = weighted_centroid(vectors)
                          /\ UNCHANGED error

(* Mutant: vectors are taken in the order of the answer.                   *)
Aggregated_AsReceived ==
    /\ phase = "answered"
    /\ reply.status = "2xx"
    /\ Aggregate(reply.data)
    /\ UNCHANGED <<setting, model, inputs, reply>>

Aggregated ==
    /\ phase = "answered"
    /\ reply.status = "2xx"
    /\ Aggregate(Sorted(reply.data))
    /\ UNCHANGED <<setting, model, inputs, reply>>

(* A status other than success, or a body that is not JSON.                *)
Refused ==
    /\ phase = "answered"
    /\ reply.status # "2xx"
    /\ IF reply.status = "garbled"
       THEN Fail("invalid_embedding_provider_response", FALSE)
       ELSE Fail(provider_error_code(reply.status), reply.status \in {"429", "5xx"})
    /\ UNCHANGED <<setting, model, inputs, reply>>

(* The caller has its vector or its error.                                 *)
Ended ==
    /\ phase \in {"embedded", "failed"}
    /\ UNCHANGED embedVars

EmbedNext ==
    \/ Configure \/ InputRefused
    \/ \E retryable \in BOOLEAN : Unreachable(retryable)
    \/ \E data \in Answers : Reply("2xx", "configured", data)
    \/ \E name \in {"none", "other"} : Reply("2xx", name, InOrder)
    \/ \E status \in StatusCodes \cup {"garbled"} : Reply(status, "none", <<>>)
    \/ Aggregated \/ Refused \/ Ended

EmbedSpec == EmbedInit /\ [][EmbedNext]_embedVars

-----------------------------------------------------------------------------
(***************************************************************************)
(* Each vector reaches its input: whatever the order of the answer, the    *)
(* centroid weighs the vector of every text with the weight of that text.  *)
(***************************************************************************)
EachVectorReachesItsInput ==
    phase = "embedded" =>
        \A a \in Dimensions :
            vector[a] = Total([k \in DOMAIN inputs |-> inputs[k].weight * Unit(model[k])[a]])

(* A refused answer misses, repeats or damages a vector or cancels out.    *)
RefusedForCause ==
    phase = "failed" /\ reply.status = "2xx" =>
        \/ reply.model = "other"
        \/ Len(reply.data) # Len(inputs)
        \/ {item.index : item \in Range(reply.data)} # 0..Len(inputs) - 1
        \/ \E item \in Range(reply.data) : item.embedding \in Damaged
        \/ error.code = "zero_embedding_centroid"

(* What is retryable, apart from a provider that could not be reached.     *)
RetryableForCause ==
    phase = "failed" =>
        \/ error.code = "embedding_provider_unreachable" /\ reply = NoReply
        \/ error.retryable <=> reply.status \in {"429", "5xx"}

(***************************************************************************)
(* An answer with the vector of every input, once and undamaged, from the  *)
(* configured model is never refused, except when the vectors cancel out.  *)
(* What a caller is told to retry is what may succeed the next time: apart *)
(* from a provider that could not be reached, a failure is retryable       *)
(* exactly when the provider throttled the call or failed itself, so never *)
(* for the endpoint, the query, a refused credential or request, or an     *)
(* answer that breaks the contract.                                        *)
(***************************************************************************)
GoodAnswersAreUsed == RefusedForCause /\ RetryableForCause

(***************************************************************************)
(* It fails closed (docs/semantic-query-evaluation.md): without a success, *)
(* with another model, with a vector missing, repeated, damaged or zero,   *)
(* or when the vectors cancel out, there is no query vector.               *)
(***************************************************************************)
FailsClosed ==
    phase = "embedded" =>
        /\ reply.status = "2xx" /\ reply.model # "other"
        /\ \A k \in DOMAIN inputs : \E item \in Range(reply.data) :
              item.index = k - 1 /\ item.embedding = model[k]
        /\ Len(reply.data) = Len(inputs)
        /\ vector # Zero
=============================================================================
