------------------------ MODULE SemanticQueryProofs ------------------------
(***************************************************************************)
(* A query and its vector, for every query, every classification of words, *)
(* every list of inputs, every model, every set of damaged vectors and     *)
(* every answer of the provider: first embed_inputs on any list of inputs, *)
(* then the analysis of a query, then the probe that does both.            *)
(***************************************************************************)
EXTENDS SemanticQuery, FiniteSetTheorems, SequenceTheorems, WellFoundedInduction, TLAPS

(* An item of an answer: the vector of an input, or a damaged one.         *)
ItemOk(item) ==
    /\ item.index \in 0..Len(inputs)
    /\ item.embedding = Item(item.index).embedding \/ item.embedding \in Damaged

(* A list of such items.                                                   *)
Listed(data) ==
    /\ Len(data) \in Nat
    /\ DOMAIN data = 1..Len(data)
    /\ \A k \in DOMAIN data : ItemOk(data[k])

(***************************************************************************)
(* The inductive invariant: nothing was answered before the call, an       *)
(* answer that is looked into is such a list, and the outcome is one of    *)
(* the three properties below, from what is never changed again.           *)
(***************************************************************************)
ReplyInv ==
    /\ phase \in {"analysed", "configured", "answered", "embedded", "failed"}
    /\ phase \in {"analysed", "configured"} => reply = NoReply
    /\ reply.status = "2xx" =>
          reply.model \in {"none", "configured", "other"} /\ Listed(reply.data)

EmbedInv ==
    /\ model \in Models
    /\ HandedOver
    /\ ReplyInv
    /\ EachVectorReachesItsInput
    /\ GoodAnswersAreUsed
    /\ FailsClosed

-----------------------------------------------------------------------------
(* Every answer the provider may give is a list of items.                  *)
LEMMA AnswersAreListed ==
    ASSUME HandedOver, NEW data \in Answers
    PROVE  Listed(data)
<1> DEFINE N == Len(inputs)
           V == {Item(i).embedding : i \in 0..N} \cup Damaged
           T == [index : 0..N, embedding : V]
<1>1. N \in Nat /\ N >= 1 /\ DOMAIN inputs = 1..N
  BY DEF HandedOver
<1>2. \A i \in 0..N : Item(i) \in T /\ ItemOk(Item(i)) /\ Item(i).index = i
  BY DEF Item, ItemOk
<1>3. ASSUME NEW i \in 0..N, NEW v \in Damaged
      PROVE  /\ [Item(i) EXCEPT !.embedding = v] \in T
             /\ ItemOk([Item(i) EXCEPT !.embedding = v])
  BY DEF Item, ItemOk
<1>4. InOrder \in [1..N -> T] /\ \A k \in 1..N : InOrder[k] = Item(k - 1)
  BY <1>1, <1>2 DEF InOrder
<1> HIDE DEF T, V, N
<1>5. ASSUME NEW n \in Nat, NEW d \in [1..n -> T], \A k \in 1..n : ItemOk(d[k])
      PROVE  Listed(d)
  <2>1. d \in Seq(T) /\ Len(d) = n
    OBVIOUS
  <2> QED BY <1>5, <2>1 DEF Listed
<1>6. CASE data \in {[k \in DOMAIN s |-> Item(s[k])] :
                        s \in UNION {[1..n -> 0..N] : n \in N - 1..N}}
  <2>1. PICK n \in N - 1..N : \E s \in [1..n -> 0..N] : data = [k \in DOMAIN s |-> Item(s[k])]
    BY <1>6
  <2>2. PICK s \in [1..n -> 0..N] : data = [k \in DOMAIN s |-> Item(s[k])]
    BY <2>1
  <2>3. n \in Nat /\ data \in [1..n -> T] /\ \A k \in 1..n : ItemOk(data[k])
    BY <1>1, <1>2, <2>1, <2>2
  <2> QED BY <1>5, <2>3
<1>7. CASE data \in {Append(InOrder, Item(i)) : i \in 0..N}
  <2>1. PICK i \in 0..N : data = Append(InOrder, Item(i))
    BY <1>7
  <2>2. /\ data \in [1..N + 1 -> T]
        /\ \A k \in 1..N : data[k] = Item(k - 1)
        /\ data[N + 1] = Item(i)
    <3>1. InOrder \in Seq(T) /\ Len(InOrder) = N
      BY <1>1, <1>4
    <3>2. Append(InOrder, Item(i)) \in Seq(T) /\ Len(Append(InOrder, Item(i))) = N + 1
      BY <1>2, <3>1
    <3>3. DOMAIN data = 1..N + 1 /\ data \in [1..N + 1 -> T]
      <4>1. data \in Seq(T) /\ Len(data) = N + 1
        BY <2>1, <3>2
      <4> QED BY <1>1, <4>1
    <3>4. \A k \in 1..N : data[k] = InOrder[k]
      BY <1>1, <2>1, <3>1
    <3>5. data[N + 1] = Item(i)
      BY <1>1, <2>1, <3>1
    <3> QED BY <1>4, <3>3, <3>4, <3>5
  <2>3. ASSUME NEW k \in 1..N + 1 PROVE ItemOk(data[k])
    <3>1. CASE k = N + 1
      BY <1>2, <2>1, <2>2, <3>1
    <3>2. CASE k # N + 1
      <4>1. k \in 1..N /\ k - 1 \in 0..N
        BY <1>1, <3>2
      <4> QED BY <1>2, <2>2, <4>1
    <3> QED BY <3>1, <3>2
  <2> QED BY <1>1, <1>5, <2>2, <2>3
<1>8. CASE data \in {[InOrder EXCEPT ![k].embedding = v] : k \in DOMAIN inputs, v \in Damaged}
  <2>1. PICK k \in 1..N, v \in Damaged : data = [InOrder EXCEPT ![k].embedding = v]
    BY <1>1, <1>8
  <2>2. data = [InOrder EXCEPT ![k] = [InOrder[k] EXCEPT !.embedding = v]]
    BY <2>1
  <2>3. k - 1 \in 0..N /\ InOrder[k] = Item(k - 1)
    BY <1>1, <1>4
  <2>4. PICK d \in T : d = [Item(k - 1) EXCEPT !.embedding = v] /\ ItemOk(d)
    BY <1>3, <2>3
  <2>5. data = [InOrder EXCEPT ![k] = d]
    BY <2>2, <2>3, <2>4
  <2>6. \A j \in 1..N : data[j] = IF j = k THEN d ELSE Item(j - 1)
    BY <1>4, <2>5
  <2>7. data \in [1..N -> T]
    BY <1>4, <2>4, <2>5
  <2>8. \A j \in 1..N : ItemOk(data[j])
    <3>1. \A j \in 1..N : j - 1 \in 0..N
      BY <1>1
    <3> QED BY <1>2, <2>4, <2>6, <3>1
  <2> QED BY <1>1, <1>5, <2>7, <2>8
<1> QED BY <1>6, <1>7, <1>8 DEF Answers, N

(* The answer that has every vector in order is one of them.               *)
LEMMA InOrderIsAnAnswer ==
    ASSUME HandedOver
    PROVE  InOrder \in Answers
<1>1. PICK N \in Nat : N = Len(inputs) /\ DOMAIN inputs = 1..N
  BY DEF HandedOver
<1> DEFINE s == [k \in 1..N |-> k - 1]
<1>2. s \in [1..N -> 0..N]
  <2>1. \A k \in 1..N : k - 1 \in 0..N
    OBVIOUS
  <2> QED BY <2>1
<1>3. InOrder = [k \in DOMAIN s |-> Item(s[k])]
  BY <1>1 DEF InOrder
<1> HIDE DEF s
<1>4. s \in UNION {[1..n -> 0..N] : n \in N - 1..N}
  <2>1. N \in N - 1..N
    OBVIOUS
  <2>2. PICK F : F = [1..N -> 0..N]
    OBVIOUS
  <2>3. F \in {[1..n -> 0..N] : n \in N - 1..N}
    BY <2>1, <2>2
  <2> QED BY <1>2, <2>2, <2>3
<1> QED BY <1>1, <1>3, <1>4 DEF Answers

(* The positions of a list of n items.                                     *)
LEMMA UpTo ==
    ASSUME NEW n \in Nat
    PROVE  IsFiniteSet(1..n) /\ Cardinality(1..n) = n
<1> QED BY FS_Interval

(* Precedes is a strict total order of the positions of a list.            *)
LEMMA PrecedesOrder ==
    ASSUME NEW data, NEW n \in Nat, \A k \in 1..n : data[k].index \in Nat
    PROVE  \A j, k \in 1..n :
               /\ ~ Precedes(data, k, k)
               /\ j # k => Precedes(data, j, k) \/ Precedes(data, k, j)
               /\ \A l \in 1..n :
                     Precedes(data, j, k) /\ Precedes(data, k, l) => Precedes(data, j, l)
<1> QED BY DEF Precedes

(***************************************************************************)
(* The sort is one: the i-th item is an item of the list with i - 1 items  *)
(* before it.  Positions have distinct numbers of predecessors below n, so *)
(* every number below n is one of them.                                    *)
(***************************************************************************)
LEMMA SortedPicks ==
    ASSUME NEW data, NEW n \in Nat, DOMAIN data = 1..n, \A k \in 1..n : data[k].index \in Nat
    PROVE  /\ Sorted(data) = [i \in 1..n |-> Sorted(data)[i]]
           /\ \A i \in 1..n : \E k \in 1..n :
                 /\ Sorted(data)[i] = data[k]
                 /\ Cardinality({j \in 1..n : Precedes(data, j, k)}) = i - 1
<1> DEFINE Preds(k) == {j \in 1..n : Precedes(data, j, k)}
           rank == [k \in 1..n |-> Cardinality(Preds(k))]
           place == [k \in 1..n |-> rank[k] + 1]
<1>1. IsFiniteSet(1..n) /\ Cardinality(1..n) = n
  BY UpTo
<1>2. ASSUME NEW k \in 1..n
      PROVE  rank[k] \in Nat /\ rank[k] < n
  <2>1. Preds(k) \in SUBSET (1..n) /\ Preds(k) # 1..n
    BY PrecedesOrder
  <2>2. rank[k] = Cardinality(Preds(k))
    OBVIOUS
  <2> HIDE DEF Preds, rank
  <2>3. /\ IsFiniteSet(Preds(k))
        /\ Cardinality(Preds(k)) <= n
        /\ Cardinality(Preds(k)) # n
    BY <1>1, <2>1, FS_Subset
  <2>4. Cardinality(Preds(k)) \in Nat
    BY <2>3, FS_CardinalityType
  <2> QED BY <2>2, <2>3, <2>4
<1>3. ASSUME NEW j \in 1..n, NEW k \in 1..n, Precedes(data, j, k)
      PROVE  rank[j] < rank[k]
  <2>1. Preds(j) \in SUBSET Preds(k) /\ j \in Preds(k) /\ j \notin Preds(j)
    BY <1>3, PrecedesOrder
  <2>2. Preds(k) \in SUBSET (1..n)
    OBVIOUS
  <2>3. rank[j] = Cardinality(Preds(j)) /\ rank[k] = Cardinality(Preds(k))
    OBVIOUS
  <2>4. rank[j] \in Nat /\ rank[k] \in Nat
    BY <1>2
  <2> HIDE DEF Preds, rank
  <2>5. IsFiniteSet(Preds(k))
    BY <1>1, <2>2, FS_Subset
  <2>6. /\ Cardinality(Preds(j)) <= Cardinality(Preds(k))
        /\ Cardinality(Preds(k)) # Cardinality(Preds(j))
    BY <2>1, <2>5, FS_Subset
  <2> QED BY <2>3, <2>4, <2>6
<1>4. place \in [1..n -> 1..n]
  BY <1>2
<1>5. \A j, k \in 1..n : place[j] = place[k] => j = k
  <2> SUFFICES ASSUME NEW j \in 1..n, NEW k \in 1..n, j # k
               PROVE  place[j] # place[k]
    OBVIOUS
  <2>1. Precedes(data, j, k) \/ Precedes(data, k, j)
    BY PrecedesOrder
  <2>2. rank[j] \in Nat /\ rank[k] \in Nat /\ rank[j] # rank[k]
    <3>1. rank[j] \in Nat /\ rank[k] \in Nat
      BY <1>2
    <3>2. rank[j] < rank[k] \/ rank[k] < rank[j]
      BY <1>3, <2>1
    <3> HIDE DEF rank
    <3> QED BY <3>1, <3>2
  <2>3. place[j] = rank[j] + 1 /\ place[k] = rank[k] + 1
    OBVIOUS
  <2> HIDE DEF place, rank
  <2> QED BY <2>2, <2>3
<1>6. \A i \in 1..n : \E k \in 1..n : place[k] = i
  <2> HIDE DEF place
  <2>1. place \in Injection(1..n, 1..n)
    BY <1>4, <1>5 DEF Injection, IsInjective
  <2>2. place \in Surjection(1..n, 1..n)
    BY <1>1, <2>1, FS_Injection
  <2> QED BY <2>2 DEF Surjection
<1>7. ASSUME NEW i \in 1..n
      PROVE  \E k \in 1..n : Sorted(data)[i] = data[k] /\ Cardinality(Preds(k)) = i - 1
  <2>1. PICK k \in 1..n : place[k] = i
    BY <1>6
  <2>2. rank[k] \in Nat /\ place[k] = rank[k] + 1 /\ rank[k] = Cardinality(Preds(k))
    BY <1>2
  <2>3. Cardinality(Preds(k)) = i - 1
    <3> HIDE DEF place, rank, Preds
    <3> QED BY <2>1, <2>2
  <2>4. PICK c : c = CHOOSE l \in 1..n : Cardinality(Preds(l)) = i - 1
    OBVIOUS
  <2>5. Sorted(data)[i] = data[c]
    BY <2>4 DEF Sorted
  <2>6. c \in 1..n /\ Cardinality(Preds(c)) = i - 1
    <3> HIDE DEF Preds
    <3> QED BY <2>3, <2>4
  <2> QED BY <2>5, <2>6
<1>8. Sorted(data) = [i \in 1..n |-> Sorted(data)[i]]
  BY DEF Sorted
<1> QED BY <1>7, <1>8

(***************************************************************************)
(* When the indices of n items are 0 to n - 1, sorting puts each at its    *)
(* place: the indices are distinct, and index v has v smaller ones.        *)
(***************************************************************************)
LEMMA SortedContiguous ==
    ASSUME NEW data, NEW n \in Nat, DOMAIN data = 1..n,
           {data[k].index : k \in 1..n} = 0..n - 1
    PROVE  \A i \in 1..n : Sorted(data)[i].index = i - 1
<1> DEFINE idx == [k \in 1..n |-> data[k].index]
<1>1. \A k \in 1..n : idx[k] = data[k].index /\ idx[k] \in 0..n - 1 /\ data[k].index \in Nat
  OBVIOUS
<1>2. \A v \in 0..n - 1 : \E k \in 1..n : idx[k] = v
  OBVIOUS
<1>3. idx \in [1..n -> 0..n - 1]
  OBVIOUS
<1> HIDE DEF idx
<1>4. idx \in Injection(1..n, 0..n - 1)
  <2>1. idx \in Surjection(1..n, 0..n - 1)
    BY <1>2, <1>3 DEF Surjection
  <2>2. IsFiniteSet(1..n) /\ Cardinality(1..n) = n
    BY UpTo
  <2>3. Cardinality(0..n - 1) = n
    <3>1. 0 \in Int /\ n - 1 \in Int
      OBVIOUS
    <3>2. Cardinality(0..n - 1) = IF 0 > n - 1 THEN 0 ELSE (n - 1) - 0 + 1
      BY ONLY <3>1, FS_Interval
    <3> QED BY ONLY <3>2, n \in Nat
  <2> QED BY <2>1, <2>2, <2>3, FS_SurjSameCardinalityImpliesInj
<1>5. \A j, k \in 1..n : idx[j] = idx[k] => j = k
  BY <1>4 DEF Injection, IsInjective
<1> SUFFICES ASSUME NEW i \in 1..n PROVE Sorted(data)[i].index = i - 1
  OBVIOUS
<1>6. PICK k \in 1..n : /\ Sorted(data)[i] = data[k]
                        /\ Cardinality({j \in 1..n : Precedes(data, j, k)}) = i - 1
  BY <1>1, SortedPicks, ZenonT(40)
<1>7. PICK v \in 0..n - 1 : v = idx[k]
  BY <1>1
<1>8. PICK P : P = {j \in 1..n : Precedes(data, j, k)}
  OBVIOUS
<1>9. P = {j \in 1..n : idx[j] < v}
  BY <1>1, <1>5, <1>7, <1>8 DEF Precedes
<1>10. Cardinality(P) = v
  <2> DEFINE f == [j \in P |-> idx[j]]
             T == 0..v - 1
  <2>1. IsFiniteSet(P)
    <3>1. P \in SUBSET (1..n)
      BY <1>9
    <3> QED BY <3>1, UpTo, FS_Subset
  <2>2. f \in [P -> T] /\ (\A t \in T : \E j \in P : f[j] = t)
        /\ (\A j, l \in P : f[j] = f[l] => j = l)
    <3>1. f \in [P -> T]
      BY <1>1, <1>9
    <3>2. ASSUME NEW t \in T PROVE \E j \in P : f[j] = t
      <4>1. t \in 0..n - 1 /\ t < v
        BY <1>7
      <4>2. PICK j \in 1..n : idx[j] = t
        BY <1>2, <4>1
      <4> QED BY <1>9, <4>1, <4>2
    <3>3. \A j, l \in P : f[j] = f[l] => j = l
      BY <1>5, <1>9
    <3> QED BY <3>1, <3>2, <3>3
  <2> HIDE DEF f, T
  <2>3. f \in Bijection(P, T)
    BY <2>2 DEF Bijection, Injection, IsInjective, Surjection
  <2>4. Cardinality(T) = Cardinality(P)
    BY <2>1, <2>3, FS_Bijection DEF ExistsBijection
  <2>5. Cardinality(T) = v
    <3>1. 0 \in Int /\ v - 1 \in Int
      OBVIOUS
    <3>2. Cardinality(0..v - 1) = IF 0 > v - 1 THEN 0 ELSE (v - 1) - 0 + 1
      BY ONLY <3>1, FS_Interval
    <3> QED BY <3>2 DEF T
  <2> QED BY <2>4, <2>5
<1> QED BY <1>1, <1>6, <1>7, <1>8, <1>10

-----------------------------------------------------------------------------
(* A vector of the model passes validate_vector, a damaged one does not.   *)
LEMMA Validation ==
    /\ \A m \in Models : \A k \in DOMAIN m : validate_vector(m[k])
    /\ \A v \in Damaged : ~ validate_vector(v)
<1>1. ASSUME NEW m \in Models, NEW k \in DOMAIN m PROVE validate_vector(m[k])
  <2>1. m[k] \in [Dimensions -> Int] /\ HasMagnitude(m[k]) /\ NaN \notin Int
    BY EmbeddingAssumption
  <2> QED BY <2>1 DEF validate_vector
<1>2. ASSUME NEW v \in Damaged, validate_vector(v) PROVE FALSE
  BY <1>2, EmbeddingAssumption DEF validate_vector
<1> QED BY <1>1, <1>2

(* What Complete and validate_vector leave of a sorted answer.             *)
LEMMA CompleteAnswers ==
    ASSUME HandedOver, NEW data, Listed(data), Complete(Sorted(data)),
           \A k \in DOMAIN Sorted(data) : validate_vector(Sorted(data)[k].embedding)
    PROVE  /\ Len(data) = Len(inputs)
           /\ DOMAIN Sorted(data) = DOMAIN inputs
           /\ \A k \in DOMAIN inputs :
                 /\ Sorted(data)[k] \in Range(data)
                 /\ Sorted(data)[k].index = k - 1
                 /\ Sorted(data)[k].embedding = model[k]
<1>1. PICK n \in Nat : n = Len(data)
  BY DEF Listed
<1>2. PICK d : d = Sorted(data)
  OBVIOUS
<1>3. DOMAIN data = 1..n /\ \A k \in 1..n : data[k].index \in Nat /\ ItemOk(data[k])
  BY <1>1 DEF Listed, ItemOk
<1>4. /\ d = [i \in 1..n |-> d[i]]
      /\ \A i \in 1..n : \E k \in 1..n : d[i] = data[k]
  BY <1>2, <1>3, SortedPicks
<1>5. DOMAIN d = 1..n /\ Len(d) = n
  <2> DEFINE R == {d[i] : i \in 1..n}
  <2>1. d \in [1..n -> R]
    BY <1>4
  <2> HIDE DEF R
  <2>2. d \in Seq(R)
    BY <2>1
  <2> QED BY <2>1, <2>2
<1>6. n = Len(inputs) /\ DOMAIN inputs = 1..n /\ \A k \in 1..n : d[k].index = k - 1
  BY <1>2, <1>5 DEF Complete, HandedOver
<1>7. ASSUME NEW k \in 1..n
      PROVE  d[k] \in Range(data) /\ d[k].embedding = model[k]
  <2>1. PICK j \in 1..n : d[k] = data[j]
    BY <1>4
  <2>2. ItemOk(d[k]) /\ d[k] \in Range(data)
    BY <1>3, <2>1 DEF Range
  <2>3. d[k].embedding \notin Damaged
    BY <1>2, <1>5, Validation
  <2>4. d[k].index = k - 1 /\ k - 1 < Len(inputs) /\ (k - 1) + 1 = k
    BY <1>6
  <2>5. Item(d[k].index).embedding = model[k]
    BY <2>4 DEF Item
  <2> QED BY <2>2, <2>3, <2>5 DEF ItemOk
<1> QED BY <1>1, <1>2, <1>5, <1>6, <1>7

(* An answer that misses nothing, repeats nothing and has no damaged       *)
(* vector passes the checks.                                               *)
LEMMA GoodAnswersPass ==
    ASSUME model \in Models, HandedOver, NEW data, Listed(data),
           Len(data) = Len(inputs),
           {item.index : item \in Range(data)} = 0..Len(inputs) - 1,
           \A item \in Range(data) : item.embedding \notin Damaged
    PROVE  /\ Complete(Sorted(data))
           /\ \A k \in DOMAIN Sorted(data) : validate_vector(Sorted(data)[k].embedding)
<1>1. PICK n \in Nat : n = Len(data) /\ n = Len(inputs)
  BY DEF Listed
<1>2. PICK d : d = Sorted(data)
  OBVIOUS
<1>3. DOMAIN data = 1..n /\ \A k \in 1..n : data[k].index \in Nat /\ ItemOk(data[k])
  BY <1>1 DEF Listed, ItemOk
<1>4. /\ d = [i \in 1..n |-> d[i]]
      /\ \A i \in 1..n : \E k \in 1..n : d[i] = data[k]
  BY <1>2, <1>3, SortedPicks
<1>5. DOMAIN d = 1..n /\ Len(d) = n
  <2> DEFINE R == {d[i] : i \in 1..n}
  <2>1. d \in [1..n -> R]
    BY <1>4
  <2> HIDE DEF R
  <2>2. d \in Seq(R)
    BY <2>1
  <2> QED BY <2>1, <2>2
<1>6. {data[k].index : k \in 1..n} = 0..n - 1
  BY <1>1, <1>3 DEF Range
<1>7. \A i \in 1..n : d[i].index = i - 1
  BY <1>2, <1>3, <1>6, SortedContiguous
<1>8. ASSUME NEW i \in 1..n PROVE validate_vector(d[i].embedding)
  <2>1. PICK k \in 1..n : d[i] = data[k]
    BY <1>4
  <2>2. d[i].embedding = Item(d[i].index).embedding
    BY <1>3, <2>1 DEF Range, ItemOk
  <2>3. d[i].index = i - 1 /\ i - 1 < Len(inputs) /\ (i - 1) + 1 = i
    BY <1>1, <1>7
  <2>4. d[i].embedding = model[i]
    BY <2>2, <2>3 DEF Item
  <2>5. i \in DOMAIN model
    BY <1>1 DEF HandedOver
  <2> QED BY <2>4, <2>5, Validation
<1> QED BY <1>1, <1>2, <1>5, <1>7, <1>8 DEF Complete

(***************************************************************************)
(* The rest of embed_inputs establishes the three properties.              *)
(***************************************************************************)
LEMMA AggregatedSettles ==
    ASSUME EmbedInv, Aggregated
    PROVE  EmbedInv'
<1>1. PICK data : data = reply.data
  OBVIOUS
<1>2. PICK d : d = Sorted(data)
  OBVIOUS
<1>3. PICK vectors : vectors = [k \in DOMAIN d |-> d[k].embedding]
  OBVIOUS
<1>4. /\ reply.status = "2xx" /\ reply.model \in {"none", "configured", "other"}
      /\ Listed(data) /\ HandedOver /\ model \in Models
      /\ inputs' = inputs /\ model' = model /\ reply' = reply
  BY <1>1 DEF EmbedInv, ReplyInv, Aggregated
<1>5. HandedOver' /\ model' \in Models
  BY <1>4 DEF HandedOver
<1>6. Listed(data)'
  BY <1>4 DEF Listed, ItemOk, Item
<1>7. \/ /\ \E code : Fail(code, FALSE)
         /\ \/ reply.model = "other"
            \/ ~ Complete(d)
            \/ ~ \A k \in DOMAIN d : validate_vector(d[k].embedding)
      \/ Fail("zero_embedding_centroid", FALSE)
      \/ /\ reply.model # "other" /\ Complete(d)
         /\ \A k \in DOMAIN d : validate_vector(d[k].embedding)
         /\ weighted_centroid(vectors) # Zero
         /\ phase' = "embedded" /\ vector' = weighted_centroid(vectors)
  BY <1>1, <1>2, <1>3, <1>4 DEF Aggregated, Aggregate, validate_provider_model
<1>8. CASE phase' = "failed" /\ ~ error'.retryable
           /\ (error'.code = "zero_embedding_centroid"
                  \/ reply.model = "other"
                  \/ ~ Complete(d)
                  \/ ~ \A k \in DOMAIN d : validate_vector(d[k].embedding))
  <2>1. ReplyInv' /\ EachVectorReachesItsInput' /\ FailsClosed'
    BY <1>1, <1>4, <1>6, <1>8 DEF ReplyInv, EachVectorReachesItsInput, FailsClosed
  <2>2. RetryableForCause'
    BY <1>4, <1>8 DEF RetryableForCause
  <2>3. RefusedForCause'
    <3>1. \/ error'.code = "zero_embedding_centroid"
          \/ reply.model = "other"
          \/ Len(data) # Len(inputs)
          \/ {item.index : item \in Range(data)} # 0..Len(inputs) - 1
          \/ \E item \in Range(data) : item.embedding \in Damaged
      BY <1>2, <1>4, <1>8, GoodAnswersPass
    <3> QED BY <1>1, <1>4, <1>8, <3>1 DEF RefusedForCause
  <2> QED BY <1>5, <2>1, <2>2, <2>3 DEF EmbedInv, GoodAnswersAreUsed
<1>9. CASE /\ reply.model # "other" /\ Complete(d)
           /\ \A k \in DOMAIN d : validate_vector(d[k].embedding)
           /\ weighted_centroid(vectors) # Zero
           /\ phase' = "embedded" /\ vector' = weighted_centroid(vectors)
  <2>1. /\ Len(data) = Len(inputs)
        /\ DOMAIN d = DOMAIN inputs
        /\ \A k \in DOMAIN inputs :
              d[k] \in Range(data) /\ d[k].index = k - 1 /\ d[k].embedding = model[k]
    BY <1>2, <1>4, <1>9, CompleteAnswers
  <2>2. DOMAIN vectors = DOMAIN inputs /\ \A k \in DOMAIN inputs : vectors[k] = model[k]
    BY <1>3, <2>1
  <2>3. ReplyInv' /\ GoodAnswersAreUsed'
    BY <1>1, <1>4, <1>6, <1>9 DEF ReplyInv, GoodAnswersAreUsed, RefusedForCause, RetryableForCause
  <2>4. FailsClosed'
    BY <1>1, <1>4, <1>9, <2>1 DEF FailsClosed, Zero
  <2>5. ASSUME NEW a \in Dimensions
        PROVE  vector'[a] = Total([k \in DOMAIN inputs |-> inputs[k].weight * Unit(model[k])[a]])
    <3>1. vector'[a] = Total([k \in DOMAIN vectors |-> inputs[k].weight * Unit(vectors[k])[a]])
      BY <1>9 DEF weighted_centroid
    <3>2. [k \in DOMAIN vectors |-> inputs[k].weight * Unit(vectors[k])[a]]
             = [k \in DOMAIN inputs |-> inputs[k].weight * Unit(model[k])[a]]
      BY <2>2
    <3> QED BY <3>1, <3>2
  <2>6. EachVectorReachesItsInput'
    BY <1>4, <2>5 DEF EachVectorReachesItsInput
  <2> QED BY <1>5, <2>3, <2>4, <2>6 DEF EmbedInv
<1> QED BY <1>7, <1>8, <1>9 DEF Fail

(* Every step of a call keeps the invariant.                               *)
LEMMA EmbedStep ==
    ASSUME EmbedInv, [EmbedNext]_embedVars
    PROVE  EmbedInv'
<1> DEFINE Same == model' = model /\ inputs' = inputs
<1>1. ASSUME Same PROVE HandedOver' /\ model' \in Models
                        /\ \A data : Listed(data)' <=> Listed(data)
  BY <1>1 DEF EmbedInv, HandedOver, Listed, ItemOk, Item
<1>2. ASSUME Same, reply' = reply, phase' = "failed", reply.status # "2xx",
             RetryableForCause'
      PROVE  EmbedInv'
  BY <1>1, <1>2 DEF EmbedInv, ReplyInv, EachVectorReachesItsInput, GoodAnswersAreUsed,
                    RefusedForCause, FailsClosed
<1>3. CASE Configure
  <2>1. Same /\ reply' = reply /\ reply = NoReply /\ phase' \in {"configured", "failed"}
    BY <1>3 DEF Configure, Fail, EmbedInv, ReplyInv
  <2>2. CASE phase' = "failed"
    <3>1. ~ error'.retryable
      BY <1>3, <2>2 DEF Configure, Fail
    <3>2. RetryableForCause'
      BY <2>1, <3>1 DEF RetryableForCause, NoReply
    <3> QED BY <1>2, <2>1, <2>2, <3>2 DEF NoReply
  <2>3. CASE phase' = "configured"
    BY <1>1, <2>1, <2>3 DEF EmbedInv, ReplyInv, NoReply, EachVectorReachesItsInput,
                            GoodAnswersAreUsed, RefusedForCause, RetryableForCause,
                            FailsClosed
  <2> QED BY <2>1, <2>2, <2>3
<1>4. CASE InputRefused
  <2>1. /\ Same /\ reply' = reply /\ reply = NoReply /\ phase' = "failed"
        /\ ~ error'.retryable
    BY <1>4 DEF InputRefused, Fail, EmbedInv, ReplyInv
  <2>2. RetryableForCause'
    BY <2>1 DEF RetryableForCause, NoReply
  <2> QED BY <1>2, <2>1, <2>2 DEF NoReply
<1>5. ASSUME NEW retryable \in BOOLEAN, Unreachable(retryable) PROVE EmbedInv'
  <2>1. /\ Same /\ reply' = reply /\ reply = NoReply /\ phase' = "failed"
        /\ error'.code = "embedding_provider_unreachable"
    BY <1>5 DEF Unreachable, Fail, EmbedInv, ReplyInv
  <2>2. RetryableForCause'
    BY <2>1 DEF RetryableForCause
  <2> QED BY <1>2, <2>1, <2>2 DEF NoReply
<1>6. ASSUME NEW status, NEW name, NEW data, Reply(status, name, data),
             status = "2xx" => name \in {"none", "configured", "other"} /\ Listed(data)
      PROVE  EmbedInv'
  <2>1. /\ Same /\ phase' = "answered"
        /\ reply'.status = status /\ reply'.model = name /\ reply'.data = data
    BY <1>6 DEF Reply
  <2> QED BY <1>1, <1>6, <2>1 DEF EmbedInv, ReplyInv, EachVectorReachesItsInput,
                                  GoodAnswersAreUsed, RefusedForCause, RetryableForCause,
                                  FailsClosed
<1>7. ASSUME NEW data \in Answers, Reply("2xx", "configured", data) PROVE EmbedInv'
  BY <1>6, <1>7, AnswersAreListed DEF EmbedInv
<1>8. ASSUME NEW name \in {"none", "other"}, Reply("2xx", name, InOrder) PROVE EmbedInv'
  <2>1. InOrder \in Answers
    BY InOrderIsAnAnswer DEF EmbedInv
  <2>2. PICK data \in Answers : data = InOrder
    BY <2>1
  <2> QED BY <1>6, <1>8, <2>2, AnswersAreListed DEF EmbedInv
<1>9. ASSUME NEW status \in StatusCodes \cup {"garbled"}, Reply(status, "none", <<>>)
      PROVE  EmbedInv'
  <2>1. status # "2xx"
    BY DEF StatusCodes
  <2> QED BY <1>6, <1>9, <2>1
<1>10. CASE Aggregated
  BY <1>10, AggregatedSettles
<1>11. CASE Refused
  <2>1. Same /\ reply' = reply /\ phase' = "failed" /\ reply.status # "2xx"
    BY <1>11 DEF Refused, Fail
  <2>2. error'.retryable <=> reply.status \in {"429", "5xx"}
    <3>1. CASE reply.status = "garbled"
      BY <1>11, <3>1 DEF Refused, Fail
    <3>2. CASE reply.status # "garbled"
      <4>1. PICK b : b = (reply.status \in {"429", "5xx"})
        BY Zenon
      <4>2. \E code : error' = [code |-> code, retryable |-> b]
        BY <1>11, <3>2, <4>1, Zenon DEF Refused, Fail
      <4>3. error'.retryable = b
        BY <4>2
      <4> QED BY <4>1, <4>3, Zenon
    <3> QED BY <3>1, <3>2
  <2>3. RetryableForCause'
    BY <2>1, <2>2 DEF RetryableForCause
  <2> QED BY <1>2, <2>1, <2>3
<1>12. CASE UNCHANGED embedVars
  BY <1>1, <1>12 DEF embedVars, EmbedInv, ReplyInv, EachVectorReachesItsInput,
                           GoodAnswersAreUsed, RefusedForCause, RetryableForCause, FailsClosed
<1> QED BY <1>3, <1>4, <1>5, <1>7, <1>8, <1>9, <1>10, <1>11, <1>12 DEF EmbedNext, Ended

(***************************************************************************)
(* The invariant holds in every reachable state of a call.                 *)
(***************************************************************************)
THEOREM EmbedInvariance == EmbedSpec => []EmbedInv
<1>1. EmbedInit => EmbedInv
  BY DEF EmbedInit, Fresh, EmbedInv, ReplyInv, NoReply,
         EachVectorReachesItsInput, GoodAnswersAreUsed, RefusedForCause, RetryableForCause,
         FailsClosed
<1>2. ASSUME EmbedInv, [EmbedNext]_embedVars PROVE EmbedInv'
  BY <1>2, EmbedStep
<1> QED BY <1>1, <1>2, PTL DEF EmbedSpec

(***************************************************************************)
(* Whatever the order of the answer, each vector is weighed with the       *)
(* weight of its own text.                                                 *)
(***************************************************************************)
THEOREM Pairing == EmbedSpec => []EachVectorReachesItsInput
<1> QED BY EmbedInvariance, PTL DEF EmbedInv

(***************************************************************************)
(* embed_inputs refuses no complete and sound answer, unless the vectors   *)
(* cancel out, and calls a failure retryable exactly when the provider     *)
(* throttled the call or failed, or could not be reached.                  *)
(***************************************************************************)
THEOREM Acceptance == EmbedSpec => []GoodAnswersAreUsed
<1> QED BY EmbedInvariance, PTL DEF EmbedInv

(***************************************************************************)
(* There is a query vector only after a success, from the configured       *)
(* model, with the vector of every input exactly once.                     *)
(***************************************************************************)
THEOREM Closed == EmbedSpec => []FailsClosed
<1> QED BY EmbedInvariance, PTL DEF EmbedInv

-----------------------------------------------------------------------------
(* Induction over the positions 0..n, on a set instead of a predicate.     *)
LEMMA Upward ==
    ASSUME NEW n \in Nat, NEW T, 0 \in T,
           \A k \in 0..n - 1 : k \in T => k + 1 \in T
    PROVE  \A k \in 0..n : k \in T
<1> DEFINE Bad == (0..n) \ T
           R == OpToRel(<, Nat)
<1>1. SUFFICES ASSUME Bad # {} PROVE FALSE
  OBVIOUS
<1>2. Bad \subseteq Nat
  OBVIOUS
<1>3. \A k, m \in Nat : m < k => <<m, k>> \in R
  BY Zenon DEF OpToRel
<1>4. IsWellFoundedOn(R, Nat)
  BY NatLessThanWellFounded, Zenon
<1> HIDE DEF R
<1>5. PICK k \in Bad : \A m \in Bad : <<m, k>> \notin R
  BY <1>1, <1>2, <1>4, WFMin
<1>6. k \in 1..n
  <2>1. k \in 0..n /\ k # 0
    BY <1>5
  <2> QED BY <2>1
<1>7. PICK m \in 0..n - 1 : k = m + 1
  <2>1. k - 1 \in 0..n - 1 /\ k = (k - 1) + 1
    BY <1>6
  <2> QED BY <2>1
<1>8. m \in Bad /\ <<m, k>> \in R
  BY <1>3, <1>5, <1>6, <1>7
<1> QED BY <1>5, <1>8

(* The last position of a prefix is the largest.                           *)
LEMMA LargestOf ==
    ASSUME NEW m \in Nat, NEW t \in SUBSET (1..m + 1), m + 1 \in t
    PROVE  Max(t) = m + 1
<1>1. \A x \in t : x \in Int /\ x <= m + 1
  OBVIOUS
<1>2. \A y \in t : m + 1 >= y
  BY <1>1
<1>3. \E x \in t : \A y \in t : x >= y
  BY <1>2
<1>4. Max(t) \in t /\ \A y \in t : Max(t) >= y
  BY <1>3 DEF Max
<1>5. Max(t) \in Int /\ Max(t) <= m + 1 /\ Max(t) >= m + 1
  BY <1>1, <1>4
<1> QED BY <1>5

(* A set of positions has a last one.                                      *)
LEMMA Largest ==
    ASSUME NEW n \in Nat, NEW t \in SUBSET (1..n), t # {}
    PROVE  Max(t) \in t
<1> DEFINE T == {m \in 0..n : \A u \in SUBSET (1..m) : u # {} => Max(u) \in u}
<1>1. 0 \in T
  <2>1. \A u \in SUBSET (1..0) : u = {}
    OBVIOUS
  <2>2. 0 \in 0..n
    OBVIOUS
  <2> QED BY <2>1, <2>2, Zenon
<1>2. ASSUME NEW m \in 0..n - 1, m \in T PROVE m + 1 \in T
  <2>1. ASSUME NEW u \in SUBSET (1..m + 1), u # {} PROVE Max(u) \in u
    <3>1. CASE m + 1 \in u
      BY <3>1, LargestOf
    <3>2. CASE m + 1 \notin u
      <4>1. u \in SUBSET (1..m)
        BY <3>2
      <4> QED BY <1>2, <2>1, <4>1
    <3> QED BY <3>1, <3>2
  <2> QED BY <2>1
<1> HIDE DEF T
<1>3. n \in T
  BY <1>1, <1>2, Upward
<1> QED BY <1>3 DEF T

(* The positions of a prefix: a shorter one, and its last.                 *)
LEMMA PrefixStep ==
    ASSUME NEW n \in Nat, NEW k \in 0..n - 1
    PROVE  /\ 1..k + 1 \in SUBSET (1..n) /\ 1..k + 1 # {}
           /\ Max(1..k + 1) = k + 1
           /\ (1..k + 1) \ {k + 1} = 1..k
<1>1. k \in Nat /\ 1..k + 1 \in SUBSET (1..k + 1) /\ k + 1 \in 1..k + 1
  OBVIOUS
<1>2. Max(1..k + 1) = k + 1
  BY <1>1, LargestOf
<1>3. (1..k + 1) \ {k + 1} = 1..k
  OBVIOUS
<1>4. 1..k + 1 \in SUBSET (1..n) /\ 1..k + 1 # {}
  OBVIOUS
<1> QED BY <1>2, <1>3, <1>4

(* A fold over n positions, which takes the last one off first; F[i] is    *)
(* what it does at position i.                                             *)
IsFold(g, X, b, n, F) ==
    /\ g \in [SUBSET (1..n) -> X]
    /\ \A t \in SUBSET (1..n) :
          g[t] = IF t = {} THEN b ELSE F[Max(t)][g[t \ {Max(t)}]]

(* There is one for all steps that stay within a set of states.            *)
LEMMA FoldExists ==
    ASSUME NEW X, NEW b \in X, NEW n \in Nat, NEW F \in [1..n -> [X -> X]]
    PROVE  \E g : IsFold(g, X, b, n, F)
<1> DEFINE Is(m, g) == \A t \in SUBSET (1..m) :
              g[t] = IF t = {} THEN b ELSE F[Max(t)][g[t \ {Max(t)}]]
           T == {m \in 0..n : \E g \in [SUBSET (1..m) -> X] : Is(m, g)}
<1>1. 0 \in T
  <2>1. SUBSET (1..0) = {{}}
    OBVIOUS
  <2>2. [t \in SUBSET (1..0) |-> b] \in [SUBSET (1..0) -> X]
    OBVIOUS
  <2>3. Is(0, [t \in SUBSET (1..0) |-> b])
    BY <2>1
  <2>4. 0 \in 0..n
    OBVIOUS
  <2> HIDE DEF Is
  <2> QED BY <2>2, <2>3, <2>4
<1>2. ASSUME NEW m \in 0..n - 1, m \in T PROVE m + 1 \in T
  <2>1. PICK g \in [SUBSET (1..m) -> X] : Is(m, g)
    BY <1>2
  <2>2. m \in Nat /\ m + 1 \in 1..n /\ F[m + 1] \in [X -> X]
    OBVIOUS
  <2> DEFINE h == [t \in SUBSET (1..m + 1) |->
                      IF m + 1 \in t THEN F[m + 1][g[t \ {m + 1}]] ELSE g[t]]
  <2>3. \A t \in SUBSET (1..m + 1) :
           /\ t \ {m + 1} \in SUBSET (1..m)
           /\ m + 1 \notin t => t \in SUBSET (1..m)
    BY <2>2
  <2>4. h \in [SUBSET (1..m + 1) -> X]
    BY <2>2, <2>3
  <2>5. \A t \in SUBSET (1..m) : t \in SUBSET (1..m + 1) /\ m + 1 \notin t /\ h[t] = g[t]
    <3>1. ASSUME NEW t \in SUBSET (1..m) PROVE t \in SUBSET (1..m + 1) /\ m + 1 \notin t
      BY <2>2
    <3> QED BY <3>1
  <2>6. ASSUME NEW t \in SUBSET (1..m + 1)
        PROVE  h[t] = IF t = {} THEN b ELSE F[Max(t)][h[t \ {Max(t)}]]
    <3>1. CASE m + 1 \in t
      <4>1. Max(t) = m + 1
        BY <2>2, <3>1, LargestOf
      <4>2. h[t \ {m + 1}] = g[t \ {m + 1}]
        BY <2>3, <2>5
      <4>3. h[t] = F[m + 1][g[t \ {m + 1}]]
        BY <3>1
      <4> QED BY <3>1, <4>1, <4>2, <4>3
    <3>2. CASE m + 1 \notin t
      <4>1. t \in SUBSET (1..m) /\ t \ {Max(t)} \in SUBSET (1..m)
        BY <2>3, <3>2
      <4>2. h[t] = g[t] /\ h[t \ {Max(t)}] = g[t \ {Max(t)}]
        BY <2>5, <4>1
      <4> QED BY <2>1, <4>1, <4>2
    <3> QED BY <3>1, <3>2
  <2> HIDE DEF h
  <2>7. Is(m + 1, h)
    BY <2>6
  <2>8. m + 1 \in 0..n
    OBVIOUS
  <2> HIDE DEF Is
  <2> QED BY <2>4, <2>7, <2>8
<1> HIDE DEF T
<1>3. \A m \in 0..n : m \in T
  <2>1. \A m \in 0..n - 1 : m \in T => m + 1 \in T
    BY <1>2
  <2> QED BY ONLY n \in Nat, <1>1, <2>1, Upward
<1>4. n \in 0..n
  OBVIOUS
<1>5. PICK g \in [SUBSET (1..n) -> X] : Is(n, g)
  BY <1>3, <1>4 DEF T
<1> QED BY <1>5 DEF IsFold

(* What the fold of raw_tokens computes, step by step: h[k] is the output  *)
(* after k words.                                                          *)
LEMMA TokenSteps ==
    ASSUME NEW X, <<>> \in X, NEW q, NEW n \in Nat, DOMAIN q = 1..n,
           \A x \in X, i \in 1..n : AddToken(x, q[i]) \in X
    PROVE  \E h : /\ h[0] = <<>>
                  /\ \A k \in 0..n : h[k] \in X
                  /\ \A k \in 0..n - 1 : h[k + 1] = AddToken(h[k], q[k + 1])
                  /\ raw_tokens(q) = h[n]
<1> DEFINE F == [i \in 1..n |-> [x \in X |-> AddToken(x, q[i])]]
<1>1. F \in [1..n -> [X -> X]]
  OBVIOUS
<1>2. \A i \in 1..n, x \in X : F[i][x] = AddToken(x, q[i])
  OBVIOUS
<1> HIDE DEF F
<1>3. PICK f : IsFold(f, X, <<>>, n, F)
  BY ONLY n \in Nat, <<>> \in X, <1>1, FoldExists
<1>4. f = [t \in SUBSET (1..n) |-> IF t = {} THEN <<>> ELSE AddToken(f[t \ {Max(t)}], q[Max(t)])]
  <2>1. ASSUME NEW t \in SUBSET (1..n), t # {} PROVE Max(t) \in 1..n /\ f[t \ {Max(t)}] \in X
    BY <1>3, <2>1, Largest DEF IsFold
  <2> QED BY <1>2, <1>3, <2>1 DEF IsFold
<1>5. PICK g : /\ g = [t \in SUBSET (1..n) |-> IF t = {} THEN <<>> ELSE AddToken(g[t \ {Max(t)}], q[Max(t)])]
               /\ raw_tokens(q) = g[1..n]
  BY <1>4 DEF raw_tokens, FoldLeft, MapThenFoldSet
<1> DEFINE h == [k \in 0..n |-> g[1..k]]
<1>6. h[0] = <<>> /\ h[n] = g[1..n]
  BY <1>5
<1>7. ASSUME NEW k \in 0..n - 1 PROVE h[k + 1] = AddToken(h[k], q[k + 1])
  <2>1. PICK t \in SUBSET (1..n) : t = 1..k + 1 /\ t # {} /\ Max(t) = k + 1 /\ t \ {k + 1} = 1..k
    BY PrefixStep
  <2>2. g[t] = AddToken(g[1..k], q[k + 1])
    BY <1>5, <2>1
  <2> QED BY <2>1, <2>2
<1> HIDE DEF h
<1>8. \A k \in 0..n : h[k] \in X
  <2> DEFINE T == {k \in 0..n : h[k] \in X}
  <2>1. 0 \in T
    BY <1>6
  <2>2. \A k \in 0..n - 1 : k \in T => k + 1 \in T
    BY <1>7
  <2> HIDE DEF T
  <2>3. \A k \in 0..n : k \in T
    BY ONLY n \in Nat, <2>1, <2>2, Upward
  <2> QED BY <2>3 DEF T
<1> QED BY <1>5, <1>6, <1>7, <1>8

(* The same for the loop of extract_keywords.                              *)
LEMMA KeywordSteps ==
    ASSUME NEW X, <<>> \in X, NEW s, NEW n \in Nat, DOMAIN s = 1..n,
           \A x \in X, i \in 1..n : AddKeyword(x, s[i]) \in X
    PROVE  \E h : /\ h[0] = <<>>
                  /\ \A k \in 0..n : h[k] \in X
                  /\ \A k \in 0..n - 1 : h[k + 1] = AddKeyword(h[k], s[k + 1])
                  /\ Keywords(s) = h[n]
<1> DEFINE F == [i \in 1..n |-> [x \in X |-> AddKeyword(x, s[i])]]
<1>1. F \in [1..n -> [X -> X]]
  OBVIOUS
<1>2. \A i \in 1..n, x \in X : F[i][x] = AddKeyword(x, s[i])
  OBVIOUS
<1> HIDE DEF F
<1>3. PICK f : IsFold(f, X, <<>>, n, F)
  BY ONLY n \in Nat, <<>> \in X, <1>1, FoldExists
<1>4. f = [t \in SUBSET (1..n) |-> IF t = {} THEN <<>> ELSE AddKeyword(f[t \ {Max(t)}], s[Max(t)])]
  <2>1. ASSUME NEW t \in SUBSET (1..n), t # {} PROVE Max(t) \in 1..n /\ f[t \ {Max(t)}] \in X
    BY <1>3, <2>1, Largest DEF IsFold
  <2> QED BY <1>2, <1>3, <2>1 DEF IsFold
<1>5. PICK g : /\ g = [t \in SUBSET (1..n) |-> IF t = {} THEN <<>> ELSE AddKeyword(g[t \ {Max(t)}], s[Max(t)])]
               /\ Keywords(s) = g[1..n]
  BY <1>4 DEF Keywords, FoldLeft, MapThenFoldSet
<1> DEFINE h == [k \in 0..n |-> g[1..k]]
<1>6. h[0] = <<>> /\ h[n] = g[1..n]
  BY <1>5
<1>7. ASSUME NEW k \in 0..n - 1 PROVE h[k + 1] = AddKeyword(h[k], s[k + 1])
  <2>1. PICK t \in SUBSET (1..n) : t = 1..k + 1 /\ t # {} /\ Max(t) = k + 1 /\ t \ {k + 1} = 1..k
    BY PrefixStep
  <2>2. g[t] = AddKeyword(g[1..k], s[k + 1])
    BY <1>5, <2>1
  <2> QED BY <2>1, <2>2
<1> HIDE DEF h
<1>8. \A k \in 0..n : h[k] \in X
  <2> DEFINE T == {k \in 0..n : h[k] \in X}
  <2>1. 0 \in T
    BY <1>6
  <2>2. \A k \in 0..n - 1 : k \in T => k + 1 \in T
    BY <1>7
  <2> HIDE DEF T
  <2>3. \A k \in 0..n : k \in T
    BY ONLY n \in Nat, <2>1, <2>2, Upward
  <2> QED BY <2>3 DEF T
<1> QED BY <1>5, <1>6, <1>7, <1>8

(* The same for the loop of extract_entities.                              *)
LEMMA WordSteps ==
    ASSUME NEW X, Idle \in X, NEW s, NEW n \in Nat, DOMAIN s = 1..n,
           \A x \in X, i \in 1..n : AddWord(s, x, i) \in X
    PROVE  \E h : /\ h[0] = Idle
                  /\ \A k \in 0..n : h[k] \in X
                  /\ \A k \in 0..n - 1 : h[k + 1] = AddWord(s, h[k], k + 1)
                  /\ Walk(s) = h[n]
<1> DEFINE F == [i \in 1..n |-> [x \in X |-> AddWord(s, x, i)]]
<1>1. F \in [1..n -> [X -> X]]
  OBVIOUS
<1>2. \A i \in 1..n, x \in X : F[i][x] = AddWord(s, x, i)
  OBVIOUS
<1> HIDE DEF F
<1>3. PICK f : IsFold(f, X, Idle, n, F)
  BY ONLY n \in Nat, Idle \in X, <1>1, FoldExists
<1>4. f = [t \in SUBSET (1..n) |-> IF t = {} THEN Idle ELSE AddWord(s, f[t \ {Max(t)}], Max(t))]
  <2>1. ASSUME NEW t \in SUBSET (1..n), t # {} PROVE Max(t) \in 1..n /\ f[t \ {Max(t)}] \in X
    BY <1>3, <2>1, Largest DEF IsFold
  <2> QED BY <1>2, <1>3, <2>1 DEF IsFold
<1>5. PICK g : /\ g = [t \in SUBSET (1..n) |-> IF t = {} THEN Idle ELSE AddWord(s, g[t \ {Max(t)}], Max(t))]
               /\ Walk(s) = g[1..n]
  <2> DEFINE d == [i \in DOMAIN s |-> i]
  <2>2. DOMAIN d = 1..n /\ \A i \in 1..n : d[i] = i
    OBVIOUS
  <2>3. \A t \in SUBSET (1..n) : t # {} => d[Max(t)] = Max(t)
    BY <2>2, Largest
  <2>4. f = [t \in SUBSET DOMAIN d |-> IF t = {} THEN Idle ELSE AddWord(s, f[t \ {Max(t)}], d[Max(t)])]
    BY <1>4, <2>2, <2>3
  <2>5. PICK g : /\ g = [t \in SUBSET DOMAIN d |-> IF t = {} THEN Idle ELSE AddWord(s, g[t \ {Max(t)}], d[Max(t)])]
                 /\ Walk(s) = g[DOMAIN d]
    BY <2>4 DEF Walk, FoldLeftDomain, FoldLeft, MapThenFoldSet
  <2> HIDE DEF d
  <2>6. Walk(s) = g[1..n]
    BY <2>2, <2>5
  <2>7. g = [t \in SUBSET (1..n) |-> IF t = {} THEN Idle ELSE AddWord(s, g[t \ {Max(t)}], Max(t))]
    BY <2>2, <2>3, <2>5
  <2> QED BY <2>6, <2>7
<1> DEFINE h == [k \in 0..n |-> g[1..k]]
<1>6. h[0] = Idle /\ h[n] = g[1..n]
  <2>1. h[0] = g[1..0] /\ h[n] = g[1..n]
    OBVIOUS
  <2>2. 1..0 = {} /\ {} \in SUBSET (1..n)
    OBVIOUS
  <2>3. g[{}] = Idle
    BY <1>5, <2>2
  <2> QED BY <2>1, <2>2, <2>3
<1>7. ASSUME NEW k \in 0..n - 1 PROVE h[k + 1] = AddWord(s, h[k], k + 1)
  <2>1. PICK t \in SUBSET (1..n) : t = 1..k + 1 /\ t # {} /\ Max(t) = k + 1 /\ t \ {k + 1} = 1..k
    BY PrefixStep
  <2>2. g[t] = AddWord(s, g[1..k], k + 1)
    BY <1>5, <2>1
  <2> QED BY <2>1, <2>2
<1> HIDE DEF h
<1>8. \A k \in 0..n : h[k] \in X
  <2> DEFINE T == {k \in 0..n : h[k] \in X}
  <2>1. 0 \in T
    BY <1>6
  <2>2. \A k \in 0..n - 1 : k \in T => k + 1 \in T
    BY <1>7
  <2> HIDE DEF T
  <2>3. \A k \in 0..n : k \in T
    BY ONLY n \in Nat, <2>1, <2>2, Upward
  <2> QED BY <2>3 DEF T
<1> QED BY <1>5, <1>6, <1>7, <1>8

(* out holds the texts at the first positions of S, from left to right.    *)
Lists(out, X, S, text, limit) ==
    /\ out \in Seq(X)
    /\ Len(out) = Fewer(Cardinality(S), limit)
    /\ \A k \in 1..Len(out) : \E i \in S : Before(S, i) = k - 1 /\ out[k] = text[i]

(* Positions are ranked by how many of them are before.                    *)
LEMMA Ranks ==
    ASSUME NEW S \in SUBSET Nat, IsFiniteSet(S)
    PROVE  /\ Cardinality(S) \in Nat
           /\ \A i \in S : Before(S, i) \in Nat /\ Before(S, i) < Cardinality(S)
           /\ \A i, j \in S : Before(S, i) = Before(S, j) => i = j
<1>1. ASSUME NEW i \in S
      PROVE  /\ Before(S, i) \in Nat /\ Before(S, i) < Cardinality(S)
             /\ \A j \in S : i < j => Before(S, i) < Before(S, j)
  <2> DEFINE L(x) == {j \in S : j < x}
  <2>1. \A x \in S : L(x) \subseteq S /\ IsFiniteSet(L(x)) /\ Cardinality(L(x)) \in Nat
    BY FS_Subset, FS_CardinalityType
  <2>2. L(i) # S
    OBVIOUS
  <2>3. Cardinality(L(i)) < Cardinality(S)
    <3>1. PICK A : A = L(i)
      OBVIOUS
    <3>2. A \subseteq S /\ A # S
      BY <2>1, <2>2, <3>1
    <3>3. IsFiniteSet(A) /\ Cardinality(A) <= Cardinality(S) /\ Cardinality(A) # Cardinality(S)
      <4>1. A \in SUBSET S
        BY <3>2
      <4> QED BY <3>2, <4>1, FS_Subset
    <3>4. Cardinality(A) \in Nat /\ Cardinality(S) \in Nat
      BY <3>3, FS_CardinalityType
    <3> QED BY <3>1, <3>3, <3>4
  <2>4. ASSUME NEW j \in S, i < j PROVE Cardinality(L(i)) < Cardinality(L(j))
    <3>1. L(i) \subseteq L(j)
      <4>1. \A x \in S : x \in Int
        OBVIOUS
      <4>2. \A x \in S : x < i => x < j
        BY <2>4, <4>1
      <4> QED BY <4>2
    <3>2. L(i) # L(j)
      <4>1. i \in L(j) /\ i \notin L(i)
        BY <2>4
      <4> QED BY <4>1
    <3> QED BY <2>1, <3>1, <3>2, FS_Subset
  <2> QED BY <2>1, <2>3, <2>4 DEF Before
<1>2. Cardinality(S) \in Nat
  BY FS_CardinalityType
<1>3. ASSUME NEW i \in S, NEW j \in S, Before(S, i) = Before(S, j) PROVE i = j
  <2>1. i \in Nat /\ j \in Nat /\ Before(S, i) \in Nat
    BY <1>1
  <2>2. ~(i < j) /\ ~(j < i)
    BY <1>1, <1>3, <2>1
  <2> QED BY <2>1, <2>2
<1> QED BY <1>1, <1>2, <1>3

(* The next position to the right adds its text, while there is room.      *)
LEMMA ListsMore ==
    ASSUME NEW X, NEW S \in SUBSET Nat, IsFiniteSet(S), NEW i \in Nat, \A j \in S : j < i,
           NEW text, text[i] \in X, NEW limit \in Nat,
           NEW out, Lists(out, X, S, text, limit)
    PROVE  /\ Len(out) >= limit => Lists(out, X, S \cup {i}, text, limit)
           /\ ~(Len(out) >= limit) => Lists(Append(out, text[i]), X, S \cup {i}, text, limit)
<1>1. PICK R : R = S \cup {i}
  OBVIOUS
<1>2. i \notin S
  OBVIOUS
<1>3. IsFiniteSet(R) /\ Cardinality(R) = Cardinality(S) + 1 /\ Cardinality(S) \in Nat
  BY <1>1, <1>2, FS_AddElement, FS_CardinalityType
<1>4. \A j \in S : Before(R, j) = Before(S, j)
  <2>1. ASSUME NEW j \in S PROVE {x \in R : x < j} = {x \in S : x < j}
    <3>1. j \in Nat /\ j < i
      OBVIOUS
    <3> QED BY <1>1, <3>1
  <2> QED BY <2>1 DEF Before
<1>5. Before(R, i) = Cardinality(S)
  <2>1. {x \in R : x < i} = S
    BY <1>1, <1>2
  <2> QED BY <2>1 DEF Before
<1>6. out \in Seq(X) /\ Len(out) = Fewer(Cardinality(S), limit)
  BY DEF Lists
<1>7. \A k \in 1..Len(out) : \E j \in R : Before(R, j) = k - 1 /\ out[k] = text[j]
  BY <1>1, <1>4 DEF Lists
<1>8. CASE Len(out) >= limit
  <2>1. Len(out) = Fewer(Cardinality(R), limit)
    BY <1>3, <1>6, <1>8 DEF Fewer
  <2> QED BY <1>1, <1>6, <1>7, <1>8, <2>1 DEF Lists
<1>9. CASE ~(Len(out) >= limit)
  <2>1. Len(out) = Cardinality(S) /\ Cardinality(S) + 1 = Fewer(Cardinality(R), limit)
    BY <1>3, <1>6, <1>9 DEF Fewer
  <2>2. PICK new : new = Append(out, text[i])
    OBVIOUS
  <2>3. /\ new \in Seq(X) /\ Len(new) = Len(out) + 1 /\ new[Len(out) + 1] = text[i]
        /\ \A k \in 1..Len(out) : new[k] = out[k]
    BY <1>6, <2>2
  <2>4. ASSUME NEW k \in 1..Len(new) PROVE \E j \in R : Before(R, j) = k - 1 /\ new[k] = text[j]
    <3>1. CASE k \in 1..Len(out)
      BY <1>7, <2>3, <3>1
    <3>2. CASE k = Len(out) + 1
      <4>1. i \in R /\ Before(R, i) = k - 1 /\ new[k] = text[i]
        BY <1>1, <1>3, <1>5, <2>1, <2>3, <3>2
      <4> QED BY <4>1
    <3>3. Len(out) \in Nat
      BY <1>6
    <3> QED BY <2>3, <3>1, <3>2, <3>3
  <2>5. Lists(new, X, R, text, limit)
    BY <2>1, <2>3, <2>4 DEF Lists
  <2> QED BY <1>1, <1>9, <2>2, <2>5
<1> QED BY <1>8, <1>9

(* While there is room everything is listed.                               *)
LEMMA AllListed ==
    ASSUME NEW X, NEW S \in SUBSET Nat, IsFiniteSet(S), NEW text, NEW limit \in Nat,
           NEW out, Lists(out, X, S, text, limit), ~(Len(out) >= limit), NEW i \in S
    PROVE  \E k \in 1..Len(out) : out[k] = text[i]
<1>1. Before(S, i) \in Nat /\ Before(S, i) < Cardinality(S) /\ Cardinality(S) \in Nat
  BY Ranks
<1>2. Len(out) = Cardinality(S)
  BY <1>1 DEF Lists, Fewer
<1>3. PICK k \in 1..Len(out) : k - 1 = Before(S, i)
  <2>1. Before(S, i) + 1 \in 1..Len(out) /\ (Before(S, i) + 1) - 1 = Before(S, i)
    BY <1>1, <1>2
  <2> QED BY <2>1
<1>4. PICK j \in S : Before(S, j) = k - 1 /\ out[k] = text[j]
  BY DEF Lists
<1>5. j = i
  BY <1>3, <1>4, Ranks
<1> QED BY <1>4, <1>5

(* No text at two positions.                                               *)
Apart(text, S) == \A i, j \in S : text[i] = text[j] => i = j

(* Such a list is the one of the reference, and it repeats no text when    *)
(* the positions do not.                                                   *)
LEMMA ListsIsFirst ==
    ASSUME NEW X, NEW S \in SUBSET Nat, IsFiniteSet(S), NEW text, NEW limit \in Nat,
           NEW out, Lists(out, X, S, text, limit)
    PROVE  /\ out = FirstTexts(text, S, limit)
           /\ Apart(text, S) => Apart(out, 1..Len(out))
<1>1. out \in Seq(X) /\ Len(out) \in Nat /\ DOMAIN out = 1..Len(out)
  BY DEF Lists
<1>2. ASSUME NEW k \in 1..Len(out) PROVE out[k] = text[CHOOSE i \in S : Before(S, i) = k - 1]
  <2>1. PICK i \in S : Before(S, i) = k - 1 /\ out[k] = text[i]
    BY DEF Lists
  <2>2. i = CHOOSE j \in S : Before(S, j) = k - 1
    <3>1. \A j \in S : Before(S, j) = k - 1 => j = i
      BY <2>1, Ranks
    <3> QED BY <2>1, <3>1
  <2> QED BY <2>1, <2>2
<1>3. out = FirstTexts(text, S, limit)
  <2>1. out = [k \in 1..Len(out) |-> out[k]]
    BY <1>1
  <2>2. Len(out) = Fewer(Cardinality(S), limit)
    BY DEF Lists
  <2> QED BY <1>2, <2>1, <2>2 DEF FirstTexts
<1>4. ASSUME Apart(text, S),
             NEW k \in 1..Len(out), NEW m \in 1..Len(out), out[k] = out[m]
      PROVE  k = m
  <2>1. PICK i \in S : Before(S, i) = k - 1 /\ out[k] = text[i]
    BY DEF Lists
  <2>2. PICK j \in S : Before(S, j) = m - 1 /\ out[m] = text[j]
    BY DEF Lists
  <2>3. i = j
    BY <1>4, <2>1, <2>2 DEF Apart
  <2> QED BY <2>1, <2>2, <2>3
<1> QED BY <1>3, <1>4 DEF Apart

(* The tokens of a query are tokens.                                       *)
LEMMA TokensOfAQuery ==
    ASSUME NEW q \in Seq(Words)
    PROVE  raw_tokens(q) \in Seq(Tokens)
<1>1. Len(q) \in Nat /\ DOMAIN q = 1..Len(q) /\ <<>> \in Seq(Tokens)
  OBVIOUS
<1>2. \A out \in Seq(Tokens), i \in 1..Len(q) : AddToken(out, q[i]) \in Seq(Tokens)
  <2>1. \A i \in 1..Len(q) : q[i] \in DOMAIN clean_token
    BY QueryAssumption
  <2>2. \A w \in DOMAIN clean_token : clean_token[w] # Empty => clean_token[w] \in Tokens
    BY DEF Tokens, Range
  <2> QED BY <2>1, <2>2 DEF AddToken
<1>3. PICK h : /\ \A k \in 0..Len(q) : h[k] \in Seq(Tokens)
               /\ raw_tokens(q) = h[Len(q)]
  <2>1. PICK X : X = Seq(Tokens)
    OBVIOUS
  <2>4. PICK n \in Nat : n = Len(q)
    BY <1>1
  <2>2. <<>> \in X /\ DOMAIN q = 1..n /\ \A out \in X, i \in 1..n : AddToken(out, q[i]) \in X
    BY <1>1, <1>2, <2>1, <2>4
  <2>3. \E h : /\ h[0] = <<>>
               /\ \A k \in 0..n : h[k] \in X
               /\ \A k \in 0..n - 1 : h[k + 1] = AddToken(h[k], q[k + 1])
               /\ raw_tokens(q) = h[n]
    BY ONLY n \in Nat, <2>2, TokenSteps
  <2> QED BY <2>1, <2>3, <2>4
<1> QED BY <1>1, <1>3

(* extract_keywords lists the positions that repeat no earlier one.        *)
LEMMA KeywordsAreListed ==
    ASSUME NEW L, NEW s \in Seq(L)
    PROVE  /\ NewKeywords(s) \in SUBSET Nat /\ IsFiniteSet(NewKeywords(s))
           /\ Lists(Keywords(s), L, NewKeywords(s), s, MaxKeywords)
<1> DEFINE New(k) == {i \in NewKeywords(s) : i <= k}
<1>1. PICK n \in Nat : n = Len(s) /\ DOMAIN s = 1..n
  OBVIOUS
<1>2. MaxKeywords \in Nat /\ MaxKeywords > 0
  BY QueryAssumption
<1>3. PICK h : /\ h[0] = <<>>
               /\ \A k \in 0..n : h[k] \in Seq(L)
               /\ \A k \in 0..n - 1 : h[k + 1] = AddKeyword(h[k], s[k + 1])
               /\ Keywords(s) = h[n]
  <2>1. PICK X : X = Seq(L)
    OBVIOUS
  <2>2. <<>> \in X /\ \A out \in X, i \in 1..n : AddKeyword(out, s[i]) \in X
    BY <1>1, <2>1 DEF AddKeyword
  <2>3. \E h : /\ h[0] = <<>>
               /\ \A k \in 0..n : h[k] \in X
               /\ \A k \in 0..n - 1 : h[k + 1] = AddKeyword(h[k], s[k + 1])
               /\ Keywords(s) = h[n]
    <3>1. DOMAIN s = 1..n
      BY <1>1
    <3> QED BY ONLY n \in Nat, <2>2, <3>1, KeywordSteps
  <2> QED BY <2>1, <2>3
<1>4. \A i \in NewKeywords(s) : i \in 1..n
  BY <1>1 DEF NewKeywords
<1>5. \A k \in 0..n : New(k) \in SUBSET Nat /\ IsFiniteSet(New(k)) /\ New(k) \subseteq NewKeywords(s)
  <2>1. ASSUME NEW k \in 0..n PROVE New(k) \in SUBSET (1..n)
    BY <1>4
  <2>2. IsFiniteSet(1..n)
    BY FS_Interval
  <2> QED BY <2>1, <2>2, FS_Subset
<1> DEFINE T == {k \in 0..n : /\ Lists(h[k], L, New(k), s, MaxKeywords)
                              /\ \A j \in 1..k : s[j] \in KeywordLike => \E i \in New(k) : s[i] = s[j]}
<1>6. 0 \in T
  <2>1. New(0) = {}
    BY <1>4
  <2>2. Lists(<<>>, L, {}, s, MaxKeywords)
    <3>1. Cardinality({}) = 0
      BY FS_EmptySet
    <3> QED BY <1>2, <3>1 DEF Lists, Fewer
  <2>3. 0 \in 0..n
    OBVIOUS
  <2>4. \A j \in 1..0 : FALSE
    OBVIOUS
  <2>5. Lists(h[0], L, New(0), s, MaxKeywords)
    BY <1>3, <2>1, <2>2
  <2> HIDE DEF New
  <2> QED BY <2>3, <2>4, <2>5
<1>7. ASSUME NEW k \in 0..n - 1, k \in T PROVE k + 1 \in T
  <2>1. PICK m \in 1..n : m = k + 1
    OBVIOUS
  <2>2. k \in 0..n /\ m \in 0..n /\ k \in Nat /\ m \in Nat
    BY <2>1
  <2>3. h[m] = AddKeyword(h[k], s[m]) /\ h[k] \in Seq(L) /\ s[m] \in L
    BY <1>1, <1>3, <2>1, <2>2
  <2>4. Lists(h[k], L, New(k), s, MaxKeywords)
    BY <1>7
  <2>5. \A j \in 1..k : s[j] \in KeywordLike => \E i \in New(k) : s[i] = s[j]
    BY <1>7
  <2>6. \A x \in 1..Len(h[k]) : \E i \in New(k) : h[k][x] = s[i]
    BY <2>4 DEF Lists
  <2>7. DOMAIN h[k] = 1..Len(h[k])
    BY <2>3
  <2>8. New(k) \in SUBSET Nat /\ IsFiniteSet(New(k))
    BY <1>5, <2>2
  <2>9. CASE m \in NewKeywords(s)
    <3>1. s[m] \in KeywordLike /\ \A j \in 1..k : s[j] # s[m]
      BY <2>1, <2>9 DEF NewKeywords
    <3>2. s[m] \notin Range(h[k])
      <4>1. \A i \in New(k) : i \in 1..k
        BY <1>4
      <4> QED BY <2>6, <2>7, <3>1, <4>1 DEF Range
    <3>3. New(m) = New(k) \cup {m}
      <4>1. \A i \in NewKeywords(s) : i <= m <=> (i <= k \/ i = m)
        BY <1>4, <2>1
      <4>2. New(m) \subseteq New(k) \cup {m}
        BY <4>1
      <4>3. New(k) \cup {m} \subseteq New(m)
        BY <2>9, <4>1
      <4> QED BY <4>2, <4>3
    <3>4. \A i \in New(k) : i < m
      BY <1>4, <2>1
    <3>5. Lists(h[m], L, New(m), s, MaxKeywords)
      <4> HIDE DEF New
      <4>3. PICK S, out : S = New(k) /\ out = h[k]
        OBVIOUS
      <4>4. /\ Len(out) >= MaxKeywords => Lists(out, L, S \cup {m}, s, MaxKeywords)
            /\ ~(Len(out) >= MaxKeywords) => Lists(Append(out, s[m]), L, S \cup {m}, s, MaxKeywords)
        <5>1. /\ S \in SUBSET Nat /\ IsFiniteSet(S) /\ m \in Nat /\ \A i \in S : i < m
              /\ s[m] \in L /\ MaxKeywords \in Nat /\ Lists(out, L, S, s, MaxKeywords)
          BY <1>2, <2>2, <2>3, <2>4, <2>8, <3>4, <4>3
        <5> QED BY ONLY <5>1, ListsMore
      <4>1. CASE Len(h[k]) >= MaxKeywords
        <5>1. h[m] = h[k]
          BY <2>3, <4>1 DEF AddKeyword
        <5> QED BY <3>3, <4>1, <4>3, <4>4, <5>1
      <4>2. CASE ~(Len(h[k]) >= MaxKeywords)
        <5>1. h[m] = Append(h[k], s[m])
          BY <2>3, <3>1, <3>2, <4>2 DEF AddKeyword
        <5> QED BY <3>3, <4>2, <4>3, <4>4, <5>1
      <4> QED BY <4>1, <4>2
    <3>6. \A j \in 1..m : s[j] \in KeywordLike => \E i \in New(m) : s[i] = s[j]
      <4>1. \A j \in 1..m : j \in 1..k \/ j = m
        BY <2>1
      <4> HIDE DEF New
      <4> QED BY <2>5, <3>3, <4>1
    <3> QED BY <2>1, <2>2, <3>5, <3>6
  <2>10. CASE m \notin NewKeywords(s)
    <3>1. s[m] \in KeywordLike => \E i \in New(k) : s[i] = s[m]
      <4>1. s[m] \in KeywordLike => \E j \in 1..k : s[j] = s[m]
        BY <1>1, <2>1, <2>10 DEF NewKeywords
      <4> HIDE DEF New
      <4> QED BY <2>5, <4>1
    <3>2. New(m) = New(k)
      BY <1>4, <2>1, <2>10
    <3> HIDE DEF New
    <3>3. h[m] = h[k]
      <4>1. CASE Len(h[k]) >= MaxKeywords \/ s[m] \notin KeywordLike
        BY <2>3, <4>1 DEF AddKeyword
      <4>2. CASE ~(Len(h[k]) >= MaxKeywords) /\ s[m] \in KeywordLike
        <5>1. PICK i \in New(k) : s[i] = s[m]
          BY <3>1, <4>2
        <5>2. PICK x \in 1..Len(h[k]) : h[k][x] = s[i]
          BY <1>2, <2>4, <2>8, <4>2, AllListed
        <5>3. s[m] \in Range(h[k])
          BY <2>7, <5>1, <5>2 DEF Range
        <5> QED BY <2>3, <5>3 DEF AddKeyword
      <4> QED BY <4>1, <4>2
    <3>4. \A j \in 1..m : s[j] \in KeywordLike => \E i \in New(m) : s[i] = s[j]
      <4>1. \A j \in 1..m : j \in 1..k \/ j = m
        BY <2>1
      <4> QED BY <2>5, <3>1, <3>2, <4>1
    <3>5. Lists(h[m], L, New(m), s, MaxKeywords)
      BY <2>4, <3>2, <3>3
    <3> QED BY <2>1, <2>2, <3>4, <3>5
  <2> QED BY <2>9, <2>10
<1> HIDE DEF T
<1>8. n \in T
  <2>1. \A k \in 0..n - 1 : k \in T => k + 1 \in T
    BY <1>7
  <2>2. \A k \in 0..n : k \in T
    BY ONLY n \in Nat, <1>6, <2>1, Upward
  <2> QED BY <2>2
<1>9. New(n) = NewKeywords(s)
  BY <1>4
<1>10. n \in 0..n
  OBVIOUS
<1> QED BY <1>3, <1>5, <1>8, <1>9, <1>10 DEF T

(* Before the word k + 1: the run that is pending begins at p, or nothing  *)
(* is pending and p is k + 1.                                              *)
Pending(s, k, p) ==
    /\ p \in 1..k + 1
    /\ \A j \in p..k : Inside(s, j)
    /\ IF p = k + 1 THEN ~Inside(s, k) ELSE p \in Starts(s)

(* The names that begin before p are kept, each once.                      *)
Told(s, p) == {i \in NewNames(s) : i < p}
Kept(s, p, out) ==
    /\ Lists(out, Seq(Tokens), Told(s, p), Names(s), MaxEntities)
    /\ \A j \in Starts(s) : j < p =>
          \E i \in Told(s, p) : Lowered(Names(s)[i]) = Lowered(Names(s)[j])

(* Runs and names lie within the words, and there are finitely many.       *)
LEMMA Positions ==
    ASSUME NEW s \in Seq(Tokens)
    PROVE  /\ Len(s) \in Nat /\ DOMAIN s = 1..Len(s)
           /\ \A i : Inside(s, i) => i \in 1..Len(s)
           /\ \A i \in Starts(s) : i \in 1..Len(s) /\ Inside(s, i) /\ ~Inside(s, i - 1)
           /\ NewNames(s) \subseteq Starts(s)
           /\ \A p : Told(s, p) \in SUBSET Nat /\ IsFiniteSet(Told(s, p)) /\ Told(s, p) \subseteq NewNames(s)
<1>1. Len(s) \in Nat /\ DOMAIN s = 1..Len(s)
  OBVIOUS
<1>2. Starts(s) \subseteq 1..Len(s) /\ NewNames(s) \subseteq Starts(s)
  BY <1>1 DEF Starts, NewNames
<1>3. ASSUME NEW p PROVE Told(s, p) \in SUBSET Nat /\ IsFiniteSet(Told(s, p)) /\ Told(s, p) \subseteq NewNames(s)
  <2>1. Told(s, p) \in SUBSET (1..Len(s)) /\ Told(s, p) \subseteq NewNames(s)
    BY <1>2 DEF Told
  <2>2. IsFiniteSet(1..Len(s)) /\ 1..Len(s) \subseteq Nat
    BY <1>1, FS_Interval
  <2>3. IsFiniteSet(Told(s, p))
    BY <2>1, <2>2, FS_Subset
  <2> QED BY <2>1, <2>2, <2>3
<1>4. \A i : Inside(s, i) => i \in 1..Len(s)
  BY <1>1 DEF Inside
<1>5. \A i \in Starts(s) : i \in 1..Len(s) /\ Inside(s, i) /\ ~Inside(s, i - 1)
  BY <1>1 DEF Starts
<1> QED BY <1>1, <1>2, <1>3, <1>4, <1>5

(* A run that ends at k is the name at its beginning.                      *)
LEMMA NameOfARun ==
    ASSUME NEW s \in Seq(Tokens), NEW k \in 0..Len(s), NEW p, Pending(s, k, p), p # k + 1,
           ~Inside(s, k + 1)
    PROVE  p \in 1..k /\ Names(s)[p] = SubSeq(s, p, k)
<1>1. p \in 1..k /\ p \in Starts(s) /\ \A j \in p..k : Inside(s, j)
  BY DEF Pending
<1>2. k \in p..Len(s)
  BY <1>1, Positions
<1>3. ASSUME NEW e \in p..Len(s), ~Inside(s, e + 1), \A j \in p..e : Inside(s, j)
      PROVE  e = k
  <2>1. ~(e < k)
    <3>1. e < k => e + 1 \in p..k
      BY <1>1
    <3> QED BY <1>1, <1>3, <3>1
  <2>2. ~(k < e)
    <3>1. k < e => k + 1 \in p..e
      BY <1>1
    <3> QED BY <1>3, <3>1
  <2> QED BY <1>1, <2>1, <2>2
<1>4. k = CHOOSE e \in p..Len(s) : ~Inside(s, e + 1) /\ \A j \in p..e : Inside(s, j)
  BY <1>1, <1>2, <1>3
<1> QED BY <1>1, <1>4 DEF Names

(* No run begins between p and the word after the run.                     *)
LEMMA NothingBetween ==
    ASSUME NEW s \in Seq(Tokens), NEW k \in 0..Len(s), NEW p, Pending(s, k, p),
           ~Inside(s, k + 1), NEW i \in Starts(s), i < k + 2
    PROVE  i < p \/ (i = p /\ p # k + 1)
<1>1. i \in 1..Len(s) /\ Inside(s, i) /\ ~Inside(s, i - 1)
  BY Positions
<1>2. p \in 1..k + 1 /\ \A j \in p..k : Inside(s, j)
  BY DEF Pending
<1>3. i # k + 1 /\ i \in Int /\ p \in Int /\ k \in Int
  BY <1>1, <1>2
<1>4. ~(p < i)
  <2>1. p < i => i - 1 \in p..k
    BY <1>1, <1>2, <1>3
  <2> QED BY <1>1, <1>2, <2>1
<1> QED BY <1>1, <1>2, <1>3, <1>4

(* flush_entity, at a word that is no entity word or after the last word.  *)
LEMMA Flushed ==
    ASSUME NEW s \in Seq(Tokens), NEW k \in 0..Len(s), NEW p, Pending(s, k, p),
           ~Inside(s, k + 1), NEW cur \in Seq(Tokens), NEW out, Kept(s, p, out),
           ~(Len(out) >= MaxEntities) => cur = SubSeq(s, p, k)
    PROVE  Kept(s, k + 2, flush_entity(cur, out))
<1> DEFINE E == Seq(Tokens)
           end == k + 2
<1>1. p \in 1..k + 1 /\ p \in Nat /\ k \in Nat /\ p < end
  BY DEF Pending
<1>2. Lists(out, E, Told(s, p), Names(s), MaxEntities)
  BY DEF Kept
<1>3. \A j \in Starts(s) : j < p =>
          \E i \in Told(s, p) : Lowered(Names(s)[i]) = Lowered(Names(s)[j])
  BY DEF Kept
<1>4. MaxEntities \in Nat
  BY QueryAssumption
<1>5. out \in Seq(E) /\ DOMAIN out = 1..Len(out) /\ Len(out) \in Nat
  BY <1>2 DEF Lists
<1>6. Told(s, p) \subseteq Told(s, end)
  BY <1>1, Positions DEF Told
<1>7. CASE p = k + 1
  <2>1. flush_entity(cur, out) = out
    <3>1. SubSeq(s, p, k) = <<>>
      BY <1>1, <1>7
    <3> QED BY <3>1 DEF flush_entity
  <2>2. \A i \in Starts(s) : i < end => i < p
    BY <1>7, NothingBetween
  <2>3. Told(s, end) = Told(s, p)
    BY <1>6, <2>2, Positions DEF Told
  <2> HIDE DEF E, end
  <2>4. Kept(s, end, out)
    BY <1>2, <1>3, <2>2, <2>3 DEF Kept, E
  <2> QED BY <2>1, <2>4 DEF end
<1>8. CASE p # k + 1
  <2>1. p \in 1..k /\ Names(s)[p] = SubSeq(s, p, k)
    BY <1>8, NameOfARun
  <2>2. p \in Starts(s)
    BY <1>8 DEF Pending
  <2>3. \A i \in Starts(s) : i < end => i < p \/ i = p
    BY NothingBetween
  <2>4. Names(s)[p] \in E /\ Names(s)[p] # <<>>
    <3>1. p \in Int /\ k \in Int /\ p <= k /\ \A i \in p..k : s[i] \in Tokens
      BY <1>1, <2>1, Positions
    <3>2. PICK name : name = SubSeq(s, p, k)
      OBVIOUS
    <3>3. name \in Seq(Tokens) /\ Len(name) = k - p + 1
      BY <3>1, <3>2, SubSeqProperties
    <3>4. name # <<>>
      BY <3>1, <3>3
    <3> QED BY <2>1, <3>2, <3>3, <3>4
  <2>5. \A x \in 1..Len(out) : \E i \in Told(s, p) : out[x] = Names(s)[i]
    BY <1>2 DEF Lists
  <2>6. CASE p \in NewNames(s)
    <3>1. Told(s, end) = Told(s, p) \cup {p}
      <4>1. Told(s, end) \subseteq Told(s, p) \cup {p}
        BY <2>3, Positions DEF Told
      <4>2. p \in Told(s, end)
        BY <1>1, <2>6 DEF Told
      <4> QED BY <1>6, <4>1, <4>2
    <3>2. \A i \in Told(s, p) : Lowered(Names(s)[i]) # Lowered(Names(s)[p])
      BY <2>6, Positions DEF Told, NewNames
    <3>3. \A x \in DOMAIN out : Lowered(out[x]) # Lowered(Names(s)[p])
      BY <1>5, <2>5, <3>2
    <3>4. /\ Len(out) >= MaxEntities => flush_entity(cur, out) = out
          /\ ~(Len(out) >= MaxEntities) => flush_entity(cur, out) = Append(out, Names(s)[p])
      BY <2>1, <2>4, <3>3 DEF flush_entity
    <3>5. /\ Len(out) >= MaxEntities => Lists(out, E, Told(s, p) \cup {p}, Names(s), MaxEntities)
          /\ ~(Len(out) >= MaxEntities) =>
                Lists(Append(out, Names(s)[p]), E, Told(s, p) \cup {p}, Names(s), MaxEntities)
      <4>1. PICK S, X, t : S = Told(s, p) /\ X = E /\ t = Names(s)
        OBVIOUS
      <4>2. /\ S \in SUBSET Nat /\ IsFiniteSet(S) /\ p \in Nat /\ \A i \in S : i < p
            /\ t[p] \in X /\ MaxEntities \in Nat /\ Lists(out, X, S, t, MaxEntities)
        BY <1>1, <1>2, <1>4, <2>4, <4>1, Positions DEF Told
      <4>3. /\ Len(out) >= MaxEntities => Lists(out, X, S \cup {p}, t, MaxEntities)
            /\ ~(Len(out) >= MaxEntities) => Lists(Append(out, t[p]), X, S \cup {p}, t, MaxEntities)
        BY ONLY <4>2, ListsMore
      <4> QED BY <4>1, <4>3
    <3>6. Lists(flush_entity(cur, out), E, Told(s, end), Names(s), MaxEntities)
      BY <3>1, <3>4, <3>5
    <3>7. \A j \in Starts(s) : j < end =>
             \E i \in Told(s, end) : Lowered(Names(s)[i]) = Lowered(Names(s)[j])
      BY <1>3, <2>3, <3>1
    <3> QED BY <3>6, <3>7 DEF Kept
  <2>7. CASE p \notin NewNames(s)
    <3>1. Told(s, end) = Told(s, p)
      BY <1>6, <2>3, <2>7, Positions DEF Told
    <3>2. PICK j \in Starts(s) : j < p /\ Lowered(Names(s)[j]) = Lowered(Names(s)[p])
      BY <2>2, <2>7 DEF NewNames
    <3>3. PICK i \in Told(s, p) : Lowered(Names(s)[i]) = Lowered(Names(s)[p])
      BY <1>3, <3>2
    <3>4. flush_entity(cur, out) = out
      <4>1. CASE Len(out) >= MaxEntities
        BY <4>1 DEF flush_entity
      <4>2. CASE ~(Len(out) >= MaxEntities)
        <5>1. PICK x \in 1..Len(out) : out[x] = Names(s)[i]
          <6>1. PICK S, X, t : S = Told(s, p) /\ X = E /\ t = Names(s)
            OBVIOUS
          <6>2. /\ S \in SUBSET Nat /\ IsFiniteSet(S) /\ i \in S
                /\ MaxEntities \in Nat /\ Lists(out, X, S, t, MaxEntities)
            BY <1>2, <1>4, <6>1, Positions
          <6>3. \E x \in 1..Len(out) : out[x] = t[i]
            BY ONLY <4>2, <6>2, AllListed
          <6> QED BY <6>1, <6>3
        <5>2. x \in DOMAIN out /\ Lowered(out[x]) = Lowered(cur)
          BY <1>5, <2>1, <3>3, <4>2, <5>1
        <5> QED BY <5>2 DEF flush_entity
      <4> QED BY <4>1, <4>2
    <3>5. \A a \in Starts(s) : a < end =>
             \E b \in Told(s, end) : Lowered(Names(s)[b]) = Lowered(Names(s)[a])
      BY <1>3, <2>3, <3>1, <3>3
    <3> QED BY <1>2, <3>1, <3>4, <3>5 DEF Kept
  <2> QED BY <2>6, <2>7
<1> QED BY <1>7, <1>8

(* The state of the walk after k words.                                    *)
WalkState == [current : Seq(Tokens), output : Seq(Seq(Tokens))]
After(s, k, p, state) ==
    /\ Pending(s, k, p)
    /\ Kept(s, p, state.output)
    /\ ~(Len(state.output) >= MaxEntities) => state.current = SubSeq(s, p, k)

(* A word keeps the state of the walk a pair of sequences.                 *)
LEMMA AddWordType ==
    ASSUME NEW s \in Seq(Tokens), NEW state \in WalkState, NEW i \in 1..Len(s)
    PROVE  AddWord(s, state, i) \in WalkState
<1>1. MaxEntities \in Nat /\ s[i] \in Tokens
  BY QueryAssumption
<1>2. state.current \in Seq(Tokens) /\ state.output \in Seq(Seq(Tokens)) /\ Len(state.output) \in Nat
  BY DEF WalkState
<1>3. flush_entity(state.current, state.output) \in Seq(Seq(Tokens))
  BY <1>2 DEF flush_entity
<1>4. Append(state.current, s[i]) \in Seq(Tokens) /\ <<>> \in Seq(Tokens)
  BY <1>1, <1>2
<1>5. CASE Len(state.output) >= MaxEntities
  BY <1>1, <1>2, <1>5 DEF AddWord
<1>6. CASE ~(Len(state.output) >= MaxEntities) /\ EntityWord(s, i)
  <2>1. AddWord(s, state, i) = [current |-> Append(state.current, s[i]), output |-> state.output]
    BY <1>1, <1>2, <1>6 DEF AddWord
  <2> QED BY <1>2, <1>4, <2>1 DEF WalkState
<1>7. CASE ~(Len(state.output) >= MaxEntities) /\ ~EntityWord(s, i)
  <2>1. AddWord(s, state, i)
            = [current |-> <<>>, output |-> flush_entity(state.current, state.output)]
    BY <1>1, <1>2, <1>7 DEF AddWord
  <2> QED BY <1>3, <1>4, <2>1 DEF WalkState
<1> QED BY <1>5, <1>6, <1>7

(* One more word.                                                          *)
LEMMA WalkOn ==
    ASSUME NEW s \in Seq(Tokens), NEW k \in 0..Len(s) - 1, NEW m \in 1..Len(s), m = k + 1,
           NEW state \in WalkState, NEW p, After(s, k, p, state)
    PROVE  \E q : After(s, m, q, AddWord(s, state, m))
<1>1. p \in 1..k + 1 /\ k \in Nat /\ k \in 0..Len(s) /\ \A j \in p..k : Inside(s, j)
  BY Positions DEF After, Pending
<1>2. MaxEntities \in Nat /\ s[m] \in Tokens
  BY QueryAssumption
<1>3. state.current \in Seq(Tokens) /\ state.output \in Seq(Seq(Tokens)) /\ Len(state.output) \in Nat
  BY DEF WalkState
<1>4. Inside(s, m) <=> EntityWord(s, m)
  BY Positions DEF Inside
<1>5. CASE Inside(s, m)
  <2>1. Pending(s, m, p)
    <3>1. p \in 1..m + 1 /\ p # m + 1
      BY <1>1
    <3>2. \A j \in p..m : j \in p..k \/ j = m
      BY <1>1
    <3>3. p \in Starts(s)
      <4>1. CASE p = m
        <5>1. ~Inside(s, m - 1)
          BY <1>1, <4>1 DEF After, Pending
        <5> QED BY <1>5, <4>1, <5>1, Positions DEF Starts
      <4>2. CASE p # m
        BY <4>2 DEF After, Pending
      <4> QED BY <4>1, <4>2
    <3> QED BY <1>1, <1>5, <3>1, <3>2, <3>3 DEF Pending
  <2>2. CASE Len(state.output) >= MaxEntities
    <3>1. AddWord(s, state, m) = state
      BY <1>2, <1>3, <2>2 DEF AddWord
    <3> QED BY <2>1, <2>2, <3>1 DEF After
  <2>3. CASE ~(Len(state.output) >= MaxEntities)
    <3>1. PICK new : new = AddWord(s, state, m)
      OBVIOUS
    <3>2. new.current = Append(state.current, s[m]) /\ new.output = state.output
      BY <1>2, <1>3, <1>4, <1>5, <2>3, <3>1 DEF AddWord
    <3>3. new.current = SubSeq(s, p, m)
      <4>1. state.current = SubSeq(s, p, k)
        BY <2>3 DEF After
      <4>2. PICK x, y : x = SubSeq(s, p, k) /\ y = SubSeq(s, p, m)
        OBVIOUS
      <4>3. /\ p \in Int /\ k \in Int /\ m \in Int /\ p <= m
            /\ \A i \in p..m : s[i] \in Tokens
            /\ \A i \in p..k : s[i] \in Tokens
        BY <1>1
      <4>4. /\ x \in Seq(Tokens) /\ Len(x) = m - p
            /\ \A i \in 1..m - p : x[i] = s[p + i - 1]
        <5>1. /\ x \in Seq(Tokens) /\ Len(x) = (IF p <= k THEN k - p + 1 ELSE 0)
              /\ \A i \in 1..k - p + 1 : x[i] = s[p + i - 1]
          BY <4>2, <4>3, SubSeqProperties
        <5>2. (IF p <= k THEN k - p + 1 ELSE 0) = m - p /\ k - p + 1 = m - p
          BY <1>1
        <5> QED BY <5>1, <5>2
      <4>5. /\ y \in Seq(Tokens) /\ Len(y) = m - p + 1
            /\ \A i \in 1..m - p + 1 : y[i] = s[p + i - 1]
        BY <4>2, <4>3, SubSeqProperties
      <4>6. PICK z : z = Append(x, s[m])
        OBVIOUS
      <4>7. /\ z \in Seq(Tokens) /\ Len(z) = m - p + 1 /\ z[m - p + 1] = s[m]
            /\ \A i \in 1..m - p : z[i] = s[p + i - 1]
        BY <1>2, <4>4, <4>6
      <4>8. \A i \in 1..Len(z) : z[i] = y[i]
        <5>1. ASSUME NEW i \in 1..m - p + 1 PROVE z[i] = y[i]
          <6>1. CASE i = m - p + 1
            <7>1. p + i - 1 = m
              BY <4>3, <6>1
            <7> QED BY <4>5, <4>7, <6>1, <7>1
          <6>2. CASE i # m - p + 1
            <7>1. i \in 1..m - p
              BY <4>3, <6>2
            <7> QED BY <4>5, <4>7, <7>1
          <6> QED BY <6>1, <6>2
        <5> QED BY <4>7, <5>1
      <4>9. z = y
        BY <4>5, <4>7, <4>8, SeqEqual
      <4> QED BY <3>2, <4>1, <4>2, <4>6, <4>9
    <3> QED BY <2>1, <3>1, <3>2, <3>3 DEF After
  <2> QED BY <2>2, <2>3
<1>6. CASE ~Inside(s, m)
  <2>1. Pending(s, m, m + 1)
    BY <1>1, <1>6 DEF Pending
  <2>2. Kept(s, m + 1, flush_entity(state.current, state.output))
    <3>1. PICK cur, out : cur = state.current /\ out = state.output
      OBVIOUS
    <3>2. /\ k \in 0..Len(s) /\ Pending(s, k, p) /\ ~Inside(s, k + 1) /\ cur \in Seq(Tokens)
          /\ Kept(s, p, out) /\ (~(Len(out) >= MaxEntities) => cur = SubSeq(s, p, k))
      BY <1>1, <1>3, <1>6, <3>1 DEF After
    <3>3. Kept(s, k + 2, flush_entity(cur, out))
      BY ONLY s \in Seq(Tokens), <3>2, Flushed
    <3>4. k + 2 = m + 1
      BY <1>1
    <3> QED BY <3>1, <3>3, <3>4
  <2>3. CASE Len(state.output) >= MaxEntities
    <3>1. AddWord(s, state, m) = state
      BY <1>2, <1>3, <2>3 DEF AddWord
    <3>2. flush_entity(state.current, state.output) = state.output
      BY <2>3 DEF flush_entity
    <3> QED BY <2>1, <2>2, <2>3, <3>1, <3>2 DEF After
  <2>4. CASE ~(Len(state.output) >= MaxEntities)
    <3>1. PICK new : new = AddWord(s, state, m)
      OBVIOUS
    <3>2. new.current = <<>> /\ new.output = flush_entity(state.current, state.output)
      BY <1>2, <1>3, <1>4, <1>6, <2>4, <3>1 DEF AddWord
    <3>3. SubSeq(s, m + 1, m) = <<>>
      OBVIOUS
    <3> QED BY <2>1, <2>2, <3>1, <3>2, <3>3 DEF After
  <2> QED BY <2>3, <2>4
<1> QED BY <1>5, <1>6

(* extract_entities lists the runs that repeat no earlier one.             *)
LEMMA EntitiesAreListed ==
    ASSUME NEW s \in Seq(Tokens)
    PROVE  /\ NewNames(s) \in SUBSET Nat /\ IsFiniteSet(NewNames(s))
           /\ Lists(flush_entity(Walk(s).current, Walk(s).output), Seq(Tokens),
                    NewNames(s), Names(s), MaxEntities)
<1>1. PICK n \in Nat : n = Len(s) /\ DOMAIN s = 1..n
  OBVIOUS
<1>2. PICK h : /\ h[0] = Idle
               /\ \A k \in 0..n : h[k] \in WalkState
               /\ \A k \in 0..n - 1 : h[k + 1] = AddWord(s, h[k], k + 1)
               /\ Walk(s) = h[n]
  <2>1. PICK X : X = WalkState
    OBVIOUS
  <2>2. Idle \in X /\ DOMAIN s = 1..n /\ \A x \in X, i \in 1..n : AddWord(s, x, i) \in X
    <3>1. Idle \in WalkState
      BY DEF Idle, WalkState
    <3> QED BY <1>1, <2>1, <3>1, AddWordType
  <2>3. \E h : /\ h[0] = Idle
               /\ \A k \in 0..n : h[k] \in X
               /\ \A k \in 0..n - 1 : h[k + 1] = AddWord(s, h[k], k + 1)
               /\ Walk(s) = h[n]
    BY ONLY n \in Nat, <2>2, WordSteps
  <2> QED BY <2>1, <2>3
<1> DEFINE T == {k \in 0..n : \E p : After(s, k, p, h[k])}
<1>3. 0 \in T
  <2>1. Told(s, 1) = {} /\ \A j \in Starts(s) : ~(j < 1)
    BY Positions DEF Told
  <2>2. Lists(<<>>, Seq(Tokens), {}, Names(s), MaxEntities)
    <3>1. Cardinality({}) = 0 /\ MaxEntities \in Nat /\ MaxEntities > 0
      BY QueryAssumption, FS_EmptySet
    <3> QED BY <3>1 DEF Lists, Fewer
  <2>3. Kept(s, 1, <<>>)
    BY <2>1, <2>2 DEF Kept
  <2>4. Pending(s, 0, 1)
    BY Positions DEF Pending
  <2>5. h[0].current = <<>> /\ h[0].output = <<>>
    BY <1>2 DEF Idle
  <2>6. SubSeq(s, 1, 0) = <<>>
    OBVIOUS
  <2>7. After(s, 0, 1, h[0])
    BY <2>3, <2>4, <2>5, <2>6 DEF After
  <2>8. 0 \in 0..n
    OBVIOUS
  <2> QED BY <2>7, <2>8
<1>4. ASSUME NEW k \in 0..n - 1, k \in T PROVE k + 1 \in T
  <2>1. PICK m \in 1..n : m = k + 1
    OBVIOUS
  <2>2. PICK p : After(s, k, p, h[k])
    BY <1>4
  <2>3. PICK state \in WalkState : state = h[k]
    BY <1>2
  <2>4. \E q : After(s, m, q, AddWord(s, state, m))
    <3>1. k \in 0..Len(s) - 1 /\ m \in 1..Len(s) /\ m = k + 1 /\ After(s, k, p, state)
      BY <1>1, <2>1, <2>2, <2>3
    <3> QED BY ONLY s \in Seq(Tokens), state \in WalkState, <3>1, WalkOn
  <2>5. h[m] = AddWord(s, state, m) /\ m \in 0..n
    BY <1>2, <2>1, <2>3
  <2> QED BY <2>1, <2>4, <2>5
<1> HIDE DEF T
<1>5. n \in T
  <2>1. \A k \in 0..n - 1 : k \in T => k + 1 \in T
    BY <1>4
  <2>2. \A k \in 0..n : k \in T
    BY ONLY n \in Nat, <1>3, <2>1, Upward
  <2> QED BY <2>2
<1>6. PICK p : After(s, n, p, h[n])
  BY <1>5 DEF T
<1>7. Kept(s, n + 2, flush_entity(Walk(s).current, Walk(s).output))
  <2>1. PICK cur, out : cur = Walk(s).current /\ out = Walk(s).output
    OBVIOUS
  <2>2. n \in 0..n
    OBVIOUS
  <2>3. /\ n \in 0..Len(s) /\ Pending(s, n, p) /\ ~Inside(s, n + 1) /\ cur \in Seq(Tokens)
        /\ Kept(s, p, out) /\ (~(Len(out) >= MaxEntities) => cur = SubSeq(s, p, n))
    BY <1>1, <1>2, <1>6, <2>1, <2>2, Positions DEF After, WalkState
  <2>4. Kept(s, n + 2, flush_entity(cur, out))
    BY ONLY s \in Seq(Tokens), <2>3, Flushed
  <2> QED BY <2>1, <2>4
<1>8. Told(s, n + 2) = NewNames(s)
  <2>1. \A i \in NewNames(s) : i < n + 2
    BY <1>1, Positions
  <2> QED BY <2>1 DEF Told
<1>9. NewNames(s) \in SUBSET Nat /\ IsFiniteSet(NewNames(s))
  BY <1>8, Positions
<1> QED BY <1>7, <1>8, <1>9 DEF Kept

-----------------------------------------------------------------------------
(* The embedding inputs, one by one.                                       *)
IsInputs(in, q, K, E) ==
    /\ Len(in) = 1 + Len(K) + Len(E) /\ DOMAIN in = 1..Len(in)
    /\ in[1].kind = "query" /\ in[1].text = q
    /\ \A k \in 1..Len(K) : in[k + 1].kind = "keyword" /\ in[k + 1].text = K[k]
    /\ \A k \in 1..Len(E) :
          in[k + 1 + Len(K)].kind = "entity" /\ in[k + 1 + Len(K)].text = E[k]

(* Two sequences in a row.                                                 *)
LEMMA Joined ==
    ASSUME NEW V, NEW A \in Seq(V), NEW B \in Seq(V), NEW D, D = A \o B
    PROVE  /\ D \in Seq(V) /\ Len(D) = Len(A) + Len(B)
           /\ \A i \in 1..Len(A) + Len(B) : D[i] = IF i <= Len(A) THEN A[i] ELSE B[i - Len(A)]
<1> QED BY ConcatProperties

(* Inputs puts the query, the keywords and the entities in a row.          *)
LEMMA InputsOfAQuery ==
    ASSUME NEW q, NEW K, NEW E, NEW L, NEW M, K \in Seq(L), E \in Seq(M),
           K = extract_keywords(q), E = extract_entities(q)
    PROVE  IsInputs(Inputs(q), q, K, E)
<1>1. PICK A : A = [i \in DOMAIN <<q>> |-> [kind |-> "query", text |-> <<q>>[i], weight |-> 12]]
  OBVIOUS
<1>2. PICK B : B = [i \in DOMAIN K |-> [kind |-> "keyword", text |-> K[i], weight |-> 6]]
  OBVIOUS
<1>3. PICK C : C = [i \in DOMAIN E |-> [kind |-> "entity", text |-> E[i], weight |-> 9]]
  OBVIOUS
<1>4. PICK V : V = [kind : {"query", "keyword", "entity"}, text : {q} \cup L \cup M, weight : {12, 6, 9}]
  OBVIOUS
<1>5. PICK a \in Nat, b \in Nat : a = Len(K) /\ b = Len(E) /\ DOMAIN K = 1..a /\ DOMAIN E = 1..b
  OBVIOUS
<1>6. A \in Seq(V) /\ Len(A) = 1 /\ A[1].kind = "query" /\ A[1].text = q
  <2>1. DOMAIN <<q>> = 1..1 /\ <<q>>[1] = q
    OBVIOUS
  <2>2. A \in [1..1 -> V] /\ A[1].kind = "query" /\ A[1].text = q
    BY <1>1, <1>4, <2>1
  <2>3. PICK one \in Nat : one = 1
    OBVIOUS
  <2>4. A \in [1..one -> V]
    BY <2>2, <2>3
  <2>5. A \in Seq(V) /\ Len(A) = one
    BY <2>4
  <2> QED BY <2>2, <2>3, <2>5
<1>7. /\ B \in Seq(V) /\ Len(B) = a
      /\ \A k \in 1..a : B[k].kind = "keyword" /\ B[k].text = K[k]
  <2>1. B \in [1..a -> V] /\ \A k \in 1..a : B[k].kind = "keyword" /\ B[k].text = K[k]
    BY <1>2, <1>4, <1>5
  <2> QED BY <2>1
<1>8. /\ C \in Seq(V) /\ Len(C) = b
      /\ \A k \in 1..b : C[k].kind = "entity" /\ C[k].text = E[k]
  <2>1. C \in [1..b -> V] /\ \A k \in 1..b : C[k].kind = "entity" /\ C[k].text = E[k]
    BY <1>3, <1>4, <1>5
  <2> QED BY <2>1
<1>9. PICK D : D = A \o B
  OBVIOUS
<1>10. /\ D \in Seq(V) /\ Len(D) = 1 + a /\ D[1] = A[1]
       /\ \A k \in 1..a : D[k + 1] = B[k]
  <2>1. /\ D \in Seq(V) /\ Len(D) = 1 + a
        /\ \A i \in 1..1 + a : D[i] = IF i <= 1 THEN A[i] ELSE B[i - 1]
    <3>1. /\ D \in Seq(V) /\ Len(D) = Len(A) + Len(B)
          /\ \A i \in 1..Len(A) + Len(B) : D[i] = IF i <= Len(A) THEN A[i] ELSE B[i - Len(A)]
      <4>1. A \in Seq(V) /\ B \in Seq(V)
        BY <1>6, <1>7
      <4> QED BY ONLY <1>9, <4>1, Joined
    <3> QED BY <1>6, <1>7, <3>1
  <2>2. \A k \in 1..a : k + 1 \in 1..1 + a /\ ~(k + 1 <= 1) /\ (k + 1) - 1 = k
    OBVIOUS
  <2>3. 1 \in 1..1 + a
    OBVIOUS
  <2> QED BY <2>1, <2>2, <2>3
<1>11. Inputs(q) = D \o C
  BY <1>1, <1>2, <1>3, <1>9 DEF Inputs
<1>12. PICK in : in = Inputs(q)
  OBVIOUS
<1>13. /\ in \in Seq(V) /\ Len(in) = 1 + a + b
       /\ \A i \in 1..1 + a + b : in[i] = IF i <= 1 + a THEN D[i] ELSE C[i - (1 + a)]
  <2>1. /\ in \in Seq(V) /\ Len(in) = Len(D) + Len(C)
        /\ \A i \in 1..Len(D) + Len(C) : in[i] = IF i <= Len(D) THEN D[i] ELSE C[i - Len(D)]
    <3>1. D \in Seq(V) /\ C \in Seq(V) /\ in = D \o C
      BY <1>8, <1>10, <1>11, <1>12
    <3> QED BY ONLY <3>1, Joined
  <2> QED BY <1>8, <1>10, <2>1
<1>14. in[1] = A[1] /\ \A k \in 1..a : in[k + 1] = B[k]
  <2>1. \A k \in 0..a : k + 1 \in 1..1 + a + b /\ k + 1 <= 1 + a
    OBVIOUS
  <2>2. \A k \in 0..a : in[k + 1] = D[k + 1]
    BY <1>13, <2>1
  <2>3. in[1] = D[1]
    <3>1. 1 \in 1..1 + a + b /\ 1 <= 1 + a
      OBVIOUS
    <3> QED BY <1>13, <3>1
  <2> QED BY <1>10, <2>2, <2>3
<1>15. \A k \in 1..b : in[k + 1 + a] = C[k]
  <2>1. \A k \in 1..b : /\ k + 1 + a \in 1..1 + a + b /\ ~(k + 1 + a <= 1 + a)
                        /\ (k + 1 + a) - (1 + a) = k
    OBVIOUS
  <2> QED BY <1>13, <2>1
<1>16. DOMAIN in = 1..Len(in)
  BY <1>13
<1>17. in[1].kind = "query" /\ in[1].text = q
  BY <1>6, <1>14
<1>18. \A k \in 1..a : in[k + 1].kind = "keyword" /\ in[k + 1].text = K[k]
  BY <1>7, <1>14
<1>19. \A k \in 1..b : in[k + 1 + a].kind = "entity" /\ in[k + 1 + a].text = E[k]
  BY <1>8, <1>15
<1>20. IsInputs(in, q, K, E)
  BY <1>5, <1>13, <1>16, <1>17, <1>18, <1>19 DEF IsInputs
<1> QED BY <1>12, <1>20

(* The keywords and the entities are the ones of the reference, and none   *)
(* is repeated.                                                            *)
LEMMA ViewsOfAQuery ==
    ASSUME NEW q \in Seq(Words)
    PROVE  \E K, E : /\ K \in Seq(Range(Lower)) /\ K = extract_keywords(q)
                     /\ E \in Seq(Seq(Tokens)) /\ E = extract_entities(q)
                     /\ K = KeywordReference(q) /\ E = EntityReference(q)
                     /\ Apart(K, 1..Len(K))
                     /\ Apart(E, 1..Len(E))
<1>1. PICK s \in Seq(Tokens) : s = raw_tokens(q)
  BY TokensOfAQuery
<1>2. PICK L : L = Range(Lower)
  OBVIOUS
<1>3. PICK low \in Seq(L) : low = Lowered(s)
  <2>1. \A i \in DOMAIN s : Lower[s[i]] \in L
    BY <1>2, QueryAssumption DEF Range
  <2>2. DOMAIN s = 1..Len(s) /\ Len(s) \in Nat
    OBVIOUS
  <2>3. Lowered(s) \in [1..Len(s) -> L]
    BY <2>1, <2>2 DEF Lowered
  <2> QED BY <2>2, <2>3
<1>4. PICK K : K = Keywords(low)
  OBVIOUS
<1>5. PICK S : S = NewKeywords(low)
  OBVIOUS
<1>6. MaxKeywords \in Nat /\ MaxEntities \in Nat
  BY QueryAssumption
<1>7. S \in SUBSET Nat /\ IsFiniteSet(S) /\ Lists(K, L, S, low, MaxKeywords)
  BY <1>4, <1>5, KeywordsAreListed
<1>8. /\ K = FirstTexts(low, S, MaxKeywords)
      /\ Apart(low, S) => Apart(K, 1..Len(K))
  BY ONLY <1>6, <1>7, ListsIsFirst
<1>9. Apart(low, S)
  <2>1. ASSUME NEW i \in S, NEW j \in S, i < j PROVE low[i] # low[j]
    <3>1. i \in Nat /\ j \in Nat /\ i \in DOMAIN low
      BY <1>5, <1>7 DEF NewKeywords
    <3>2. i \in 1..j - 1
      BY <2>1, <3>1
    <3> QED BY <1>5, <3>2 DEF NewKeywords
  <2>2. \A i, j \in S : i \in Nat /\ j \in Nat
    BY <1>7
  <2> QED BY <2>1, <2>2 DEF Apart
<1>10. PICK E : E = flush_entity(Walk(s).current, Walk(s).output)
  OBVIOUS
<1>11. PICK R : R = NewNames(s)
  OBVIOUS
<1>12. PICK t, M : t = Names(s) /\ M = Seq(Tokens)
  OBVIOUS
<1>13. R \in SUBSET Nat /\ IsFiniteSet(R) /\ Lists(E, M, R, t, MaxEntities)
  BY <1>10, <1>11, <1>12, EntitiesAreListed
<1>14. /\ E = FirstTexts(t, R, MaxEntities)
       /\ Apart(t, R) => Apart(E, 1..Len(E))
  BY ONLY <1>6, <1>13, ListsIsFirst
<1>15. Apart(t, R)
  <2>1. ASSUME NEW i \in R, NEW j \in R, i < j PROVE t[i] # t[j]
    <3>1. Lowered(t[i]) # Lowered(t[j])
      BY <1>11, <1>12, <2>1 DEF NewNames
    <3> QED BY <3>1
  <2>2. \A i, j \in R : i \in Nat /\ j \in Nat
    BY <1>13
  <2> QED BY <2>1, <2>2 DEF Apart
<1>16. K = extract_keywords(q) /\ E = extract_entities(q)
  BY <1>1, <1>3, <1>4, <1>10 DEF extract_keywords, extract_entities
<1>17. K = KeywordReference(q) /\ E = EntityReference(q)
  BY <1>1, <1>3, <1>5, <1>8, <1>11, <1>12, <1>14 DEF KeywordReference, EntityReference
<1>18. K \in Seq(L) /\ E \in Seq(M)
  BY <1>7, <1>13 DEF Lists
<1> QED BY <1>2, <1>8, <1>9, <1>12, <1>14, <1>15, <1>16, <1>17, <1>18

(* What the provider and the reader get: the inputs of an analysable query *)
(* are a list the provider accepts, and its views are complete.            *)
LEMMA AnalysedInputs ==
    ASSUME NEW q \in Seq(Words), NEW in, in = Inputs(q), Analysable(q)
    PROVE  /\ Len(in) \in 1..MaxInputs /\ DOMAIN in = 1..Len(in)
           /\ in[1].text = q
           /\ [k \in 1..Len(in) - 1 |-> in[k + 1].text] = KeywordReference(q) \o EntityReference(q)
           /\ \A j, k \in DOMAIN in :
                 in[j].kind = in[k].kind /\ in[j].text = in[k].text => j = k
<1>1. PICK K, E : /\ K \in Seq(Range(Lower)) /\ K = extract_keywords(q)
                  /\ E \in Seq(Seq(Tokens)) /\ E = extract_entities(q)
                  /\ K = KeywordReference(q) /\ E = EntityReference(q)
                  /\ Apart(K, 1..Len(K))
                  /\ Apart(E, 1..Len(E))
  BY ViewsOfAQuery
<1>2. IsInputs(in, q, K, E)
  BY <1>1, InputsOfAQuery
<1>3. PICK a \in Nat, b \in Nat : a = Len(K) /\ b = Len(E) /\ DOMAIN K = 1..a /\ DOMAIN E = 1..b
  BY <1>1
<1>4. /\ Len(in) = 1 + a + b /\ DOMAIN in = 1..1 + a + b
      /\ in[1].kind = "query" /\ in[1].text = q
      /\ \A k \in 1..a : in[k + 1].kind = "keyword" /\ in[k + 1].text = K[k]
      /\ \A k \in 1..b : in[k + 1 + a].kind = "entity" /\ in[k + 1 + a].text = E[k]
  BY <1>2, <1>3 DEF IsInputs
<1>5. Len(in) \in 1..MaxInputs
  BY <1>3, <1>4, QueryAssumption DEF Analysable
<1>6. [k \in 1..Len(in) - 1 |-> in[k + 1].text] = K \o E
  <2>1. PICK Y : Y = Range(Lower) \cup Seq(Tokens)
    OBVIOUS
  <2>2. K \in Seq(Y) /\ E \in Seq(Y)
    BY <1>1, <2>1
  <2>3. PICK D : D = K \o E
    OBVIOUS
  <2>4. /\ D \in Seq(Y) /\ Len(D) = a + b
        /\ \A i \in 1..a + b : D[i] = IF i <= a THEN K[i] ELSE E[i - a]
    BY <1>3, <2>2, <2>3, Joined
  <2>5. ASSUME NEW i \in 1..a + b PROVE in[i + 1].text = D[i]
    <3>1. CASE i <= a
      <4>1. i \in 1..a
        BY <3>1
      <4> QED BY <1>4, <2>4, <3>1, <4>1
    <3>2. CASE ~(i <= a)
      <4>1. PICK k \in 1..b : k = i - a
        BY <3>2
      <4>2. k + 1 + a = i + 1
        BY <4>1
      <4>3. in[i + 1].text = E[k]
        BY <1>4, <4>2
      <4>4. D[i] = E[k]
        BY <2>4, <3>2, <4>1
      <4> QED BY <4>3, <4>4
    <3> QED BY <3>1, <3>2
  <2>6. D = [i \in 1..a + b |-> D[i]]
    BY <2>4
  <2>7. Len(in) - 1 = a + b
    BY <1>4
  <2> QED BY <2>3, <2>5, <2>6, <2>7
<1>7. ASSUME NEW j \in DOMAIN in, NEW k \in DOMAIN in,
             in[j].kind = in[k].kind, in[j].text = in[k].text
      PROVE  j = k
  <2>1. \A i \in DOMAIN in : \/ i = 1
                             \/ \E x \in 1..a : i = x + 1
                             \/ \E x \in 1..b : i = x + 1 + a
    <3> SUFFICES ASSUME NEW i \in 1..1 + a + b, i # 1, ~(\E x \in 1..a : i = x + 1)
                 PROVE  \E x \in 1..b : i = x + 1 + a
      <4>1. DOMAIN in = 1..1 + a + b
        BY <1>4
      <4> QED BY <4>1, Zenon
    <3>1. PICK x \in Nat : i = x + 1
      <4>1. i - 1 \in Nat /\ i = (i - 1) + 1
        OBVIOUS
      <4> QED BY <4>1
    <3>2. PICK y \in 1..b : x = y + a
      <4>1. x > a /\ x <= a + b
        BY <3>1
      <4>2. x - a \in 1..b /\ x = (x - a) + a
        BY <4>1
      <4> QED BY <4>2
    <3>3. i = y + 1 + a
      BY <3>1, <3>2
    <3> QED BY <3>3
  <2>2. CASE j = 1
    <3>1. in[k].kind = "query"
      BY <1>4, <1>7, <2>2
    <3>2. ~(\E x \in 1..a : k = x + 1) /\ ~(\E x \in 1..b : k = x + 1 + a)
      BY <1>4, <3>1
    <3> QED BY <2>1, <2>2, <3>2
  <2>3. CASE \E x \in 1..a : j = x + 1
    <3>1. PICK x \in 1..a : j = x + 1
      BY <2>3
    <3>2. in[k].kind = "keyword"
      BY <1>4, <1>7, <3>1
    <3>3. PICK y \in 1..a : k = y + 1
      BY <1>4, <2>1, <3>2
    <3>4. K[x] = K[y]
      BY <1>4, <1>7, <3>1, <3>3
    <3> QED BY <1>1, <1>3, <3>1, <3>3, <3>4 DEF Apart
  <2>4. CASE \E x \in 1..b : j = x + 1 + a
    <3>1. PICK x \in 1..b : j = x + 1 + a
      BY <2>4
    <3>2. in[k].kind = "entity"
      BY <1>4, <1>7, <3>1
    <3>3. PICK y \in 1..b : k = y + 1 + a
      BY <1>4, <2>1, <3>2
    <3>4. E[x] = E[y]
      BY <1>4, <1>7, <3>1, <3>3
    <3> QED BY <1>1, <1>3, <3>1, <3>3, <3>4 DEF Apart
  <2> QED BY <2>1, <2>2, <2>3, <2>4
<1> QED BY <1>1, <1>4, <1>5, <1>6, <1>7

(***************************************************************************)
(* The inductive invariant of the probe: before the analysis, and after an *)
(* analysis that failed, nothing was handed over or answered; afterwards   *)
(* the inputs are those of the query and the call keeps its own invariant. *)
(***************************************************************************)
ProbeInv ==
    /\ query \in Queries
    /\ model \in Models
    /\ \/ /\ phase \in {"started", "failed"} /\ inputs = <<>> /\ reply = NoReply
          /\ RetryableForCause
       \/ inputs = Inputs(query) /\ Analysable(query) /\ EmbedInv

(* What the analysis accepts is a list that embed_inputs can be handed.    *)
LEMMA AnalysedIsHandedOver ==
    ASSUME NEW q \in Queries, NEW m \in Models, NEW in, in = Inputs(q), Analysable(q)
    PROVE  Len(in) \in Nat \ {0} /\ DOMAIN in = 1..Len(in) /\ DOMAIN in \subseteq DOMAIN m
<1>1. q \in Seq(Words) /\ DOMAIN m = 1..MaxInputs /\ MaxInputs \in Nat
  BY ProbeAssumption, QueryAssumption
<1>2. Len(in) \in 1..MaxInputs /\ DOMAIN in = 1..Len(in)
  BY <1>1, AnalysedInputs
<1> QED BY <1>1, <1>2

(***************************************************************************)
(* The invariant holds in every reachable state of the probe.              *)
(***************************************************************************)
THEOREM ProbeInvariance == Spec => []ProbeInv
<1>1. Init => ProbeInv
  BY DEF Init, Fresh, ProbeInv, RetryableForCause
<1>2. ASSUME ProbeInv, [Next]_vars PROVE ProbeInv'
  <2>1. CASE Analyze
    <3>1. phase = "started" /\ inputs = <<>> /\ reply = NoReply
      BY <1>2, <2>1 DEF Analyze, ProbeInv, EmbedInv, ReplyInv
    <3>2. query' = query /\ model' = model /\ reply' = reply /\ query \in Queries /\ model \in Models
      BY <1>2, <2>1 DEF Analyze, ProbeInv
    <3>3. CASE SpaceOk /\ Analysable(query)
      <4>1. phase' = "analysed" /\ inputs' = Inputs(query)
        BY <2>1, <3>3 DEF Analyze
      <4>2. Inputs(query)' = Inputs(query) /\ (Analysable(query)' <=> Analysable(query))
        BY <3>2 DEF Inputs, Analysable, extract_keywords, extract_entities
      <4>3. HandedOver'
        BY <3>2, <3>3, <4>1, AnalysedIsHandedOver DEF HandedOver
      <4>4. EmbedInv'
        BY <3>1, <3>2, <4>1, <4>3 DEF EmbedInv, ReplyInv, NoReply, EachVectorReachesItsInput,
                                      GoodAnswersAreUsed, RefusedForCause, RetryableForCause,
                                      FailsClosed
      <4> QED BY <3>2, <3>3, <4>1, <4>2, <4>4 DEF ProbeInv
    <3>4. CASE ~(SpaceOk /\ Analysable(query))
      <4>1. phase' = "failed" /\ inputs' = inputs /\ ~ error'.retryable
        BY <2>1, <3>4 DEF Analyze, Fail
      <4>2. RetryableForCause'
        BY <3>1, <3>2, <4>1 DEF RetryableForCause, NoReply
      <4> QED BY <3>1, <3>2, <4>1, <4>2 DEF ProbeInv
    <3> QED BY <3>3, <3>4
  <2>2. CASE ContractRefuses
    <3>1. /\ phase = "analysed" /\ phase' = "failed" /\ ~ error'.retryable
          /\ query' = query /\ model' = model /\ inputs' = inputs /\ reply' = reply
      BY <2>2 DEF ContractRefuses, Fail
    <3>2. EmbedInv /\ inputs = Inputs(query) /\ Analysable(query) /\ reply = NoReply
      BY <1>2, <3>1 DEF ProbeInv, EmbedInv, ReplyInv
    <3>3. HandedOver' /\ model' \in Models
      BY <3>1, <3>2 DEF EmbedInv, HandedOver
    <3>4. EmbedInv'
      BY <3>1, <3>2, <3>3 DEF EmbedInv, ReplyInv, NoReply, EachVectorReachesItsInput,
                              GoodAnswersAreUsed, RefusedForCause, RetryableForCause,
                              FailsClosed
    <3> QED BY <1>2, <3>1, <3>2, <3>4 DEF ProbeInv
  <2>3. CASE [EmbedNext]_embedVars /\ UNCHANGED query
    <3>1. model' = model /\ inputs' = inputs
      BY <2>3 DEF EmbedNext, embedVars, Configure, InputRefused, Unreachable, Reply, Aggregated,
                  Refused, Ended
    <3>2. CASE /\ phase \in {"started", "failed"} /\ inputs = <<>> /\ reply = NoReply
               /\ RetryableForCause
      <4>1. UNCHANGED embedVars
        BY <2>3, <3>2 DEF EmbedNext, Configure, InputRefused, Unreachable, Reply, Aggregated,
                          Refused, Ended
      <4> QED BY <1>2, <2>3, <3>2, <4>1 DEF ProbeInv, RetryableForCause, embedVars
    <3>3. CASE inputs = Inputs(query) /\ Analysable(query) /\ EmbedInv
      <4>1. EmbedInv'
        BY <2>3, <3>3, EmbedStep
      <4> QED BY <1>2, <2>3, <3>1, <3>3, <4>1 DEF ProbeInv
    <3> QED BY <1>2, <3>2, <3>3 DEF ProbeInv
  <2> QED BY <1>2, <2>1, <2>2, <2>3 DEF Next, vars, embedVars
<1> QED BY <1>1, <1>2, PTL DEF Spec

(***************************************************************************)
(* For every query, every classification of its words and all limits: what *)
(* analyze_query gives the embedding provider is the query, its distinct   *)
(* keywords in order of first use and its distinct maximal runs of         *)
(* capitalised words, cut off at their limits, and nothing twice.          *)
(***************************************************************************)
THEOREM Views == Spec => []ViewsAreComplete
<1>1. ASSUME ProbeInv PROVE ViewsAreComplete
  <2>1. CASE inputs = <<>>
    BY <2>1 DEF ViewsAreComplete
  <2>2. CASE inputs = Inputs(query) /\ Analysable(query)
    <3>1. query \in Seq(Words)
      BY <1>1, ProbeAssumption DEF ProbeInv
    <3>2. /\ Len(inputs) \in 1..MaxInputs /\ DOMAIN inputs = 1..Len(inputs)
          /\ inputs[1].text = query
          /\ [k \in 1..Len(inputs) - 1 |-> inputs[k + 1].text]
                 = KeywordReference(query) \o EntityReference(query)
          /\ \A j, k \in DOMAIN inputs :
                inputs[j].kind = inputs[k].kind /\ inputs[j].text = inputs[k].text => j = k
      BY <2>2, <3>1, AnalysedInputs
    <3>3. Len(inputs) <= MaxInputs
      <4>1. MaxInputs \in Nat
        BY QueryAssumption
      <4>2. PICK n : n = Len(inputs) /\ n \in 1..MaxInputs
        BY <3>2
      <4>3. n <= MaxInputs
        BY <4>1, <4>2
      <4> QED BY <4>2, <4>3
    <3> QED BY <3>2, <3>3 DEF ViewsAreComplete
  <2> QED BY <1>1, <2>1, <2>2 DEF ProbeInv
<1> QED BY <1>1, ProbeInvariance, PTL

(***************************************************************************)
(* What holds of embed_inputs on any list of inputs holds of the probe,    *)
(* which hands over the inputs of its query.                               *)
(***************************************************************************)
THEOREM ProbeEmbeds ==
    Spec => [](EachVectorReachesItsInput /\ GoodAnswersAreUsed /\ FailsClosed)
<1>1. ASSUME ProbeInv PROVE EachVectorReachesItsInput /\ GoodAnswersAreUsed /\ FailsClosed
  <2>1. CASE phase \in {"started", "failed"} /\ reply = NoReply /\ RetryableForCause
    BY <2>1 DEF NoReply, EachVectorReachesItsInput, GoodAnswersAreUsed, RefusedForCause,
                FailsClosed
  <2>2. CASE EmbedInv
    BY <2>2 DEF EmbedInv
  <2> QED BY <1>1, <2>1, <2>2 DEF ProbeInv
<1> QED BY <1>1, ProbeInvariance, PTL
=============================================================================
