--------------------------- MODULE MCReverseMatch ---------------------------
EXTENDS ReverseMatch, TLC

\* Two levels lie between neighbouring f32 values, one rounds down, one up.
MCLevels == 0..6
MCAsF32 == [x \in MCLevels |-> 3 * ((x + 1) \div 3)]

\* Equal vectors are close, different ones half as close.
MCSimilarity == [vw \in Vectors \X Vectors |-> IF vw[1] = vw[2] THEN 6 ELSE 3]

\* The first alert asks for an exact match, the others for a near one.
CONSTANT Strict
MCThreshold == [a \in Alerts |-> IF a = Strict THEN 6 ELSE 3]

AnyRequest == [page : Pages, content : Contents, vector : Vectors]

\* An embedding model is a function: equal content has equal vectors.
CONSTANT FirstContent, FirstVector
OneVectorPerContent ==
    {q \in AnyRequest : (q.content = FirstContent) <=> (q.vector = FirstVector)}

\* No definition used by the safety run names one of these.
Symmetry == Permutations(Deliveries) \cup Permutations(Contents) \cup Permutations(Vectors)
=============================================================================
