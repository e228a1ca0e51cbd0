--------------------------- MODULE MCScopedSearch ---------------------------
EXTENDS ScopedSearch

\* Two spellings of one source, the canonical ones of two others, a label.
CONSTANTS a, b, c
MCStrings == {"A", "source:a", "source:b", "source:c", "label"}
MCParse ==
    [v \in MCStrings |-> CASE v \in {"A", "source:a"} -> a [] v = "source:b" -> b
                           [] v = "source:c" -> c [] OTHER -> Invalid]
MCCanonical ==
    [s \in Sources |-> CASE s = a -> "source:a" [] s = b -> "source:b" [] s = c -> "source:c"]

\* Three hits at one distance, in two sources, and a farther one.
MCEmbeddings == 1..4
MCSourceOf == [e \in MCEmbeddings |-> IF e = 2 THEN b ELSE a]
MCDistance == [e \in MCEmbeddings |-> IF e = 3 THEN 2 ELSE 1]

\* A first request without a cursor, or behind the first hit of the tie.
MCCursors == {NoCursor, [distance |-> 1, embedding_id |-> 1]}
=============================================================================
