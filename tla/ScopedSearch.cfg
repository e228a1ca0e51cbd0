CONSTANTS
    a = a
    b = b
    c = c
    Sources = {a, b, c}
    Strings <- MCStrings
    Parse <- MCParse
    Canonical <- MCCanonical
    Invalid = Invalid
    MaxFilters = 2
    MaxSourceIds = 2
    Rules = {r1}
    Embeddings <- MCEmbeddings
    SourceOf <- MCSourceOf
    Distance <- MCDistance
    Scale = 3
    Limit = 1
    Minima = {0, 2}
    NoCursor = NoCursor
    Cursors <- MCCursors
SPECIFICATION SearchSpec
INVARIANTS
    WithinScope
    PathsAgree
    AcceptedIsUsable
    PagesTile
    EvaluationCoversScope
