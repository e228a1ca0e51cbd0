CONSTANTS
    Pages = {p1}
    Contents = {c1, c2}
    Vectors = {v1, v2}
    Alerts = {a1, a2}
    Levels <- MCLevels
    AsF32 <- MCAsF32
    Similarity <- MCSimilarity
    Threshold <- MCThreshold
    Strict = a1
    FirstContent = c1
    FirstVector = v1
    None = None
    Deliveries = {d1, d2}
    Requests <- AnyRequest
    MaxCandidates = 1
    MaxFaults = 1
SPECIFICATION ReverseSpec
INVARIANTS
    CandidatesJustified
    OneHistory
    PagesHaveContent
    AcceptedIsDurable
    NoMissedMatch
    ConflictsAreGenuine
    PredecessorIsFresh
PROPERTIES
    HistoryImmutable
SYMMETRY Symmetry
