CONSTANTS
    Pages = {p1}
    Contents = {c1, c2}
    Vectors = {v1, v2}
    Alerts = {a1}
    Levels <- MCLevels
    AsF32 <- MCAsF32
    Similarity <- MCSimilarity
    Threshold <- MCThreshold
    Strict = None
    FirstContent = c1
    FirstVector = v1
    None = None
    Deliveries = {}
    Requests <- OneVectorPerContent
    MaxCandidates = 1
    MaxFaults = 0
    Ingests = {i1}
    Evaluations = {e1, e2}
    EvaluateRequests <- MCEvaluateRequests
    SearchLimit = 2
SPECIFICATION Spec
INVARIANT SameProvenanceIsSelected
