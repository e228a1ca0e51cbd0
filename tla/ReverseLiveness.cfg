CONSTANTS
    Pages = {p1}
    Contents = {c1}
    Vectors = {v1}
    Alerts = {a1}
    Levels <- MCLevels
    AsF32 <- MCAsF32
    Similarity <- MCSimilarity
    Threshold <- MCThreshold
    Strict = a1
    FirstContent = c1
    FirstVector = v1
    None = None
    Deliveries = {d1, d2, d3}
    Requests <- OneVectorPerContent
    MaxCandidates = 1
    MaxFaults = 1
SPECIFICATION ReverseFairSpec
PROPERTY EveryDeliveryAccepted
