CONSTANTS
    Replicas = {r1, r2}
    Settings <- MCSettings
    NoReplica = NoReplica
    MaxBoots = 3
SPECIFICATION FairSpec
INVARIANTS
    GuardsStand
    ProductionPosture
PROPERTIES
    SchemaAdvances
    EveryStartDecides
CHECK_DEADLOCK FALSE
