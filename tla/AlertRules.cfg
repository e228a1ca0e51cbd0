CONSTANTS
    Requests = {r1, r2, r3}
    Clients = {c1}
    Owners <- MCOwners
    OwnerOf <- MCOwnerOf
    Stranger = r3
    Keys <- MCKeys
    LockKey <- CollidingKeys
    Limit = 1
    PoolSize = 2
    None = None
SPECIFICATION FairSpec
INVARIANTS
    ActiveLimit
    CreateIsAtomic
    AnswersAreDurable
PROPERTIES
    ImplementsLedger
    EveryRequestEnds
