CONSTANTS
    Sockets = {member, admin}
    Admin = admin
    Tenants = {"acme", "beta"}
    Subjects = {"ann", "bob"}
    Identity <- MCIdentity
    Published <- MCPublished
    Capacity = 2
    MaxEvents = 3
    Administrators = Administrators
SPECIFICATION FairSpec
INVARIANTS
    OnlyAudience
    NoSilentLoss
PROPERTIES
    ImplementsFeed
    EndsWhole
    EventsSettle
CHECK_DEADLOCK FALSE
