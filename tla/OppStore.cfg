SPECIFICATION Spec
CONSTANTS
    first = first
    second = second
    unnamed = unnamed
    indoor = indoor
    Procs = {first, second}
    Identity <- TwinIdentity
    Keys <- PairKeys
    NoSub = unnamed
    ObjectForm = {}
    Syncers = {one, other}
    one = one
    other = other
    MaxAudit = 4
    Medals = {1, 2}
    MaxRows = 3
    MaxOutput = 2
    Budget = 3
    Events = {"overlap", "stage", "assess", "crash", "reeval", "expert", "lockfail"}
SYMMETRY SyncSymmetry
CHECK_DEADLOCK FALSE
INVARIANTS
    StoreTypeOK
    DuplicatesSuppressed
    AuditHasNoDuplicates
    StatesFollowSource
PROPERTIES
    AcceptedIsLastOutput
    FirstMedalIsKept
