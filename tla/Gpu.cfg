SPECIFICATION FairSpec
CONSTANTS
    a = a
    b = b
    d = d
    Clients = {a, b, d}
    Publishers = {a, b}
    Bypassers = {d}
    Nobody = Nobody
    MaxJobs = 3
    MaxCrashes = 1
CHECK_DEADLOCK FALSE
INVARIANTS
    LockedInferencesExclude
    StateNamesHolder
    SlotsCountGrants
PROPERTIES
    AnswersAreKept
    WaitersAreServed
    ImplementsSlot
