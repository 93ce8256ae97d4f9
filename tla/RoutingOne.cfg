SPECIFICATION Spec
CONSTANTS
    p1 = p1
    Procs = {p1}
    SampleGroup = {p1}
    Prior = {p1}
    Design = {p1}
    MaxAttempts = 3
    Lease = 1
    BackoffBase = 1
    BackoffMax = 2
    AgeCap = 2
    BatchLimit = 1
    Budget = 3
    Events = {"operator", "crash", "edit", "stage", "deadline", "reassess", "override", "expert"}
    ShadowMode = FALSE
    NoItem = NoItem
INVARIANTS
    TypeOK
    FingerprintHonest
    LiveWorkIsClaimed
PROPERTIES
    EveryExitSettles
    ReviewIsHeld
    ExhaustedNotRetried
    OverrideLostOnlyInWindow
