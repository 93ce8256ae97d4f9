SPECIFICATION FairSpec
CONSTANTS
    p1 = p1
    Procs = {p1}
    SampleGroup = {p1}
    Prior = {p1}
    Design = {p1}
    MaxAttempts = 2
    Lease = 2
    BackoffBase = 1
    BackoffMax = 2
    AgeCap = 3
    BatchLimit = 1
    Budget = 2
    Events = {"operator", "crash", "edit", "stage", "deadline", "reassess", "override", "expert"}
    ShadowMode = FALSE
    NoItem = NoItem
PROPERTIES
    RunningIsLeft
    EventuallySettled
