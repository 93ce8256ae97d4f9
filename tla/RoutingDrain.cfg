SPECIFICATION FairDrainSpec
CONSTANTS
    p1 = p1
    Procs = {p1}
    SampleGroup = {}
    Prior = {p1}
    Design = {}
    MaxAttempts = 2
    Lease = 1
    BackoffBase = 1
    BackoffMax = 1
    AgeCap = 2
    BatchLimit = 1
    Budget = 2
    Events = {"crash", "edit", "stage", "deadline", "reassess", "override"}
    ShadowMode = FALSE
    NoItem = NoItem
PROPERTIES
    DrainEnds
    DrainSettles
    BackoffSpacesRetries
INVARIANT
    DrainTypeOK
