SPECIFICATION FairSpec
CONSTANTS
    p1 = p1
    p2 = p2
    w1 = w1
    w2 = w2
    runner = runner
    operator = operator
    Procs = {p1, p2}
    Raisers = {runner}
    Resetters = {operator}
    Workers = {w1, w2}
    Nobody = Nobody
    Lanes = {"crm_active_hot"}
    BatchSize = 2
    MaxDepth = 2
    MaxRows = 2
    Budget = 4
    Events = {"request", "rollback", "sql", "crash"}
CHECK_DEADLOCK FALSE
INVARIANTS
    QueueTypeOK
    OneHolder
    OrphanHasCause
    DuplicatesNeedRace
PROPERTY
    RequestIsResearched
