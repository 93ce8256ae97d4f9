SPECIFICATION Spec
CONSTANTS
    p1 = p1
    p2 = p2
    w1 = w1
    w2 = w2
    runner = runner
    operator = operator
    Procs = {p1, p2}
    Raisers = {}
    Resetters = {operator}
    Workers = {w1}
    Nobody = Nobody
    Lanes = {"crm_active_hot", "open_active", "awarded_follow_up", "discovery_review"}
    BatchSize = 1
    MaxDepth = 1
    MaxRows = 2
    Budget = 2
    Events = {"request"}
CHECK_DEADLOCK FALSE
PROPERTY
    RankedFirstIsClaimedFirst
