SPECIFICATION Spec
CONSTANTS
    a = a
    b = b
    d = d
    Clients = {a, d}
    Publishers = {}
    Bypassers = {d}
    Nobody = Nobody
    MaxJobs = 2
    MaxCrashes = 0
CHECK_DEADLOCK FALSE
INVARIANT
    OneInference
