SPECIFICATION Spec
CONSTANTS
    first = first
    second = second
    unnamed = unnamed
    indoor = indoor
    Procs = {first}
    Identity <- OwnIdentity
    Keys <- LineKeys
    NoSub = unnamed
    ObjectForm = {}
    one = one
    other = other
    Syncers = {one}
    Medals = {1, 2}
    MaxRows = 2
    MaxOutput = 2
    MaxAudit = 1
    Budget = 2
    Events = {"assess", "reeval"}
CHECK_DEADLOCK FALSE
PROPERTY
    TimeNeverImproves
