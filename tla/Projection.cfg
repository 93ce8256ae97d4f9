SPECIFICATION Spec
CONSTANTS
    lot = lot
    timer = timer
    operator = operator
    Lots = {lot}
    Syncers = {timer, operator}
    MaxRows = 4
    Budget = 3
    Events = {"move", "number", "deadline", "hold", "error", "crash"}
CHECK_DEADLOCK FALSE
INVARIANTS
    ProjectionTypeOK
    NumberHasOneRow
    RowsFollowSource
PROPERTY
    StageNeverFallsBack
