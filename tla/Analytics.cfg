SPECIFICATION Spec
CONSTANTS
    timer = timer
    button = button
    Refreshers = {timer, button}
    Manual = {button}
    Kinds = {"crm", "file"}
    MaxBuilds = 4
    Budget = 3
    Events = {"error", "unreadable", "crash"}
INVARIANTS
    LastGoodSurvives
    PageShowsOneSnapshot
PROPERTY
    PageNeverGoesBack
