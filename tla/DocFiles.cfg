SPECIFICATION Spec
CONSTANTS
    estimate = estimate
    notice = notice
    Files = {estimate, notice}
    Pages = 3
    Hits <- Found
    Shown <- Texts
    MaxResume = 2
    Budget = 3
    Events = {"download", "prefetch", "memory", "unreadable", "db", "norename", "error", "crash", "reopen"}
CHECK_DEADLOCK FALSE
INVARIANTS
    FileTypeOK
    PagesAreAccounted
PROPERTY
    GivenUpOnlyWhenStuck
