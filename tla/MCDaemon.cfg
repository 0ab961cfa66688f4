SPECIFICATION Spec
CONSTANTS
    Modules <- TableSize
    Enabled <- AllEntries
    Inits <- WithInit
    Starts <- WithStart
    Fragile <- MayFail
    Registrars <- Registering
    Dependents <- NeedCache
    Background = TRUE
    StackErr = {"ok", "negative"}
    PollResults = {"ok", "interrupted", "failed"}
    Failures = {"init", "register", "pidfile", "manager", "thread"}
INVARIANTS TypeOK ManagerSafe Ordered Watched
PROPERTIES Stops
CHECK_DEADLOCK FALSE
