SPECIFICATION FairSpec
CONSTANTS
    nil = nil
    NoName = nil
    WellFormed <- Traces
    MaxAttempt = 7
    Bindings <- BareBindings
    Scenarios <- FailingOnly
PROPERTY ConsumerRestored
CHECK_DEADLOCK FALSE
