SPECIFICATION Spec
CONSTANTS
    nil = nil
    NoName = nil
    WellFormed <- Traces
    MaxAttempt = 7
    Bindings <- NamedBindings
    Scenarios <- FailingOnly
PROPERTY BindingsBare
CHECK_DEADLOCK FALSE
