SPECIFICATION FairSpec
CONSTANTS
    nil = nil
    NoName = nil
    WellFormed <- Traces
    MaxAttempt = 7
    Bindings <- BareBindings
    Scenarios <- AllScenarios
INVARIANTS TypeOK MatchIsBrokers CapturesLeftmost TopicArrives FieldsArrive TraceArrives ConsumingMeansBound
PROPERTIES BackoffSchedule ComesBack
CHECK_DEADLOCK FALSE
