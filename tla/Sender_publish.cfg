SPECIFICATION FairSpec
CONSTANTS
    p1 = p1  p2 = p2  p3 = p3
    None = 0
    Publishers <- TwoPublishers
    Chans = {1, 2}
    ReturnsCap = 1
    ConfirmModes = {TRUE, FALSE}
    Mandatories = {TRUE, FALSE}
INVARIANTS TypeOK HonestOutcome PendingExact
PROPERTIES PublishReturns ReturnsFlow WatchersEnd
CHECK_DEADLOCK FALSE
