SPECIFICATION FairSpec
CONSTANTS
    p1 = p1  p2 = p2  p3 = p3
    None = 0
    Publishers <- TwoPublishers
    Chans = {1}
    ReturnsCap = 1
    ConfirmModes = {TRUE}
    Mandatories = {TRUE}
PROPERTY ConfirmsArrive
CHECK_DEADLOCK FALSE
