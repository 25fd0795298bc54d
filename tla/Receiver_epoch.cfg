SPECIFICATION Spec
CONSTANTS
    o1 = o1  o2 = o2
    p1 = p1  p2 = p2
    nil = nil
    None = nil
    Owners <- TwoOwners
    Drainers = {}
    Channels = {1, 2}
    Deliveries = {1}
    Prefetch = 0
    AckModes = {"AfterHandling"}
    Dispositions = {"Handled"}
PROPERTIES EpochMovesBetweenChannels
CHECK_DEADLOCK FALSE
