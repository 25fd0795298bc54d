SPECIFICATION Spec
CONSTANTS
    o1 = o1  o2 = o2
    p1 = p1  p2 = p2
    nil = nil
    None = nil
    Owners <- OneOwner
    Drainers <- OneDrainer
    Channels = {1}
    Deliveries = {1}
    Prefetch = 0
    AckModes = {"AfterHandling"}
    Dispositions = {"Handled"}
PROPERTIES DrainIsTerminal
CHECK_DEADLOCK FALSE
