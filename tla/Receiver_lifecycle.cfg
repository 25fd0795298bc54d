SPECIFICATION Spec
CONSTANTS
    o1 = o1  o2 = o2
    p1 = p1  p2 = p2
    nil = nil
    None = nil
    Owners <- TwoOwners
    Drainers <- TwoDrainers
    Channels = {1, 2}
    Deliveries = {1}
    Prefetch = 1
    AckModes = {"AfterHandling", "NoAck"}
    Dispositions = {"Handled"}
SYMMETRY CallerSymmetry
CONSTRAINT UpToCrossing
INVARIANTS OneLoop TagValidity UnsettledExact NoLeak
PROPERTIES StopMeansQuiet CleanDrain
CHECK_DEADLOCK FALSE
