SPECIFICATION FairSpec
CONSTANTS
    s1 = s1  r1 = r1
    p1 = p1  p2 = p2
    nil = nil
    None = nil
    Conns = {1, 2}
    Chans = {1, 2}
    Senders <- OneSender
    Receivers = {}
    Stoppers <- OneStopper
    NumBrokers = 1
    MaxReconnectAttempts = 1
CHECK_DEADLOCK FALSE
PROPERTIES DropNoticed
