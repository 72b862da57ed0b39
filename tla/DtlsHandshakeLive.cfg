SPECIFICATION FairSpec
CONSTANTS
    Size <- MCSize
    Mtu = 14
    MaxQueued = 1
    MaxNet = 2
    Writers = {}
    Closers = {}
PROPERTY ServerFinishes
CHECK_DEADLOCK FALSE
