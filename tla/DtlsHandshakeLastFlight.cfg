SPECIFICATION FairSpec
CONSTANTS
    Size <- MCSize
    Mtu = 20
    MaxQueued = 1
    MaxNet = 1
    Writers = {}
    Closers = {}
PROPERTY ClientFinishes
CHECK_DEADLOCK FALSE
