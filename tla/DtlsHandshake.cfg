SPECIFICATION Spec
CONSTANTS
    Size <- MCSize
    Mtu = 8
    MaxQueued = 2
    MaxNet = 3
    Writers = {"client", "server"}
    Closers = {"client"}
INVARIANTS
    DtlsInv
    NoFailure
    KeysAgree
    ClientVerified
CHECK_DEADLOCK FALSE
