CONSTANTS
  Base = 2
  Packet <- MCPacket
  Lens = {1, 3}
  MinSize = 4
  CutoffSize = 4
  LimitSize = 10
SPECIFICATION Spec
INVARIANTS BufferInv NoPacketAsleep
PROPERTY ImplementsQueue
CHECK_DEADLOCK FALSE
