\* The client stops when its association is closed or an answer is unusable.
SPECIFICATION Spec
CONSTANTS
  Hosts = {h1}
  ChannelSize = 2
  MaxMessages = 3
INVARIANTS ClientInv EndOfCandidatesIsTrue MuxOutlivesConnect WrittenInOrder
CHECK_DEADLOCK FALSE
