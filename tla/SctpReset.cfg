SPECIFICATION Spec
CONSTANTS
  Streams = {"s1", "s2"}
  Messages <- MCMessages
  Window = 2
INVARIANTS ResetInv FragmentsConsecutive NoChunkAsleep ResetAfterData WaitsForMissing
CHECK_DEADLOCK FALSE
