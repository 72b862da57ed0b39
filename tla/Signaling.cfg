SPECIFICATION Spec
CONSTANTS
  None = None
  Malformed = Malformed
  MaxTime = 604800
  Hosts = {h1}
  Versions = {1}
  Answer <- MCAnswer
  Others <- MCOthers
  MaxOthers = 2
  MaxOffers = 2
INVARIANTS SignalingInv  PrintedIsReadBack EachCandidateOnce QueuedIsUnambiguous
CHECK_DEADLOCK FALSE
