CONSTANTS Arrivals = 3
 Writes = 4
SPECIFICATION FairSpec
INVARIANT StreamInv
PROPERTY MessagesAreRead
CHECK_DEADLOCK FALSE
