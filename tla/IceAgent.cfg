SPECIFICATION Spec
CONSTANTS
  Local = {"c1", "c2"}
  Remote = {"s1", "s2"}
  Answered = {"s1"}
  MaxCandidates = 3
  CandidatePriority <- MCPriority
  PriorityBase = 7
  MaxBindingRequests = 0
INVARIANTS AgentInv EveryPairListed SelectedIsConfirmed DialedSendsOnConfirmed
PROPERTY LostForGood
CHECK_DEADLOCK FALSE
