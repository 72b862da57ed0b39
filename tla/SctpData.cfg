CONSTANTS
  N = 4
  Msg <- MCMsg4
  Dcep = {1}
  RcvBuf = 3
  Mtu = 1
  CwndFloor = 1
  use_forward_tsn = TRUE
  NetCap = 2
SPECIFICATION Spec
INVARIANTS IInv ReliableNeverSkipped T3CoversInflight BytesAccounted ForwardTsnOnMessageBoundary NoStrandedFragment
CHECK_DEADLOCK FALSE
PROPERTY PassedOnce
CONSTRAINT RefusingPeerBound
