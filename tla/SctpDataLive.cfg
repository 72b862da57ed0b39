CONSTANTS
  N = 3
  Msg <- MCMsg3
  Dcep = {1}
  RcvBuf = 2
  Mtu = 1
  CwndFloor = 1
  use_forward_tsn = TRUE
  NetCap = 2
SPECIFICATION FairSpec
PROPERTY EverythingSettles
CHECK_DEADLOCK FALSE
