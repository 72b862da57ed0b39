CONSTANTS client = client
 server = server
 Peer <- MCPeer
 Clients <- MCClient
 MaxRetrans = 2
 MayFail = TRUE
SPECIFICATION FairSpec
INVARIANTS HandshakeInv NoHalfOpen
PROPERTY HandshakeEnds
CHECK_DEADLOCK FALSE
