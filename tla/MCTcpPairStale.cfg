SPECIFICATION Spec
CONSTANTS
  SnMod = 16
  Wnd = 3
  Junk = 99
  None = None
  Client = Client
  Server = Server
  Peer <- MCPeer
  Byte <- MCByte
  Isn <- MCIsn
  Envs <- MCEnvsFaulty
  ClientBytes = 1
  ServerBytes = 0
  MaxBytes <- MCMaxBytes
  Sizes = {1, 2}
  CloseFirst = {Client}
  KeepCopies = FALSE
  Losable <- MCNoLoss
  MaxLoss = 0
  Stale <- MCStaleSyn
INVARIANTS
  HandshakeAgreed
PROPERTIES
  ToServerIsStream
CHECK_DEADLOCK FALSE
