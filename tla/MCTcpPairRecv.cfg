SPECIFICATION Spec
CONSTANTS
  SnMod = 16
  Wnd = 3
  Junk = 99
  None = None
  Client = Client
  Server = Server
  Peer <- MCPeer
  Byte <- MCByte
  Isn <- MCIsn
  Envs <- MCEnvs
  ClientBytes = 2
  ServerBytes = 0
  MaxBytes <- MCMaxBytes
  Sizes = {1, 2}
  CloseFirst = {}
  KeepCopies = FALSE
  Losable <- MCNoLoss
  MaxLoss = 0
  Stale <- MCNoStale
INVARIANTS
  RecvReturnsStream
CHECK_DEADLOCK FALSE
