SPECIFICATION FairSpec
CONSTANTS
  SnMod = 16
  Wnd = 3
  Junk = 99
  None = None
  Client = Client
  Server = Server
  Peer <- MCPeer
  Byte <- MCByte
  Isn <- MCIsn
  Envs <- MCEnvs
  ClientBytes = 0
  ServerBytes = 0
  MaxBytes <- MCMaxBytes
  Sizes = {1, 2}
  CloseFirst = {}
  KeepCopies = FALSE
  Losable <- MCLosableSynAck
  MaxLoss = 1
  Stale <- MCNoStale
PROPERTIES
  Connects
CHECK_DEADLOCK FALSE
