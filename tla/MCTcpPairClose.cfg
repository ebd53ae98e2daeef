SPECIFICATION FairSpec
CONSTANTS
  SnMod = 16
  Wnd = 3
  Junk = 99
  None = None
  Client = Client
  Server = Server
  Peer <- MCPeer
  Byte <- MCByte
  Isn <- MCIsn
  Envs <- MCEnvs
  ClientBytes = 1
  ServerBytes = 0
  MaxBytes <- MCMaxBytes
  Sizes = {1}
  CloseFirst = {Client}
  KeepCopies = FALSE
  Losable <- MCLosable
  MaxLoss = 2
  Stale <- MCNoStale
PROPERTIES
  Connects
  CloseCompletes
CHECK_DEADLOCK FALSE
