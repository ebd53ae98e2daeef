SPECIFICATION Spec
CONSTANTS
  SnMod = 16
  Wnd = 3
  Junk = 99
  None = None
  Client = Client
  Server = Server
  Peer <- MCPeer
  Byte <- MCByte
  Isn <- MCIsn
  Envs <- MCEnvs
  ClientBytes = 2
  ServerBytes = 1
  MaxBytes <- MCMaxBytes
  Sizes = {1, 2}
  CloseFirst = {Client, Server}
  KeepCopies = TRUE
  Losable <- MCNoLoss
  MaxLoss = 0
  Stale <- MCNoStale
INVARIANTS
  NoJunkToUser
  AckedIsReceived
  NoReset
PROPERTIES
  RcvNxtAdvances
  ToServerIsStream
  ToClientIsStream
CHECK_DEADLOCK FALSE
