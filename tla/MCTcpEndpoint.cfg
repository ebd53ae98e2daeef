SPECIFICATION Spec
CONSTANTS
  SnMod = 4
  Wnd = 2
  MaxBlocks = 2
  Junk = Junk
  None = None
  PeerA = PeerA
  ByteA = ByteA
  Byte <- MCByte
  Peer <- MCPeer
  Isns <- MCIsns
  Envs <- MCEnvs
  Arrivals <- MCArrivals
  Chunks <- MCChunks
  Reads <- MCReads
INVARIANTS
  TypeOK
  TimerCovers
  TxFitsState
  FinIsLast
  NoIdleQueue
  ClosingProgress
  SendWindow
