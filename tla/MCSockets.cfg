SPECIFICATION Spec
CONSTANTS
  SnMod = 16
  Wnd = 2
  Junk = Junk
  None = None
  Home = Home
  Other = Other
  Word = Word
  PeerA = PeerA
  PeerB = PeerB
  s1 = s1
  s2 = s2
  s3 = s3
  Peer <- MCPeer
  Byte <- MCByte
  Sock <- MCSock
  a1 = a1
  a2 = a2
  Addr <- MCAddr
  Port <- MCPort
  Bound = {Home}
  Isn = 0
  Servers = {PeerA}
  Segs <- MCSegs
  Dgram <- MCDgram
  Chunk <- MCChunk
  Reads = {2}
  MaxBinds = 2
  MaxQueue = 1
  MaxSent = 3
INVARIANTS
  
  
  StreamsDoNotMix
  DemuxServes
  
PROPERTIES
  FreesOnlyRefused
CHECK_DEADLOCK FALSE
SYMMETRY MCSymmetry
