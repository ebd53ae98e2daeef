SPECIFICATION Spec
CONSTANTS
  FragSize = 1400
  HdrLen = 20
  MaxCalls = 2
  TcpSizes <- MCTcpSizes
  UdpSizes <- MCUdpSizes
  EchoSizes <- MCEchoSizes
INVARIANTS
  PacketsTile
  FreedOnce
  OnlyGivenUpLeaks
CHECK_DEADLOCK FALSE
