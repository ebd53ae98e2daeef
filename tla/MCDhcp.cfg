SPECIFICATION FairSpec
CONSTANTS
  Addr1 = Addr1
  Addr2 = Addr2
  Address <- MCAddress
  Lease = 8
  T1Lease = 4
  T2Lease = 7
  Retry = 1
  MaxLate = 3
  MaxQueue = 2
  MaxLoss = 1
  MaxForeign = 1
  Off = Off
  None = None
INVARIANTS
  TypeOK
  KeepsAsking
  
  RenewsInTime
PROPERTIES
  KeepsLease
  
