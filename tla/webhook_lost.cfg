SPECIFICATION FairSpec
CONSTANTS
  s1 = s1
  s2 = s2
  unknown = unknown
  e1 = e1
  h1 = h1
  h2 = h2
  NoScan = NoScan
  Scans <- OneScan
  KnownScans <- OneScan
  Sessions <- OneSession
  Handlers <- TwoInFlight
  LimitedMax = 1
PROPERTY PaidIsUnlocked
CHECK_DEADLOCK FALSE
