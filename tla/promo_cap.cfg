SPECIFICATION Spec
CONSTANTS
  s1 = s1
  s2 = s2
  unknown = unknown
  e1 = e1
  h1 = h1
  h2 = h2
  NoScan = NoScan
  Scans <- TwoScans
  KnownScans <- TwoScans
  Sessions <- NoSession
  Handlers <- TwoInFlight
  LimitedMax = 1
INVARIANT LimitIsKept
CHECK_DEADLOCK FALSE
