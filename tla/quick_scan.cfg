SPECIFICATION FairSpec
CONSTANTS
  h1 = h1
  h2 = h2
  d1 = d1
  Handlers <- TwoInFlight
  Domains <- OneDomain
  Window = 1
  MaxAttempts = 2
  MaxClock = 1
  MaxScans = 3
INVARIANTS TypeOK OneScanPerWindow WokenOrMissed
PROPERTY EveryScanIsDrained
CHECK_DEADLOCK FALSE
