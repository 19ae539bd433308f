SPECIFICATION FairSpec
CONSTANTS
  l1 = l1
  l2 = l2
  d1 = d1
  NoTx = NoTx
  Jobs <- TwoJobs
  LoopWorkers <- OneLoop
  DrainWorkers <- OneDrain
  MaxAttempts = 3
  LeaseTicks = 1
  RetryBase = 1
  RetryMax = 2
  Stranded <- OneStranded
INVARIANTS TypeOK OneSessionPerJob PublishedOnce JobTellsScan QueuedHasAttemptLeft OnlyStrandedRun
PROPERTIES DecidedForGood EveryScanIsDecided ImplementsService
