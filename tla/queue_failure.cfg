SPECIFICATION Spec
CONSTANTS
  l1 = l1
  l2 = l2
  d1 = d1
  NoTx = NoTx
  Jobs <- OneJob
  LoopWorkers <- OneLoop
  DrainWorkers <- NoWorkers
  MaxAttempts = 3
  LeaseTicks = 1
  RetryBase = 1
  RetryMax = 2
  Stranded <- NoneStranded
PROPERTY FailureIsRecorded
