CONSTANTS
  t1 = t1  t2 = t2  t3 = t3
  Pool <- TwoThreads
  Main = main
  Planned = 3
  BatchCap = 3
  MaxCalls = 3
  MaxTokens = 6
  Buffer = 2
  ReduceFloor = 3
  ReduceOn = TRUE
  Conservative = FALSE
  Retries = 1
  Fallback = TRUE
  StageCost = 1
  Cost = 2
  Uses = {1, 2}
  Headers = TRUE
  Estimate = 9
  Quotas = {3, 6}
  NoSignal = NoSignal
  MaxFaults = 2
SPECIFICATION FairSpec
INVARIANTS
  TypeOK
  CallsBounded
  PaidOnce
  ReportIsExact
  TokensCounted
PROPERTIES
  BufferKept
  Terminates
