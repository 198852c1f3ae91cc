SPECIFICATION Spec
CONSTANTS
  a = a
  b = b
  Stray = stray
  Files = {a, b}
  Invocations <- MCInvocations
  Contents <- MCContents
  Reports <- MCReports
  Engines <- MCEngines
  Diffs <- MCDiffs
  MaxTargets = 2
  MaxBatches = 2
INVARIANT SuccessIsVerified
CHECK_DEADLOCK FALSE
