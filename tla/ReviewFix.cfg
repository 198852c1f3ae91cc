SPECIFICATION Spec
CONSTANTS
  a = a
  b = b
  Stray = stray
  Files = {a, b}
  Invocations <- MCInvocations
  Contents <- MCContents
  Reports <- MCReports
  Engines <- MCEngines
  Diffs <- MCDiffs
  MaxTargets = 2
  MaxBatches = 2
INVARIANT TypeOK
INVARIANT WrittenPatchIsGrounded
INVARIANT VerdictsAgree
INVARIANT ModelIsAskedSparingly
CHECK_DEADLOCK FALSE
