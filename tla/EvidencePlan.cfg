SPECIFICATION Spec
CONSTANTS
  LastPath = 24
  KindOf <- MCKindOf
  Private = {5}
  Readme = 2
  Invocations <- MCInvocations
  Room = 10
  TargetHunks = 5
  HunkCap = 2
  MaxCalls = 3
  TopK = 6
INVARIANT TypeOK
INVARIANT PatchesAreCovered
INVARIANT PatchWithItsFile
INVARIANT CodeIsKeptFirst
CHECK_DEADLOCK FALSE
