SPECIFICATION FairSpec
CONSTANTS
  Invocations <- MCInvocations
  MaxRetries = 2
  MaxCandidates = 3
INVARIANTS
  TypeOK
  StoppedIsQuiet
  FallbackIsGoverned
  AuditTellsEngine
PROPERTIES
  Ends
