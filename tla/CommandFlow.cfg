CONSTANTS
  c1 = c1  c2 = c2
  Commands <- OneCommand
  Kinds <- AllKinds
  CommentTries = 2
  CheckTries = 3
  Default = Default
  Unknown = Unknown
  NoPayload = NoPayload
  MaxPushes = 3
  MaxFaults = 3
SPECIFICATION FairSpec
CHECK_DEADLOCK FALSE
INVARIANTS
  TypeOK
  AuditMatchesThread
  LabelCovers
  QuietExact
PROPERTIES
  Settles
