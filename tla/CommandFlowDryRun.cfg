CONSTANTS
  c1 = c1  c2 = c2
  Commands <- TwoCommands
  Kinds <- DryKinds
  CommentTries = 2
  CheckTries = 3
  Default = Default
  Unknown = Unknown
  NoPayload = NoPayload
  MaxPushes = 1
  MaxFaults = 0
SPECIFICATION Spec
CHECK_DEADLOCK FALSE
INVARIANTS
  DryRunPublishesNothing
