SPECIFICATION Spec
CONSTANTS
  p = p
  q = q
  None = None
  N = 3
  Plans <- MCPlans
  PRs = {p, q}
  Files = {"moving", "indented"}
  Text <- MCText
  Changed <- MCChanged
  Rows <- MCRows
  MaxCommit = 3
  MaxEntries = 2
  MaxStates = 1
  MaxAtOnce = 2
  MaxFaults = 1
INVARIANTS
  TypeOK
  ComparedWithTheLast
  HitIsOfItsHead
  VectorsFitTheIndex
CHECK_DEADLOCK FALSE
