CONSTANTS
  t1 = t1  t2 = t2
  r1 = r1  r2 = r2
  Requests <- TwoRequests
  Kinds <- SomeKinds
  Tenants <- TwoTenants
  Limit <- OneEach
  Workers = {w1}
  None = None
  MaxDay = 1
  MaxRestarts = 1
SPECIFICATION Spec
SYMMETRY RequestSymmetry
CHECK_DEADLOCK FALSE
INVARIANTS
  TypeOK
  AccountsAgree
PROPERTY KeepsQuota
