CONSTANTS
  r1 = r1  r2 = r2  r3 = r3
  repoA = repoA  repoB = repoB  repoC = repoC
  w1 = w1  w2 = w2
  NoRequest = NoRequest
  Requests <- TwoRequests
  Repos <- TwoRepos
  RepoOrder <- VisitTwo
  RepoOf <- OneEach
  Workers = {w1}
  Limit = 5
  Unpublishable = {}
  Unreadable = {}
  DryRunModes = {TRUE, FALSE}
  MaxEnqueue = 2
  MaxNoise <- OneWord
  FaultKinds = {"refused", "abort"}
  MaxFaults = 2
SPECIFICATION FairSpec
PROPERTY KeepsLedger
