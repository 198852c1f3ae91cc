CONSTANTS
  r1 = r1  r2 = r2  r3 = r3
  repoA = repoA  repoB = repoB  repoC = repoC
  w1 = w1  w2 = w2
  NoRequest = NoRequest
  Requests <- ThreeRequests
  Repos <- TwoRepos
  RepoOrder <- VisitTwo
  RepoOf <- SameRepo
  Workers = {w1}
  Limit = 4
  Unpublishable = {r2}
  Unreadable = {r3}
  DryRunModes = {TRUE, FALSE}
  MaxEnqueue = 2
  MaxNoise <- Quiet
  FaultKinds = {"answer_lost", "refused", "abort"}
  MaxFaults = 1
SPECIFICATION Spec
INVARIANTS
  TypeOK
  SkippedOnlyWhenAnswered
  AnsweredAtMostOnce
