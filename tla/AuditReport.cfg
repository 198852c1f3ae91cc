SPECIFICATION Spec
CONSTANTS
  Repos <- MCRepos
  Responses <- MCResponses
  Texts <- MCTexts
INVARIANT TypeOK
INVARIANT EngineIsHonest
INVARIANT NoMaxedAdvice
INVARIANT BlockedIsNotStrong
CHECK_DEADLOCK FALSE
