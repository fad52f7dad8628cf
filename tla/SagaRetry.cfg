SPECIFICATION FairSpec
CONSTANTS
  Sagas = {s1}
  NoSaga = noSaga
  MaxSteps = 2
  MaxRetries = 1
  MaxRuns = 2
  Reexecute = FALSE
INVARIANT
  RolledBackMeansUndone
CHECK_DEADLOCK FALSE
