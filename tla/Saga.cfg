SPECIFICATION FairSpec
CONSTANTS
  Sagas = {s1, s2}
  NoSaga = noSaga
  MaxSteps = 3
  MaxRetries = 2
  MaxRuns = 2
  Reexecute = FALSE
INVARIANTS
  TypeOK
  OutcomeTellsEffects
  StepsInOrder
  DeadletterIsFailed
PROPERTIES
  RunsEnd
CHECK_DEADLOCK FALSE
