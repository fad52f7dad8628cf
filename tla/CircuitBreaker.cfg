SPECIFICATION FairSpec
CONSTANTS
  Calls = {c1, c2, c3, c4}
  Observer = observer
  FailureThreshold = 2
  RecoveryTimeout = 2
  MaxConcurrent = 3
INVARIANTS
  TypeOK
  PlacesAreGivenBack
  CountsMatchState
PROPERTIES
  CircuitMoves
  OpenIsTriedAgain
