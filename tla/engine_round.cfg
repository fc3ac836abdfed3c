SPECIFICATION Spec
CONSTANTS
  SeatCount = 2
  Threshold = 2
  Outcomes = {yes, no}
  RoundsRun = {1, 2}
  MayFail = TRUE
  MaxFaults <- FaultsInRoundTwo
SYMMETRY OutcomeSymmetry
INVARIANTS
  DatabaseTrailsChain
  VoidedIsNotCertified
PROPERTIES
  DatabaseIsSealedBallot
CHECK_DEADLOCK FALSE
