SPECIFICATION FairSpec
CONSTANTS
  SeatCount = 1
  Threshold = 1
  Outcomes = {yes, no}
  RoundsRun = {1, 2}
  MayFail = TRUE
  MaxFaults <- TwoFaults
PROPERTIES
  EndsOrFallsBehind
  AttemptDecidedOnce
CHECK_DEADLOCK FALSE
