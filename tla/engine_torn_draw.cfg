SPECIFICATION Spec
CONSTANTS
  SeatCount = 1
  Threshold = 1
  Outcomes = {yes, no}
  RoundsRun = {1, 2}
  MayFail = FALSE
  MaxFaults <- OneFault
INVARIANTS
  CommitPhaseHasTally
CHECK_DEADLOCK FALSE
