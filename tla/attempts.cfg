SPECIFICATION FairSpec
CONSTANTS
  Claims = {1, 2, 3, 4, 5, 6}
  Roots = 1
  Replicas = {w1}
  Voiders = {1, 2}
  MaxAttempts = 3
  GiveUpAfter = 0
  MaxFaults = 1
  None = None
INVARIANTS
  OneLadder
PROPERTIES
  ClimbsTheLadder
  VoidedIsAnswered
CHECK_DEADLOCK FALSE
