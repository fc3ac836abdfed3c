SPECIFICATION FairSpec
CONSTANTS
  Agents = {a1, a2}
  Amounts <- MCAmounts
  MinBond = 1
  MinStake = 2
  BaseWeight = 1
  MaxStakeWeight = 10
  MaxWeight = 100
  AdminWeights <- MCAdminWeights
  Delay = 1
  MaxEligible = 2
  MaxBond = 3
INVARIANTS
  TypeOK
  DrawableSeatIsBonded
PROPERTIES
  ExitsAreDelayed
  UnstakeCompletes
  WithdrawalCompletesOrOverdrawn
CHECK_DEADLOCK FALSE
