SPECIFICATION FairSpec
CONSTANTS
  Positions = {p1, p2, p3, p4}
  Amounts <- MCAmounts
  MaxPoolValue = 13
  Diligent = {p1, p2}
  MayPause = TRUE
INVARIANTS
  VaultBacksTheHolders
  OrderHardlyMatters
PROPERTIES
  DiligentHoldersRedeem
CHECK_DEADLOCK FALSE
