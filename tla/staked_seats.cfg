SPECIFICATION SeatSpec
CONSTANTS
  Slots <- MCSlots
  Stakers = {a, b}
  Models <- MCModels
  Seeds <- MCSeeds
  Wishes <- MCWishes
  NoRole = "ANY"
  Roles <- MCRoles
  Skeptic = "SKEPTIC"
  Source = "SOURCE"
  CommitteeSize = 5
  ReserveCount = 2
  MaxPerRole = 3
  Rule <- MCRule
  HoldTime = 1
  Calls = {c1, c2}
  MaxSeats = 2
  MaxTime = 1
  MaxFaults = 1
  MaxLeavers = 1
SYMMETRY Symmetry
INVARIANTS
  MirrorRepeatsTheChain
  SlotsAreSharedOnlyByStragglers
  AdmittedSeatCanBeDrawn
CHECK_DEADLOCK FALSE
