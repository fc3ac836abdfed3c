SPECIFICATION Spec
CONSTANTS
  Profiles <- MCProfiles
  Owner <- MCOwner
  Payout <- MCPayout
  Rosters <- MCRosters
  Parties <- MCParties
  ManifestChanges <- MCManifestChanges
  Leavers <- MCLeavers
  DiversityRules <- MCRules
  CommitteeSize = 5
  ReserveCount = 2
  MinRecords = 7
  MaxPerRole = 3
  MaxDraws = 8
  RestartAfterStalls = 1
  MaxChanges = 1
  MaxDeclines = 1
  Skeptic = "SKEPTIC"
  Source = "SOURCE"
PROPERTIES
  DrawKeepsTrying
  SeatsAVariedPanel
CHECK_DEADLOCK FALSE
