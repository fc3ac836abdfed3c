SPECIFICATION FairSpec
CONSTANTS
  SeatCount = 3
  Skeptic = 1
  Processes = {"inference", "evidence"}
  RoundOnes <- MCRoundOnes
  Movers = {2}
  Askers = {0}
  MaxQuestions = 1
  MaxSkips = 0
  MaxFaults = 1
INVARIANTS
  DebateIsReplayable
  StopsWhenNobodyMoves
  TranscriptIsFinal
PROPERTIES
  DebateIsFrozen
CHECK_DEADLOCK FALSE
