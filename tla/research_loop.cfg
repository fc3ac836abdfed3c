SPECIFICATION Spec
CONSTANTS
  Pages = {"submitted", "first", "second"}
  Submitted = {"submitted"}
  Site <- MCSite
  MaxTurns = 6
  MaxSearches = 2
  MaxOpens = 2
  MaxOpensPerTurn = 2
  MinCitationDomains = 2
  MaxNudges = 1
  MaxRepairs = 1
  MaxRetries = 1
  MaxLoop = 2
  Deadline = 3
  Backoff = 1
  MinCall = 1
INVARIANTS
  TypeOK
  DecisiveAnswerIsResearched
  AnsweredInTime
CHECK_DEADLOCK FALSE
