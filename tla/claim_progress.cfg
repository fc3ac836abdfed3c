SPECIFICATION FairSpec
CONSTANTS
  Seats = {s1, s2}
  Threshold = 2
  ReserveCount = 0
  AcceptanceWindow = 0
  ProposalDeadline <- MCProposalDeadline
  ChallengeDeadline <- MCChallengeDeadline
  FirstCommitDeadline <- MCFirstCommitDeadline
  FirstRevealDeadline <- MCFirstRevealDeadline
  DiscussionDeadline <- MCDiscussionDeadline
  SecondCommitDeadline <- MCSecondCommitDeadline
  SecondRevealDeadline <- MCSecondRevealDeadline
  Instants <- ProgressInstants
  Modes = {"DIRECT"}
  Budgets <- OneBudget
  BondAmounts <- MCBondAmounts
  FeeBps = 1000
  MayDebate = TRUE
  MayPause = FALSE
  MayLapse = TRUE
INVARIANTS
  SecondRoundOnlyAfterSplit
PROPERTIES
  SecondRoundIsSealed
  DecidedOrStranded
  StrandedForever
CHECK_DEADLOCK FALSE
