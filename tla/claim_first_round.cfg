SPECIFICATION Spec
CONSTANTS
  Seats = {s1, s2, s3}
  Threshold = 2
  ReserveCount = 1
  AcceptanceWindow = 2
  ProposalDeadline <- MCProposalDeadline
  ChallengeDeadline <- MCChallengeDeadline
  FirstCommitDeadline <- MCFirstCommitDeadline
  FirstRevealDeadline <- MCFirstRevealDeadline
  DiscussionDeadline <- MCDiscussionDeadline
  SecondCommitDeadline <- MCSecondCommitDeadline
  SecondRevealDeadline <- MCSecondRevealDeadline
  Instants <- PartyInstants
  Modes = {"DIRECT", "OPTIMISTIC"}
  Budgets <- MCBudgets
  BondAmounts <- MCBondAmounts
  FeeBps = 1000
  MayDebate = FALSE
  MayPause = TRUE
  MayLapse = FALSE
SYMMETRY SeatSymmetry
INVARIANTS
  TypeOK
  VerdictBacked
  CommittedSeatKeepsItsWindow
  TicketsCoverBalance
PROPERTIES
  RosterFixedOnceLocked
  FirstRoundIsSealed
  DecisionIsFinal
  BondsFollowVerdict
CHECK_DEADLOCK FALSE
