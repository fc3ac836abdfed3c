------------------------------ MODULE ClaimProofs ------------------------------
(***************************************************************************)
(* Proofs, for every committee, threshold, ladder of deadlines, budget and *)
(* fee, of what the runs of MCClaim check on small instances.              *)
(***************************************************************************)
EXTENDS Claim, TLAPS, FiniteSetTheorems

-----------------------------------------------------------------------------
(* Arithmetic of settlement::create_reviewed_payouts                       *)

\* Integer division never hands out more than there is.
LEMMA ShareBound ==
    ASSUME NEW x \in Nat, NEW n \in Nat \ {0}
    PROVE  (x \div n) \in Nat /\ (x \div n) * n <= x
  BY Z3

\* The fee is at most the committee budget.
LEMMA FeeBound ==
    ASSUME NEW c \in Nat
    PROVE  (c * FeeBps) \div 10000 \in Nat /\ (c * FeeBps) \div 10000 <= c
<1>1. FeeBps \in Nat /\ FeeBps <= 2000
  BY FeeAssumption
<1>2. c * FeeBps \in Nat /\ c * FeeBps <= c * 2000
  BY <1>1, Z3
<1> QED
  BY <1>2, Z3

\* Redeeming one of n equal shares leaves n - 1 of them.
LEMMA TimesPred ==
    ASSUME NEW a \in Nat, NEW n \in Nat, n > 0
    PROVE  a * (n - 1) = a * n - a /\ a <= a * n
  BY Z3

-----------------------------------------------------------------------------
(* The books of seats and tallies stay well typed under a single update    *)

\* One seat's record is replaced.
LEMMA SeatPut ==
    ASSUME NEW f \in SeatBook, NEW r \in Rounds, NEW k \in Seats, NEW s \in SeatRecords
    PROVE  [f EXCEPT ![r][k] = s] \in SeatBook
  BY DEF SeatBook

\* A whole round of seats is dealt.
LEMMA SeatDeal ==
    ASSUME NEW f \in SeatBook, NEW r \in Rounds, NEW s \in SeatRecords
    PROVE  [f EXCEPT ![r] = [k \in Seats |-> s]] \in SeatBook
  BY DEF SeatBook

\* One tally is replaced.
LEMMA TallyPut ==
    ASSUME NEW f \in TallyBook, NEW r \in Rounds, NEW t \in TallyRecords
    PROVE  [f EXCEPT ![r] = t] \in TallyBook
  BY DEF TallyBook

\* What a lookup in either book returns.
LEMMA BookLookup ==
    ASSUME tally \in TallyBook, seat \in SeatBook, NEW r \in Rounds
    PROVE  tally[r] \in TallyRecords /\ \A k \in Seats : seat[r][k] \in SeatRecords
  BY DEF TallyBook, SeatBook

\* jury::record_reveal counts one more vote.
LEMMA RevealRecorded ==
    ASSUME NEW t \in TallyRecords, NEW k \in Seats, NEW o \in Outcomes
    PROVE  /\ RecordReveal(t, k, o) \in TallyRecords
           /\ RecordReveal(t, k, o).revealed = t.revealed \cup {k}
           /\ RecordReveal(t, k, o).votes = [t.votes EXCEPT ![o] = @ + 1]
           /\ RecordReveal(t, k, o).committed = t.committed
           /\ RecordReveal(t, k, o).closed = t.closed
           /\ RecordReveal(t, k, o).linked = t.linked
<1> DEFINE votes == [t.votes EXCEPT ![o] = @ + 1]
<1>1. votes \in [Outcomes -> Nat] /\ t.revealed \cup {k} \in SUBSET Seats
  BY DEF TallyRecords
<1>2. RecordReveal(t, k, o) = [t EXCEPT !.revealed = @ \cup {k}, !.votes = votes]
  BY DEF RecordReveal, TallyRecords
<1> HIDE DEF votes
<1>3. [t EXCEPT !.revealed = @ \cup {k}, !.votes = votes] \in TallyRecords
  BY <1>1 DEF TallyRecords
<1> QED
  BY <1>1, <1>2, <1>3 DEF TallyRecords, votes

-----------------------------------------------------------------------------
(* Type correctness.  A proposed claim has a proposal: the only fact beyond *)
(* the types that a step needs to produce well-typed records.              *)

ProposalPosted == state = "PROPOSED" => proposal \in Outcomes

TypeInv == TypeOK /\ ProposalPosted

\* Every state the program can start from is well typed.
LEMMA InitTypes == Init => TypeInv
<1> SUFFICES ASSUME Init PROVE TypeInv
  OBVIOUS
<1>1. /\ now \in Nat /\ paused \in BOOLEAN /\ mode \in Modes
      /\ state \in States /\ proposal \in Outcomes \cup {NoOutcome} /\ state # "PROPOSED"
  BY DEF Init, InitialStates, States
<1>2. evidence \in [Rounds -> {"none", "linked", "lapsed"}]
  BY DEF Init
<1>3. committee \in CommitteeRecords
  BY DEF Init, NoCommittee, CommitteeRecords
<1>4. tally \in TallyBook
  BY DEF Init, NoTally, TallyBook, TallyRecords, Outcomes
<1>5. seat \in SeatBook
  BY DEF Init, NoSeat, SeatBook, SeatRecords, SeatStatuses, NoOutcome
<1>6. vault \in VaultRecords
  BY BudgetsAssumption DEF Init, NewVault, VaultRecords
<1>7. tickets \in TicketRecords /\ certificate \in CertificateRecords
  BY DEF Init, NoTickets, TicketRecords, NoCertificate, CertificateRecords, NoOutcome
<1> QED
  BY <1>1, <1>2, <1>3, <1>4, <1>5, <1>6, <1>7 DEF TypeInv, TypeOK, ProposalPosted

\* Time, the pause switch and storage retention keep the types.
LEMMA EnvironmentTypes == TypeInv /\ EnvironmentStep => TypeInv'
<1> SUFFICES ASSUME TypeInv, EnvironmentStep PROVE TypeInv'
  OBVIOUS
<1> USE DEF TypeInv, TypeOK, ProposalPosted, clock, claimVars, panelVars, moneyVars
<1>1. CASE Tick
  BY <1>1, InstantsAssumption DEF Tick
<1>2. CASE SetPaused
  BY <1>2 DEF SetPaused
<1>3. CASE \E r \in Rounds : RetentionLapses(r)
  BY <1>3 DEF RetentionLapses
<1> QED
  BY <1>1, <1>2, <1>3 DEF EnvironmentStep

\* The seat owners' calls keep the types.
LEMMA SeatTypes == TypeInv /\ SeatStep => TypeInv'
<1> SUFFICES ASSUME TypeInv, SeatStep PROVE TypeInv'
  OBVIOUS
<1> USE DEF TypeInv, TypeOK, ProposalPosted, clock, claimVars, panelVars, moneyVars
<1>1. ASSUME NEW k \in Seats, AcceptJurySeat(k) \/ DeclineJurySeat(k) PROVE TypeInv'
  <2>1. PICK s \in {"ACCEPTED", "DECLINED"} : seat' = [seat EXCEPT ![1][k].status = s]
    BY <1>1 DEF AcceptJurySeat, DeclineJurySeat
  <2>2. 1 \in Rounds /\ [seat[1][k] EXCEPT !.status = s] \in SeatRecords
    BY BookLookup DEF Rounds, SeatRecords, SeatStatuses
  <2>3. seat' \in SeatBook
    BY <2>1, <2>2, SeatPut
  <2> QED
    BY <1>1, <2>3 DEF AcceptJurySeat, DeclineJurySeat
<1>2. ASSUME NEW r \in Rounds, NEW k \in Seats, BindJurySeatEvidence(r, k) PROVE TypeInv'
  <2>1. [seat[r][k] EXCEPT !.bound = TRUE] \in SeatRecords
    BY BookLookup DEF SeatRecords
  <2>2. [tally[r] EXCEPT !.root = TRUE] \in TallyRecords
    BY BookLookup DEF TallyRecords
  <2>3. seat' \in SeatBook
    BY <1>2, <2>1, SeatPut DEF BindJurySeatEvidence
  <2>4. tally' \in TallyBook
    BY <1>2, <2>2, TallyPut DEF BindJurySeatEvidence
  <2> QED
    BY <1>2, <2>3, <2>4 DEF BindJurySeatEvidence
<1>3. ASSUME NEW r \in Rounds, NEW k \in Seats, NEW o \in Outcomes, CommitVote(r, k, o)
      PROVE  TypeInv'
  <2>1. [status |-> "COMMITTED", bound |-> TRUE, approved |-> FALSE, ballot |-> o] \in SeatRecords
    BY DEF SeatRecords, SeatStatuses
  <2>2. [tally[r] EXCEPT !.committed = @ + 1] \in TallyRecords
    BY BookLookup DEF TallyRecords
  <2>3. seat' \in SeatBook
    BY <1>3, <2>1, SeatPut DEF CommitVote
  <2>4. tally' \in TallyBook
    BY <1>3, <2>2, TallyPut DEF CommitVote
  <2> QED
    BY <1>3, <2>3, <2>4 DEF CommitVote
<1>4. ASSUME NEW r \in Rounds, NEW k \in Seats, NEW o \in Outcomes, RevealVote(r, k, o)
      PROVE  TypeInv'
  <2>1. [seat[r][k] EXCEPT !.status = "REVEALED"] \in SeatRecords
    BY BookLookup DEF SeatRecords, SeatStatuses
  <2>2. RecordReveal(tally[r], k, o) \in TallyRecords
    BY BookLookup, RevealRecorded
  <2>3. seat' \in SeatBook
    BY <1>4, <2>1, SeatPut DEF RevealVote
  <2>4. tally' \in TallyBook
    BY <1>4, <2>2, TallyPut DEF RevealVote
  <2> QED
    BY <1>4, <2>3, <2>4 DEF RevealVote
<1> QED
  BY <1>1, <1>2, <1>3, <1>4 DEF SeatStep

\* The requester's and the bonded parties' calls keep the types.
LEMMA PartyTypes == TypeInv /\ PartyStep => TypeInv'
<1> SUFFICES ASSUME TypeInv, PartyStep PROVE TypeInv'
  OBVIOUS
<1> USE DEF TypeInv, TypeOK, ProposalPosted, clock, claimVars, panelVars, moneyVars, States
<1>1. CASE StartDirectReview \/ StartChallengedReview
  BY <1>1 DEF StartDirectReview, StartChallengedReview
<1>2. CASE CancelClaim
  <2>1. Balance \in Nat /\ vault' \in VaultRecords
    BY <1>2 DEF CancelClaim, VaultRecords, Consolidated, Balance
  <2>2. tickets' \in TicketRecords
    BY <1>2, <2>1 DEF CancelClaim, TicketRecords, NoTickets
  <2> QED
    BY <1>2, <2>1, <2>2 DEF CancelClaim
<1>3. ASSUME NEW o \in Outcomes, NEW amount \in BondAmounts, ProposeOutcome(o, amount)
      PROVE  TypeInv'
  <2>1. vault' \in VaultRecords
    BY <1>3, BondsAssumption DEF ProposeOutcome, VaultRecords
  <2> QED
    BY <1>3, <2>1 DEF ProposeOutcome
<1>4. ASSUME NEW amount \in BondAmounts, ChallengeOutcome(amount) PROVE TypeInv'
  <2>1. vault' \in VaultRecords
    BY <1>4, BondsAssumption DEF ChallengeOutcome, VaultRecords
  <2> QED
    BY <1>4, <2>1 DEF ChallengeOutcome
<1> QED
  BY <1>1, <1>2, <1>3, <1>4 DEF PartyStep

\* Redeeming a ticket keeps the types.
LEMMA WithdrawTypes == TypeInv /\ WithdrawPayout => TypeInv'
<1> SUFFICES ASSUME TypeInv, WithdrawPayout PROVE TypeInv'
  OBVIOUS
<1>1. PICK amount \in Nat, rest \in TicketRecords : Redeem(amount, rest)
  BY DEF TypeInv, TypeOK, WithdrawPayout, TicketRecords
<1>2. vault' \in VaultRecords
  BY <1>1 DEF Redeem, VaultRecords, TypeInv, TypeOK
<1> QED
  BY <1>1, <1>2 DEF Redeem, TypeInv, TypeOK, ProposalPosted, clock, claimVars, panelVars

-----------------------------------------------------------------------------
(* The payouts of settlement.move                                          *)

\* The balances are natural numbers, and so are the parts that are paid out.
LEMMA BalanceSplits ==
    ASSUME vault \in VaultRecords
    PROVE  /\ Balance \in Nat /\ Consolidated \in VaultRecords /\ Consolidated.creation = Balance
           /\ vault.proposer \in Nat /\ vault.challenger \in Nat /\ vault.committee \in Nat
           /\ vault.committee + vault.proposer + vault.challenger <= Balance
  BY DEF VaultRecords, Balance, Consolidated

\* Fee and rewards together stay within the committee budget.
LEMMA RewardsWithinBudget ==
    ASSUME NEW c \in Nat, vault.committee = c, NEW n \in Nat
    PROVE  /\ ProtocolFee \in Nat /\ JuryReward(n) \in Nat /\ ProtocolFee <= c
           /\ ProtocolFee + JuryReward(n) * n <= c
<1>1. ProtocolFee \in Nat /\ ProtocolFee <= c
  BY FeeBound DEF ProtocolFee
<1>2. CASE n = 0
  BY <1>1, <1>2 DEF JuryReward
<1>3. CASE n # 0
  <2>1. c - ProtocolFee \in Nat
    BY <1>1
  <2>2. /\ (c - ProtocolFee) \div n \in Nat
        /\ ((c - ProtocolFee) \div n) * n <= c - ProtocolFee
    BY <2>1, <1>3, ShareBound
  <2>3. JuryReward(n) = (c - ProtocolFee) \div n
    BY <1>3 DEF JuryReward
  <2> QED
    BY <1>1, <2>2, <2>3
<1> QED
  BY <1>2, <1>3

\* The bonds never pay out more than the bonds.
LEMMA BondShares ==
    ASSUME vault \in VaultRecords, NEW result
    PROVE  /\ ProposerShare(result) \in Nat /\ ChallengerShare(result) \in Nat
           /\ ProposerShare(result) + ChallengerShare(result) <= vault.proposer + vault.challenger
  BY BalanceSplits DEF ProposerShare, ChallengerShare, Challenged

\* create_reviewed_payouts issues well-typed tickets that add up to the balance.
LEMMA ReviewedPartition ==
    ASSUME vault \in VaultRecords, tally \in TallyBook, NEW r \in Rounds, NEW result
    PROVE  LET t == ReviewedTickets(r, result)
           IN /\ t \in TicketRecords
              /\ t.fee + t.reward * Cardinality(t.jurors) + t.proposer + t.challenger + t.creator
                   = Balance
<1> DEFINE revealed == tally[r].revealed
           n        == Cardinality(revealed)
           reward   == JuryReward(n)
           jurors   == IF reward > 0 THEN revealed ELSE {}
           paid     == reward * Cardinality(jurors)
<1>1. revealed \in SUBSET Seats /\ n \in Nat
  BY SeatsAssumption, FS_Subset, FS_CardinalityType DEF TallyBook, TallyRecords
<1>2. /\ ProtocolFee \in Nat /\ reward \in Nat /\ ProtocolFee <= vault.committee
      /\ ProtocolFee + reward * n <= vault.committee
  BY <1>1, RewardsWithinBudget, BalanceSplits
<1>3. jurors \in SUBSET Seats /\ paid \in Nat /\ ProtocolFee + paid <= vault.committee
  <2>1. CASE reward > 0
    BY <1>1, <1>2, <2>1
  <2>2. CASE ~(reward > 0)
    <3>1. reward = 0 /\ Cardinality(jurors) = 0 /\ jurors = {}
      BY <1>2, <2>2, FS_EmptySet
    <3>2. paid = 0
      BY <3>1
    <3> QED
      BY <1>2, <3>1, <3>2, BalanceSplits
  <2> QED
    BY <2>1, <2>2
<1>4. ReviewedTickets(r, result) =
        [fee |-> ProtocolFee, reward |-> reward, jurors |-> jurors,
         proposer |-> ProposerShare(result), challenger |-> ChallengerShare(result),
         creator |-> Balance - ProtocolFee - paid - ProposerShare(result)
                       - ChallengerShare(result)]
  BY DEF ReviewedTickets
<1>5. ReviewedTickets(r, result).reward * Cardinality(ReviewedTickets(r, result).jurors) = paid
  BY <1>4
<1> HIDE DEF revealed, n, reward, jurors, paid
<1>6. Balance - ProtocolFee - paid - ProposerShare(result) - ChallengerShare(result) \in Nat
  BY <1>2, <1>3, BalanceSplits, BondShares
<1>7. ReviewedTickets(r, result) \in TicketRecords
  BY <1>2, <1>3, <1>4, <1>6, BondShares DEF TicketRecords
<1> QED
  BY <1>2, <1>3, <1>4, <1>5, <1>7, BalanceSplits, BondShares

\* An unchallenged proposal's tickets add up to the balance.
LEMMA UnchallengedPartition ==
    ASSUME vault \in VaultRecords
    PROVE  LET t == UnchallengedTickets
           IN /\ t \in TicketRecords
              /\ t.fee + t.reward * Cardinality(t.jurors) + t.proposer + t.challenger + t.creator
                   = Balance
<1>1. /\ UnchallengedTickets.fee = 0 /\ UnchallengedTickets.reward = 0
      /\ UnchallengedTickets.jurors = {} /\ UnchallengedTickets.proposer = vault.proposer
      /\ UnchallengedTickets.challenger = 0
      /\ UnchallengedTickets.creator = Balance - vault.proposer
  BY DEF UnchallengedTickets, NoTickets
<1>2. UnchallengedTickets \in TicketRecords
  <2>1. vault.proposer \in Nat /\ Balance - vault.proposer \in Nat
    BY BalanceSplits
  <2> DEFINE left == Balance - vault.proposer
  <2>2. UnchallengedTickets = [NoTickets EXCEPT !.proposer = vault.proposer, !.creator = left]
    BY DEF UnchallengedTickets
  <2> HIDE DEF left
  <2> QED
    BY <2>1, <2>2 DEF NoTickets, TicketRecords, left
<1> QED
  BY <1>1, <1>2, BalanceSplits, FS_EmptySet

\* The keeper's calls keep the types.
LEMMA KeeperTypes == TypeInv /\ KeeperStep => TypeInv'
<1> SUFFICES ASSUME TypeInv, KeeperStep PROVE TypeInv'
  OBVIOUS
<1> USE DEF TypeInv, TypeOK, ProposalPosted, clock, claimVars, panelVars, moneyVars
<1>r. 1 \in Rounds /\ 2 \in Rounds
  BY DEF Rounds
<1>1. CASE SelectCommittee
  <2>1. NewSeat("OFFERED", FALSE) \in SeatRecords
    BY DEF NewSeat, SeatRecords, SeatStatuses, NoOutcome
  <2>2. NewTally \in TallyRecords
    BY DEF NewTally, NoTally, TallyRecords, Outcomes
  <2>3. AcceptanceDeadline \in Nat
    BY ReserveAssumption, DeadlineAssumption DEF AcceptanceDeadline
  <2>4. DrawnCommittee \in CommitteeRecords
    BY <2>3, ReserveAssumption DEF DrawnCommittee, CommitteeRecords
  <2>5. seat' \in SeatBook
    BY <1>1, <1>r, <2>1, SeatDeal DEF SelectCommittee
  <2>6. tally' \in TallyBook
    BY <1>1, <1>r, <2>2, TallyPut DEF SelectCommittee
  <2> QED
    BY <1>1, <2>4, <2>5, <2>6 DEF SelectCommittee, States
<1>2. CASE LockCommittee
  BY <1>2 DEF LockCommittee, CommitteeRecords
<1>3. ASSUME NEW k \in Seats, ReplaceDeclinedSeat(k) PROVE TypeInv'
  <2>1. tally[1] \in TallyRecords
    BY <1>r, BookLookup
  <2>2. NewSeat("OFFERED", tally[1].root) \in SeatRecords
    BY <2>1 DEF NewSeat, SeatRecords, SeatStatuses, NoOutcome, TallyRecords
  <2>3. seat' \in SeatBook
    BY <1>3, <1>r, <2>2, SeatPut DEF ReplaceDeclinedSeat
  <2>4. committee' \in CommitteeRecords
    BY <1>3 DEF ReplaceDeclinedSeat, CommitteeRecords
  <2> QED
    BY <1>3, <2>3, <2>4 DEF ReplaceDeclinedSeat
<1>4. ASSUME NEW r \in Rounds, AdvancePhase(r) PROVE TypeInv'
  BY <1>4 DEF AdvancePhase, States
<1>5. ASSUME NEW r \in Rounds, FreezeEvidence(r) PROVE TypeInv'
  BY <1>5 DEF FreezeEvidence
<1>6. ASSUME NEW r \in Rounds, NEW k \in Seats, ApproveRun(r, k) PROVE TypeInv'
  <2>1. [seat[r][k] EXCEPT !.approved = TRUE] \in SeatRecords
    BY BookLookup DEF SeatRecords
  <2>2. seat' \in SeatBook
    BY <1>6, <2>1, SeatPut DEF ApproveRun
  <2> QED
    BY <1>6, <2>2 DEF ApproveRun
<1>7. CASE OpenDiscussion
  <2>1. [tally[1] EXCEPT !.closed = TRUE] \in TallyRecords
    BY <1>r, BookLookup DEF TallyRecords
  <2>2. tally' \in TallyBook
    BY <1>7, <1>r, <2>1, TallyPut DEF OpenDiscussion
  <2> QED
    BY <1>7, <2>2 DEF OpenDiscussion, States
<1>8. CASE CreateSecondRoundSeats
  <2>1. NewSeat("ACCEPTED", FALSE) \in SeatRecords
    BY DEF NewSeat, SeatRecords, SeatStatuses, NoOutcome
  <2>2. NewTally \in TallyRecords
    BY DEF NewTally, NoTally, TallyRecords, Outcomes
  <2>3. seat' \in SeatBook
    BY <1>8, <1>r, <2>1, SeatDeal DEF CreateSecondRoundSeats
  <2>4. tally' \in TallyBook
    BY <1>8, <1>r, <2>2, TallyPut DEF CreateSecondRoundSeats
  <2> QED
    BY <1>8, <2>3, <2>4 DEF CreateSecondRoundSeats, States
<1>9. CASE FinalizeUnchallenged
  <2>1. PICK result \in Results : /\ certificate' = [result |-> result, round |-> 0]
                                  /\ state' = TerminalState(result, FALSE)
    BY <1>9 DEF FinalizeUnchallenged, Outcomes, Results
  <2>2. certificate' \in CertificateRecords
    BY <2>1 DEF CertificateRecords
  <2>3. tickets' \in TicketRecords /\ vault' \in VaultRecords
    BY <1>9, UnchallengedPartition, BalanceSplits DEF FinalizeUnchallenged
  <2>4. state' \in States \ {"PROPOSED"}
    BY <2>1 DEF TerminalState, States
  <2> QED
    BY <1>9, <2>2, <2>3, <2>4 DEF FinalizeUnchallenged
<1>10. ASSUME NEW r \in Rounds, FinalizeClaim(r) PROVE TypeInv'
  <2>1. ReviewResult(r) \in Results
    BY DEF ReviewResult, ThresholdOutcome, Results, NoOutcome
  <2>2. certificate' \in CertificateRecords
    BY <1>10, <2>1 DEF FinalizeClaim, CertificateRecords, Rounds
  <2>3. tickets' \in TicketRecords /\ vault' \in VaultRecords
    BY <1>10, ReviewedPartition, BalanceSplits DEF FinalizeClaim
  <2>4. state' \in States \ {"PROPOSED"}
    BY <1>10 DEF FinalizeClaim, TerminalState, States
  <2>5. [tally[r] EXCEPT !.closed = TRUE] \in TallyRecords
    BY BookLookup DEF TallyRecords
  <2>6. tally' \in TallyBook
    BY <1>10, <2>5, TallyPut DEF FinalizeClaim
  <2> QED
    BY <1>10, <2>2, <2>3, <2>4, <2>6 DEF FinalizeClaim
<1> QED
  BY <1>1, <1>2, <1>3, <1>4, <1>5, <1>6, <1>7, <1>8, <1>9, <1>10 DEF KeeperStep

\* A step that changes nothing changes no type.
LEMMA StutterTypes == TypeInv /\ UNCHANGED vars => TypeInv'
  BY DEF TypeInv, TypeOK, ProposalPosted, vars

\* The types are invariant.
LEMMA TypeInvariant == Spec => []TypeInv
<1>1. TypeInv /\ [Next]_vars => TypeInv'
  BY PartyTypes, SeatTypes, KeeperTypes, WithdrawTypes, EnvironmentTypes, StutterTypes DEF Next
<1> QED
  BY <1>1, InitTypes, PTL DEF Spec

\* Every reachable claim is well typed: no balance and no ticket is ever negative,
\* so no balance::split of the payout code underflows, for every committee, ladder
\* of deadlines, budget and fee.
THEOREM TypesCorrect == Spec => []TypeOK
<1>1. TypeInv => TypeOK
  BY DEF TypeInv
<1> QED
  BY <1>1, TypeInvariant, PTL

-----------------------------------------------------------------------------
(* The money.  TicketsCoverBalance is inductive over the types: before the *)
(* verdict there are no tickets, the verdict issues tickets for the whole  *)
(* balance, and a redemption takes the same amount off both sides.         *)

MoneyInv == TypeInv /\ TicketsCoverBalance

\* Redeeming any ticket takes the same amount off the tickets and off the balance.
LEMMA WithdrawMoney == MoneyInv /\ WithdrawPayout => TicketsCoverBalance'
<1> SUFFICES ASSUME MoneyInv, WithdrawPayout PROVE TicketsCoverBalance'
  OBVIOUS
<1>1. /\ vault \in VaultRecords /\ tickets \in TicketRecords
      /\ Terminal /\ Terminal' /\ Outstanding = Balance
  BY DEF MoneyInv, TypeInv, TypeOK, TicketsCoverBalance, WithdrawPayout, Redeem, Terminal, claimVars
<1>2. \A amount \in Nat : vault' = [vault EXCEPT !.creation = @ - amount]
         => Balance' = Balance - amount
  BY <1>1 DEF Balance, VaultRecords
<1>3. IsFiniteSet(tickets.jurors) /\ Cardinality(tickets.jurors) \in Nat
  BY <1>1, SeatsAssumption, FS_Subset, FS_CardinalityType DEF TicketRecords
<1> DEFINE paid == tickets.reward * Cardinality(tickets.jurors)
<1>4. paid \in Nat /\ tickets.reward \in Nat
  BY <1>1, <1>3 DEF TicketRecords
<1>5. Outstanding = tickets.fee + paid + tickets.proposer + tickets.challenger + tickets.creator
  BY DEF Outstanding
<1>6. ASSUME \/ Redeem(tickets.fee, [tickets EXCEPT !.fee = 0])
             \/ Redeem(tickets.proposer, [tickets EXCEPT !.proposer = 0])
             \/ Redeem(tickets.challenger, [tickets EXCEPT !.challenger = 0])
             \/ Redeem(tickets.creator, [tickets EXCEPT !.creator = 0])
      PROVE  Outstanding' = Balance'
  <2>1. tickets'.reward = tickets.reward /\ tickets'.jurors = tickets.jurors
    BY <1>1, <1>6 DEF Redeem, TicketRecords
  <2>2. Outstanding' = tickets'.fee + paid + tickets'.proposer + tickets'.challenger
                         + tickets'.creator
    BY <2>1 DEF Outstanding
  <2> HIDE DEF paid
  <2>3. CASE Redeem(tickets.fee, [tickets EXCEPT !.fee = 0])
    BY <1>1, <1>2, <1>4, <1>5, <2>2, <2>3 DEF Redeem, TicketRecords
  <2>4. CASE Redeem(tickets.proposer, [tickets EXCEPT !.proposer = 0])
    BY <1>1, <1>2, <1>4, <1>5, <2>2, <2>4 DEF Redeem, TicketRecords
  <2>5. CASE Redeem(tickets.challenger, [tickets EXCEPT !.challenger = 0])
    BY <1>1, <1>2, <1>4, <1>5, <2>2, <2>5 DEF Redeem, TicketRecords
  <2>6. CASE Redeem(tickets.creator, [tickets EXCEPT !.creator = 0])
    BY <1>1, <1>2, <1>4, <1>5, <2>2, <2>6 DEF Redeem, TicketRecords
  <2> QED
    BY <1>6, <2>3, <2>4, <2>5, <2>6
<1>7. ASSUME NEW k \in tickets.jurors, Redeem(tickets.reward, [tickets EXCEPT !.jurors = @ \ {k}])
      PROVE  Outstanding' = Balance'
  <2>1. /\ tickets'.fee = tickets.fee /\ tickets'.reward = tickets.reward
        /\ tickets'.jurors = tickets.jurors \ {k} /\ tickets'.proposer = tickets.proposer
        /\ tickets'.challenger = tickets.challenger /\ tickets'.creator = tickets.creator
    BY <1>1, <1>7 DEF Redeem, TicketRecords
  <2>2. /\ Cardinality(tickets.jurors) > 0
        /\ Cardinality(tickets'.jurors) = Cardinality(tickets.jurors) - 1
    BY <1>3, <2>1, FS_RemoveElement, FS_CardinalityType, FS_EmptySet
  <2>3. tickets.reward * (Cardinality(tickets.jurors) - 1) = paid - tickets.reward
    BY <1>3, <1>4, <2>2, TimesPred
  <2>4. Outstanding' = tickets.fee + (paid - tickets.reward) + tickets.proposer
                         + tickets.challenger + tickets.creator
    BY <2>1, <2>2, <2>3 DEF Outstanding
  <2>5. Balance' = Balance - tickets.reward
    BY <1>2, <1>4, <1>7 DEF Redeem
  <2>6. /\ tickets.fee \in Nat /\ tickets.proposer \in Nat /\ tickets.challenger \in Nat
        /\ tickets.creator \in Nat
    BY <1>1 DEF TicketRecords
  <2> HIDE DEF paid
  <2>7. Outstanding' = Outstanding - tickets.reward
    BY <1>4, <1>5, <2>4, <2>6
  <2> QED
    BY <1>1, <2>5, <2>7
<1>8. Outstanding' = Balance'
  BY <1>6, <1>7 DEF WithdrawPayout
<1> QED
  BY <1>1, <1>8 DEF TicketsCoverBalance

\* The verdict and a cancellation issue tickets for the whole balance.
LEMMA DecisionMoney ==
    MoneyInv /\ (CancelClaim \/ FinalizeUnchallenged \/ \E r \in Rounds : FinalizeClaim(r))
      => TicketsCoverBalance'
<1> SUFFICES ASSUME MoneyInv,
                    CancelClaim \/ FinalizeUnchallenged \/ \E r \in Rounds : FinalizeClaim(r)
             PROVE  TicketsCoverBalance'
  OBVIOUS
<1>1. vault \in VaultRecords /\ tally \in TallyBook
  BY DEF MoneyInv, TypeInv, TypeOK
<1>2. Terminal'
  BY DEF CancelClaim, FinalizeUnchallenged, FinalizeClaim, TerminalState, Terminal, TerminalStates
<1>3. Balance' = Balance
  <2>1. vault' = Consolidated
    BY DEF CancelClaim, FinalizeUnchallenged, FinalizeClaim
  <2> QED
    BY <1>1, <2>1, BalanceSplits DEF Balance, Consolidated
<1>4. Outstanding' = Balance
  <2>1. CASE CancelClaim
    <3>1. /\ tickets'.fee = 0 /\ tickets'.reward = 0 /\ tickets'.jurors = {}
          /\ tickets'.proposer = 0 /\ tickets'.challenger = 0 /\ tickets'.creator = Balance
      BY <2>1 DEF CancelClaim, NoTickets
    <3> QED
      BY <1>1, <3>1, BalanceSplits, FS_EmptySet DEF Outstanding
  <2>2. CASE FinalizeUnchallenged
    BY <1>1, <2>2, UnchallengedPartition DEF FinalizeUnchallenged, Outstanding
  <2>3. ASSUME NEW r \in Rounds, FinalizeClaim(r) PROVE Outstanding' = Balance
    BY <1>1, <2>3, ReviewedPartition DEF FinalizeClaim, Outstanding
  <2> QED
    BY <2>1, <2>2, <2>3
<1> QED
  BY <1>2, <1>3, <1>4 DEF TicketsCoverBalance

\* No other step issues a ticket, ends the claim or moves money of an ended one.
LEMMA OtherMoney ==
    ASSUME MoneyInv, [Next]_vars, ~WithdrawPayout, ~CancelClaim, ~FinalizeUnchallenged,
           ~\E r \in Rounds : FinalizeClaim(r)
    PROVE  TicketsCoverBalance'
<1> USE DEF moneyVars, claimVars, panelVars, clock
<1>1. tickets' = tickets
  BY ZenonT(30) DEF Next, PartyStep, SeatStep, KeeperStep, EnvironmentStep, vars, Tick, SetPaused,
         RetentionLapses, StartDirectReview, StartChallengedReview, ProposeOutcome,
         ChallengeOutcome, AcceptJurySeat, DeclineJurySeat, BindJurySeatEvidence, CommitVote,
         RevealVote, SelectCommittee, LockCommittee, ReplaceDeclinedSeat, AdvancePhase,
         FreezeEvidence, ApproveRun, OpenDiscussion, CreateSecondRoundSeats
<1>2. (Terminal' <=> Terminal) /\ (Terminal => vault' = vault)
  <2> USE DEF Terminal, TerminalStates
  <2>1. CASE PartyStep
    BY <2>1 DEF PartyStep, StartDirectReview, StartChallengedReview, ProposeOutcome, ChallengeOutcome
  <2>2. CASE SeatStep
    BY <2>2, ZenonT(30) DEF SeatStep, AcceptJurySeat, DeclineJurySeat, BindJurySeatEvidence,
           CommitVote, RevealVote
  <2>3. CASE KeeperStep
    BY <2>3, ZenonT(30) DEF KeeperStep, SelectCommittee, LockCommittee, ReplaceDeclinedSeat, AdvancePhase,
           FreezeEvidence, ApproveRun, OpenDiscussion, CreateSecondRoundSeats
  <2>4. CASE EnvironmentStep \/ UNCHANGED vars
    BY <2>4 DEF EnvironmentStep, vars, Tick, SetPaused, RetentionLapses
  <2> QED
    BY <2>1, <2>2, <2>3, <2>4 DEF Next
<1> QED
  BY <1>1, <1>2 DEF MoneyInv, TicketsCoverBalance, Outstanding, Balance

\* From the verdict on, the unredeemed payout tickets add up to exactly what the claim
\* still holds, for every committee, budget, bond and fee: every ticket can be redeemed
\* in any order and the last redemption leaves nothing behind (settlement.move).
THEOREM TicketsAlwaysCover == Spec => []TicketsCoverBalance
<1>1. Init => TicketsCoverBalance
  BY DEF Init, InitialStates, TicketsCoverBalance, Terminal, TerminalStates
<1>2. MoneyInv /\ [Next]_vars => TicketsCoverBalance'
  BY WithdrawMoney, DecisionMoney, OtherMoney
<1>3. TypeInv /\ [Next]_vars => TypeInv'
  BY PartyTypes, SeatTypes, KeeperTypes, WithdrawTypes, EnvironmentTypes, StutterTypes DEF Next
<1>4. MoneyInv /\ [Next]_vars => MoneyInv'
  BY <1>2, <1>3 DEF MoneyInv
<1>5. Init => MoneyInv
  BY <1>1, InitTypes DEF MoneyInv
<1>6. MoneyInv => TicketsCoverBalance
  BY DEF MoneyInv
<1> QED
  BY <1>4, <1>5, <1>6, PTL DEF Spec

-----------------------------------------------------------------------------
(* The votes.  The counters of a tally are those of the seats, the         *)
(* certificate says what the counters of its closed tally say, and two     *)
(* different outcomes cannot both have a threshold of different seats.     *)

RevealedSeats(r) == {k \in Seats : seat[r][k].status = "REVEALED"}

CountsAgree ==
    \A r \in Rounds :
        /\ tally[r].revealed = RevealedSeats(r)
        /\ \A o \in Outcomes : tally[r].votes[o] = Cardinality(Voters(r, o))

CertificateBacked ==
    /\ ~Terminal => certificate.round = 0
    /\ \A r \in Rounds : certificate.round = r =>
          /\ tally[r].closed
          /\ certificate.result = ReviewResult(r)
          /\ r = 1 => ThresholdOutcome(tally[1]) # NoOutcome

VoteInv == TypeInv /\ CountsAgree /\ CertificateBacked

\* The sets of voters are finite.
LEMMA VotersFinite ==
    ASSUME NEW r \in Rounds, NEW o \in Outcomes
    PROVE  /\ Voters(r, o) \in SUBSET Seats /\ IsFiniteSet(Voters(r, o))
           /\ Cardinality(Voters(r, o)) \in Nat
  BY SeatsAssumption, FS_Subset, FS_CardinalityType DEF Voters

\* The cardinality of a disjoint union.
LEMMA DisjointUnion ==
    ASSUME NEW S, IsFiniteSet(S), NEW T, IsFiniteSet(T), S \cap T = {}
    PROVE  Cardinality(S \cup T) = Cardinality(S) + Cardinality(T)
<1>1. Cardinality(S) \in Nat /\ Cardinality(T) \in Nat
  BY FS_CardinalityType
<1>2. Cardinality(S \cup T) = Cardinality(S) + Cardinality(T) - Cardinality(S \cap T)
  BY FS_Union
<1>3. Cardinality(S \cap T) = 0
  BY FS_EmptySet
<1> QED
  BY <1>1, <1>2, <1>3

\* A threshold is more than half of the seats, so it has at most one outcome.
LEMMA OneThreshold ==
    ASSUME NEW r \in Rounds, NEW o \in Outcomes, NEW p \in Outcomes,
           Cardinality(Voters(r, o)) >= Threshold, Cardinality(Voters(r, p)) >= Threshold
    PROVE  o = p
<1> SUFFICES ASSUME o # p PROVE FALSE
  OBVIOUS
<1> DEFINE both == Voters(r, o) \cup Voters(r, p)
<1>1. Voters(r, o) \cap Voters(r, p) = {}
  BY DEF Voters
<1>2. Cardinality(both) = Cardinality(Voters(r, o)) + Cardinality(Voters(r, p))
  BY <1>1, VotersFinite, DisjointUnion
<1>3. both \in SUBSET Seats
  BY VotersFinite
<1> HIDE DEF both
<1>4. Cardinality(both) <= Cardinality(Seats) /\ Cardinality(Seats) \in Nat
  BY <1>3, SeatsAssumption, FS_Subset, FS_CardinalityType
<1> QED
  BY <1>2, <1>4, ThresholdAssumption, VotersFinite

\* jury::threshold_outcome finds the outcome that a threshold of seats voted, if any.
LEMMA OutcomeFound ==
    ASSUME NEW r \in Rounds, CountsAgree
    PROVE  LET backed == {o \in Outcomes : Cardinality(Voters(r, o)) >= Threshold}
           IN backed = IF ThresholdOutcome(tally[r]) = NoOutcome THEN {}
                       ELSE {ThresholdOutcome(tally[r])}
<1> DEFINE found == ThresholdOutcome(tally[r])
<1>1. found \in Outcomes \cup {NoOutcome} /\ NoOutcome \notin Outcomes
  BY DEF ThresholdOutcome, Outcomes, NoOutcome
<1>2. \A o \in Outcomes : tally[r].votes[o] = Cardinality(Voters(r, o))
  BY DEF CountsAgree
<1>3. ASSUME found = NoOutcome, NEW o \in Outcomes
      PROVE  ~(Cardinality(Voters(r, o)) >= Threshold)
  BY <1>2, <1>3 DEF ThresholdOutcome, Outcomes, NoOutcome
<1>4. ASSUME found # NoOutcome PROVE Cardinality(Voters(r, found)) >= Threshold
  BY <1>2, <1>4 DEF ThresholdOutcome, Outcomes, NoOutcome
<1> HIDE DEF found
<1>5. CASE found = NoOutcome
  BY <1>3, <1>5 DEF found
<1>6. CASE found # NoOutcome
  <2>1. \A o \in Outcomes : Cardinality(Voters(r, o)) >= Threshold => o = found
    BY <1>1, <1>4, <1>6, OneThreshold
  <2> QED
    BY <1>1, <1>4, <1>6, <2>1 DEF found
<1> QED
  BY <1>5, <1>6

\* What the certificate repeats is what the voters said.
LEMMA BackedByVoters == VoteInv => VerdictBacked
<1> SUFFICES ASSUME VoteInv, certificate.round # 0
             PROVE  VerdictBacked
  BY DEF VerdictBacked
<1> DEFINE r == certificate.round
           found == ThresholdOutcome(tally[r])
           backed == {o \in Outcomes : Cardinality(Voters(r, o)) >= Threshold}
<1>1. r \in Rounds
  BY DEF VoteInv, TypeInv, TypeOK, CertificateRecords, Rounds
<1>2. certificate.result = ReviewResult(r) /\ (r = 1 => found # NoOutcome)
  BY <1>1 DEF VoteInv, CertificateBacked
<1>3. backed = IF found = NoOutcome THEN {} ELSE {found}
  BY <1>1, OutcomeFound DEF VoteInv
<1>4. found \in {"YES", "NO", "UNSURE", "NONE"}
  BY DEF ThresholdOutcome, NoOutcome
<1>5. certificate.result = IF found \in {"UNSURE", "NONE"} THEN "UNRESOLVED" ELSE found
  BY <1>2 DEF ReviewResult, NoOutcome
<1>6. r = 1 \/ r = 2
  BY <1>1 DEF Rounds
<1> HIDE DEF found, backed
<1>7. CASE certificate.result = "UNRESOLVED"
  <2>1. backed = {"UNSURE"} \/ (r = 2 /\ backed = {})
    BY <1>2, <1>3, <1>4, <1>5, <1>6, <1>7 DEF NoOutcome
  <2> QED
    BY <1>7, <2>1 DEF VerdictBacked, backed
<1>8. CASE certificate.result # "UNRESOLVED"
  <2>1. backed = {certificate.result}
    BY <1>3, <1>4, <1>5, <1>8 DEF NoOutcome
  <2> QED
    BY <1>8, <2>1 DEF VerdictBacked, backed
<1> QED
  BY <1>7, <1>8

\* A step that reveals nothing and closes at most a tally.
RevealsNothing ==
    \A r \in Rounds :
        /\ \A k \in Seats :
              \/ seat'[r][k] = seat[r][k]
              \/ seat[r][k].status # "REVEALED" /\ seat'[r][k].status # "REVEALED"
        /\ tally'[r].revealed = tally[r].revealed
        /\ tally'[r].votes = tally[r].votes
        /\ tally[r].closed => tally'[r].closed

\* Such a step leaves every count as it was.
LEMMA NothingCounted ==
    ASSUME CountsAgree, RevealsNothing
    PROVE  CountsAgree'
<1>1. ASSUME NEW r \in Rounds, NEW o \in Outcomes
      PROVE  /\ tally'[r].revealed = RevealedSeats(r)'
             /\ tally'[r].votes[o] = Cardinality(Voters(r, o)')
  <2>1. RevealedSeats(r)' = RevealedSeats(r) /\ Voters(r, o)' = Voters(r, o)
    BY DEF RevealsNothing, RevealedSeats, Voters
  <2> QED
    BY <2>1 DEF CountsAgree, RevealsNothing
<1> QED
  BY <1>1 DEF CountsAgree, Outcomes

\* If it certifies nothing either, an earlier certificate still stands.
LEMMA NothingRevealed ==
    ASSUME VoteInv, RevealsNothing, certificate' = certificate, Terminal => Terminal'
    PROVE  CountsAgree' /\ CertificateBacked'
<1>3. CountsAgree'
  BY NothingCounted DEF VoteInv
<1>4. ASSUME NEW r \in Rounds PROVE ThresholdOutcome(tally'[r]) = ThresholdOutcome(tally[r])
  BY DEF ThresholdOutcome, RevealsNothing
<1>5. ASSUME NEW r \in Rounds, certificate'.round = r
      PROVE  /\ tally'[r].closed
             /\ certificate'.result = ReviewResult(r)'
             /\ r = 1 => ThresholdOutcome(tally'[1]) # NoOutcome
  <2>1. tally[r].closed /\ certificate.result = ReviewResult(r)
    BY <1>5 DEF VoteInv, CertificateBacked
  <2>2. ReviewResult(r)' = ReviewResult(r)
    BY <1>4 DEF ReviewResult
  <2>3. r = 1 => ThresholdOutcome(tally[1]) # NoOutcome
    BY <1>5 DEF VoteInv, CertificateBacked
  <2>4. 1 \in Rounds /\ tally'[r].closed
    BY <2>1 DEF Rounds, RevealsNothing
  <2> QED
    BY <1>4, <2>1, <2>2, <2>3, <2>4
<1>6. ~Terminal' => certificate'.round = 0
  BY DEF VoteInv, CertificateBacked
<1>7. CertificateBacked'
  BY <1>5, <1>6 DEF CertificateBacked, ReviewResult
<1> QED
  BY <1>3, <1>7

Deals(d, s) ==
    /\ seat' = [seat EXCEPT ![d] = [k \in Seats |-> s]]
    /\ tally' = [tally EXCEPT ![d] = NewTally]

\* Dealing a round's seats starts its counters from nothing.
LEMMA RoundDealt ==
    ASSUME VoteInv, ~Terminal, certificate' = certificate, NEW d \in Rounds, NEW s \in SeatRecords,
           s.status # "REVEALED", Deals(d, s)
    PROVE  CountsAgree' /\ CertificateBacked'
<1>1. tally \in TallyBook /\ seat \in SeatBook
  BY DEF VoteInv, TypeInv, TypeOK
<1>2. certificate'.round = 0
  BY DEF VoteInv, CertificateBacked
<1>3. CertificateBacked'
  BY <1>2 DEF CertificateBacked, Rounds
<1>4. ASSUME NEW r \in Rounds, NEW o \in Outcomes
      PROVE  /\ tally'[r].revealed = RevealedSeats(r)'
             /\ tally'[r].votes[o] = Cardinality(Voters(r, o)')
  <2>1. CASE r = d
    <3>1. tally'[r].revealed = {} /\ tally'[r].votes[o] = 0
      BY <1>1, <2>1 DEF Deals, TallyBook, NewTally, NoTally
    <3>2. \A k \in Seats : seat'[r][k].status # "REVEALED"
      BY <1>1, <2>1 DEF Deals, SeatBook
    <3>3. RevealedSeats(r)' = {} /\ Voters(r, o)' = {}
      BY <3>2 DEF RevealedSeats, Voters
    <3> QED
      BY <3>1, <3>3, FS_EmptySet
  <2>2. CASE r # d
    <3>1. tally'[r] = tally[r] /\ seat'[r] = seat[r]
      BY <1>1, <2>2 DEF Deals, TallyBook, SeatBook
    <3>2. RevealedSeats(r)' = RevealedSeats(r) /\ Voters(r, o)' = Voters(r, o)
      BY <3>1 DEF RevealedSeats, Voters
    <3> QED
      BY <3>1, <3>2 DEF VoteInv, CountsAgree
  <2> QED
    BY <2>1, <2>2
<1>5. CountsAgree'
  BY <1>4 DEF CountsAgree, Outcomes
<1> QED
  BY <1>3, <1>5

\* A reveal adds one seat and one vote.
LEMMA RevealCounted ==
    ASSUME VoteInv, NEW q \in Rounds, NEW j \in Seats, NEW p \in Outcomes, RevealVote(q, j, p)
    PROVE  CountsAgree' /\ CertificateBacked'
<1>1. tally \in TallyBook /\ seat \in SeatBook /\ tally[q] \in TallyRecords
  BY DEF VoteInv, TypeInv, TypeOK, TallyBook
<1>2. /\ seat[q][j].status = "COMMITTED" /\ seat[q][j].ballot = p /\ ~tally[q].closed
      /\ seat' = [seat EXCEPT ![q][j].status = "REVEALED"]
      /\ tally' = [tally EXCEPT ![q] = RecordReveal(tally[q], j, p)]
      /\ certificate' = certificate /\ state' = state
  BY DEF RevealVote, claimVars
<1>3. /\ tally'[q].revealed = tally[q].revealed \cup {j}
      /\ tally'[q].votes = [tally[q].votes EXCEPT ![p] = @ + 1]
      /\ \A r \in Rounds : r # q => tally'[r] = tally[r] /\ seat'[r] = seat[r]
  <2>1. /\ tally'[q] = RecordReveal(tally[q], j, p)
        /\ \A r \in Rounds : r # q => tally'[r] = tally[r] /\ seat'[r] = seat[r]
    BY <1>1, <1>2 DEF TallyBook, SeatBook
  <2> QED
    BY <1>1, <2>1, RevealRecorded
<1>4. /\ seat'[q][j].status = "REVEALED" /\ seat'[q][j].ballot = p
      /\ \A k \in Seats : k # j => seat'[q][k] = seat[q][k]
  BY <1>1, <1>2 DEF SeatBook, SeatRecords
<1>5. RevealedSeats(q)' = RevealedSeats(q) \cup {j}
  BY <1>4 DEF RevealedSeats
<1>6. Voters(q, p)' = Voters(q, p) \cup {j} /\ j \notin Voters(q, p)
  BY <1>2, <1>4 DEF Voters
<1>7. \A o \in Outcomes : o # p => Voters(q, o)' = Voters(q, o)
  BY <1>2, <1>4 DEF Voters
<1>8. Cardinality(Voters(q, p)') = Cardinality(Voters(q, p)) + 1
  BY <1>6, VotersFinite, FS_AddElement
<1>9. tally[q].votes \in [Outcomes -> Nat]
  BY <1>1 DEF TallyRecords
<1>10. ASSUME NEW r \in Rounds, NEW o \in Outcomes
       PROVE  /\ tally'[r].revealed = RevealedSeats(r)'
              /\ tally'[r].votes[o] = Cardinality(Voters(r, o)')
  <2>0. tally[r].revealed = RevealedSeats(r) /\ tally[r].votes[o] = Cardinality(Voters(r, o))
    BY DEF VoteInv, CountsAgree
  <2>1. CASE r # q
    <3>1. RevealedSeats(r)' = RevealedSeats(r) /\ Voters(r, o)' = Voters(r, o)
      BY <1>3, <2>1 DEF RevealedSeats, Voters
    <3> QED
      BY <1>3, <2>0, <2>1, <3>1
  <2>2. CASE r = q /\ o = p
    BY <1>3, <1>5, <1>8, <1>9, <2>0, <2>2
  <2>3. CASE r = q /\ o # p
    BY <1>3, <1>5, <1>7, <1>9, <2>0, <2>3
  <2> QED
    BY <2>1, <2>2, <2>3
<1>11. CountsAgree'
  BY <1>10 DEF CountsAgree, Outcomes
<1>12. CertificateBacked'
  <2>1. ASSUME NEW r \in Rounds, certificate'.round = r
        PROVE  tally'[r] = tally[r]
    BY <1>2, <1>3, <2>1 DEF VoteInv, CertificateBacked
  <2>2. ASSUME NEW r \in Rounds, certificate'.round = r
        PROVE  /\ tally'[r].closed
               /\ certificate'.result = ReviewResult(r)'
               /\ r = 1 => ThresholdOutcome(tally[1])' # NoOutcome
    BY <1>2, <2>1, <2>2 DEF VoteInv, CertificateBacked, ReviewResult, ThresholdOutcome
  <2>3. ~Terminal' => certificate'.round = 0
    BY <1>2 DEF VoteInv, CertificateBacked, Terminal
  <2> QED
    BY <2>2, <2>3 DEF CertificateBacked
<1> QED
  BY <1>11, <1>12

\* The reviewed verdict copies the outcome of the tally that it closes.
LEMMA CertificateIssued ==
    ASSUME VoteInv, NEW d \in Rounds, FinalizeClaim(d)
    PROVE  CountsAgree' /\ CertificateBacked'
<1>1. tally \in TallyBook
  BY DEF VoteInv, TypeInv, TypeOK
<1>2. /\ certificate' = [result |-> ReviewResult(d), round |-> d]
      /\ tally' = [tally EXCEPT ![d].closed = TRUE] /\ seat' = seat
      /\ d = 1 => ThresholdOutcome(tally[1]) # NoOutcome
      /\ state' = TerminalState(ReviewResult(d), TRUE)
  BY DEF FinalizeClaim
<1>3. /\ tally'[d].closed
      /\ \A r \in Rounds : tally'[r].votes = tally[r].votes /\ tally'[r].revealed = tally[r].revealed
      /\ \A r \in Rounds : tally[r].closed => tally'[r].closed
  BY <1>1, <1>2 DEF TallyBook, TallyRecords
<1>4. CountsAgree'
  BY <1>2, <1>3, NothingCounted DEF RevealsNothing, VoteInv
<1>5. ASSUME NEW r \in Rounds PROVE ThresholdOutcome(tally'[r]) = ThresholdOutcome(tally[r])
  BY <1>3 DEF ThresholdOutcome
<1>6. Terminal'
  BY <1>2 DEF TerminalState, Terminal, TerminalStates
<1>7. certificate'.round = d /\ certificate'.result = ReviewResult(d)
  BY <1>2
<1>8. ReviewResult(d)' = ReviewResult(d)
  BY <1>5 DEF ReviewResult
<1> QED
  BY <1>2, <1>3, <1>4, <1>5, <1>6, <1>7, <1>8 DEF CertificateBacked

\* Every step keeps the counts and the certificate.
LEMMA VoteStep == VoteInv /\ [Next]_vars => CountsAgree' /\ CertificateBacked'
<1> SUFFICES ASSUME VoteInv, [Next]_vars PROVE CountsAgree' /\ CertificateBacked'
  OBVIOUS
<1>1. /\ tally \in TallyBook /\ seat \in SeatBook
      /\ \A r \in Rounds : tally[r] \in TallyRecords /\ \A k \in Seats : seat[r][k] \in SeatRecords
      /\ 1 \in Rounds /\ 2 \in Rounds
  BY BookLookup DEF VoteInv, TypeInv, TypeOK, Rounds
<1> USE DEF moneyVars, claimVars, panelVars, clock, Terminal, TerminalStates
<1>2. CASE PartyStep \/ EnvironmentStep \/ UNCHANGED vars \/ WithdrawPayout
  <2>1. seat' = seat /\ tally' = tally /\ certificate' = certificate /\ (Terminal => Terminal')
    BY <1>2 DEF PartyStep, EnvironmentStep, vars, WithdrawPayout, Redeem, StartDirectReview,
       StartChallengedReview, CancelClaim, ProposeOutcome, ChallengeOutcome, Tick, SetPaused,
       RetentionLapses
  <2> QED
    BY <2>1, NothingRevealed DEF RevealsNothing
<1>3. CASE \E k \in Seats : \/ AcceptJurySeat(k) \/ DeclineJurySeat(k) \/ ReplaceDeclinedSeat(k)
                            \/ \E r \in Rounds : ApproveRun(r, k)
  <2>1. tally' = tally /\ certificate' = certificate /\ state' = state
    BY <1>3 DEF AcceptJurySeat, DeclineJurySeat, ReplaceDeclinedSeat, ApproveRun
  <2>2. PICK r \in Rounds, k \in Seats : \E s :
            /\ seat' = [seat EXCEPT ![r][k] = s]
            /\ seat[r][k].status # "REVEALED" /\ s.status # "REVEALED"
    BY <1>1, <1>3 DEF AcceptJurySeat, DeclineJurySeat, ReplaceDeclinedSeat, ApproveRun, NewSeat,
       SeatRecords
  <2>3. PICK s :
            /\ seat' = [seat EXCEPT ![r][k] = s]
            /\ seat[r][k].status # "REVEALED" /\ s.status # "REVEALED"
    BY <2>2
  <2>4. \A q \in Rounds, j \in Seats : seat'[q][j] = IF q = r /\ j = k THEN s ELSE seat[q][j]
    BY <1>1, <2>3 DEF SeatBook
  <2> QED
    BY <2>1, <2>3, <2>4, NothingRevealed DEF RevealsNothing
<1>4. ASSUME NEW r \in Rounds, NEW k \in Seats,
             BindJurySeatEvidence(r, k) \/ \E o \in Outcomes : CommitVote(r, k, o)
      PROVE  CountsAgree' /\ CertificateBacked'
  <2>1. certificate' = certificate /\ state' = state
    BY <1>4 DEF BindJurySeatEvidence, CommitVote
  <2>2. PICK s : /\ seat' = [seat EXCEPT ![r][k] = s]
                 /\ seat[r][k].status # "REVEALED" /\ s.status # "REVEALED"
    BY <1>1, <1>4 DEF BindJurySeatEvidence, CommitVote, SeatRecords
  <2>3. \A q \in Rounds, j \in Seats : seat'[q][j] = IF q = r /\ j = k THEN s ELSE seat[q][j]
    BY <1>1, <2>2 DEF SeatBook
  <2>4. \A q \in Rounds : /\ tally'[q].revealed = tally[q].revealed
                         /\ tally'[q].votes = tally[q].votes
                         /\ tally'[q].closed = tally[q].closed
    BY <1>1, <1>4 DEF BindJurySeatEvidence, CommitVote, TallyBook, TallyRecords
  <2> QED
    BY <2>1, <2>2, <2>3, <2>4, NothingRevealed DEF RevealsNothing
<1>5. ASSUME NEW r \in Rounds, NEW k \in Seats, NEW o \in Outcomes, RevealVote(r, k, o)
      PROVE  CountsAgree' /\ CertificateBacked'
  BY <1>5, RevealCounted
<1>6. CASE SelectCommittee
  <2>1. NewSeat("OFFERED", FALSE) \in SeatRecords /\ NewSeat("OFFERED", FALSE).status # "REVEALED"
    BY DEF NewSeat, SeatRecords, SeatStatuses, NoOutcome
  <2>2. Deals(1, NewSeat("OFFERED", FALSE)) /\ ~Terminal /\ certificate' = certificate
    BY <1>6 DEF SelectCommittee, Deals
  <2> QED
    BY <1>1, <2>1, <2>2, RoundDealt
<1>7. CASE CreateSecondRoundSeats
  <2>1. NewSeat("ACCEPTED", FALSE) \in SeatRecords /\ NewSeat("ACCEPTED", FALSE).status # "REVEALED"
    BY DEF NewSeat, SeatRecords, SeatStatuses, NoOutcome
  <2>2. Deals(2, NewSeat("ACCEPTED", FALSE)) /\ ~Terminal /\ certificate' = certificate
    BY <1>7 DEF CreateSecondRoundSeats, Deals
  <2> QED
    BY <1>1, <2>1, <2>2, RoundDealt
<1>8. CASE LockCommittee \/ \E r \in Rounds : AdvancePhase(r) \/ FreezeEvidence(r)
  <2>1. seat' = seat /\ tally' = tally /\ certificate' = certificate /\ (Terminal => Terminal')
    BY <1>8 DEF LockCommittee, AdvancePhase, FreezeEvidence
  <2> QED
    BY <2>1, NothingRevealed DEF RevealsNothing
<1>9. CASE OpenDiscussion
  <2>1. seat' = seat /\ certificate' = certificate /\ (Terminal => Terminal')
    BY <1>9 DEF OpenDiscussion
  <2>2. ASSUME NEW q \in Rounds
        PROVE  /\ tally'[q].revealed = tally[q].revealed
               /\ tally'[q].votes = tally[q].votes
               /\ tally[q].closed => tally'[q].closed
    BY <1>1, <1>9 DEF OpenDiscussion, TallyBook, TallyRecords
  <2>3. RevealsNothing
    BY <2>1, <2>2 DEF RevealsNothing
  <2> QED
    BY <2>1, <2>3, NothingRevealed
<1>10. CASE FinalizeUnchallenged
  <2>1. seat' = seat /\ tally' = tally /\ certificate'.round = 0
    BY <1>10 DEF FinalizeUnchallenged
  <2>2. CountsAgree'
    BY <2>1, NothingCounted DEF RevealsNothing, VoteInv
  <2> QED
    BY <2>1, <2>2 DEF CertificateBacked, Rounds
<1>11. ASSUME NEW r \in Rounds, FinalizeClaim(r) PROVE CountsAgree' /\ CertificateBacked'
  BY <1>11, CertificateIssued
<1> QED
  BY <1>2, <1>3, <1>4, <1>5, <1>6, <1>7, <1>8, <1>9, <1>10, <1>11
  DEF Next, SeatStep, KeeperStep

\* So are the counts and the certificate.
LEMMA VoteInvariant == Spec => []VoteInv
<1>1. Init => CountsAgree /\ CertificateBacked
  <2> SUFFICES ASSUME Init PROVE CountsAgree /\ CertificateBacked
    OBVIOUS
  <2>1. \A r \in Rounds : RevealedSeats(r) = {} /\ \A o \in Outcomes : Voters(r, o) = {}
    BY DEF Init, NoSeat, RevealedSeats, Voters
  <2>2. CountsAgree
    BY <2>1, FS_EmptySet DEF Init, NoTally, CountsAgree
  <2> QED
    BY <2>2 DEF Init, NoCertificate, CertificateBacked, Rounds
<1>2. TypeInv /\ [Next]_vars => TypeInv'
  BY PartyTypes, SeatTypes, KeeperTypes, WithdrawTypes, EnvironmentTypes, StutterTypes DEF Next
<1>3. VoteInv /\ [Next]_vars => VoteInv'
  BY <1>2, VoteStep DEF VoteInv
<1>4. Init => VoteInv
  BY <1>1, InitTypes DEF VoteInv
<1> QED
  BY <1>3, <1>4, PTL DEF Spec

\* A jury's certificate says exactly what a threshold of different revealed seats of
\* its round voted, and the first round certifies nothing without a threshold, for
\* every committee of which Threshold is a majority (settlement::finalize_claim).
THEOREM VerdictsAreBacked == Spec => []VerdictBacked
<1> QED
  BY VoteInvariant, BackedByVoters, PTL

-----------------------------------------------------------------------------
(* The reveal window.  A tally closes early only when every seat has        *)
(* revealed, and then no seat is left that is merely committed.            *)

WindowInv == VoteInv /\ CommittedSeatKeepsItsWindow

\* When as many seats revealed as there are, all of them did.
LEMMA AllRevealedMeansAll ==
    ASSUME CountsAgree, NEW r \in Rounds, AllRevealed(r), NEW k \in Seats
    PROVE  seat[r][k].status = "REVEALED"
<1>1. RevealedSeats(r) \in SUBSET Seats /\ Cardinality(RevealedSeats(r)) = Cardinality(Seats)
  BY DEF CountsAgree, AllRevealed, RevealedSeats
<1>2. RevealedSeats(r) = Seats
  BY <1>1, SeatsAssumption, FS_Subset
<1> QED
  BY <1>2 DEF RevealedSeats

\* A step that closes no tally, and commits only seats whose tally is open.
LEMMA WindowFrame ==
    ASSUME CommittedSeatKeepsItsWindow, now \in Nat, now' \in Nat, now <= now',
           \A r \in Rounds : RevealDeadline(r) \in Nat,
           \A r \in Rounds, k \in Seats :
               seat'[r][k].status = "COMMITTED" =>
                   \/ ~tally'[r].closed
                   \/ seat[r][k].status = "COMMITTED" /\ (tally'[r].closed => tally[r].closed)
    PROVE  CommittedSeatKeepsItsWindow'
<1> SUFFICES ASSUME NEW r \in Rounds, NEW k \in Seats,
                    seat'[r][k].status = "COMMITTED", now' <= RevealDeadline(r)
             PROVE  ~tally'[r].closed
  BY DEF CommittedSeatKeepsItsWindow, RevealDeadline
<1>1. now <= RevealDeadline(r)
  OBVIOUS
<1> QED
  BY <1>1 DEF CommittedSeatKeepsItsWindow

\* No step closes a tally on a seat that could still reveal.
LEMMA WindowStep == WindowInv /\ [Next]_vars => CommittedSeatKeepsItsWindow'
<1> SUFFICES ASSUME WindowInv, [Next]_vars PROVE CommittedSeatKeepsItsWindow'
  OBVIOUS
<1>1. /\ tally \in TallyBook /\ seat \in SeatBook /\ now \in Nat
      /\ CountsAgree /\ CommittedSeatKeepsItsWindow
  BY DEF WindowInv, VoteInv, TypeInv, TypeOK
<1>2. \A r \in Rounds : RevealDeadline(r) \in Nat
  BY DeadlineAssumption DEF RevealDeadline
<1>r. 1 \in Rounds /\ 2 \in Rounds
  BY DEF Rounds
<1> USE DEF moneyVars, claimVars, panelVars, clock
<1>3. CASE PartyStep \/ WithdrawPayout \/ EnvironmentStep \/ FinalizeUnchallenged \/ UNCHANGED vars
           \/ LockCommittee \/ \E r \in Rounds : AdvancePhase(r) \/ FreezeEvidence(r)
  <2>1. seat' = seat /\ tally' = tally /\ (now' = now \/ Tick)
    BY <1>3 DEF PartyStep, WithdrawPayout, Redeem, EnvironmentStep,
       FinalizeUnchallenged, vars, LockCommittee, AdvancePhase, FreezeEvidence, StartDirectReview,
       StartChallengedReview, CancelClaim, ProposeOutcome, ChallengeOutcome, Tick, SetPaused,
       RetentionLapses
  <2>2. now' \in Nat /\ now <= now'
    BY <1>1, <2>1, InstantsAssumption DEF Tick
  <2> QED
    BY <1>1, <1>2, <2>1, <2>2, WindowFrame
<1>4. CASE \E k \in Seats : \/ AcceptJurySeat(k) \/ DeclineJurySeat(k) \/ ReplaceDeclinedSeat(k)
                            \/ \E r \in Rounds : ApproveRun(r, k)
  <2>1. tally' = tally /\ now' = now
    BY <1>4 DEF AcceptJurySeat, DeclineJurySeat, ReplaceDeclinedSeat, ApproveRun
  <2>2. PICK k \in Seats : \/ AcceptJurySeat(k) \/ DeclineJurySeat(k) \/ ReplaceDeclinedSeat(k)
                            \/ \E r \in Rounds : ApproveRun(r, k)
    BY <1>4
  <2>3. ASSUME NEW q \in Rounds, NEW j \in Seats, seat'[q][j].status = "COMMITTED"
        PROVE  seat[q][j].status = "COMMITTED"
    <3>1. CASE AcceptJurySeat(k) \/ DeclineJurySeat(k)
      <4>1. PICK s \in {"ACCEPTED", "DECLINED"} : seat' = [seat EXCEPT ![1][k].status = s]
        BY <3>1 DEF AcceptJurySeat, DeclineJurySeat
      <4> QED
        BY <1>1, <1>r, <2>3, <4>1 DEF SeatBook, SeatRecords
    <3>2. CASE ReplaceDeclinedSeat(k)
      BY <1>1, <1>r, <2>3, <3>2 DEF ReplaceDeclinedSeat, NewSeat, SeatBook
    <3>3. ASSUME NEW r \in Rounds, ApproveRun(r, k) PROVE seat[q][j].status = "COMMITTED"
      BY <1>1, <2>3, <3>3 DEF ApproveRun, SeatBook, SeatRecords
    <3> QED
      BY <2>2, <3>1, <3>2, <3>3
  <2> QED
    BY <1>1, <1>2, <2>1, <2>3, WindowFrame
<1>5. ASSUME NEW r \in Rounds, NEW k \in Seats,
             \/ BindJurySeatEvidence(r, k)
             \/ \E o \in Outcomes : CommitVote(r, k, o) \/ RevealVote(r, k, o)
      PROVE  CommittedSeatKeepsItsWindow'
  <2>1. now' = now
    BY <1>5 DEF BindJurySeatEvidence, CommitVote, RevealVote
  <2>2. ~tally[r].closed
    BY <1>5 DEF BindJurySeatEvidence, CommitVote, RevealVote
  <2>3. ASSUME NEW q \in Rounds PROVE tally'[q].closed = tally[q].closed
    <3>1. tally[r] \in TallyRecords
      BY <1>1 DEF TallyBook
    <3>2. CASE BindJurySeatEvidence(r, k) \/ \E o \in Outcomes : CommitVote(r, k, o)
      BY <1>1, <3>1, <3>2, ZenonT(30) DEF BindJurySeatEvidence, CommitVote, TallyBook, TallyRecords
    <3>3. ASSUME NEW o \in Outcomes, RevealVote(r, k, o) PROVE tally'[q].closed = tally[q].closed
      <4>1. tally' = [tally EXCEPT ![r] = RecordReveal(tally[r], k, o)]
        BY <3>3 DEF RevealVote
      <4>2. tally'[q] = IF q = r THEN RecordReveal(tally[r], k, o) ELSE tally[q]
        BY <1>1, <4>1 DEF TallyBook
      <4>3. RecordReveal(tally[r], k, o).closed = tally[r].closed
        BY <3>1 DEF RecordReveal, TallyRecords
      <4> QED
        BY <4>2, <4>3
    <3> QED
      BY <1>5, <3>2, <3>3
  <2>4. ASSUME NEW q \in Rounds, NEW j \in Seats, q # r \/ j # k
        PROVE  seat'[q][j] = seat[q][j]
    BY <1>1, <1>5, <2>4 DEF BindJurySeatEvidence, CommitVote, RevealVote, SeatBook
  <2>5. ~tally'[r].closed
    BY <2>2, <2>3
  <2>6. ASSUME NEW q \in Rounds, NEW j \in Seats, seat'[q][j].status = "COMMITTED"
        PROVE  \/ ~tally'[q].closed
               \/ seat[q][j].status = "COMMITTED" /\ (tally'[q].closed => tally[q].closed)
    BY <2>3, <2>4, <2>5, <2>6
  <2> QED
    BY <1>1, <1>2, <2>1, <2>6, WindowFrame
<1>6. CASE SelectCommittee \/ CreateSecondRoundSeats
  <2>1. PICK r, s : r \in Rounds /\ Deals(r, s) /\ s.status # "COMMITTED" /\ now' = now
    <3>1. CASE SelectCommittee
      <4>1. Deals(1, NewSeat("OFFERED", FALSE)) /\ NewSeat("OFFERED", FALSE).status # "COMMITTED"
        BY <3>1 DEF SelectCommittee, Deals, NewSeat
      <4> QED
        BY <3>1, <4>1, <1>r DEF SelectCommittee
    <3>2. CASE CreateSecondRoundSeats
      <4>1. Deals(2, NewSeat("ACCEPTED", FALSE)) /\ NewSeat("ACCEPTED", FALSE).status # "COMMITTED"
        BY <3>2 DEF CreateSecondRoundSeats, Deals, NewSeat
      <4> QED
        BY <3>2, <4>1, <1>r DEF CreateSecondRoundSeats
    <3> QED
      BY <1>6, <3>1, <3>2
  <2>2. ASSUME NEW q \in Rounds, NEW j \in Seats, seat'[q][j].status = "COMMITTED"
        PROVE  seat[q][j].status = "COMMITTED" /\ tally'[q] = tally[q]
    BY <1>1, <2>1, <2>2 DEF Deals, SeatBook, TallyBook
  <2> QED
    BY <1>1, <1>2, <2>1, <2>2, WindowFrame
<1>7. ASSUME NEW d \in Rounds, FinalizeClaim(d) \/ (d = 1 /\ OpenDiscussion)
      PROVE  CommittedSeatKeepsItsWindow'
  <2>1. /\ RevealClosed(d) /\ seat' = seat /\ now' = now
        /\ tally' = [tally EXCEPT ![d].closed = TRUE]
    BY <1>7 DEF FinalizeClaim, OpenDiscussion
  <2>2. ASSUME NEW k \in Seats, seat[d][k].status = "COMMITTED" PROVE now > RevealDeadline(d)
    BY <1>1, <2>1, <2>2, AllRevealedMeansAll DEF RevealClosed
  <2>3. \A q \in Rounds : q # d => tally'[q] = tally[q]
    BY <1>1, <2>1 DEF TallyBook
  <2>4. ASSUME NEW q \in Rounds, NEW k \in Seats, seat'[q][k].status = "COMMITTED",
               now' <= RevealDeadline(q)
        PROVE  ~tally'[q].closed
    <3>1. q # d
      BY <1>1, <1>2, <2>1, <2>2, <2>4
    <3> QED
      BY <1>1, <2>1, <2>3, <2>4, <3>1 DEF CommittedSeatKeepsItsWindow
  <2> QED
    BY <2>4 DEF CommittedSeatKeepsItsWindow, RevealDeadline
<1> QED
  BY <1>3, <1>4, <1>5, <1>6, <1>7, <1>r DEF Next, SeatStep, KeeperStep

\* No tally closes on a seat that has committed and could still reveal, whoever turns
\* the crank and in whatever order (settlement::finalize_claim, jury::open_discussion).
THEOREM WindowIsKept == Spec => []CommittedSeatKeepsItsWindow
<1>1. Init => CommittedSeatKeepsItsWindow
  BY DEF Init, NoTally, CommittedSeatKeepsItsWindow
<1>2. VoteInv /\ [Next]_vars => VoteInv'
  <2>1. TypeInv /\ [Next]_vars => TypeInv'
    BY PartyTypes, SeatTypes, KeeperTypes, WithdrawTypes, EnvironmentTypes, StutterTypes DEF Next
  <2> QED
    BY <2>1, VoteStep DEF VoteInv
<1>3. WindowInv /\ [Next]_vars => CommittedSeatKeepsItsWindow'
  BY WindowStep
<1>4. WindowInv <=> VoteInv /\ CommittedSeatKeepsItsWindow
  BY DEF WindowInv
<1> QED
  BY <1>1, <1>3, <1>4, VoteInvariant, PTL DEF Spec

-----------------------------------------------------------------------------
(* Proofs, for every committee, threshold and ladder of deadlines, of the  *)
(* order of a claim's rounds: what is decided stays decided, a second      *)
(* round follows a split only, and each round is a sealed ballot.          *)

(* A round that has not begun is untouched                                 *)

Before(r) ==
    {"CREATED", "PROPOSED", "CHALLENGED", "REVIEW_REQUESTED"}
    \cup (IF r = 2 THEN {"COMMIT_1", "REVEAL_1", "DISCUSSION"} ELSE {})

Untouched(r) ==
    /\ tally[r] = NoTally /\ \A k \in Seats : seat[r][k] = NoSeat
    /\ r = 1 => committee = NoCommittee

PhaseInv == \A r \in Rounds : state \in Before(r) => Untouched(r)

\* What a round needs for its votes.
Types == /\ tally \in TallyBook /\ seat \in SeatBook /\ committee \in CommitteeRecords
         /\ now \in Nat /\ state \in States
         /\ \A r \in Rounds : /\ tally[r] \in TallyRecords
                              /\ \A k \in Seats : seat[r][k] \in SeatRecords
         /\ 1 \in Rounds /\ 2 \in Rounds

\* The types of both rounds.
LEMMA TypesOfRounds == TypeInv => Types
BY BookLookup DEF TypeInv, TypeOK, Types, Rounds

\* The steps that touch no seat and no tally.
Elsewhere ==
    \/ PartyStep \/ EnvironmentStep \/ WithdrawPayout \/ FinalizeUnchallenged
    \/ LockCommittee \/ UNCHANGED vars
    \/ \E r \in Rounds : AdvancePhase(r) \/ FreezeEvidence(r)

\* Every step is one of these.
LEMMA StepsByKind ==
    ASSUME [Next]_vars
    PROVE  \/ Elsewhere
           \/ \E k \in Seats : AcceptJurySeat(k) \/ DeclineJurySeat(k) \/ ReplaceDeclinedSeat(k)
           \/ \E r \in Rounds, k \in Seats :
                  \/ BindJurySeatEvidence(r, k) \/ ApproveRun(r, k)
                  \/ \E o \in Outcomes : CommitVote(r, k, o) \/ RevealVote(r, k, o)
           \/ SelectCommittee \/ CreateSecondRoundSeats \/ OpenDiscussion
           \/ \E r \in Rounds : FinalizeClaim(r)
BY DEF Next, SeatStep, KeeperStep, Elsewhere

\* Who goes elsewhere leaves every seat and tally alone, and no claim goes back.
LEMMA ElsewhereStays ==
    ASSUME Elsewhere
    PROVE  /\ seat' = seat /\ tally' = tally
           /\ \A r \in Rounds : state' \in Before(r) => state \in Before(r)
           /\ committee' = committee \/ LockCommittee
  BY DEF Elsewhere, PartyStep, EnvironmentStep, WithdrawPayout, Redeem, FinalizeUnchallenged,
     LockCommittee, vars, AdvancePhase, FreezeEvidence, StartDirectReview, TerminalState,
     StartChallengedReview, CancelClaim, ProposeOutcome, ChallengeOutcome, Tick, SetPaused,
     RetentionLapses, moneyVars, claimVars, panelVars, clock, Before, Rounds

\* The clock never goes back.
LEMMA ClockAdvances ==
    ASSUME TypeInv, [Next]_vars
    PROVE  now \in Nat /\ now' \in Nat /\ now <= now'
<1> USE DEF moneyVars, claimVars, panelVars, clock
<1>1. now \in Nat
  BY DEF TypeInv, TypeOK
<1>2. now' = now \/ Tick
  <2>1. CASE PartyStep \/ WithdrawPayout
    BY <2>1 DEF PartyStep, WithdrawPayout, Redeem, StartDirectReview, StartChallengedReview,
       CancelClaim, ProposeOutcome, ChallengeOutcome
  <2>2. CASE EnvironmentStep \/ UNCHANGED vars
    BY <2>2 DEF EnvironmentStep, vars, SetPaused, RetentionLapses
  <2>3. CASE SeatStep
    BY <2>3 DEF SeatStep, AcceptJurySeat, DeclineJurySeat, BindJurySeatEvidence, CommitVote, RevealVote
  <2>4. CASE KeeperStep
    BY <2>4 DEF KeeperStep, SelectCommittee, LockCommittee, ReplaceDeclinedSeat, AdvancePhase,
       FreezeEvidence, ApproveRun, OpenDiscussion, CreateSecondRoundSeats, FinalizeUnchallenged,
       FinalizeClaim
  <2> QED BY <2>1, <2>2, <2>3, <2>4 DEF Next
<1>3. Tick => now' \in Nat /\ now <= now'
  BY <1>1, InstantsAssumption DEF Tick
<1> QED BY <1>1, <1>2, <1>3

\* A seat's step is the step of a seat that exists, in one open round.
SeatMoves(r, k) ==
    /\ seat[r][k].status # "NONE"
    /\ state' = state
    /\ \A q \in Rounds, j \in Seats : q # r \/ j # k => seat'[q][j] = seat[q][j]
    /\ \A q \in Rounds : q # r => tally'[q] = tally[q]
    /\ tally'[r].closed = tally[r].closed /\ tally'[r].linked = tally[r].linked
    /\ tally[r].closed => tally'[r] = tally[r]

\* Each call about a seat moves that seat of its open round only.
LEMMA SeatStepsMove ==
    ASSUME Types, NEW r \in Rounds, NEW k \in Seats,
           \/ r = 1 /\ (AcceptJurySeat(k) \/ DeclineJurySeat(k) \/ ReplaceDeclinedSeat(k))
           \/ BindJurySeatEvidence(r, k) \/ ApproveRun(r, k)
           \/ \E o \in Outcomes : CommitVote(r, k, o) \/ RevealVote(r, k, o)
    PROVE  SeatMoves(r, k)
<1> USE DEF moneyVars, claimVars, panelVars, clock
<1>1. CASE r = 1 /\ (AcceptJurySeat(k) \/ DeclineJurySeat(k) \/ ReplaceDeclinedSeat(k))
  BY <1>1 DEF AcceptJurySeat, DeclineJurySeat, ReplaceDeclinedSeat, SeatMoves, Types, SeatBook
<1>2. CASE BindJurySeatEvidence(r, k) \/ ApproveRun(r, k)
  BY <1>2 DEF BindJurySeatEvidence, ApproveRun, SeatMoves, Types, SeatBook, TallyBook, TallyRecords
<1>3. ASSUME NEW o \in Outcomes, CommitVote(r, k, o) PROVE SeatMoves(r, k)
  BY <1>3 DEF CommitVote, SeatMoves, Types, SeatBook, TallyBook, TallyRecords
<1>4. ASSUME NEW o \in Outcomes, RevealVote(r, k, o) PROVE SeatMoves(r, k)
  <2>1. /\ seat[r][k].status = "COMMITTED" /\ ~tally[r].closed /\ state' = state
        /\ seat' = [seat EXCEPT ![r][k].status = "REVEALED"]
        /\ tally' = [tally EXCEPT ![r] = RecordReveal(tally[r], k, o)]
    BY <1>4 DEF RevealVote
  <2>2. tally'[r] = RecordReveal(tally[r], k, o) /\ \A q \in Rounds : q # r => tally'[q] = tally[q]
    BY <2>1 DEF Types, TallyBook
  <2>3. tally'[r].closed = tally[r].closed /\ tally'[r].linked = tally[r].linked
    <3>1. tally[r] \in TallyRecords
      BY DEF Types
    <3>2. /\ RecordReveal(tally[r], k, o).closed = tally[r].closed
          /\ RecordReveal(tally[r], k, o).linked = tally[r].linked
      BY <3>1 DEF RecordReveal, TallyRecords
    <3> QED BY <2>2, <3>2
  <2>4. \A q \in Rounds, j \in Seats : q # r \/ j # k => seat'[q][j] = seat[q][j]
    BY <2>1 DEF Types, SeatBook
  <2> QED BY <2>1, <2>2, <2>3, <2>4 DEF SeatMoves
<1> QED BY <1>1, <1>2, <1>3, <1>4

\* The deals and the closings, with what they guard.
Dealings ==
    \/ /\ SelectCommittee /\ state = "REVIEW_REQUESTED" /\ state' = "COMMIT_1"
       /\ Deals(1, NewSeat("OFFERED", FALSE))
    \/ /\ CreateSecondRoundSeats /\ state = "DISCUSSION" /\ state' = "COMMIT_2"
       /\ Deals(2, NewSeat("ACCEPTED", FALSE)) /\ committee' = committee

Closings(r) ==
    /\ FinalizeClaim(r) \/ (r = 1 /\ OpenDiscussion)
    /\ state = IF r = 1 THEN "REVEAL_1" ELSE "REVEAL_2"
    /\ state' \in TerminalStates \cup {"DISCUSSION"} /\ (r = 2 => state' \in TerminalStates)
    /\ ~tally[r].closed /\ RevealClosed(r)
    /\ seat' = seat /\ tally' = [tally EXCEPT ![r].closed = TRUE] /\ committee' = committee

\* What the draws and the closings do to the seats and the tallies.
LEMMA DealsAndClosings ==
    ASSUME Types
    PROVE  /\ SelectCommittee \/ CreateSecondRoundSeats => Dealings
           /\ \A r \in Rounds : FinalizeClaim(r) \/ (r = 1 /\ OpenDiscussion) => Closings(r)
<1>1. SelectCommittee \/ CreateSecondRoundSeats => Dealings
  BY DEF Dealings, SelectCommittee, CreateSecondRoundSeats, Deals
<1>2. ASSUME NEW r \in Rounds, FinalizeClaim(r) PROVE Closings(r)
  BY <1>2 DEF Closings, FinalizeClaim, TerminalState, TerminalStates, Rounds
<1>3. OpenDiscussion => Closings(1)
  BY DEF Closings, OpenDiscussion
<1> QED BY <1>1, <1>2, <1>3

\* The committee is touched by its lock, by a replacement and by a draw.
LEMMA CommitteeStays ==
    ASSUME Types, NEW r \in Rounds, NEW k \in Seats,
           \/ r = 1 /\ (AcceptJurySeat(k) \/ DeclineJurySeat(k))
           \/ BindJurySeatEvidence(r, k) \/ ApproveRun(r, k)
           \/ \E o \in Outcomes : CommitVote(r, k, o) \/ RevealVote(r, k, o)
    PROVE  committee' = committee
BY DEF AcceptJurySeat, DeclineJurySeat, BindJurySeatEvidence, ApproveRun, CommitVote, RevealVote

\* No round begins before its draw.
LEMMA PhaseStep == TypeInv /\ PhaseInv /\ [Next]_vars => PhaseInv'
<1> SUFFICES ASSUME TypeInv, PhaseInv, [Next]_vars PROVE PhaseInv'
  OBVIOUS
<1>1. Types
  BY TypesOfRounds
<1>2. CASE Elsewhere
  <2>1. /\ seat' = seat /\ tally' = tally /\ (committee' = committee \/ LockCommittee)
        /\ \A r \in Rounds : state' \in Before(r) => state \in Before(r)
    BY <1>2, ElsewhereStays
  <2>2. LockCommittee => state \notin Before(1)
    BY <1>1 DEF LockCommittee, PhaseInv, Untouched, NoCommittee, Types
  <2>3. LockCommittee => state' = state
    BY DEF LockCommittee, claimVars
  <2> QED BY <1>1, <2>1, <2>2, <2>3 DEF PhaseInv, Untouched, Types, Before
<1>3. ASSUME NEW r \in Rounds, NEW k \in Seats,
             \/ r = 1 /\ (AcceptJurySeat(k) \/ DeclineJurySeat(k) \/ ReplaceDeclinedSeat(k))
             \/ BindJurySeatEvidence(r, k) \/ ApproveRun(r, k)
             \/ \E o \in Outcomes : CommitVote(r, k, o) \/ RevealVote(r, k, o)
      PROVE  PhaseInv'
  <2>1. SeatMoves(r, k)
    BY <1>1, <1>3, SeatStepsMove
  <2>2. state \notin Before(r)
    BY <2>1 DEF SeatMoves, PhaseInv, Untouched, NoSeat
  <2>3. state \notin Before(1)
    BY <2>2 DEF Before, Rounds
  <2> QED BY <2>1, <2>2, <2>3 DEF SeatMoves, PhaseInv, Untouched
<1>4. CASE Dealings
  <2>1. CASE state = "REVIEW_REQUESTED" /\ state' = "COMMIT_1" /\ Deals(1, NewSeat("OFFERED", FALSE))
    <3>1. Untouched(2) /\ state' \notin Before(1)
      BY <1>1, <2>1 DEF PhaseInv, Before, Types
    <3>2. tally'[2] = tally[2] /\ seat'[2] = seat[2]
      BY <1>1, <2>1 DEF Deals, Types, TallyBook, SeatBook
    <3>3. Untouched(2)'
      BY <3>1, <3>2 DEF Untouched
    <3> QED BY <3>1, <3>3 DEF PhaseInv, Rounds
  <2>2. CASE state' = "COMMIT_2"
    BY <2>2 DEF PhaseInv, Before
  <2> QED BY <1>4, <2>1, <2>2 DEF Dealings
<1>5. ASSUME NEW r \in Rounds, Closings(r) PROVE PhaseInv'
  <2>1. state \notin Before(r) /\ state' \notin Before(r) /\ state' \notin Before(1)
        /\ (r = 1 => state \in Before(2)) /\ (r = 2 => state' \notin Before(2))
    BY <1>5 DEF Closings, Before, TerminalStates, Rounds
  <2>2. \A q \in Rounds : q # r => tally'[q] = tally[q]
    BY <1>1, <1>5 DEF Closings, Types, TallyBook
  <2> QED BY <1>5, <2>1, <2>2 DEF Closings, PhaseInv, Untouched, Rounds
<1> QED BY <1>1, <1>2, <1>3, <1>4, <1>5, StepsByKind, DealsAndClosings DEF Types

\* No round has begun at first.
LEMMA PhaseInit == Init => PhaseInv
BY DEF Init, PhaseInv, Untouched

\* The types, the counts and the order of the rounds hold together.
OrderInv == VoteInv /\ PhaseInv

\* The order of the rounds is invariant.
LEMMA OrderInvariant == Spec => []OrderInv
<1>1. VoteInv => TypeInv
  BY DEF VoteInv
<1>2. OrderInv <=> VoteInv /\ PhaseInv
  BY DEF OrderInv
<1> QED BY <1>1, <1>2, VoteInvariant, PhaseInit, PhaseStep, PTL DEF Spec

-----------------------------------------------------------------------------
(* A closed tally, a locked roster, a decided claim                        *)

\* A closed tally never changes again.
LEMMA ClosedStays ==
    ASSUME TypeInv, PhaseInv, [Next]_vars, NEW r \in Rounds, tally[r].closed
    PROVE  tally'[r] = tally[r]
<1>1. Types
  BY TypesOfRounds
<1>2. CASE Elsewhere
  BY <1>2, ElsewhereStays
<1>3. ASSUME NEW q \in Rounds, NEW k \in Seats, SeatMoves(q, k) PROVE tally'[r] = tally[r]
  BY <1>3 DEF SeatMoves
<1>4. CASE Dealings
  <2>1. ASSUME NEW d \in Rounds, NEW s, Deals(d, s), state \in Before(d) PROVE tally'[r] = tally[r]
    <3>1. tally[d] = NoTally
      BY <2>1 DEF PhaseInv, Untouched
    <3>2. d # r
      BY <3>1 DEF NoTally
    <3> QED BY <1>1, <2>1, <3>2 DEF Deals, Types, TallyBook
  <2>2. "REVIEW_REQUESTED" \in Before(1) /\ "DISCUSSION" \in Before(2)
    BY DEF Before
  <2> QED BY <1>1, <1>4, <2>1, <2>2 DEF Dealings, Types
<1>5. ASSUME NEW q \in Rounds, Closings(q) PROVE tally'[r] = tally[r]
  BY <1>1, <1>5 DEF Closings, Types, TallyBook
<1> QED BY <1>1, <1>2, <1>3, <1>4, <1>5, StepsByKind, DealsAndClosings, SeatStepsMove DEF Types

\* After the lock neither the committee nor a declined seat moves.
LEMMA RosterStays ==
    ASSUME TypeInv, PhaseInv, [Next]_vars, committee.locked
    PROVE  /\ committee' = committee
           /\ \A k \in Seats : seat[1][k].status = "DECLINED" => seat'[1][k].status = "DECLINED"
<1>1. Types /\ state \notin Before(1)
  BY TypesOfRounds DEF PhaseInv, Untouched, NoCommittee, Types
<1>2. CASE Elsewhere
  BY <1>2, ElsewhereStays DEF LockCommittee
<1>3. ASSUME NEW k \in Seats, AcceptJurySeat(k) \/ DeclineJurySeat(k) \/ ReplaceDeclinedSeat(k)
      PROVE  /\ committee' = committee
             /\ \A j \in Seats : seat[1][j].status = "DECLINED" => seat'[1][j].status = "DECLINED"
  BY <1>1, <1>3 DEF AcceptJurySeat, DeclineJurySeat, ReplaceDeclinedSeat, Types, SeatBook
<1>4. ASSUME NEW r \in Rounds, NEW k \in Seats,
             \/ BindJurySeatEvidence(r, k) \/ ApproveRun(r, k)
             \/ \E o \in Outcomes : CommitVote(r, k, o) \/ RevealVote(r, k, o)
      PROVE  /\ committee' = committee
             /\ \A j \in Seats : seat[1][j].status = "DECLINED" => seat'[1][j].status = "DECLINED"
  <2>1. committee' = committee
    BY <1>1, <1>4, CommitteeStays
  <2>2. ASSUME BindJurySeatEvidence(r, k) \/ ApproveRun(r, k),
               NEW j \in Seats, seat[1][j].status = "DECLINED"
        PROVE  seat'[1][j].status = "DECLINED"
    <3>1. CASE ApproveRun(r, k)
      BY <1>1, <2>2, <3>1 DEF ApproveRun, Types, SeatBook, SeatRecords
    <3>2. CASE BindJurySeatEvidence(r, k)
      BY <1>1, <2>2, <3>2 DEF BindJurySeatEvidence, Types, SeatBook, SeatRecords
    <3> QED BY <2>2, <3>1, <3>2
  <2>3. ASSUME NEW o \in Outcomes, CommitVote(r, k, o) \/ RevealVote(r, k, o),
               NEW j \in Seats, seat[1][j].status = "DECLINED"
        PROVE  seat'[1][j] = seat[1][j]
    BY <1>1, <2>3 DEF CommitVote, RevealVote, Types, SeatBook
  <2> QED BY <1>4, <2>1, <2>2, <2>3
<1>5. CASE Dealings
  <2>1. state = "DISCUSSION" /\ Deals(2, NewSeat("ACCEPTED", FALSE)) /\ committee' = committee
    BY <1>1, <1>5 DEF Dealings, Before
  <2> QED BY <1>1, <2>1 DEF Deals, Types, SeatBook
<1>6. ASSUME NEW q \in Rounds, Closings(q)
      PROVE  /\ committee' = committee
             /\ \A j \in Seats : seat[1][j].status = "DECLINED" => seat'[1][j].status = "DECLINED"
  BY <1>6 DEF Closings
<1> QED BY <1>1, <1>2, <1>3, <1>4, <1>5, <1>6, StepsByKind, DealsAndClosings DEF Types

\* Membership is fixed by the lock: no reserve takes a seat afterwards and no declined
\* seat comes back (jury::lock_committee, jury::replace_declined_seat).
THEOREM RosterIsFixed == Spec => RosterFixedOnceLocked
<1>1. OrderInv /\ [Next]_vars =>
        (committee.locked =>
            /\ committee' = committee
            /\ \A k \in Seats : seat[1][k].status = "DECLINED" => seat'[1][k].status = "DECLINED")
  BY RosterStays DEF OrderInv, VoteInv
<1> QED BY <1>1, OrderInvariant, PTL DEF Spec, RosterFixedOnceLocked

\* The steps of a decided claim: only money leaves.
LEMMA DecidedStays ==
    ASSUME TypeInv, [Next]_vars, Terminal
    PROVE  state' = state /\ certificate' = certificate /\ Balance' <= Balance
<1> USE DEF moneyVars, claimVars, panelVars, clock, Terminal, TerminalStates
<1>1. Balance \in Nat /\ vault \in VaultRecords /\ tickets \in TicketRecords
  BY DEF TypeInv, TypeOK, VaultRecords, Balance
<1>2. CASE WithdrawPayout
  <2>1. PICK amount \in Nat : Redeem(amount, tickets')
    BY <1>1, <1>2 DEF WithdrawPayout, TicketRecords, Redeem
  <2>2. /\ vault' = [vault EXCEPT !.creation = @ - amount] /\ state' = state
        /\ certificate' = certificate
    BY <2>1 DEF Redeem
  <2>3. Balance' = Balance - amount
    BY <1>1, <2>2 DEF Balance, VaultRecords
  <2> QED BY <1>1, <2>1, <2>2, <2>3
<1>3. CASE PartyStep
  BY <1>3 DEF PartyStep, StartDirectReview, StartChallengedReview, CancelClaim, ProposeOutcome,
     ChallengeOutcome
<1>4. CASE EnvironmentStep \/ UNCHANGED vars
  BY <1>1, <1>4 DEF EnvironmentStep, vars, Tick, SetPaused, RetentionLapses, Balance
<1>5. CASE SeatStep
  <2>1. CASE \E k \in Seats : AcceptJurySeat(k) \/ DeclineJurySeat(k)
    <3>1. state' = state /\ certificate' = certificate /\ vault' = vault
      BY <2>1 DEF AcceptJurySeat, DeclineJurySeat
    <3> QED BY <1>1, <3>1 DEF Balance
  <2>2. CASE \E r \in Rounds, k \in Seats : BindJurySeatEvidence(r, k)
    <3>1. state' = state /\ certificate' = certificate /\ vault' = vault
      BY <2>2 DEF BindJurySeatEvidence
    <3> QED BY <1>1, <3>1 DEF Balance
  <2>3. CASE \E r \in Rounds, k \in Seats, o \in Outcomes : CommitVote(r, k, o) \/ RevealVote(r, k, o)
    <3>1. PICK r \in Rounds, k \in Seats, o \in Outcomes : CommitVote(r, k, o) \/ RevealVote(r, k, o)
      BY <2>3
    <3>2. state' = state /\ certificate' = certificate /\ vault' = vault
      BY <3>1 DEF CommitVote, RevealVote
    <3> QED BY <1>1, <3>2 DEF Balance
  <2> QED BY <1>5, <2>1, <2>2, <2>3 DEF SeatStep
<1>6. CASE KeeperStep
  <2>1. CASE \E k \in Seats : ReplaceDeclinedSeat(k) \/ (\E r \in Rounds : ApproveRun(r, k))
    <3>1. state' = state /\ certificate' = certificate /\ vault' = vault
      BY <2>1 DEF ReplaceDeclinedSeat, ApproveRun
    <3> QED BY <1>1, <3>1 DEF Balance
  <2>2. CASE SelectCommittee \/ LockCommittee \/ OpenDiscussion \/ CreateSecondRoundSeats
    <3>1. LockCommittee
      BY <2>2 DEF SelectCommittee, OpenDiscussion, CreateSecondRoundSeats
    <3>2. state' = state /\ certificate' = certificate /\ vault' = vault
      BY <3>1 DEF LockCommittee
    <3> QED BY <1>1, <3>2 DEF Balance
  <2>3. CASE \E r \in Rounds : AdvancePhase(r) \/ FreezeEvidence(r)
    <3>1. PICK r \in Rounds : AdvancePhase(r) \/ FreezeEvidence(r)
      BY <2>3
    <3>2. ~AdvancePhase(r)
      BY DEF AdvancePhase
    <3>3. ~CanFreezeEvidence(r)
      BY DEF CanFreezeEvidence
    <3> QED BY <3>1, <3>2, <3>3 DEF FreezeEvidence
  <2>4. CASE FinalizeUnchallenged \/ \E r \in Rounds : FinalizeClaim(r)
    BY <1>1, <2>4 DEF FinalizeUnchallenged, FinalizeClaim
  <2> QED BY <1>6, <2>1, <2>2, <2>3, <2>4 DEF KeeperStep
<1> QED BY <1>2, <1>3, <1>4, <1>5, <1>6 DEF Next

\* A verdict is final: afterwards neither the state nor the certificate changes and money
\* only leaves (settlement.move: every entry function asserts a state that is not final).
THEOREM DecisionsAreFinal == Spec => DecisionIsFinal
<1>1. TypeInv /\ [Next]_vars =>
        (Terminal => state' = state /\ certificate' = certificate /\ Balance' <= Balance)
  BY DecidedStays
<1> QED BY <1>1, TypeInvariant, PTL DEF Spec, DecisionIsFinal

-----------------------------------------------------------------------------
(* A second round follows a split                                          *)

SplitInv ==
    tally[2].linked =>
        /\ tally[1].closed /\ committee.locked /\ evidence[2] # "none"
        /\ ThresholdOutcome(tally[1]) = NoOutcome

\* Frozen evidence may lapse, but it never disappears.
LEMMA EvidenceStays ==
    ASSUME TypeInv, [Next]_vars, evidence[2] # "none"
    PROVE  evidence'[2] # "none"
<1> USE DEF moneyVars, claimVars, panelVars, clock
<1>1. evidence \in [Rounds -> {"none", "linked", "lapsed"}] /\ 2 \in Rounds
  BY DEF TypeInv, TypeOK, Rounds
<1>2. CASE PartyStep \/ WithdrawPayout
  BY <1>2 DEF PartyStep, WithdrawPayout, Redeem, StartDirectReview, StartChallengedReview,
     CancelClaim, ProposeOutcome, ChallengeOutcome
<1>3. CASE EnvironmentStep \/ UNCHANGED vars
  BY <1>1, <1>3 DEF EnvironmentStep, vars, Tick, SetPaused, RetentionLapses
<1>4. CASE SeatStep
  BY <1>4 DEF SeatStep, AcceptJurySeat, DeclineJurySeat, BindJurySeatEvidence, CommitVote, RevealVote
<1>5. CASE KeeperStep
  <2>1. CASE \E r \in Rounds : FreezeEvidence(r)
    BY <1>1, <2>1 DEF FreezeEvidence
  <2>2. CASE ~\E r \in Rounds : FreezeEvidence(r)
    BY <1>5, <2>2 DEF KeeperStep, SelectCommittee, LockCommittee, ReplaceDeclinedSeat, AdvancePhase,
       ApproveRun, OpenDiscussion, CreateSecondRoundSeats, FinalizeUnchallenged, FinalizeClaim
  <2> QED BY <2>1, <2>2
<1> QED BY <1>2, <1>3, <1>4, <1>5 DEF Next

\* Only the second draw opens the second tally.
LEMMA SecondTallyOpens ==
    ASSUME TypeInv, PhaseInv, [Next]_vars, ~tally[2].linked, tally'[2].linked
    PROVE  CreateSecondRoundSeats
<1>1. Types
  BY TypesOfRounds
<1>2. ~Elsewhere
  BY ElsewhereStays
<1>3. ASSUME NEW q \in Rounds, NEW k \in Seats, SeatMoves(q, k) PROVE FALSE
  BY <1>1, <1>3 DEF SeatMoves, Types
<1>4. ASSUME NEW q \in Rounds, Closings(q) PROVE FALSE
  BY <1>1, <1>4 DEF Closings, Types, TallyBook, TallyRecords
<1>5. ASSUME SelectCommittee PROVE FALSE
  <2>1. tally' = [tally EXCEPT ![1] = NewTally]
    BY <1>5 DEF SelectCommittee
  <2>2. tally'[2] = tally[2]
    BY <1>1, <2>1 DEF Types, TallyBook
  <2> QED BY <2>2
<1> QED BY <1>1, <1>2, <1>3, <1>4, <1>5, StepsByKind, DealsAndClosings, SeatStepsMove DEF Types

\* The split is kept by every step.
LEMMA SplitStep == OrderInv /\ SplitInv /\ [Next]_vars => SplitInv'
<1> SUFFICES ASSUME OrderInv, SplitInv, [Next]_vars, tally'[2].linked
             PROVE  SplitInv'
  BY DEF SplitInv
<1>1. TypeInv /\ PhaseInv /\ Types
  BY TypesOfRounds DEF OrderInv, VoteInv
<1>2. CASE tally[2].linked
  <2>1. tally[1].closed /\ committee.locked /\ evidence[2] # "none"
        /\ ThresholdOutcome(tally[1]) = NoOutcome
    BY <1>2 DEF SplitInv
  <2>2. tally'[1] = tally[1]
    BY <1>1, <2>1, ClosedStays DEF Types
  <2>3. committee' = committee /\ evidence'[2] # "none"
    BY <1>1, <2>1, RosterStays, EvidenceStays
  <2> QED BY <2>1, <2>2, <2>3 DEF SplitInv, ThresholdOutcome
<1>3. CASE ~tally[2].linked
  <2>1. CreateSecondRoundSeats
    BY <1>1, <1>3, SecondTallyOpens
  <2>2. tally'[1] = tally[1]
    BY <1>1, <2>1 DEF CreateSecondRoundSeats, Types, TallyBook
  <2> QED BY <2>1, <2>2 DEF CreateSecondRoundSeats, SplitInv, ThresholdOutcome
<1> QED BY <1>2, <1>3

\* A second round exists only after a first round that closed without a threshold, on a
\* locked committee and with its own evidence (jury::create_second_round_seats), whatever
\* is revealed, bound or lapses afterwards.
THEOREM SecondRoundFollowsSplit == Spec => []SecondRoundOnlyAfterSplit
<1>1. Init => SplitInv
  BY DEF Init, SplitInv, NoTally, Rounds
<1>2. OrderInv /\ SplitInv => SecondRoundOnlyAfterSplit
  <2> SUFFICES ASSUME OrderInv, SplitInv, tally[2].linked PROVE SecondRoundOnlyAfterSplit
    BY DEF SecondRoundOnlyAfterSplit
  <2>1. CountsAgree /\ CertificateBacked /\ 1 \in Rounds
    BY DEF OrderInv, VoteInv, Rounds
  <2>2. \A o \in Outcomes : ~(Cardinality(Voters(1, o)) >= Threshold)
    BY <2>1, OutcomeFound DEF SplitInv
  <2>3. \A o \in Outcomes : Cardinality(Voters(1, o)) < Threshold
    BY <2>1, <2>2, VotersFinite, ThresholdAssumption
  <2>4. certificate.round # 1
    BY <2>1 DEF CertificateBacked, SplitInv
  <2> QED BY <2>3, <2>4 DEF SecondRoundOnlyAfterSplit, SplitInv
<1> QED BY <1>1, <1>2, OrderInvariant, SplitStep, PTL DEF Spec

-----------------------------------------------------------------------------
(* The proof that the commit and reveal code of a claim implements the     *)
(* sealed ballot, in each of its rounds and for every committee, threshold *)
(* and ladder of deadlines.  Each step of the claim is, for each round,    *)
(* the casting of one ballot, the opening of one, the close or a stutter.  *)

\* A ballot is opened only when no other can be cast; a seat without one has no outcome.
Sealed(r) ==
    /\ tally[r].revealed # {} => CommitClosed(r)
    /\ \A k \in Seats :
          seat[r][k].status \notin {"COMMITTED", "REVEALED"} => seat[r][k].ballot = NoOutcome

SealInv == \A r \in Rounds : Sealed(r)

-----------------------------------------------------------------------------
(* What a step of the claim is to the poll of one round                    *)

SameBallots(r) == \A k \in Seats : seat'[r][k].ballot = seat[r][k].ballot
SamePoll(r) == tally'[r].revealed = tally[r].revealed /\ Verdict(r)' = Verdict(r)

Rests(r) == SameBallots(r) /\ SamePoll(r)

Casts(r, k, o) ==
    /\ ~tally[r].closed /\ tally[r].revealed = {} /\ seat[r][k].ballot = NoOutcome
    /\ seat'[r][k].ballot = o
    /\ \A j \in Seats : j # k => seat'[r][j].ballot = seat[r][j].ballot
    /\ SamePoll(r)

Opens(r, k) ==
    /\ ~tally[r].closed /\ seat[r][k].ballot # NoOutcome /\ k \notin tally[r].revealed
    /\ tally'[r].revealed = tally[r].revealed \cup {k}
    /\ Verdict(r)' = Verdict(r)
    /\ SameBallots(r)

Closes(r) ==
    /\ ~tally[r].closed
    /\ Verdict(r)' = ThresholdOutcome(tally[r])
    /\ tally'[r].revealed = tally[r].revealed
    /\ SameBallots(r)

PollMoves(r) ==
    \/ Rests(r)
    \/ \E k \in Seats, o \in Outcomes : Casts(r, k, o)
    \/ \E k \in Seats : Opens(r, k)
    \/ Closes(r)

Keeps(r) == PollMoves(r) /\ Sealed(r)'

-----------------------------------------------------------------------------
(* Each kind of step                                                       *)

\* A deadline that has passed stays in the past.
LEMMA ClosedCommitsStayClosed ==
    ASSUME NEW r \in Rounds, now \in Nat, now' \in Nat, now <= now', CommitClosed(r),
           tally'[r].committed = tally[r].committed
    PROVE  CommitClosed(r)'
<1>1. CommitDeadline(r) \in Nat
  BY DeadlineAssumption DEF CommitDeadline
<1>2. CASE now > CommitDeadline(r)
  BY <1>1, <1>2 DEF CommitClosed, CommitDeadline
<1>3. CASE AllCommitted(r)
  BY <1>3 DEF CommitClosed, AllCommitted
<1> QED BY <1>2, <1>3 DEF CommitClosed

\* A round that is left alone rests.
LEMMA LeftAlone ==
    ASSUME NEW r \in Rounds, now \in Nat, now' \in Nat, now <= now', Sealed(r),
           tally'[r] = tally[r], \A k \in Seats : seat'[r][k] = seat[r][k]
    PROVE  Keeps(r)
<1>1. Rests(r)
  BY DEF Rests, SameBallots, SamePoll, Verdict, ThresholdOutcome
<1>2. CommitClosed(r) => CommitClosed(r)'
  BY ClosedCommitsStayClosed
<1> QED BY <1>1, <1>2 DEF Keeps, PollMoves, Sealed

\* A seat accepts, declines, is replaced, bound or approved: no ballot moves.
LEMMA NoBallotMoves ==
    ASSUME Types, NEW r \in Rounds, NEW k \in Seats, Sealed(r), now' = now,
           tally'[r].revealed = tally[r].revealed, tally'[r].votes = tally[r].votes,
           tally'[r].closed = tally[r].closed, tally'[r].committed = tally[r].committed,
           \A j \in Seats : j # k => seat'[r][j] = seat[r][j],
           \/ /\ seat[r][k].status \notin {"COMMITTED", "REVEALED"}
              /\ seat'[r][k].ballot = NoOutcome
           \/ /\ seat'[r][k].ballot = seat[r][k].ballot
              /\ seat'[r][k].status = seat[r][k].status
    PROVE  Keeps(r)
<1>1. SameBallots(r)
  BY DEF SameBallots, Sealed
<1>2. SamePoll(r)
  BY DEF SamePoll, Verdict, ThresholdOutcome
<1>3. CommitClosed(r) => CommitClosed(r)'
  BY ClosedCommitsStayClosed DEF Types
<1>4. \A j \in Seats : seat'[r][j].status \notin {"COMMITTED", "REVEALED"}
                         => seat'[r][j].ballot = NoOutcome
  BY DEF Sealed
<1> QED BY <1>1, <1>2, <1>3, <1>4 DEF Keeps, PollMoves, Rests, Sealed

\* The owner's and the keeper's calls about a seat that has not voted yet.
LEMMA SeatIsPrepared ==
    ASSUME Types, SealInv, NEW r \in Rounds, NEW k \in Seats,
           \/ r = 1 /\ (AcceptJurySeat(k) \/ DeclineJurySeat(k) \/ ReplaceDeclinedSeat(k))
           \/ BindJurySeatEvidence(r, k) \/ ApproveRun(r, k)
    PROVE  Keeps(r)
<1>0. Sealed(r) /\ SeatMoves(r, k) /\ tally[r] \in TallyRecords /\ seat[r][k] \in SeatRecords
  BY SeatStepsMove DEF SealInv, Types
<1>1. \A j \in Seats : j # k => seat'[r][j] = seat[r][j]
  BY <1>0 DEF SeatMoves
<1>2. CASE r = 1 /\ (AcceptJurySeat(k) \/ DeclineJurySeat(k) \/ ReplaceDeclinedSeat(k))
  <2>1. now' = now /\ tally' = tally
    BY <1>2 DEF AcceptJurySeat, DeclineJurySeat, ReplaceDeclinedSeat, clock
  <2>2. seat[r][k].status \in {"OFFERED", "DECLINED"}
    BY <1>2 DEF AcceptJurySeat, DeclineJurySeat, ReplaceDeclinedSeat
  <2>3. seat[r][k].ballot = NoOutcome
    BY <1>0, <2>2 DEF Sealed
  <2>4. CASE ReplaceDeclinedSeat(k)
    <3>1. seat'[r][k].ballot = NoOutcome
      BY <1>2, <2>4 DEF ReplaceDeclinedSeat, NewSeat, Types, SeatBook
    <3> QED BY <1>0, <1>1, <2>1, <2>2, <3>1, NoBallotMoves
  <2>5. CASE AcceptJurySeat(k) \/ DeclineJurySeat(k)
    <3>1. PICK x \in {"ACCEPTED", "DECLINED"} : seat' = [seat EXCEPT ![1][k].status = x]
      BY <2>5 DEF AcceptJurySeat, DeclineJurySeat
    <3>2. seat'[r][k].ballot = seat[r][k].ballot
      BY <1>0, <1>2, <3>1 DEF Types, SeatBook, SeatRecords
    <3> QED BY <1>0, <1>1, <2>1, <2>2, <2>3, <3>2, NoBallotMoves
  <2> QED BY <1>2, <2>4, <2>5
<1>3. CASE BindJurySeatEvidence(r, k)
  <2>1. now' = now /\ seat' = [seat EXCEPT ![r][k].bound = TRUE]
        /\ tally' = [tally EXCEPT ![r].root = TRUE]
    BY <1>3 DEF BindJurySeatEvidence, clock
  <2>2. seat'[r][k].ballot = seat[r][k].ballot /\ seat'[r][k].status = seat[r][k].status
    BY <1>0, <2>1 DEF Types, SeatBook, SeatRecords
  <2>3. /\ tally'[r].revealed = tally[r].revealed /\ tally'[r].votes = tally[r].votes
        /\ tally'[r].closed = tally[r].closed /\ tally'[r].committed = tally[r].committed
    BY <1>0, <2>1 DEF Types, TallyBook, TallyRecords
  <2> QED BY <1>0, <1>1, <2>1, <2>2, <2>3, NoBallotMoves
<1>4. CASE ApproveRun(r, k)
  <2>1. now' = now /\ seat' = [seat EXCEPT ![r][k].approved = TRUE] /\ tally' = tally
    BY <1>4 DEF ApproveRun, clock
  <2>2. seat'[r][k].ballot = seat[r][k].ballot /\ seat'[r][k].status = seat[r][k].status
    BY <1>0, <2>1 DEF Types, SeatBook, SeatRecords
  <2> QED BY <1>0, <1>1, <2>1, <2>2, NoBallotMoves
<1> QED BY <1>2, <1>3, <1>4

\* A commitment casts a ballot before any is opened: while commits are open no seat has
\* revealed (jury::commit_vote, jury::reveal_vote).
LEMMA CommitCasts ==
    ASSUME Types, SealInv, NEW r \in Rounds, NEW k \in Seats, NEW o \in Outcomes, CommitVote(r, k, o)
    PROVE  Keeps(r)
<1>1. Sealed(r) /\ SeatMoves(r, k) /\ tally[r] \in TallyRecords
  BY SeatStepsMove DEF SealInv, Types
<1>2. /\ seat[r][k].status = "ACCEPTED" /\ ~tally[r].closed
      /\ now <= CommitDeadline(r) /\ tally[r].committed < Cardinality(Seats)
      /\ now' = now
      /\ tally' = [tally EXCEPT ![r].committed = @ + 1]
  BY DEF CommitVote, clock
<1>3. Cardinality(Seats) \in Nat /\ tally[r].committed \in Nat /\ CommitDeadline(r) \in Nat /\ now \in Nat
  BY <1>1, SeatsAssumption, FS_CardinalityType, DeadlineAssumption DEF TallyRecords, CommitDeadline, Types
<1>4. ~CommitClosed(r)
  BY <1>2, <1>3 DEF CommitClosed, AllCommitted
<1>5. tally[r].revealed = {} /\ seat[r][k].ballot = NoOutcome
  BY <1>1, <1>2, <1>4 DEF Sealed
<1>6. seat'[r][k].status = "COMMITTED" /\ seat'[r][k].ballot = o
  BY DEF CommitVote, Types, SeatBook
<1>7. /\ tally'[r].revealed = tally[r].revealed /\ tally'[r].votes = tally[r].votes
      /\ tally'[r].closed = tally[r].closed
  BY <1>1, <1>2 DEF Types, TallyBook, TallyRecords
<1>8. \A j \in Seats : j # k => seat'[r][j] = seat[r][j]
  BY <1>1 DEF SeatMoves
<1>9. SamePoll(r)
  BY <1>7 DEF SamePoll, Verdict, ThresholdOutcome
<1>10. Casts(r, k, o)
  BY <1>2, <1>5, <1>6, <1>8, <1>9 DEF Casts
<1>11. Sealed(r)'
  BY <1>1, <1>5, <1>6, <1>7, <1>8 DEF Sealed
<1> QED BY <1>10, <1>11 DEF Keeps, PollMoves

\* A reveal opens the ballot that was cast, and only after the commits have closed.
LEMMA RevealOpens ==
    ASSUME Types, SealInv, NEW r \in Rounds, NEW k \in Seats, NEW o \in Outcomes, RevealVote(r, k, o)
    PROVE  Keeps(r)
<1>1. Sealed(r) /\ SeatMoves(r, k) /\ tally[r] \in TallyRecords /\ seat[r][k] \in SeatRecords
  BY SeatStepsMove DEF SealInv, Types
<1>2. /\ seat[r][k].status = "COMMITTED" /\ o = seat[r][k].ballot /\ CommitClosed(r)
      /\ ~tally[r].closed /\ k \notin tally[r].revealed /\ now' = now
      /\ seat' = [seat EXCEPT ![r][k].status = "REVEALED"]
      /\ tally' = [tally EXCEPT ![r] = RecordReveal(tally[r], k, o)]
  BY DEF RevealVote, clock
<1>3. tally'[r] = RecordReveal(tally[r], k, o)
  BY <1>2 DEF Types, TallyBook
<1>4. /\ tally'[r].revealed = tally[r].revealed \cup {k}
      /\ tally'[r].closed = tally[r].closed /\ tally'[r].committed = tally[r].committed
  BY <1>1, <1>3 DEF RecordReveal, TallyRecords
<1>5. seat'[r][k].status = "REVEALED" /\ seat'[r][k].ballot = seat[r][k].ballot
  BY <1>1, <1>2 DEF Types, SeatBook, SeatRecords
<1>6. \A j \in Seats : j # k => seat'[r][j] = seat[r][j]
  BY <1>1 DEF SeatMoves
<1>7. Verdict(r)' = Verdict(r)
  BY <1>2, <1>4 DEF Verdict
<1>8. seat[r][k].ballot # NoOutcome
  BY <1>2 DEF Outcomes, NoOutcome
<1>9. Opens(r, k)
  BY <1>2, <1>4, <1>5, <1>6, <1>7, <1>8 DEF Opens, SameBallots
<1>10. CommitClosed(r)'
  BY <1>2, <1>4, ClosedCommitsStayClosed DEF Types
<1>11. Sealed(r)'
  BY <1>1, <1>5, <1>6, <1>10 DEF Sealed
<1> QED BY <1>9, <1>11 DEF Keeps, PollMoves

\* Dealing the seats of a round that is untouched leaves its poll as empty as it was.
LEMMA DealRests ==
    ASSUME Types, NEW d \in Rounds, NEW s, Deals(d, s), s.ballot = NoOutcome, Untouched(d)
    PROVE  Keeps(d)
<1>1. \A k \in Seats : seat[d][k].ballot = NoOutcome /\ seat'[d][k].ballot = NoOutcome
  BY DEF Deals, Untouched, NoSeat, Types, SeatBook
<1>2. tally[d] = NoTally /\ tally'[d] = NewTally
  BY DEF Deals, Untouched, Types, TallyBook
<1>3. /\ NewTally.revealed = NoTally.revealed /\ NoTally.revealed = {}
      /\ ~NoTally.closed /\ ~NewTally.closed
  BY DEF NewTally, NoTally
<1>4. SamePoll(d)
  BY <1>2, <1>3 DEF SamePoll, Verdict
<1> QED BY <1>1, <1>2, <1>3, <1>4 DEF Keeps, PollMoves, Rests, SameBallots, Sealed

\* The close of a round decides its poll, once.
LEMMA CloseDecides ==
    ASSUME Types, SealInv, NEW r \in Rounds, Closings(r), now \in Nat, now' \in Nat, now <= now'
    PROVE  Keeps(r)
<1>1. Sealed(r) /\ tally[r] \in TallyRecords
  BY DEF SealInv, Types
<1>2. ~tally[r].closed /\ seat' = seat /\ tally' = [tally EXCEPT ![r].closed = TRUE]
  BY DEF Closings
<1>3. /\ tally'[r].revealed = tally[r].revealed /\ tally'[r].votes = tally[r].votes
      /\ tally'[r].closed /\ tally'[r].committed = tally[r].committed
  BY <1>1, <1>2 DEF Types, TallyBook, TallyRecords
<1>4. Verdict(r)' = ThresholdOutcome(tally[r])
  BY <1>3 DEF Verdict, ThresholdOutcome
<1>5. Closes(r)
  BY <1>2, <1>3, <1>4 DEF Closes, SameBallots
<1>6. CommitClosed(r) => CommitClosed(r)'
  BY <1>3, ClosedCommitsStayClosed
<1>7. Sealed(r)'
  BY <1>1, <1>2, <1>3, <1>6 DEF Sealed
<1> QED BY <1>5, <1>7 DEF Keeps, PollMoves

-----------------------------------------------------------------------------
(* Every step, and the refinement                                          *)

\* To each round every step is a cast, an opening, the close or nothing.
LEMMA EveryRoundKeeps ==
    ASSUME OrderInv, SealInv, [Next]_vars, NEW r \in Rounds
    PROVE  Keeps(r)
<1>1. TypeInv /\ PhaseInv /\ Types /\ Sealed(r)
  BY TypesOfRounds DEF OrderInv, VoteInv, SealInv
<1>2. now \in Nat /\ now' \in Nat /\ now <= now'
  BY <1>1, ClockAdvances
<1>3. CASE Elsewhere
  BY <1>1, <1>2, <1>3, ElsewhereStays, LeftAlone
<1>4. ASSUME NEW q \in Rounds, NEW k \in Seats, SeatMoves(q, k), q # r PROVE Keeps(r)
  BY <1>1, <1>2, <1>4, LeftAlone DEF SeatMoves
<1>5. ASSUME NEW q \in Rounds, NEW k \in Seats,
             \/ q = 1 /\ (AcceptJurySeat(k) \/ DeclineJurySeat(k) \/ ReplaceDeclinedSeat(k))
             \/ BindJurySeatEvidence(q, k) \/ ApproveRun(q, k)
             \/ \E o \in Outcomes : CommitVote(q, k, o) \/ RevealVote(q, k, o)
      PROVE  Keeps(r)
  <2>1. CASE q = r
    BY <1>1, <1>5, <2>1, SeatIsPrepared, CommitCasts, RevealOpens
  <2>2. CASE q # r
    BY <1>1, <1>4, <1>5, <2>2, SeatStepsMove
  <2> QED BY <2>1, <2>2
<1>6. ASSUME NEW d \in Rounds, NEW s, Deals(d, s), s.ballot = NoOutcome, state \in Before(d)
      PROVE  Keeps(r)
  <2>1. CASE d = r
    BY <1>1, <1>6, <2>1, DealRests DEF PhaseInv
  <2>2. CASE d # r
    <3>1. tally'[r] = tally[r] /\ \A k \in Seats : seat'[r][k] = seat[r][k]
      BY <1>1, <1>6, <2>2 DEF Deals, Types, TallyBook, SeatBook
    <3> QED BY <1>1, <1>2, <3>1, LeftAlone
  <2> QED BY <2>1, <2>2
<1>7. CASE Dealings
  <2>1. /\ NewSeat("OFFERED", FALSE).ballot = NoOutcome
        /\ NewSeat("ACCEPTED", FALSE).ballot = NoOutcome
        /\ "REVIEW_REQUESTED" \in Before(1) /\ "DISCUSSION" \in Before(2)
    BY DEF NewSeat, Before
  <2> QED BY <1>1, <1>6, <1>7, <2>1 DEF Dealings, Types
<1>8. ASSUME NEW q \in Rounds, Closings(q) PROVE Keeps(r)
  <2>1. CASE q = r
    BY <1>1, <1>2, <1>8, <2>1, CloseDecides
  <2>2. CASE q # r
    <3>1. tally'[r] = tally[r] /\ \A k \in Seats : seat'[r][k] = seat[r][k]
      BY <1>1, <1>8, <2>2 DEF Closings, Types, TallyBook
    <3> QED BY <1>1, <1>2, <3>1, LeftAlone
  <2> QED BY <2>1, <2>2
<1> QED BY <1>1, <1>3, <1>5, <1>7, <1>8, StepsByKind, DealsAndClosings DEF Types

\* The seal holds in every state.
SealedOrder == OrderInv /\ SealInv

\* The seal is invariant.
LEMMA SealedInvariant == Spec => []SealedOrder
<1>1. Init => SealInv
  BY DEF Init, SealInv, Sealed, NoTally, NoSeat
<1>2. OrderInv /\ SealInv /\ [Next]_vars => SealInv'
  BY EveryRoundKeeps DEF SealInv, Keeps
<1>3. SealedOrder <=> OrderInv /\ SealInv
  BY DEF SealedOrder
<1> QED BY <1>1, <1>2, <1>3, OrderInvariant, PTL DEF Spec

\* The opened backers of the sealed ballot are the voters of the jury.
LEMMA BackersAreVoters ==
    ASSUME OrderInv, NEW r \in Rounds, NEW o \in Outcomes
    PROVE  Voters(r, o) = {k \in tally[r].revealed : [j \in Seats |-> seat[r][j].ballot][k] = o}
BY DEF OrderInv, VoteInv, CountsAgree, RevealedSeats, Voters

\* What closes a round is what the opened ballots say.
LEMMA CloseCounts ==
    ASSUME OrderInv, NEW r \in Rounds
    PROVE  \/ \E o \in Outcomes : Cardinality(Voters(r, o)) >= Threshold /\ ThresholdOutcome(tally[r]) = o
           \/ /\ \A o \in Outcomes : Cardinality(Voters(r, o)) < Threshold
              /\ ThresholdOutcome(tally[r]) = NoOutcome
<1> DEFINE found == ThresholdOutcome(tally[r])
           backed == {o \in Outcomes : Cardinality(Voters(r, o)) >= Threshold}
<1>1. backed = IF found = NoOutcome THEN {} ELSE {found}
  BY OutcomeFound DEF OrderInv, VoteInv
<1>2. \A o \in Outcomes : Cardinality(Voters(r, o)) \in Nat /\ Threshold \in Nat
  BY VotersFinite, ThresholdAssumption
<1>3. CASE found = NoOutcome
  <2>1. \A o \in Outcomes : ~(Cardinality(Voters(r, o)) >= Threshold)
    BY <1>1, <1>3
  <2> QED BY <1>2, <1>3, <2>1
<1>4. CASE found # NoOutcome
  BY <1>1, <1>4
<1> QED BY <1>3, <1>4

\* The first round of the jury is a sealed ballot: no vote is cast after one was opened,
\* none is altered, and the poll closes once, with what the opened ballots say
\* (jury::commit_vote, reveal_vote, open_discussion, settlement::finalize_claim).
THEOREM FirstRoundSealed == Spec => FirstRoundIsSealed
<1> DEFINE ballots == [k \in Seats |-> seat[1][k].ballot]
<1>1. Init => FirstRound!BallotInit
  BY DEF Init, FirstRound!BallotInit, Verdict, NoTally, NoSeat, Rounds
<1>2. SealedOrder /\ [Next]_vars => [FirstRound!BallotNext]_(FirstRound!ballotVars)
  <2> SUFFICES ASSUME SealedOrder, [Next]_vars
               PROVE  [FirstRound!BallotNext]_(FirstRound!ballotVars)
    OBVIOUS
  <2>1. OrderInv /\ 1 \in Rounds /\ PollMoves(1)
    BY EveryRoundKeeps DEF SealedOrder, Rounds, Keeps
  <2>2. ~tally[1].closed => Verdict(1) = "OPEN"
    BY DEF Verdict
  <2>3. SameBallots(1) => ballots' = ballots
    BY DEF SameBallots
  <2>4. CASE Rests(1)
    BY <2>3, <2>4 DEF Rests, SamePoll, FirstRound!ballotVars
  <2>5. ASSUME NEW k \in Seats, NEW o \in Outcomes, Casts(1, k, o) PROVE FirstRound!Cast(k, o)
    <3>1. ballots' = [ballots EXCEPT ![k] = o]
      BY <2>5 DEF Casts
    <3> QED BY <2>2, <2>5, <3>1 DEF Casts, SamePoll, FirstRound!Cast
  <2>6. ASSUME NEW k \in Seats, Opens(1, k) PROVE FirstRound!Open(k)
    BY <2>2, <2>3, <2>6 DEF Opens, FirstRound!Open
  <2>7. CASE Closes(1)
    <3>1. \A o \in Outcomes : FirstRound!Backers(o) = Voters(1, o)
      BY <2>1, BackersAreVoters DEF FirstRound!Backers
    <3>2. ASSUME NEW S PROVE FirstRound!Cardinality(S) = Cardinality(S)
      BY DEF FirstRound!Cardinality, Cardinality
    <3>3. \A o \in Outcomes : FirstRound!Cardinality(FirstRound!Backers(o)) = Cardinality(Voters(1, o))
      BY <3>1, <3>2
    <3>4. \/ \E o \in Outcomes : Cardinality(Voters(1, o)) >= Threshold /\ Verdict(1)' = o
          \/ /\ \A o \in Outcomes : Cardinality(Voters(1, o)) < Threshold
             /\ Verdict(1)' = NoOutcome
      BY <2>1, <2>7, CloseCounts DEF Closes
    <3>5. FirstRound!Close
      BY <2>2, <2>3, <2>7, <3>3, <3>4 DEF Closes, FirstRound!Close
    <3> QED BY <3>5 DEF FirstRound!BallotNext
  <2> QED BY <2>1, <2>4, <2>5, <2>6, <2>7 DEF PollMoves, FirstRound!BallotNext
<1> QED BY <1>1, <1>2, SealedInvariant, PTL DEF Spec, FirstRoundIsSealed, FirstRound!BallotSpec

\* So is the second round, whose seats are dealt while the first is closed
\* (jury::create_second_round_seats, settlement::finalize_claim).
THEOREM SecondRoundSealed == Spec => SecondRoundIsSealed
<1> DEFINE ballots == [k \in Seats |-> seat[2][k].ballot]
<1>1. Init => SecondRound!BallotInit
  BY DEF Init, SecondRound!BallotInit, Verdict, NoTally, NoSeat, Rounds
<1>2. SealedOrder /\ [Next]_vars => [SecondRound!BallotNext]_(SecondRound!ballotVars)
  <2> SUFFICES ASSUME SealedOrder, [Next]_vars
               PROVE  [SecondRound!BallotNext]_(SecondRound!ballotVars)
    OBVIOUS
  <2>1. OrderInv /\ 2 \in Rounds /\ PollMoves(2)
    BY EveryRoundKeeps DEF SealedOrder, Rounds, Keeps
  <2>2. ~tally[2].closed => Verdict(2) = "OPEN"
    BY DEF Verdict
  <2>3. SameBallots(2) => ballots' = ballots
    BY DEF SameBallots
  <2>4. CASE Rests(2)
    BY <2>3, <2>4 DEF Rests, SamePoll, SecondRound!ballotVars
  <2>5. ASSUME NEW k \in Seats, NEW o \in Outcomes, Casts(2, k, o) PROVE SecondRound!Cast(k, o)
    <3>1. ballots' = [ballots EXCEPT ![k] = o]
      BY <2>5 DEF Casts
    <3> QED BY <2>2, <2>5, <3>1 DEF Casts, SamePoll, SecondRound!Cast
  <2>6. ASSUME NEW k \in Seats, Opens(2, k) PROVE SecondRound!Open(k)
    BY <2>2, <2>3, <2>6 DEF Opens, SecondRound!Open
  <2>7. CASE Closes(2)
    <3>1. \A o \in Outcomes : SecondRound!Backers(o) = Voters(2, o)
      BY <2>1, BackersAreVoters DEF SecondRound!Backers
    <3>2. ASSUME NEW S PROVE SecondRound!Cardinality(S) = Cardinality(S)
      BY DEF SecondRound!Cardinality, Cardinality
    <3>3. \A o \in Outcomes : SecondRound!Cardinality(SecondRound!Backers(o)) = Cardinality(Voters(2, o))
      BY <3>1, <3>2
    <3>4. \/ \E o \in Outcomes : Cardinality(Voters(2, o)) >= Threshold /\ Verdict(2)' = o
          \/ /\ \A o \in Outcomes : Cardinality(Voters(2, o)) < Threshold
             /\ Verdict(2)' = NoOutcome
      BY <2>1, <2>7, CloseCounts DEF Closes
    <3>5. SecondRound!Close
      BY <2>2, <2>3, <2>7, <3>3, <3>4 DEF Closes, SecondRound!Close
    <3> QED BY <3>5 DEF SecondRound!BallotNext
  <2> QED BY <2>1, <2>4, <2>5, <2>6, <2>7 DEF PollMoves, SecondRound!BallotNext
<1> QED BY <1>1, <1>2, SealedInvariant, PTL DEF Spec, SecondRoundIsSealed, SecondRound!BallotSpec

-----------------------------------------------------------------------------
(* Proofs, for every committee, ladder of deadlines, budget and bond, of   *)
(* how a claim ends: the bonds follow the verdict, and the dead ends in    *)
(* which no call can decide a claim any more are really dead.              *)

(* Steps that move the claim's state                                       *)

\* The calls that assign Claim.state.
StateCall ==
    \/ StartDirectReview \/ StartChallengedReview \/ CancelClaim
    \/ \E o \in Outcomes, amount \in BondAmounts : ProposeOutcome(o, amount)
    \/ \E amount \in BondAmounts : ChallengeOutcome(amount)
    \/ SelectCommittee \/ (\E r \in Rounds : AdvancePhase(r))
    \/ OpenDiscussion \/ CreateSecondRoundSeats
    \/ FinalizeUnchallenged \/ (\E r \in Rounds : FinalizeClaim(r))

\* Every other step leaves the state alone, and before the verdict the vault too.
LEMMA OtherCalls ==
    ASSUME [Next]_vars, ~StateCall
    PROVE  state' = state /\ (~Terminal => vault' = vault)
<1> USE DEF moneyVars, claimVars, panelVars, clock
<1>1. CASE WithdrawPayout
  BY <1>1 DEF WithdrawPayout, Redeem
<1>2. CASE EnvironmentStep \/ UNCHANGED vars
  BY <1>2 DEF EnvironmentStep, vars, Tick, SetPaused, RetentionLapses
<1>3. CASE SeatStep
  <2>1. CASE \E k \in Seats : AcceptJurySeat(k) \/ DeclineJurySeat(k)
    BY <2>1 DEF AcceptJurySeat, DeclineJurySeat
  <2>2. CASE \E r \in Rounds, k \in Seats : BindJurySeatEvidence(r, k)
    BY <2>2 DEF BindJurySeatEvidence
  <2>3. CASE \E r \in Rounds, k \in Seats, o \in Outcomes : CommitVote(r, k, o) \/ RevealVote(r, k, o)
    BY <2>3 DEF CommitVote, RevealVote
  <2> QED BY <1>3, <2>1, <2>2, <2>3 DEF SeatStep
<1>4. CASE LockCommittee \/ \E k \in Seats : ReplaceDeclinedSeat(k)
  BY <1>4 DEF LockCommittee, ReplaceDeclinedSeat
<1>5. CASE \E r \in Rounds : FreezeEvidence(r) \/ \E k \in Seats : ApproveRun(r, k)
  BY <1>5 DEF FreezeEvidence, ApproveRun
<1> QED BY <1>1, <1>2, <1>3, <1>4, <1>5 DEF Next, PartyStep, KeeperStep, StateCall

-----------------------------------------------------------------------------
(* The bonds                                                               *)

\* A proposer's bond is there from the proposal on, a challenger's from the challenge on,
\* and a claim that reaches a jury has both or none.
BondInv ==
    /\ state \in {"CREATED", "PROPOSED"} => vault.challenger = 0
    /\ state = "CREATED" => vault.proposer = 0
    /\ ~Terminal /\ state # "PROPOSED" /\ vault.challenger = 0 => vault.proposer = 0

\* Every step keeps the bonds in order.
LEMMA BondStep ==
    ASSUME TypeInv, BondInv, [Next]_vars
    PROVE  BondInv'
<1> USE DEF moneyVars, claimVars, panelVars, clock
<1>0. vault \in VaultRecords
  BY DEF TypeInv, TypeOK
<1>1. CASE ~StateCall
  BY <1>1, OtherCalls DEF BondInv, Terminal, TerminalStates
<1>2. CASE StartDirectReview \/ StartChallengedReview \/ SelectCommittee
  BY <1>2 DEF StartDirectReview, StartChallengedReview, SelectCommittee, BondInv, Terminal, TerminalStates
<1>3. CASE (\E r \in Rounds : AdvancePhase(r)) \/ OpenDiscussion \/ CreateSecondRoundSeats
  BY <1>3 DEF AdvancePhase, OpenDiscussion, CreateSecondRoundSeats, BondInv, Terminal, TerminalStates
<1>4. CASE CancelClaim \/ FinalizeUnchallenged \/ \E r \in Rounds : FinalizeClaim(r)
  <2>1. state' \in TerminalStates
    BY <1>4 DEF CancelClaim, FinalizeUnchallenged, FinalizeClaim, TerminalState, TerminalStates
  <2> QED BY <2>1 DEF BondInv, Terminal, TerminalStates
<1>5. ASSUME NEW o \in Outcomes, NEW amount \in BondAmounts, ProposeOutcome(o, amount) PROVE BondInv'
  <2>1. state = "CREATED" /\ state' = "PROPOSED" /\ vault' = [vault EXCEPT !.proposer = @ + amount]
    BY <1>5 DEF ProposeOutcome
  <2>2. vault'.challenger = vault.challenger
    BY <1>0, <2>1 DEF VaultRecords
  <2> QED BY <2>1, <2>2 DEF BondInv
<1>6. ASSUME NEW amount \in BondAmounts, ChallengeOutcome(amount) PROVE BondInv'
  <2>1. state' = "CHALLENGED" /\ vault' = [vault EXCEPT !.challenger = @ + amount]
        /\ amount \in Nat /\ amount > 0 /\ vault.challenger \in Nat
    BY <1>0, <1>6, BondsAssumption DEF ChallengeOutcome, VaultRecords
  <2>2. vault'.challenger = vault.challenger + amount
    BY <1>0, <2>1 DEF VaultRecords
  <2>3. vault'.challenger # 0
    BY <2>1, <2>2
  <2> QED BY <2>1, <2>3 DEF BondInv
<1> QED BY <1>1, <1>2, <1>3, <1>4, <1>5, <1>6 DEF StateCall

\* The step that decides a claim shares the bonds out by the verdict it certifies.
LEMMA VerdictSharesBonds ==
    ASSUME TypeInv, BondInv, [Next]_vars, ~Terminal, Terminal', state' # "CANCELLED"
    PROVE  LET result == certificate'.result
               bonds  == vault.proposer + vault.challenger
           IN IF result = "UNRESOLVED" \/ vault.challenger = 0
              THEN tickets'.proposer = vault.proposer /\ tickets'.challenger = vault.challenger
              ELSE IF result = proposal
                   THEN tickets'.proposer = bonds /\ tickets'.challenger = 0
                   ELSE tickets'.proposer = 0 /\ tickets'.challenger = bonds
<1>0. vault \in VaultRecords /\ vault.proposer \in Nat /\ vault.challenger \in Nat
  BY DEF TypeInv, TypeOK, VaultRecords
<1>1. StateCall
  BY OtherCalls DEF Terminal
<1>2. FinalizeUnchallenged \/ \E r \in Rounds : FinalizeClaim(r)
  BY <1>1 DEF StateCall, StartDirectReview, StartChallengedReview, CancelClaim, ProposeOutcome,
     ChallengeOutcome, SelectCommittee, AdvancePhase, OpenDiscussion, CreateSecondRoundSeats,
     Terminal, TerminalStates
<1>3. CASE FinalizeUnchallenged
  <2>1. state = "PROPOSED" /\ tickets' = UnchallengedTickets
    BY <1>3 DEF FinalizeUnchallenged
  <2>2. vault.challenger = 0
    BY <2>1 DEF BondInv
  <2>3. tickets'.proposer = vault.proposer /\ tickets'.challenger = 0
    BY <2>1 DEF UnchallengedTickets, NoTickets
  <2> QED BY <2>2, <2>3
<1>4. ASSUME NEW r \in Rounds, FinalizeClaim(r)
      PROVE  LET result == certificate'.result
                 bonds  == vault.proposer + vault.challenger
             IN IF result = "UNRESOLVED" \/ vault.challenger = 0
                THEN tickets'.proposer = vault.proposer /\ tickets'.challenger = vault.challenger
                ELSE IF result = proposal
                     THEN tickets'.proposer = bonds /\ tickets'.challenger = 0
                     ELSE tickets'.proposer = 0 /\ tickets'.challenger = bonds
  <2> DEFINE result == ReviewResult(r)
  <2>1. state \in {"REVEAL_1", "REVEAL_2"} /\ certificate'.result = result
        /\ tickets' = ReviewedTickets(r, result)
    BY <1>4 DEF FinalizeClaim
  <2>2. tickets'.proposer = ProposerShare(result) /\ tickets'.challenger = ChallengerShare(result)
    BY <2>1 DEF ReviewedTickets
  <2>3. vault.challenger = 0 => vault.proposer = 0
    BY <2>1 DEF BondInv
  <2> HIDE DEF result
  <2> QED BY <1>0, <2>1, <2>2, <2>3 DEF ProposerShare, ChallengerShare, Challenged
<1> QED BY <1>2, <1>3, <1>4

\* The bonds follow the verdict: home to both parties when nothing is resolved or nobody
\* challenged, both to the proposer when the jury confirms the proposal and both to the
\* challenger otherwise (settlement::create_reviewed_payouts, create_unchallenged_payouts).
THEOREM BondsAreShared == Spec => BondsFollowVerdict
<1>1. Init => BondInv
  BY DEF Init, InitialStates, NewVault, BondInv
<1>2. TypeInv /\ BondInv /\ [Next]_vars => BondInv'
  BY BondStep
<1>3. TypeInv /\ BondInv /\ [Next]_vars =>
        (~Terminal /\ Terminal' /\ state' # "CANCELLED" =>
          LET result == certificate'.result
              bonds  == vault.proposer + vault.challenger
          IN IF result = "UNRESOLVED" \/ vault.challenger = 0
             THEN tickets'.proposer = vault.proposer /\ tickets'.challenger = vault.challenger
             ELSE IF result = proposal
                  THEN tickets'.proposer = bonds /\ tickets'.challenger = 0
                  ELSE tickets'.proposer = 0 /\ tickets'.challenger = bonds)
  BY VerdictSharesBonds
<1> QED BY <1>1, <1>2, <1>3, TypeInvariant, PTL DEF Spec, BondsFollowVerdict

-----------------------------------------------------------------------------
(* The dead ends                                                           *)

\* Only the draw and the lock move the lock, and a lapsed bundle stays lapsed.
LEMMA LockAndEvidence ==
    ASSUME TypeInv, [Next]_vars
    PROVE  /\ committee'.locked = committee.locked \/ LockCommittee \/ SelectCommittee
           /\ \A r \in Rounds : evidence[r] = "lapsed" => evidence'[r] = "lapsed"
           /\ evidence[2] = "none" => evidence'[2] = "none" \/ CanFreezeEvidence(2)
           /\ mode' = mode
<1> USE DEF moneyVars, claimVars, panelVars, clock
<1>0. evidence \in [Rounds -> {"none", "linked", "lapsed"}] /\ 2 \in Rounds
      /\ committee \in CommitteeRecords
  BY DEF TypeInv, TypeOK, Rounds
<1> DEFINE Kept == committee' = committee /\ evidence' = evidence /\ mode' = mode
<1>1. CASE PartyStep \/ WithdrawPayout
  <2>1. Kept
    BY <1>1 DEF PartyStep, WithdrawPayout, Redeem, StartDirectReview, StartChallengedReview,
       CancelClaim, ProposeOutcome, ChallengeOutcome
  <2> QED BY <2>1
<1>2. CASE Tick \/ SetPaused \/ UNCHANGED vars
  BY <1>2 DEF vars, Tick, SetPaused
<1>3. ASSUME NEW r \in Rounds, RetentionLapses(r)
      PROVE  \/ Kept
             \/ /\ evidence' = [evidence EXCEPT ![r] = "lapsed"] /\ evidence[r] = "linked"
                /\ committee' = committee /\ mode' = mode
  BY <1>3 DEF RetentionLapses
<1>4. CASE SeatStep
  <2>1. Kept
    BY <1>4 DEF SeatStep, AcceptJurySeat, DeclineJurySeat, BindJurySeatEvidence, CommitVote, RevealVote
  <2> QED BY <2>1
<1>5. CASE OpenDiscussion \/ CreateSecondRoundSeats \/ FinalizeUnchallenged
           \/ (\E r \in Rounds : AdvancePhase(r) \/ FinalizeClaim(r) \/ \E k \in Seats : ApproveRun(r, k))
  <2>1. Kept
    BY <1>5 DEF AdvancePhase, ApproveRun, OpenDiscussion, CreateSecondRoundSeats,
       FinalizeUnchallenged, FinalizeClaim
  <2> QED BY <2>1
<1>6. CASE SelectCommittee \/ LockCommittee
  BY <1>6 DEF SelectCommittee, LockCommittee
<1>7. CASE \E k \in Seats : ReplaceDeclinedSeat(k)
  BY <1>0, <1>7 DEF ReplaceDeclinedSeat, CommitteeRecords
<1>8. ASSUME NEW r \in Rounds, FreezeEvidence(r)
      PROVE  /\ evidence' = [evidence EXCEPT ![r] = "linked"] /\ evidence[r] = "none"
             /\ CanFreezeEvidence(r) /\ committee' = committee /\ mode' = mode
  BY <1>8 DEF FreezeEvidence, CanFreezeEvidence
<1>9. CASE \E r \in Rounds : RetentionLapses(r)
  BY <1>0, <1>3, <1>9
<1>10. CASE \E r \in Rounds : FreezeEvidence(r)
  BY <1>0, <1>8, <1>10
<1> QED BY <1>1, <1>2, <1>4, <1>5, <1>6, <1>7, <1>9, <1>10 DEF Next, EnvironmentStep, KeeperStep

\* While the first round is revealing, no vote that was counted is lost.
LEMMA CountsGrow ==
    ASSUME OrderInv, [Next]_vars, state = "REVEAL_1", ThresholdOutcome(tally[1]) # NoOutcome
    PROVE  ThresholdOutcome(tally'[1]) # NoOutcome
<1> DEFINE Grown == \A o \in Outcomes : tally'[1].votes[o] \in Nat
                                        /\ tally'[1].votes[o] >= tally[1].votes[o]
<1>0. Types /\ TypeInv /\ 1 \in Rounds /\ Outcomes = {"YES", "NO", "UNSURE"}
      /\ \A o \in Outcomes : tally[1].votes[o] \in Nat
  BY TypesOfRounds DEF OrderInv, VoteInv, Types, TallyRecords, Outcomes
<1>1. ASSUME tally'[1].votes = tally[1].votes PROVE Grown
  BY <1>0, <1>1
<1>2. ASSUME Elsewhere PROVE Grown
  BY <1>1, <1>2, ElsewhereStays
<1>3. ASSUME NEW r \in Rounds, NEW k \in Seats, NEW o \in Outcomes, RevealVote(r, k, o) PROVE Grown
  <2>1. tally' = [tally EXCEPT ![r] = RecordReveal(tally[r], k, o)]
    BY <1>3 DEF RevealVote
  <2>2. CASE r # 1
    BY <1>0, <1>1, <2>1, <2>2 DEF Types, TallyBook
  <2>3. CASE r = 1
    <3>1. tally'[1] = RecordReveal(tally[1], k, o) /\ tally[1] \in TallyRecords
      BY <1>0, <2>1, <2>3 DEF Types, TallyBook
    <3>2. tally'[1].votes = [tally[1].votes EXCEPT ![o] = @ + 1]
      BY <3>1 DEF RecordReveal, TallyRecords
    <3> QED BY <1>0, <3>1, <3>2 DEF TallyRecords
  <2> QED BY <2>2, <2>3
<1>4. ASSUME NEW r \in Rounds, NEW k \in Seats,
             \/ r = 1 /\ (AcceptJurySeat(k) \/ DeclineJurySeat(k) \/ ReplaceDeclinedSeat(k))
             \/ BindJurySeatEvidence(r, k) \/ ApproveRun(r, k)
             \/ \E o \in Outcomes : CommitVote(r, k, o)
      PROVE  Grown
  <2>1. tally'[1].votes = tally[1].votes
    <3>1. CASE tally' = tally
      BY <3>1
    <3>2. CASE tally' = [tally EXCEPT ![r].root = TRUE]
      BY <1>0, <3>2 DEF Types, TallyBook, TallyRecords
    <3>3. CASE tally' = [tally EXCEPT ![r].committed = @ + 1]
      BY <1>0, <3>3 DEF Types, TallyBook, TallyRecords
    <3> QED BY <1>4, <3>1, <3>2, <3>3 DEF AcceptJurySeat, DeclineJurySeat, ReplaceDeclinedSeat,
            BindJurySeatEvidence, ApproveRun, CommitVote
  <2> QED BY <1>1, <2>1
<1>5. ~Dealings
  BY DEF Dealings
<1>6. ASSUME NEW r \in Rounds, Closings(r) PROVE Grown
  <2>1. tally'[1].votes = tally[1].votes
    BY <1>0, <1>6 DEF Closings, Types, TallyBook, TallyRecords
  <2> QED BY <1>1, <2>1
<1> HIDE DEF Grown
<1>7. ASSUME NEW r \in Rounds, NEW k \in Seats,
             \/ r = 1 /\ (AcceptJurySeat(k) \/ DeclineJurySeat(k) \/ ReplaceDeclinedSeat(k))
             \/ BindJurySeatEvidence(r, k) \/ ApproveRun(r, k)
             \/ \E o \in Outcomes : CommitVote(r, k, o) \/ RevealVote(r, k, o)
      PROVE  Grown
  BY <1>3, <1>4, <1>7
<1>8. Grown
  BY <1>0, <1>2, <1>5, <1>6, <1>7, StepsByKind, DealsAndClosings
<1> USE DEF Grown
<1> QED BY <1>0, <1>8, ThresholdAssumption DEF ThresholdOutcome, NoOutcome

\* How a claim's state moves from where it may be stranded, and what the move asks for.
LEMMA MovesOfAnUndecidedClaim ==
    ASSUME TypeInv, [Next]_vars
    PROVE  /\ state = "CREATED" =>
                 \/ state' = "CREATED"
                 \/ mode = "DIRECT" /\ now <= FirstCommitDeadline
                 \/ mode = "OPTIMISTIC" /\ now <= ProposalDeadline
                 \/ now <= ProposalDeadline
           /\ state \in {"CHALLENGED", "REVIEW_REQUESTED"} =>
                 state' \in {"CHALLENGED", "REVIEW_REQUESTED"} \/ now <= FirstCommitDeadline
           /\ state \in {"COMMIT_1", "REVEAL_1", "DISCUSSION"} =>
                 state' \in {"COMMIT_1", "REVEAL_1", "DISCUSSION"} \/ committee.locked
           /\ state = "REVEAL_1" =>
                 \/ state' = "REVEAL_1" \/ evidence[1] = "linked"
                 \/ ThresholdOutcome(tally[1]) = NoOutcome
           /\ state = "DISCUSSION" =>
                 \/ state' = "DISCUSSION"
                 \/ /\ evidence[2] # "none" /\ now <= SecondCommitDeadline /\ committee.locked
                    /\ state' = "COMMIT_2"
           /\ state \in {"DISCUSSION", "COMMIT_2", "REVEAL_2"} =>
                 state' \in {"DISCUSSION", "COMMIT_2", "REVEAL_2"} \/ evidence[2] = "linked"
<1>1. CASE ~StateCall
  BY <1>1, OtherCalls
<1>2. CASE StartDirectReview \/ StartChallengedReview \/ CancelClaim
  BY <1>2 DEF StartDirectReview, StartChallengedReview, CancelClaim
<1>3. CASE (\E o \in Outcomes, amount \in BondAmounts : ProposeOutcome(o, amount))
           \/ \E amount \in BondAmounts : ChallengeOutcome(amount)
  BY <1>3 DEF ProposeOutcome, ChallengeOutcome
<1>4. CASE SelectCommittee \/ OpenDiscussion \/ CreateSecondRoundSeats \/ FinalizeUnchallenged
  BY <1>4 DEF SelectCommittee, OpenDiscussion, CreateSecondRoundSeats, FinalizeUnchallenged
<1>5. ASSUME NEW r \in Rounds, AdvancePhase(r)
      PROVE  \/ state = "COMMIT_1" /\ state' = "REVEAL_1"
             \/ state = "COMMIT_2" /\ state' = "REVEAL_2"
  BY <1>5 DEF AdvancePhase
<1>6. ASSUME NEW r \in Rounds, FinalizeClaim(r)
      PROVE  \/ state = "REVEAL_1" /\ evidence[1] = "linked" /\ committee.locked
             \/ state = "REVEAL_2" /\ evidence[2] = "linked"
  BY <1>6 DEF FinalizeClaim
<1>7. CASE \E r \in Rounds : AdvancePhase(r)
  BY <1>5, <1>7
<1>8. CASE \E r \in Rounds : FinalizeClaim(r)
  BY <1>6, <1>8
<1> QED BY <1>1, <1>2, <1>3, <1>4, <1>7, <1>8 DEF StateCall

\* What is stranded stays so.
LEMMA StrandedStays ==
    ASSUME OrderInv, [Next]_vars, Stranded
    PROVE  Stranded' /\ ~Terminal'
<1>0. /\ TypeInv /\ now \in Nat /\ now' \in Nat /\ now <= now'
      /\ mode \in {"DIRECT", "OPTIMISTIC"} /\ 1 \in Rounds /\ 2 \in Rounds
      /\ mode' = mode
  BY ClockAdvances, LockAndEvidence, ModesAssumption DEF OrderInv, VoteInv, TypeInv, TypeOK, Rounds
<1>1. /\ ProposalDeadline \in Nat /\ FirstCommitDeadline \in Nat /\ DiscussionDeadline \in Nat
      /\ SecondCommitDeadline \in Nat /\ ProposalDeadline < FirstCommitDeadline
      /\ FirstCommitDeadline < DiscussionDeadline
  BY DeadlineAssumption
<1>2. CASE state = "CREATED" /\ now > (IF mode = "DIRECT" THEN FirstCommitDeadline ELSE ProposalDeadline)
  <2>1. state' = "CREATED"
    BY <1>0, <1>1, <1>2, MovesOfAnUndecidedClaim
  <2> QED BY <1>0, <1>1, <1>2, <2>1 DEF Stranded, Terminal, TerminalStates
<1>3. CASE state \in {"CHALLENGED", "REVIEW_REQUESTED"} /\ now > FirstCommitDeadline
  <2>1. state' \in {"CHALLENGED", "REVIEW_REQUESTED"}
    BY <1>0, <1>1, <1>3, MovesOfAnUndecidedClaim
  <2> QED BY <1>0, <1>1, <1>3, <2>1 DEF Stranded, Terminal, TerminalStates
<1>4. CASE state \in {"COMMIT_1", "REVEAL_1", "DISCUSSION"} /\ ~committee.locked /\ now > FirstCommitDeadline
  <2>1. state' \in {"COMMIT_1", "REVEAL_1", "DISCUSSION"}
    BY <1>0, <1>4, MovesOfAnUndecidedClaim
  <2>2. ~LockCommittee /\ ~SelectCommittee
    <3>1. LockCommittee => now <= FirstCommitDeadline
      BY DEF LockCommittee
    <3>2. SelectCommittee => state = "REVIEW_REQUESTED"
      BY DEF SelectCommittee
    <3> QED BY <1>0, <1>1, <1>4, <3>1, <3>2
  <2>3. ~committee'.locked
    BY <1>0, <1>4, <2>2, LockAndEvidence
  <2> QED BY <1>0, <1>1, <1>4, <2>1, <2>3 DEF Stranded, Terminal, TerminalStates
<1>5. CASE state = "REVEAL_1" /\ evidence[1] = "lapsed" /\ ThresholdOutcome(tally[1]) # NoOutcome
  <2>1. state' = "REVEAL_1" /\ evidence'[1] = "lapsed"
    BY <1>0, <1>5, MovesOfAnUndecidedClaim, LockAndEvidence
  <2>2. ThresholdOutcome(tally'[1]) # NoOutcome
    BY <1>5, CountsGrow
  <2>3. ThresholdOutcome(tally[1])' # NoOutcome
    BY <2>2 DEF ThresholdOutcome
  <2> QED BY <2>1, <2>3 DEF Stranded, Terminal, TerminalStates
<1>6. CASE state = "DISCUSSION" /\ evidence[2] = "none" /\ now > DiscussionDeadline
  <2>1. state' = "DISCUSSION"
    BY <1>0, <1>6, MovesOfAnUndecidedClaim
  <2>2. ~CanFreezeEvidence(2)
    BY <1>0, <1>1, <1>6 DEF CanFreezeEvidence
  <2>3. evidence'[2] = "none"
    BY <1>0, <1>6, <2>2, LockAndEvidence
  <2> QED BY <1>0, <1>1, <1>6, <2>1, <2>3 DEF Stranded, Terminal, TerminalStates
<1>7. CASE state = "DISCUSSION" /\ now > SecondCommitDeadline
  <2>1. state' = "DISCUSSION"
    BY <1>0, <1>1, <1>7, MovesOfAnUndecidedClaim
  <2> QED BY <1>0, <1>1, <1>7, <2>1 DEF Stranded, Terminal, TerminalStates
<1>8. CASE state \in {"DISCUSSION", "COMMIT_2", "REVEAL_2"} /\ evidence[2] = "lapsed"
  <2>1. state' \in {"DISCUSSION", "COMMIT_2", "REVEAL_2"} /\ evidence'[2] = "lapsed"
    BY <1>0, <1>8, MovesOfAnUndecidedClaim, LockAndEvidence
  <2> QED BY <2>1 DEF Stranded, Terminal, TerminalStates
<1> QED BY <1>2, <1>3, <1>4, <1>5, <1>6, <1>7, <1>8 DEF Stranded

\* No call of anybody, in any order, leads out of a dead end: the claim is never decided
\* and its money stays where it is (docs/PRD.md item 22: an attempt that lapses).
THEOREM DeadEndsAreDead == Spec => StrandedForever
<1>1. OrderInv /\ [Next]_vars => (Stranded => Stranded' /\ ~Terminal')
  BY StrandedStays
<1> QED BY <1>1, OrderInvariant, PTL DEF Spec, StrandedForever

=============================================================================
