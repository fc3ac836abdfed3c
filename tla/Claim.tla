-------------------------------- MODULE Claim --------------------------------
(***************************************************************************)
(* The on-chain life of one OpenVerdict claim: the shared Claim object     *)
(* (claim.move), the committee, jury seats and round tallies that review   *)
(* it (jury.move), the evidence bundles it links (evidence.move), and the  *)
(* settlement of its verdict and of its money (settlement.move).           *)
(*                                                                         *)
(* Every Move entry function is one atomic transaction and hence one       *)
(* action; an aborting assertion is a conjunct of the action's guard.      *)
(* Transactions of the creator, the bonded parties, the seat owners, the   *)
(* attestor, the evidence service and anybody who turns the crank          *)
(* interleave freely with the clock and with the pause switch.             *)
(*                                                                         *)
(* Abstracted: hashes, blob ids and addresses.  A commitment opens to one  *)
(* preimage only (Blake2b-256 of the BCS preimage), so a sealed ballot is  *)
(* the outcome that it hides.  A bundle is the only one its phase can ever *)
(* link, so an evidence root is "set" or "empty".  The draw and the        *)
(* diversity rule only decide WHO sits: they are left to chance here.      *)
(***************************************************************************)
EXTENDS Integers, FiniteSets

CONSTANTS
    Seats,              \* the expected positions of a committee (COMMITTEE_SIZE of them)
    Threshold,          \* REQUIRED_MATCHING
    ReserveCount,       \* RESERVE_COUNT
    AcceptanceWindow,   \* ACCEPTANCE_WINDOW_MS
    ProposalDeadline, ChallengeDeadline, FirstCommitDeadline,
    FirstRevealDeadline, DiscussionDeadline, SecondCommitDeadline,
    SecondRevealDeadline,
    Modes,              \* the claim modes that are created
    Budgets,            \* the [creation, committee, evidence] budgets paid in at creation
    BondAmounts,        \* what a proposer may stake
    FeeBps,             \* the protocol fee snapshotted at creation
    Instants,           \* the instants at which anything may happen: a bound for TLC
    MayDebate,          \* whether the evidence service ever freezes a debate
    MayPause,           \* whether the pause cap is ever used
    MayLapse            \* whether Walrus retention of a bundle may run out

Rounds == 1 .. 2
Outcomes == {"YES", "NO", "UNSURE"}
NoOutcome == "NONE"
Results == {"YES", "NO", "UNRESOLVED"}

States == {"CREATED", "PROPOSED", "CHALLENGED", "REVIEW_REQUESTED",
           "COMMIT_1", "REVEAL_1", "DISCUSSION", "COMMIT_2", "REVEAL_2",
           "FINALIZED_UNCHALLENGED", "FINALIZED_REVIEWED", "UNRESOLVED", "CANCELLED"}
TerminalStates == {"FINALIZED_UNCHALLENGED", "FINALIZED_REVIEWED", "UNRESOLVED", "CANCELLED"}

SeatStatuses == {"NONE", "OFFERED", "DECLINED", "ACCEPTED", "COMMITTED", "REVEALED"}

ASSUME SeatsAssumption == IsFiniteSet(Seats)
\* Two different outcomes can never both reach the threshold.
ASSUME ThresholdAssumption == Threshold \in Nat /\ 2 * Threshold > Cardinality(Seats)
ASSUME ReserveAssumption == ReserveCount \in Nat /\ AcceptanceWindow \in Nat
\* claim::validate_params
ASSUME DeadlineAssumption ==
    /\ \A d \in {ProposalDeadline, ChallengeDeadline, FirstCommitDeadline, FirstRevealDeadline,
                 DiscussionDeadline, SecondCommitDeadline, SecondRevealDeadline} : d \in Nat
    /\ 0 < ProposalDeadline
    /\ ProposalDeadline < ChallengeDeadline
    /\ ChallengeDeadline < FirstCommitDeadline
    /\ FirstCommitDeadline < FirstRevealDeadline
    /\ FirstRevealDeadline < DiscussionDeadline
    /\ DiscussionDeadline < SecondCommitDeadline
    /\ SecondCommitDeadline < SecondRevealDeadline
ASSUME ModesAssumption == Modes \subseteq {"DIRECT", "OPTIMISTIC"}
ASSUME BudgetsAssumption == Budgets \subseteq [creation : Nat, committee : Nat, evidence : Nat]
ASSUME BondsAssumption == BondAmounts \subseteq Nat \ {0}
\* agent_registry::set_treasury_policy caps the fee at 2000 bps.
ASSUME FeeAssumption == FeeBps \in 0 .. 2000
ASSUME InstantsAssumption == Instants \subseteq Nat
ASSUME SwitchAssumption == MayDebate \in BOOLEAN /\ MayPause \in BOOLEAN /\ MayLapse \in BOOLEAN

VARIABLES
    now,          \* the shared Clock
    paused,       \* Registry.paused
    mode,         \* Claim.claim_mode
    state,        \* Claim.state
    proposal,     \* Claim.proposal, NoOutcome before propose_outcome
    evidence,     \* per round: the linked bundle ("none", "linked" or "lapsed")
    committee,    \* the Committee object
    tally,        \* the RoundTally objects
    seat,         \* the JurySeat objects
    vault,        \* the five balances inside the Claim object
    tickets,      \* the unredeemed PayoutTickets
    certificate   \* the ResolutionCertificate

clock      == <<now, paused>>
claimVars  == <<mode, state, proposal>>
panelVars  == <<committee, tally, seat>>
moneyVars  == <<vault, tickets>>
vars == <<now, paused, mode, state, proposal, evidence, committee, tally, seat,
          vault, tickets, certificate>>

CommitDeadline(r) == IF r = 1 THEN FirstCommitDeadline ELSE SecondCommitDeadline
RevealDeadline(r) == IF r = 1 THEN FirstRevealDeadline ELSE SecondRevealDeadline

Terminal == state \in TerminalStates

-----------------------------------------------------------------------------
(* Records of the Move structs                                             *)

NoSeat == [status |-> "NONE", bound |-> FALSE, approved |-> FALSE, ballot |-> NoOutcome]

\* jury::new_seat: a seat with an empty commitment; "bound" is a non-empty evidence_root.
NewSeat(status, bound) ==
    [status |-> status, bound |-> bound, approved |-> FALSE, ballot |-> NoOutcome]

NoTally == [linked |-> FALSE, root |-> FALSE, committed |-> 0, revealed |-> {},
            votes |-> [o \in Outcomes |-> 0], closed |-> FALSE]

NewTally == [NoTally EXCEPT !.linked = TRUE]

NoCommittee == [selected |-> FALSE, locked |-> FALSE, acceptBy |-> 0, reserves |-> 0]

NoTickets == [fee |-> 0, reward |-> 0, jurors |-> {}, proposer |-> 0, challenger |-> 0,
              creator |-> 0]

NoCertificate == [result |-> NoOutcome, round |-> 0]

-----------------------------------------------------------------------------
(* What the Move code reads off a tally                                    *)

AllCommitted(r) == tally[r].committed = Cardinality(Seats)
AllRevealed(r)  == Cardinality(tally[r].revealed) = Cardinality(Seats)

\* Mutant: one vote too few is enough.
ThresholdOffByOne(t) ==
    IF t.votes["YES"] >= Threshold - 1 THEN "YES"
    ELSE IF t.votes["NO"] >= Threshold - 1 THEN "NO"
    ELSE IF t.votes["UNSURE"] >= Threshold - 1 THEN "UNSURE"
    ELSE NoOutcome

\* jury::threshold_outcome, in the order in which the code tests the counts.
ThresholdOutcome(t) ==
    IF t.votes["YES"] >= Threshold THEN "YES"
    ELSE IF t.votes["NO"] >= Threshold THEN "NO"
    ELSE IF t.votes["UNSURE"] >= Threshold THEN "UNSURE"
    ELSE NoOutcome

\* Mutant: a quorum of commitments already opens the reveals.
CommitClosedByQuorum(r) == now > CommitDeadline(r) \/ tally[r].committed >= Threshold

\* Mutant: the deadline alone no longer closes the commits.
CommitClosedByAll(r) == AllCommitted(r)

CommitClosed(r) == now > CommitDeadline(r) \/ AllCommitted(r)
\* Mutant: the round closes as soon as its outcome is clear.
RevealClosedAtThreshold(r) ==
    now > RevealDeadline(r) \/ ThresholdOutcome(tally[r]) # NoOutcome

RevealClosed(r) == now > RevealDeadline(r) \/ AllRevealed(r)

\* jury::acceptance_deadline
AcceptanceDeadline ==
    IF now + AcceptanceWindow < FirstCommitDeadline THEN now + AcceptanceWindow
    ELSE FirstCommitDeadline

-----------------------------------------------------------------------------
(* Money                                                                   *)

Balance == vault.creation + vault.proposer + vault.challenger + vault.committee + vault.evidence

\* What the unredeemed tickets still entitle their holders to.
Outstanding == tickets.fee + tickets.reward * Cardinality(tickets.jurors)
                 + tickets.proposer + tickets.challenger + tickets.creator

\* Mutant: the evidence budget is left out of the consolidation.
ConsolidatedShort == [creation |-> Balance - vault.evidence, proposer |-> 0, challenger |-> 0,
                      committee |-> 0, evidence |-> 0]

\* claim::consolidate_for_payout: everything moves into the creation budget.
Consolidated == [creation |-> Balance, proposer |-> 0, challenger |-> 0, committee |-> 0,
                 evidence |-> 0]

\* settlement::create_unchallenged_payouts
UnchallengedTickets ==
    [NoTickets EXCEPT !.proposer = vault.proposer, !.creator = Balance - vault.proposer]

ProtocolFee == (vault.committee * FeeBps) \div 10000

\* One seat's share when n seats revealed in the deciding round.
JuryReward(n) == IF n = 0 THEN 0 ELSE (vault.committee - ProtocolFee) \div n

Challenged == vault.challenger > 0   \* claim::challenge_outcome rejects a zero bond

\* Mutant: an unresolved dispute is not told apart from a lost one.
ProposerShareWinnerOnly(result) ==
    IF Challenged /\ result = proposal THEN vault.proposer + vault.challenger ELSE 0

\* settlement::create_reviewed_payouts: the bonds go home on UNRESOLVED and to
\* the vindicated party otherwise; what is left over is the creator's.
ProposerShare(result) ==
    IF result = "UNRESOLVED" THEN vault.proposer
    ELSE IF Challenged /\ result = proposal THEN vault.proposer + vault.challenger ELSE 0

ChallengerShare(result) ==
    IF result = "UNRESOLVED" THEN vault.challenger
    ELSE IF Challenged /\ result # proposal THEN vault.proposer + vault.challenger ELSE 0

ReviewedTickets(r, result) ==
    LET revealed == tally[r].revealed
        reward   == JuryReward(Cardinality(revealed))
        jurors   == IF reward > 0 THEN revealed ELSE {}
    IN [fee        |-> ProtocolFee,
        reward     |-> reward,
        jurors     |-> jurors,
        proposer   |-> ProposerShare(result),
        challenger |-> ChallengerShare(result),
        creator    |-> Balance - ProtocolFee - reward * Cardinality(jurors)
                         - ProposerShare(result) - ChallengerShare(result)]

-----------------------------------------------------------------------------
(* Creation                                                                *)

\* demo_fact_checker::start_fact_check creates a direct claim and requests its
\* review in the same call; claim::create_claim leaves it CREATED.
InitialStates == {"CREATED"} \cup (IF mode = "DIRECT" THEN {"REVIEW_REQUESTED"} ELSE {})

\* claim::new_claim splits the creator's coin into the three budgets.
NewVault(b) == [creation |-> b.creation, proposer |-> 0, challenger |-> 0,
                committee |-> b.committee, evidence |-> b.evidence]

Init ==
    /\ now = 0
    /\ paused = FALSE
    /\ mode \in Modes
    /\ state \in InitialStates
    /\ proposal = NoOutcome
    /\ evidence = [r \in Rounds |-> "none"]
    /\ committee = NoCommittee
    /\ tally = [r \in Rounds |-> NoTally]
    /\ seat = [r \in Rounds |-> [k \in Seats |-> NoSeat]]
    /\ \E b \in Budgets :
         /\ mode = "DIRECT" => b.committee > 0
         /\ vault = NewVault(b)
    /\ tickets = NoTickets
    /\ certificate = NoCertificate

-----------------------------------------------------------------------------
(* The environment: time, the pause switch, storage retention              *)

\* No guard of a terminal claim reads the clock, so it may stop there.
Tick ==
    /\ ~Terminal
    /\ \E t \in Instants :
         /\ now < t /\ \A u \in Instants : now < u => t <= u
         /\ now' = t
    /\ UNCHANGED <<paused, claimVars, evidence, panelVars, moneyVars, certificate>>

\* agent_registry::pause and unpause
SetPaused ==
    /\ MayPause
    /\ paused' = ~paused
    /\ UNCHANGED <<now, claimVars, evidence, panelVars, moneyVars, certificate>>

\* The Sui epoch passes a bundle's walrus_end_epoch.
RetentionLapses(r) ==
    /\ MayLapse
    /\ evidence[r] = "linked"
    /\ evidence' = [evidence EXCEPT ![r] = "lapsed"]
    /\ UNCHANGED <<clock, claimVars, panelVars, moneyVars, certificate>>

-----------------------------------------------------------------------------
(* claim.move                                                              *)

StartDirectReview ==
    /\ ~paused
    /\ mode = "DIRECT" /\ state = "CREATED"
    /\ now <= FirstCommitDeadline
    /\ state' = "REVIEW_REQUESTED"
    /\ UNCHANGED <<clock, mode, proposal, evidence, panelVars, moneyVars, certificate>>

ProposeOutcome(o, amount) ==
    /\ ~paused
    /\ mode = "OPTIMISTIC" /\ state = "CREATED"
    /\ now <= ProposalDeadline
    /\ vault' = [vault EXCEPT !.proposer = @ + amount]
    /\ proposal' = o
    /\ state' = "PROPOSED"
    /\ UNCHANGED <<clock, mode, evidence, panelVars, tickets, certificate>>

ChallengeOutcome(amount) ==
    /\ ~paused
    /\ state = "PROPOSED"
    /\ now <= ChallengeDeadline
    /\ amount = vault.proposer
    /\ vault' = [vault EXCEPT !.challenger = @ + amount]
    /\ state' = "CHALLENGED"
    /\ UNCHANGED <<clock, mode, proposal, evidence, panelVars, tickets, certificate>>

StartChallengedReview ==
    /\ ~paused
    /\ state = "CHALLENGED"
    /\ now <= FirstCommitDeadline
    /\ state' = "REVIEW_REQUESTED"
    /\ UNCHANGED <<clock, mode, proposal, evidence, panelVars, moneyVars, certificate>>

\* jury::phase_readiness makes the receipt that claim::advance_phase consumes in
\* the same transaction: the receipt has no store ability.
AdvancePhase(r) ==
    /\ tally[r].linked /\ ~tally[r].closed
    /\ CommitClosed(r)
    /\ \/ r = 1 /\ state = "COMMIT_1" /\ state' = "REVEAL_1"
       \/ r = 2 /\ state = "COMMIT_2" /\ state' = "REVEAL_2"
    /\ UNCHANGED <<clock, mode, proposal, evidence, panelVars, moneyVars, certificate>>

-----------------------------------------------------------------------------
(* evidence.move                                                           *)

\* claim::assert_can_freeze_evidence
CanFreezeEvidence(r) ==
    /\ \/ r = 1 /\ state \in {"REVIEW_REQUESTED", "COMMIT_1"} /\ now <= FirstCommitDeadline
       \/ r = 2 /\ MayDebate /\ state = "DISCUSSION" /\ now <= DiscussionDeadline
    /\ evidence[r] = "none"

\* The bundle is constructed, linked and frozen in one call.
FreezeEvidence(r) ==
    /\ CanFreezeEvidence(r)
    /\ evidence' = [evidence EXCEPT ![r] = "linked"]
    /\ UNCHANGED <<clock, claimVars, panelVars, moneyVars, certificate>>

-----------------------------------------------------------------------------
(* jury.move: the committee                                                *)

\* jury::create_first_round: the seats are offered with an empty evidence root, even
\* when the bundle is linked already.
DrawnCommittee ==
    [selected |-> TRUE, locked |-> FALSE, acceptBy |-> AcceptanceDeadline,
     reserves |-> ReserveCount]

SelectCommittee ==
    /\ ~paused
    /\ state = "REVIEW_REQUESTED"
    /\ now <= FirstCommitDeadline
    /\ committee' = DrawnCommittee
    /\ tally' = [tally EXCEPT ![1] = NewTally]
    /\ seat' = [seat EXCEPT ![1] = [k \in Seats |-> NewSeat("OFFERED", FALSE)]]
    /\ state' = "COMMIT_1"
    /\ UNCHANGED <<clock, mode, proposal, evidence, moneyVars, certificate>>

AcceptJurySeat(k) ==
    /\ seat[1][k].status = "OFFERED"
    /\ now <= FirstCommitDeadline
    /\ seat' = [seat EXCEPT ![1][k].status = "ACCEPTED"]
    /\ UNCHANGED <<clock, claimVars, evidence, committee, tally, moneyVars, certificate>>

DeclineJurySeat(k) ==
    /\ seat[1][k].status = "OFFERED"
    /\ now <= FirstCommitDeadline
    /\ seat' = [seat EXCEPT ![1][k].status = "DECLINED"]
    /\ UNCHANGED <<clock, claimVars, evidence, committee, tally, moneyVars, certificate>>

\* Mutant: the count of the reserves left is not tested.
ReplaceWithoutReserve(k) ==
    /\ ~committee.locked
    /\ seat[1][k].status = "DECLINED" /\ ~tally[1].closed
    /\ now <= FirstCommitDeadline
    /\ committee' = [committee EXCEPT !.reserves = @ - 1]
    /\ seat' = [seat EXCEPT ![1][k] = NewSeat("OFFERED", tally[1].root)]
    /\ UNCHANGED <<clock, claimVars, evidence, tally, moneyVars, certificate>>

\* Mutant: the lock does not stop replacements.
ReplaceAfterLock(k) ==
    /\ seat[1][k].status = "DECLINED" /\ ~tally[1].closed
    /\ now <= FirstCommitDeadline
    /\ committee.reserves > 0
    /\ committee' = [committee EXCEPT !.reserves = @ - 1]
    /\ seat' = [seat EXCEPT ![1][k] = NewSeat("OFFERED", tally[1].root)]
    /\ UNCHANGED <<clock, claimVars, evidence, tally, moneyVars, certificate>>

\* A reserve takes the declined seat's place; its new seat starts from the root
\* the tally already holds.
ReplaceDeclinedSeat(k) ==
    /\ ~committee.locked
    /\ seat[1][k].status = "DECLINED"
    /\ ~tally[1].closed
    /\ now <= FirstCommitDeadline
    /\ committee.reserves > 0
    /\ committee' = [committee EXCEPT !.reserves = @ - 1]
    /\ seat' = [seat EXCEPT ![1][k] = NewSeat("OFFERED", tally[1].root)]
    /\ UNCHANGED <<clock, claimVars, evidence, tally, moneyVars, certificate>>

\* Mutant: the lock may come after the commit deadline.
LockCommitteeLate ==
    /\ committee.selected /\ ~committee.locked
    /\ committee.acceptBy <= now
    /\ committee' = [committee EXCEPT !.locked = TRUE]
    /\ UNCHANGED <<clock, claimVars, evidence, tally, seat, moneyVars, certificate>>

LockCommittee ==
    /\ committee.selected /\ ~committee.locked
    /\ committee.acceptBy <= now /\ now <= FirstCommitDeadline
    /\ committee' = [committee EXCEPT !.locked = TRUE]
    /\ UNCHANGED <<clock, claimVars, evidence, tally, seat, moneyVars, certificate>>

-----------------------------------------------------------------------------
(* jury.move: binding, approval, commit and reveal                         *)

\* No status or deadline is checked: only a seat object and an open tally.
BindJurySeatEvidence(r, k) ==
    /\ evidence[r] # "none"
    /\ seat[r][k].status \in {"OFFERED", "DECLINED", "ACCEPTED", "COMMITTED"}
    /\ tally[r].linked /\ ~tally[r].closed
    /\ ~seat[r][k].bound \/ ~tally[r].root
    /\ seat' = [seat EXCEPT ![r][k].bound = TRUE]
    /\ tally' = [tally EXCEPT ![r].root = TRUE]
    /\ UNCHANGED <<clock, claimVars, evidence, committee, moneyVars, certificate>>

\* An approval names one seat object and is of use only to commit it: one made
\* before the seat is accepted, or when it can no longer commit, is as good as none.
ApproveRun(r, k) ==
    /\ seat[r][k].status = "ACCEPTED"
    /\ ~seat[r][k].approved
    /\ now <= CommitDeadline(r)
    /\ seat' = [seat EXCEPT ![r][k].approved = TRUE]
    /\ UNCHANGED <<clock, claimVars, evidence, committee, tally, moneyVars, certificate>>

\* Mutant: the seat's commit deadline is not tested.
CommitVoteLate(r, k, o) ==
    /\ seat[r][k].status = "ACCEPTED"
    /\ seat[r][k].bound /\ tally[r].root /\ seat[r][k].approved
    /\ ~tally[r].closed /\ tally[r].committed < Cardinality(Seats)
    /\ seat' = [seat EXCEPT ![r][k] = [status |-> "COMMITTED", bound |-> TRUE,
                                       approved |-> FALSE, ballot |-> o]]
    /\ tally' = [tally EXCEPT ![r].committed = @ + 1]
    /\ UNCHANGED <<clock, claimVars, evidence, committee, moneyVars, certificate>>

\* Neither the claim's state nor the committee's lock is consulted.
CommitVote(r, k, o) ==
    /\ seat[r][k].status = "ACCEPTED"
    /\ seat[r][k].bound /\ tally[r].root
    /\ seat[r][k].approved
    /\ ~tally[r].closed
    /\ tally[r].committed < Cardinality(Seats)
    /\ now <= CommitDeadline(r)
    /\ seat' = [seat EXCEPT ![r][k] = [status |-> "COMMITTED", bound |-> TRUE,
                                       approved |-> FALSE, ballot |-> o]]
    /\ tally' = [tally EXCEPT ![r].committed = @ + 1]
    /\ UNCHANGED <<clock, claimVars, evidence, committee, moneyVars, certificate>>

\* jury::record_reveal
RecordReveal(t, k, o) == [t EXCEPT !.revealed = @ \cup {k}, !.votes[o] = @ + 1]

\* The revealed outcome must hash to the stored commitment; record_reveal counts it.
RevealVote(r, k, o) ==
    /\ seat[r][k].status = "COMMITTED"
    /\ o = seat[r][k].ballot
    /\ CommitClosed(r)
    /\ now <= RevealDeadline(r)
    /\ ~tally[r].closed
    /\ k \notin tally[r].revealed
    /\ seat' = [seat EXCEPT ![r][k].status = "REVEALED"]
    /\ tally' = [tally EXCEPT ![r] = RecordReveal(@, k, o)]
    /\ UNCHANGED <<clock, claimVars, evidence, committee, moneyVars, certificate>>

-----------------------------------------------------------------------------
(* jury.move: from the first round to the second                           *)

OpenDiscussion ==
    /\ state = "REVEAL_1"
    /\ ~tally[1].closed
    /\ RevealClosed(1)
    /\ ThresholdOutcome(tally[1]) = NoOutcome
    /\ tally' = [tally EXCEPT ![1].closed = TRUE]
    /\ state' = "DISCUSSION"
    /\ UNCHANGED <<clock, mode, proposal, evidence, committee, seat, moneyVars, certificate>>

\* Mutant: the second round opens without the lock.
SecondRoundUnlocked ==
    /\ state = "DISCUSSION"
    /\ evidence[2] # "none" /\ tally[1].closed /\ ~tally[2].linked
    /\ ThresholdOutcome(tally[1]) = NoOutcome
    /\ now <= SecondCommitDeadline
    /\ tally' = [tally EXCEPT ![2] = NewTally]
    /\ seat' = [seat EXCEPT ![2] = [k \in Seats |-> NewSeat("ACCEPTED", FALSE)]]
    /\ state' = "COMMIT_2"
    /\ UNCHANGED <<clock, mode, proposal, evidence, committee, moneyVars, certificate>>

CreateSecondRoundSeats ==
    /\ state = "DISCUSSION"
    /\ committee.locked
    /\ evidence[2] # "none"
    /\ tally[1].closed
    /\ ThresholdOutcome(tally[1]) = NoOutcome
    /\ now <= SecondCommitDeadline
    /\ ~tally[2].linked
    /\ tally' = [tally EXCEPT ![2] = NewTally]
    /\ seat' = [seat EXCEPT ![2] = [k \in Seats |-> NewSeat("ACCEPTED", FALSE)]]
    /\ state' = "COMMIT_2"
    /\ UNCHANGED <<clock, mode, proposal, evidence, committee, moneyVars, certificate>>

-----------------------------------------------------------------------------
(* settlement.move                                                         *)

\* claim::set_terminal
TerminalState(result, reviewed) ==
    IF result = "UNRESOLVED" THEN "UNRESOLVED"
    ELSE IF reviewed THEN "FINALIZED_REVIEWED" ELSE "FINALIZED_UNCHALLENGED"

FinalizeUnchallenged ==
    /\ state = "PROPOSED"
    /\ now > ChallengeDeadline
    /\ LET result == IF proposal = "UNSURE" THEN "UNRESOLVED" ELSE proposal
       IN /\ certificate' = [result |-> result, round |-> 0]
          /\ state' = TerminalState(result, FALSE)
    /\ tickets' = UnchallengedTickets
    /\ vault' = Consolidated
    /\ UNCHANGED <<clock, mode, proposal, evidence, panelVars>>

ReviewResult(r) ==
    LET outcome == ThresholdOutcome(tally[r])
    IN IF outcome \in {"UNSURE", NoOutcome} THEN "UNRESOLVED" ELSE outcome

FinalizeClaim(r) ==
    /\ \/ r = 1 /\ state = "REVEAL_1"
       \/ r = 2 /\ state = "REVEAL_2"
    /\ RevealClosed(r)
    /\ committee.locked
    /\ tally[r].root          \* the tally's root equals that of the linked bundle
    /\ ~tally[r].closed
    /\ evidence[r] = "linked"
    /\ r = 1 => ThresholdOutcome(tally[1]) # NoOutcome
    /\ certificate' = [result |-> ReviewResult(r), round |-> r]
    /\ state' = TerminalState(ReviewResult(r), TRUE)
    /\ tally' = [tally EXCEPT ![r].closed = TRUE]
    /\ tickets' = ReviewedTickets(r, ReviewResult(r))
    /\ vault' = Consolidated
    /\ UNCHANGED <<clock, mode, proposal, evidence, committee, seat>>

\* Mutant: only a deadline, the last one, guards a cancellation.
CancelAnyTime ==
    /\ now <= SecondRevealDeadline
    /\ state' = "CANCELLED"
    /\ tickets' = [NoTickets EXCEPT !.creator = Balance]
    /\ vault' = Consolidated
    /\ UNCHANGED <<clock, mode, proposal, evidence, panelVars, certificate>>

CancelClaim ==
    /\ state = "CREATED"
    /\ now <= ProposalDeadline
    /\ state' = "CANCELLED"
    /\ tickets' = [NoTickets EXCEPT !.creator = Balance]
    /\ vault' = Consolidated
    /\ UNCHANGED <<clock, mode, proposal, evidence, panelVars, certificate>>

\* withdraw_payout: consumes a ticket and splits its amount off the vault; the
\* split aborts when the vault holds less.
Redeem(amount, rest) ==
    /\ Terminal
    /\ amount > 0
    /\ vault.creation >= amount
    /\ vault' = [vault EXCEPT !.creation = @ - amount]
    /\ tickets' = rest
    /\ UNCHANGED <<clock, claimVars, evidence, panelVars, certificate>>

WithdrawPayout ==
    \/ Redeem(tickets.fee, [tickets EXCEPT !.fee = 0])
    \/ Redeem(tickets.proposer, [tickets EXCEPT !.proposer = 0])
    \/ Redeem(tickets.challenger, [tickets EXCEPT !.challenger = 0])
    \/ Redeem(tickets.creator, [tickets EXCEPT !.creator = 0])
    \/ \E k \in tickets.jurors : Redeem(tickets.reward, [tickets EXCEPT !.jurors = @ \ {k}])

-----------------------------------------------------------------------------

\* The calls of the requester and of the bonded parties.
PartyStep ==
    \/ StartDirectReview \/ StartChallengedReview \/ CancelClaim
    \/ \E o \in Outcomes, amount \in BondAmounts : ProposeOutcome(o, amount)
    \/ \E amount \in BondAmounts : ChallengeOutcome(amount)

\* The calls of a seat's owner.
SeatStep ==
    \/ \E k \in Seats : AcceptJurySeat(k) \/ DeclineJurySeat(k)
    \/ \E r \in Rounds, k \in Seats : BindJurySeatEvidence(r, k)
    \/ \E r \in Rounds, k \in Seats, o \in Outcomes : CommitVote(r, k, o) \/ RevealVote(r, k, o)

\* The calls the operator's workers make, and that anybody else could make.
KeeperStep ==
    \/ SelectCommittee \/ LockCommittee
    \/ \E k \in Seats : ReplaceDeclinedSeat(k)
    \/ \E r \in Rounds : AdvancePhase(r) \/ FreezeEvidence(r)
    \/ \E r \in Rounds, k \in Seats : ApproveRun(r, k)
    \/ OpenDiscussion \/ CreateSecondRoundSeats
    \/ FinalizeUnchallenged \/ (\E r \in Rounds : FinalizeClaim(r))

EnvironmentStep ==
    Tick \/ SetPaused \/ (\E r \in Rounds : RetentionLapses(r))

Next == PartyStep \/ SeatStep \/ KeeperStep \/ WithdrawPayout \/ EnvironmentStep

Spec == Init /\ [][Next]_vars

\* Anybody may turn the crank, and the resolution worker polls every open claim
\* (workers/resolution-worker.ts), so a call that stays possible is made.  Time
\* passes.  Nothing is assumed of parties, seats, attestor or evidence service.
CrankFairness ==
    /\ WF_vars(Tick)
    /\ \A r \in Rounds : WF_vars(AdvancePhase(r)) /\ WF_vars(FinalizeClaim(r))
    /\ WF_vars(OpenDiscussion)
    /\ WF_vars(CreateSecondRoundSeats)
    /\ WF_vars(FinalizeUnchallenged)

FairSpec == Spec /\ CrankFairness

-----------------------------------------------------------------------------
(* Invariants                                                              *)

SeatRecords == [status : SeatStatuses, bound : BOOLEAN, approved : BOOLEAN,
                ballot : Outcomes \cup {NoOutcome}]
TallyRecords == [linked : BOOLEAN, root : BOOLEAN, committed : Nat, revealed : SUBSET Seats,
                 votes : [Outcomes -> Nat], closed : BOOLEAN]
TallyBook == [Rounds -> TallyRecords]
SeatBook == [Rounds -> [Seats -> SeatRecords]]
CommitteeRecords == [selected : BOOLEAN, locked : BOOLEAN, acceptBy : Nat, reserves : Nat]
VaultRecords == [creation : Nat, proposer : Nat, challenger : Nat, committee : Nat,
                 evidence : Nat]
TicketRecords == [fee : Nat, reward : Nat, jurors : SUBSET Seats, proposer : Nat,
                  challenger : Nat, creator : Nat]
CertificateRecords == [result : Results \cup {NoOutcome}, round : 0 .. 2]

\* Every variable keeps its type; the balances and the tickets never go negative,
\* which the unsigned balance::split of the payout code relies on.
TypeOK ==
    /\ now \in Nat /\ paused \in BOOLEAN
    /\ mode \in Modes /\ state \in States /\ proposal \in Outcomes \cup {NoOutcome}
    /\ evidence \in [Rounds -> {"none", "linked", "lapsed"}]
    /\ committee \in CommitteeRecords
    /\ tally \in TallyBook
    /\ seat \in SeatBook
    /\ vault \in VaultRecords
    /\ tickets \in TicketRecords
    /\ certificate \in CertificateRecords

\* The seats of round r that revealed the outcome o.
Voters(r, o) == {k \in Seats : seat[r][k].status = "REVEALED" /\ seat[r][k].ballot = o}

\* A certificate that a jury signed says exactly what a threshold of distinct
\* revealed seats of the deciding round voted, and the first round never certifies
\* without a threshold (settlement::finalize_claim reads only the tally's counters).
VerdictBacked ==
    certificate.round # 0 =>
        LET r == certificate.round
            backed == {o \in Outcomes : Cardinality(Voters(r, o)) >= Threshold}
        IN CASE certificate.result = "UNRESOLVED" ->
                   backed = {"UNSURE"} \/ (r = 2 /\ backed = {})
             [] OTHER -> backed = {certificate.result}

\* Once a seat has committed, nobody can close its tally while its reveal window
\* is still open: finalize_claim and open_discussion may come early only when there
\* is nothing left to reveal, so no seat is cheated of its vote or its reward.
CommittedSeatKeepsItsWindow ==
    \A r \in Rounds, k \in Seats :
        seat[r][k].status = "COMMITTED" /\ now <= RevealDeadline(r) => ~tally[r].closed

\* A second round exists only after a first round that was closed without a
\* threshold, on a locked committee, with its own frozen evidence
\* (jury::create_second_round_seats).
SecondRoundOnlyAfterSplit ==
    tally[2].linked =>
        /\ tally[1].closed /\ committee.locked /\ evidence[2] # "none"
        /\ \A o \in Outcomes : Cardinality(Voters(1, o)) < Threshold
        /\ certificate.round # 1

\* From the verdict on, the unredeemed tickets add up to exactly what the claim
\* still holds: no ticket can bounce and no coin is left over (settlement.move
\* creates the tickets, claim::take_payout splits them off one balance).
TicketsCoverBalance ==
    IF Terminal THEN Outstanding = Balance ELSE tickets = NoTickets

-----------------------------------------------------------------------------
(* Action properties                                                       *)

\* A verdict is final (docs/PRD.md 28.8): after it neither the state nor the
\* certificate changes and money only leaves.
DecisionIsFinal ==
    [][Terminal => /\ state' = state /\ certificate' = certificate
                   /\ Balance' <= Balance]_vars

\* A closed tally never changes again, whoever still binds or reveals
\* (jury::record_reveal, jury::bind_jury_seat_evidence).
ClosedTallyIsFrozen ==
    [][\A r \in Rounds : tally[r].closed => tally'[r] = tally[r]]_vars

\* Membership is fixed by the lock (docs/PRD.md 28.8): afterwards no reserve takes
\* a seat and no declined seat comes back.
RosterFixedOnceLocked ==
    [][committee.locked =>
          /\ committee' = committee
          /\ \A k \in Seats : seat[1][k].status = "DECLINED" => seat'[1][k].status = "DECLINED"]_vars

\* The bonds follow the verdict: home to both parties on UNRESOLVED ("never
\* credits proposer or challenger as uniquely correct", docs/PRD.md 28.8), both to
\* the proposer when the jury confirms the proposal, both to the challenger otherwise.
BondsFollowVerdict ==
    [][~Terminal /\ Terminal' /\ state' # "CANCELLED" =>
          LET result == certificate'.result
              bonds  == vault.proposer + vault.challenger
          IN IF result = "UNRESOLVED" \/ vault.challenger = 0
             THEN tickets'.proposer = vault.proposer /\ tickets'.challenger = vault.challenger
             ELSE IF result = proposal
                  THEN tickets'.proposer = bonds /\ tickets'.challenger = 0
                  ELSE tickets'.proposer = 0 /\ tickets'.challenger = bonds]_vars

-----------------------------------------------------------------------------
(* Each round is a sealed ballot                                           *)

Verdict(r) == IF tally[r].closed THEN ThresholdOutcome(tally[r]) ELSE "OPEN"

FirstRound == INSTANCE SealedBallot WITH
    ballot <- [k \in Seats |-> seat[1][k].ballot], opened <- tally[1].revealed,
    verdict <- Verdict(1)

SecondRound == INSTANCE SealedBallot WITH
    ballot <- [k \in Seats |-> seat[2][k].ballot], opened <- tally[2].revealed,
    verdict <- Verdict(2)

\* The commit and reveal code of each round implements the sealed ballot: no vote
\* is committed after one was revealed, none changes, and the closing verdict is
\* that of the ballots opened.
FirstRoundIsSealed == FirstRound!BallotSpec
SecondRoundIsSealed == SecondRound!BallotSpec

-----------------------------------------------------------------------------
(* Progress, and where there is none                                       *)

\* No Move call can bring such a claim to a verdict any more: its money stays in
\* the claim object (docs/PRD.md item 22 calls it an attempt that lapses).
Stranded ==
    \/ state = "CREATED" /\ now > IF mode = "DIRECT" THEN FirstCommitDeadline ELSE ProposalDeadline
    \/ state \in {"CHALLENGED", "REVIEW_REQUESTED"} /\ now > FirstCommitDeadline
    \/ /\ state \in {"COMMIT_1", "REVEAL_1", "DISCUSSION"}
       /\ ~committee.locked /\ now > FirstCommitDeadline
    \/ /\ state = "REVEAL_1" /\ evidence[1] = "lapsed"
       /\ ThresholdOutcome(tally[1]) # NoOutcome
    \/ state = "DISCUSSION" /\ evidence[2] = "none" /\ now > DiscussionDeadline
    \/ state = "DISCUSSION" /\ now > SecondCommitDeadline
    \/ state \in {"DISCUSSION", "COMMIT_2", "REVEAL_2"} /\ evidence[2] = "lapsed"

\* A second round to which no seat ever bound the evidence cannot be finalized
\* until one does; nothing obliges a seat to.
AwaitingBinding == state = "REVEAL_2" /\ ~tally[2].root

\* However the parties and the seats behave, a claim whose crank is turned ends
\* with a verdict or in one of the dead ends above: nothing else can hang.
DecidedOrStranded == <>(Terminal \/ Stranded \/ AwaitingBinding)

\* The dead ends are dead: no call of anybody leads out of them.
StrandedForever == [][Stranded => Stranded' /\ ~Terminal']_vars
=============================================================================
