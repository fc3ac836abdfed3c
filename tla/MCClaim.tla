------------------------------- MODULE MCClaim -------------------------------
(* Small instances of Claim for TLC.                                       *)
EXTENDS Claim, TLC

\* The instant t is the last one of the window whose deadline is t.
MCProposalDeadline == 1
MCChallengeDeadline == 2
MCFirstCommitDeadline == 4
MCFirstRevealDeadline == 5
MCDiscussionDeadline == 6
MCSecondCommitDeadline == 7
MCSecondRevealDeadline == 8

\* 11 divides neither by the fee nor by the number of jurors.
MCBudgets == {[creation |-> 1, committee |-> 11, evidence |-> 1],
              [creation |-> 0, committee |-> 0, evidence |-> 0]}
OneBudget == {[creation |-> 1, committee |-> 11, evidence |-> 0]}
MCBondAmounts == {2}

\* Both bonds are posted at 0; 3 lies past the challenge window.  A committee drawn at 0
\* may lock from 2 on, that is at 3; one drawn at 3 or 4 only at 4.
PartyInstants == {0, 3, 4, 5, 6}
\* One instant inside every window in which a direct claim can get stuck.
ProgressInstants == {0, 5, 6, 8, 9}

SeatSymmetry == Permutations(Seats)
=============================================================================
