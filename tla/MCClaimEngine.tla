---------------------------- MODULE MCClaimEngine ----------------------------
(* Small instances of ClaimEngine for TLC.                                 *)
EXTENDS ClaimEngine, TLC

\* No code of the engine prefers one outcome to another.
OutcomeSymmetry == Permutations(Outcomes)

\* Two seats in an undisturbed first round and in a second round with one fault.
FaultsInRoundTwo == <<0, 1>>
\* One seat, and every pair of faults in either round.
TwoFaults == <<2, 2>>
OneFault == <<1, 1>>
=============================================================================
