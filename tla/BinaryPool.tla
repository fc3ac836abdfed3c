------------------------------ MODULE BinaryPool ------------------------------
(***************************************************************************)
(* The demonstration pool (demo_binary_pool.move): YES and NO stakes taken *)
(* until the pool closes, settled by the claim's certificate and redeemed  *)
(* in whatever order the position holders turn up.                         *)
(*                                                                         *)
(* The clock matters only against close_at_ms.  The claim is Claim's       *)
(* module: here its certificate may appear at any time, before the pool    *)
(* closes as well, since a direct review can finish early.                 *)
(***************************************************************************)
EXTENDS Integers, FiniteSetsExt

CONSTANTS
    Positions,      \* the position objects that may be opened
    Amounts,        \* what may be staked on one
    MaxPoolValue,   \* MAX_POOL_VALUE
    Diligent,       \* the positions whose holder does come to redeem
    MayPause        \* whether the pause cap is used

ASSUME PoolAssumption ==
    /\ IsFiniteSet(Positions) /\ Diligent \subseteq Positions
    /\ Amounts \subseteq Nat \ {0} /\ MaxPoolValue \in Nat
    /\ MayPause \in BOOLEAN

Outcomes == {"YES", "NO"}
Results == Outcomes \cup {"UNRESOLVED"}

VARIABLES
    paused,        \* Registry.paused
    closed,        \* whether the clock has passed close_at_ms
    certificate,   \* the result of the claim's certificate, "NONE" before it
    pool,          \* the DemoBinaryPool object
    position       \* the Position objects, with what each was paid

vars == <<paused, closed, certificate, pool, position>>

NewPool == [yesPool |-> 0, noPool |-> 0, vault |-> 0, yesStake |-> 0, noStake |-> 0,
            result |-> "NONE", settled |-> FALSE, refund |-> FALSE, remaining |-> 0]
NoPosition == [state |-> "NONE", outcome |-> "YES", amount |-> 0, paid |-> 0]

\* The pool as create_pool shares it, before its close.
Init ==
    /\ paused = FALSE
    /\ closed = FALSE
    /\ certificate = "NONE"
    /\ pool = NewPool
    /\ position = [p \in Positions |-> NoPosition]

Enter(p, amount, outcome) ==
    /\ ~paused /\ ~pool.settled /\ ~closed
    /\ position[p].state = "NONE"
    /\ pool.yesStake + pool.noStake <= MaxPoolValue
    /\ amount <= MaxPoolValue - (pool.yesStake + pool.noStake)
    /\ pool' = IF outcome = "YES"
               THEN [pool EXCEPT !.yesPool = @ + amount, !.yesStake = @ + amount]
               ELSE [pool EXCEPT !.noPool = @ + amount, !.noStake = @ + amount]
    /\ position' = [position EXCEPT ![p] = [state |-> "HELD", outcome |-> outcome,
                                            amount |-> amount, paid |-> 0]]
    /\ UNCHANGED <<paused, closed, certificate>>

WinningStake == IF certificate = "YES" THEN pool.yesStake ELSE pool.noStake

RefundMode == certificate = "UNRESOLVED" \/ WinningStake = 0

SettlePool ==
    /\ ~pool.settled
    /\ closed
    /\ certificate # "NONE"
    /\ pool' = [pool EXCEPT
                   !.yesPool = 0, !.noPool = 0, !.vault = @ + pool.yesPool + pool.noPool,
                   !.result = certificate, !.settled = TRUE, !.refund = RefundMode,
                   !.remaining = IF RefundMode THEN pool.yesStake + pool.noStake
                                 ELSE WinningStake]
    /\ UNCHANGED <<paused, closed, certificate, position>>

Eligible(p) == pool.refund \/ position[p].outcome = pool.result

\* Mutant: the last redeemer is paid like the others, of the stakes of his side.
PayoutOfWinningStake(p) ==
    IF ~Eligible(p) THEN 0 ELSE position[p].amount

\* Mutant: every share is rounded up.
PayoutRoundedUp(p) ==
    IF ~Eligible(p) THEN 0
    ELSE IF position[p].amount = pool.remaining THEN pool.vault
    ELSE (position[p].amount * pool.vault + pool.remaining - 1) \div pool.remaining

\* The product is computed in u128; the last eligible redeemer takes the rest.
PayoutOf(p) ==
    IF ~Eligible(p) THEN 0
    ELSE IF position[p].amount = pool.remaining THEN pool.vault
    ELSE (position[p].amount * pool.vault) \div pool.remaining

\* Mutant: losing positions count against what is left to claim.
RedeemCountsLosers(p) ==
    /\ pool.settled
    /\ position[p].state = "HELD"
    /\ Eligible(p) => position[p].amount <= pool.remaining /\ pool.remaining > 0
    /\ PayoutOf(p) <= pool.vault
    /\ pool' = [pool EXCEPT !.vault = @ - PayoutOf(p), !.remaining = @ - position[p].amount]
    /\ position' = [position EXCEPT ![p].state = "SPENT", ![p].paid = PayoutOf(p)]
    /\ UNCHANGED <<paused, closed, certificate>>

\* E_INVARIANT and balance::split abort; the pause switch is not asked.
Redeem(p) ==
    /\ pool.settled
    /\ position[p].state = "HELD"
    /\ Eligible(p) => position[p].amount <= pool.remaining /\ pool.remaining > 0
    /\ PayoutOf(p) <= pool.vault
    /\ pool' = [pool EXCEPT !.vault = @ - PayoutOf(p),
                            !.remaining = IF Eligible(p) THEN @ - position[p].amount ELSE @]
    /\ position' = [position EXCEPT ![p].state = "SPENT", ![p].paid = PayoutOf(p)]
    /\ UNCHANGED <<paused, closed, certificate>>

IssueCertificate(result) ==
    /\ certificate = "NONE"
    /\ certificate' = result
    /\ UNCHANGED <<paused, closed, pool, position>>

Close ==
    /\ ~closed
    /\ closed' = TRUE
    /\ UNCHANGED <<paused, certificate, pool, position>>

SetPaused ==
    /\ MayPause
    /\ paused' = ~paused
    /\ UNCHANGED <<closed, certificate, pool, position>>

Next ==
    \/ \E p \in Positions, amount \in Amounts, outcome \in Outcomes : Enter(p, amount, outcome)
    \/ \E p \in Positions : Redeem(p)
    \/ \E result \in Results : IssueCertificate(result)
    \/ SettlePool \/ Close \/ SetPaused

Spec == Init /\ [][Next]_vars

\* The clock moves, anybody may settle, and the diligent holders redeem: the others may
\* never come.
FairSpec ==
    /\ Spec
    /\ WF_vars(Close) /\ WF_vars(SettlePool)
    /\ \A p \in Diligent : WF_vars(Redeem(p))

-----------------------------------------------------------------------------
(* Properties                                                              *)

Held == {p \in Positions : position[p].state = "HELD"}
Spent == {p \in Positions : position[p].state = "SPENT"}
Staked(S) == SumFunctionOnSet([p \in Positions |-> position[p].amount], S)
PaidTo(S) == SumFunctionOnSet([p \in Positions |-> position[p].paid], S)
Winners(S) == {p \in S : Eligible(p)}

\* Every variable keeps its type, and the demonstration stays below its cap.
TypeOK ==
    /\ paused \in BOOLEAN /\ closed \in BOOLEAN
    /\ certificate \in Results \cup {"NONE"}
    /\ pool \in [yesPool : Nat, noPool : Nat, vault : Nat, yesStake : 0 .. MaxPoolValue,
                 noStake : 0 .. MaxPoolValue, result : Results \cup {"NONE"},
                 settled : BOOLEAN, refund : BOOLEAN, remaining : Nat]
    /\ pool.yesStake + pool.noStake <= MaxPoolValue
    /\ position \in [Positions -> [state : {"NONE", "HELD", "SPENT"}, outcome : Outcomes,
                                   amount : Nat, paid : Nat]]

\* Whatever was redeemed, in whatever order: the pool still holds every coin that came in
\* and did not go out, remaining_winning_stake is exactly what the holders left to come can
\* claim, each of them can at least get his stake, and no coin is left when all have come.
VaultBacksTheHolders ==
    pool.settled =>
        /\ pool.vault = Staked(Held \cup Spent) - PaidTo(Spent)
        /\ pool.remaining = Staked(Winners(Held))
        /\ pool.vault >= pool.remaining
        /\ pool.remaining = 0 => pool.vault = 0

\* A winner's share of the whole pool does not depend on when he comes, but for the
\* rounding that earlier winners left: less than one unit each, in his favour.  When no
\* side can win, everybody gets his own stake back to the last unit.
OrderHardlyMatters ==
    /\ \A p \in Winners(Spent) :
        LET share == (position[p].amount * Staked(Held \cup Spent))
                         \div Staked(Winners(Held \cup Spent))
        IN  pool.settled =>
               /\ share <= position[p].paid
               /\ position[p].paid <= share + Cardinality(Winners(Spent)) - 1
    /\ pool.settled /\ (pool.result = "UNRESOLVED" \/ Staked({p \in Held \cup Spent :
                                                    position[p].outcome = pool.result}) = 0)
          => \A p \in Spent : position[p].paid = position[p].amount

\* docs/PRD.md 28.9: "One failed or delayed claimant cannot block other position holders";
\* nor can the pause switch.
DiligentHoldersRedeem ==
    \A p \in Diligent :
        position[p].state = "HELD" /\ certificate # "NONE" ~> position[p].state = "SPENT"
=============================================================================
