----------------------------- MODULE AgentRegistry -----------------------------
(***************************************************************************)
(* The agent registry (agent_registry.move): registration with an operator's *)
(* bond or a staker's stake, the eligibility record the draw reads, and the  *)
(* two exits that pay out of the same bond.                                  *)
(*                                                                           *)
(* A pending exit stores the instant from which it may complete; only how    *)
(* far away that is matters, so it is kept as the time left.  Hashes, owners *)
(* and reputation are left out; CommitteeDraw models what the draw makes of  *)
(* a record.                                                                 *)
(***************************************************************************)
EXTENDS Integers, FiniteSets

CONSTANTS
    Agents,             \* the profiles that may be registered
    Amounts,            \* the coins that are paid in
    MinBond,            \* MIN_AGENT_BOND
    MinStake,           \* MIN_STAKE_MIST
    BaseWeight,         \* BASE_SELECTION_WEIGHT
    MaxStakeWeight,     \* MAX_STAKE_SELECTION_WEIGHT
    MaxWeight,          \* MAX_SELECTION_WEIGHT
    AdminWeights,       \* the weights the admin cap may set
    Delay,              \* WITHDRAWAL_DELAY_MS, in ticks
    MaxEligible,        \* MAX_ELIGIBLE_AGENTS
    MaxBond             \* a bound for TLC on what is paid into one bond

ASSUME AgentsAssumption == IsFiniteSet(Agents) /\ MaxEligible \in Nat
ASSUME AmountsAssumption == Amounts \subseteq Nat /\ MaxBond \in Nat
ASSUME MinimaAssumption == MinBond \in Nat \ {0} /\ MinStake \in Nat /\ MinBond <= MinStake
ASSUME WeightsAssumption ==
    /\ BaseWeight \in Nat \ {0} /\ MaxStakeWeight \in Nat /\ MaxWeight \in Nat
    /\ BaseWeight <= MaxStakeWeight /\ MaxStakeWeight <= MaxWeight
    /\ AdminWeights \subseteq 1 .. MaxWeight
ASSUME DelayAssumption == Delay \in Nat

VARIABLES
    paused,      \* Registry.paused
    profile,     \* the AgentProfile objects, with their StakeRecord
    record,      \* Registry.eligible_agents
    withdrawal,  \* the WithdrawalRequest of each profile
    unstake,     \* the UnstakeRequest of each profile
    position,    \* the stakers who still hold a StakePosition
    idle         \* how long ago a profile was deactivated, up to Delay

vars == <<paused, profile, record, withdrawal, unstake, position, idle>>

NoProfile == [exists |-> FALSE, staked |-> FALSE, active |-> FALSE, bond |-> 0]
NoRecord == [active |-> FALSE, weight |-> 0]
NoRequest == [pending |-> FALSE, amount |-> 0, left |-> 0]
NewRequest(amount) == [pending |-> TRUE, amount |-> amount, left |-> Delay]

Smaller(x, y) == IF x <= y THEN x ELSE y

\* Mutant: a stake below one whole minimum more buys nothing.
WeightOfSurplus(amount) == Smaller(((amount - MinStake) * BaseWeight) \div MinStake, MaxStakeWeight)

\* agent_registry::stake_selection_weight; the product is computed in u128.
StakeWeight(amount) == Smaller((amount * BaseWeight) \div MinStake, MaxStakeWeight)

Registered == {a \in Agents : profile[a].exists}

Init ==
    /\ paused = FALSE
    /\ profile = [a \in Agents |-> NoProfile]
    /\ record = [a \in Agents |-> NoRecord]
    /\ withdrawal = [a \in Agents |-> NoRequest]
    /\ unstake = [a \in Agents |-> NoRequest]
    /\ position = {}
    /\ idle = [a \in Agents |-> 0]

-----------------------------------------------------------------------------
(* Registration                                                            *)

Enroll(a, amount, staked, weight) ==
    /\ ~paused
    /\ ~profile[a].exists
    /\ Cardinality(Registered) < MaxEligible
    /\ profile' = [profile EXCEPT ![a] = [exists |-> TRUE, staked |-> staked, active |-> TRUE,
                                          bond |-> amount]]
    /\ record' = [record EXCEPT ![a] = [active |-> TRUE, weight |-> weight]]

RegisterAgent(a, amount) ==
    /\ amount >= MinBond
    /\ Enroll(a, amount, FALSE, BaseWeight)
    /\ UNCHANGED <<paused, withdrawal, unstake, position, idle>>

RegisterStakedAgent(a, amount) ==
    /\ amount >= MinStake
    /\ Enroll(a, amount, TRUE, StakeWeight(amount))
    /\ position' = position \cup {a}
    /\ UNCHANGED <<paused, withdrawal, unstake, idle>>

DepositAgentBond(a, amount) ==
    /\ ~paused
    /\ profile[a].exists
    /\ amount > 0 /\ profile[a].bond + amount <= MaxBond
    /\ profile' = [profile EXCEPT ![a].bond = @ + amount]
    /\ UNCHANGED <<paused, record, withdrawal, unstake, position, idle>>

-----------------------------------------------------------------------------
(* Leaving the draw                                                        *)

\* No entry function sets AgentProfile.active again.
Deactivate(a) ==
    /\ profile' = [profile EXCEPT ![a].active = FALSE]
    /\ record' = [record EXCEPT ![a].active = FALSE]
    /\ idle' = [idle EXCEPT ![a] = IF profile[a].active THEN 0 ELSE @]

DeprecateAgent(a) ==
    /\ profile[a].exists
    /\ Deactivate(a)
    /\ UNCHANGED <<paused, withdrawal, unstake, position>>

\* Mutant: the profile's own flag is not consulted.
SetEligibilityUnchecked(a, active, weight) ==
    /\ profile[a].exists
    /\ record' = [record EXCEPT ![a] = [active |-> active, weight |-> weight]]
    /\ UNCHANGED <<paused, profile, withdrawal, unstake, position, idle>>

SetAgentEligibility(a, active, weight) ==
    /\ profile[a].exists
    /\ weight > 0 /\ weight <= MaxWeight
    /\ record' = [record EXCEPT ![a] = [active |-> active /\ profile[a].active, weight |-> weight]]
    /\ UNCHANGED <<paused, profile, withdrawal, unstake, position, idle>>

\* Mutant: the seat stays in the draw while its stake matures.
UnstakeKeepsSeat(a) ==
    /\ ~paused
    /\ a \in position
    /\ ~unstake[a].pending
    /\ unstake' = [unstake EXCEPT ![a] = NewRequest(profile[a].bond)]
    /\ UNCHANGED <<paused, profile, record, withdrawal, position, idle>>

\* The staker's exit claims the whole current bond.
RequestUnstake(a) ==
    /\ ~paused
    /\ a \in position
    /\ ~unstake[a].pending
    /\ Deactivate(a)
    /\ unstake' = [unstake EXCEPT ![a] = NewRequest(profile[a].bond)]
    /\ UNCHANGED <<paused, withdrawal, position>>

\* The cap holder's exit claims any part of it, once the seat is out of the draw.
RequestAgentBondWithdrawal(a, amount) ==
    /\ profile[a].exists /\ ~profile[a].active /\ ~record[a].active
    /\ amount > 0 /\ amount <= profile[a].bond
    /\ ~withdrawal[a].pending
    /\ withdrawal' = [withdrawal EXCEPT ![a] = NewRequest(amount)]
    /\ UNCHANGED <<paused, profile, record, unstake, position, idle>>

-----------------------------------------------------------------------------
(* Paying out                                                              *)

\* Mutant: the whole requested amount is split off.
UnstakeInFull(a) ==
    /\ a \in position /\ unstake[a].pending /\ unstake[a].left = 0
    /\ profile' = [profile EXCEPT ![a].bond = @ - unstake[a].amount, ![a].staked = FALSE]
    /\ unstake' = [unstake EXCEPT ![a] = NoRequest]
    /\ position' = position \ {a}
    /\ UNCHANGED <<paused, record, withdrawal, idle>>

\* Mutant: the pause switch holds the staker's exit back.
UnstakeUnlessPaused(a) ==
    /\ ~paused
    /\ a \in position /\ unstake[a].pending /\ unstake[a].left = 0
    /\ profile' = [profile EXCEPT ![a].bond = @ - Smaller(unstake[a].amount, @),
                                  ![a].staked = FALSE]
    /\ unstake' = [unstake EXCEPT ![a] = NoRequest]
    /\ position' = position \ {a}
    /\ UNCHANGED <<paused, record, withdrawal, idle>>

\* Pays what is left of the bond, at most what was requested.
CompleteUnstake(a) ==
    /\ a \in position
    /\ unstake[a].pending /\ unstake[a].left = 0
    /\ profile' = [profile EXCEPT ![a].bond = @ - Smaller(unstake[a].amount, @),
                                  ![a].staked = FALSE]
    /\ unstake' = [unstake EXCEPT ![a] = NoRequest]
    /\ position' = position \ {a}
    /\ UNCHANGED <<paused, record, withdrawal, idle>>

\* Mutant: the exit also wants the claim of the staker settled first.
WithdrawalAfterUnstake(a) ==
    /\ withdrawal[a].pending /\ withdrawal[a].left = 0
    /\ a \notin position
    /\ withdrawal[a].amount <= profile[a].bond
    /\ profile' = [profile EXCEPT ![a].bond = @ - withdrawal[a].amount]
    /\ withdrawal' = [withdrawal EXCEPT ![a] = NoRequest]
    /\ UNCHANGED <<paused, record, unstake, position, idle>>

\* balance::split aborts when the bond has shrunk below the request.
CompleteAgentBondWithdrawal(a) ==
    /\ withdrawal[a].pending /\ withdrawal[a].left = 0
    /\ withdrawal[a].amount <= profile[a].bond
    /\ profile' = [profile EXCEPT ![a].bond = @ - withdrawal[a].amount]
    /\ withdrawal' = [withdrawal EXCEPT ![a] = NoRequest]
    /\ UNCHANGED <<paused, record, unstake, position, idle>>

-----------------------------------------------------------------------------

SetPaused ==
    /\ paused' = ~paused
    /\ UNCHANGED <<profile, record, withdrawal, unstake, position, idle>>

Elapse(request) == [request EXCEPT !.left = IF @ = 0 THEN 0 ELSE @ - 1]

Tick ==
    /\ withdrawal' = [a \in Agents |-> Elapse(withdrawal[a])]
    /\ unstake' = [a \in Agents |-> Elapse(unstake[a])]
    /\ idle' = [a \in Agents |-> IF profile[a].exists /\ ~profile[a].active
                                 THEN Smaller(idle[a] + 1, Delay) ELSE idle[a]]
    /\ UNCHANGED <<paused, profile, record, position>>

Next ==
    \/ \E a \in Agents, amount \in Amounts :
         \/ RegisterAgent(a, amount) \/ RegisterStakedAgent(a, amount)
         \/ DepositAgentBond(a, amount) \/ RequestAgentBondWithdrawal(a, amount)
    \/ \E a \in Agents :
         \/ DeprecateAgent(a) \/ RequestUnstake(a)
         \/ CompleteUnstake(a) \/ CompleteAgentBondWithdrawal(a)
    \/ \E a \in Agents, active \in BOOLEAN, weight \in AdminWeights :
         SetAgentEligibility(a, active, weight)
    \/ SetPaused \/ Tick

Spec == Init /\ [][Next]_vars

\* Time passes, and whoever has a matured exit that can be completed completes it.
ExitFairness ==
    /\ WF_vars(Tick)
    /\ \A a \in Agents : WF_vars(CompleteUnstake(a)) /\ WF_vars(CompleteAgentBondWithdrawal(a))

FairSpec == Spec /\ ExitFairness

-----------------------------------------------------------------------------
(* Properties                                                              *)

Requests == [pending : BOOLEAN, amount : Nat, left : 0 .. Delay]

\* Every variable keeps its type; the bond never goes negative, which the
\* unsigned balance::split of both exits relies on.
TypeOK ==
    /\ paused \in BOOLEAN
    /\ profile \in [Agents -> [exists : BOOLEAN, staked : BOOLEAN, active : BOOLEAN, bond : Nat]]
    /\ record \in [Agents -> [active : BOOLEAN, weight : 0 .. MaxWeight]]
    /\ withdrawal \in [Agents -> Requests] /\ unstake \in [Agents -> Requests]
    /\ position \subseteq Agents
    /\ idle \in [Agents -> 0 .. Delay]

\* A seat the draw can pick has a bond to lose and a positive weight: no sequence of
\* exits, eligibility changes and deposits leaves a drained or weightless profile in
\* the draw (select_committee reads only the registry's record, never the bond).
DrawableSeatIsBonded ==
    \A a \in Agents : record[a].active =>
        /\ profile[a].active
        /\ profile[a].bond >= IF profile[a].staked THEN MinStake ELSE MinBond
        /\ record[a].weight > 0

\* No coin leaves a bond earlier than the delay after the seat left the draw, whichever
\* of the two exits pays it and in whatever order they were requested.
ExitsAreDelayed ==
    [][\A a \in Agents : profile'[a].bond < profile[a].bond =>
          ~profile[a].active /\ idle[a] = Delay]_vars

\* A requested unstake pays out and returns the position, even when the protocol is
\* paused for ever (docs/site/staking.md: "pausing the protocol never blocks this exit").
UnstakeCompletes ==
    \A a \in Agents : unstake[a].pending ~> a \notin position

\* The cap holder's exit completes too, unless the staker's exit has left less than
\* it asks for: then balance::split aborts it until the bond is topped up.
WithdrawalCompletesOrOverdrawn ==
    \A a \in Agents : withdrawal[a].pending ~>
        (~withdrawal[a].pending \/ withdrawal[a].amount > profile[a].bond)
=============================================================================
