----------------------------- MODULE RegistryProofs -----------------------------
(***************************************************************************)
(* Proofs about the agent registry, as the chain keeps it and as the       *)
(* engine fills it: first the bonds and stakes of AgentRegistry, for every *)
(* set of agents, amounts, minima, weights and delay; then the seats of    *)
(* StakedSeats, for every set of slots, stakers, models, roles and         *)
(* rosters, every draw rule and any number of confirmations at once.       *)
(***************************************************************************)
EXTENDS AgentRegistry, StakedSeats, TLAPS, FiniteSetTheorems, SequenceTheorems,
        WellFoundedInduction

\* A stake of at least the minimum buys at least the base weight, at most the cap.
LEMMA StakeWeightBounds ==
    ASSUME NEW amount \in Nat, amount >= MinStake
    PROVE  StakeWeight(amount) \in 1 .. MaxStakeWeight
<1>1. MinStake \in Nat /\ MinStake > 0 /\ BaseWeight \in Nat /\ BaseWeight > 0
      /\ MaxStakeWeight \in Nat /\ MaxStakeWeight > 0
  BY MinimaAssumption, WeightsAssumption
<1>2. /\ amount * BaseWeight \in Nat /\ MinStake * 1 <= amount * BaseWeight
  BY <1>1, Z3
<1>3. (amount * BaseWeight) \div MinStake \in Nat /\ (amount * BaseWeight) \div MinStake >= 1
  BY <1>1, <1>2, Z3
<1> QED
  BY <1>1, <1>3 DEF StakeWeight, Smaller

-----------------------------------------------------------------------------
(* The inductive invariant: both exits are only ever pending on a profile  *)
(* that is out of the draw, and for at most as long as it has been out.    *)

ExitsPending ==
    \A a \in Agents :
        /\ withdrawal[a].pending =>
              profile[a].exists /\ ~profile[a].active /\ idle[a] + withdrawal[a].left >= Delay
        /\ unstake[a].pending =>
              profile[a].exists /\ ~profile[a].active /\ idle[a] + unstake[a].left >= Delay
        /\ a \in position => profile[a].exists
        /\ ~profile[a].exists => profile[a].bond = 0

\* The admin may take an active profile out of the draw and put it back.
ActiveIsBonded ==
    \A a \in Agents : profile[a].active =>
        profile[a].bond >= IF profile[a].staked THEN MinStake ELSE MinBond

ProfileRecords == [exists : BOOLEAN, staked : BOOLEAN, active : BOOLEAN, bond : Nat]

RegistryInv == TypeOK /\ DrawableSeatIsBonded /\ ActiveIsBonded /\ ExitsPending

\* The registry starts within the invariant.
LEMMA RegistryInit == Init => RegistryInv
<1> SUFFICES ASSUME Init PROVE RegistryInv
  OBVIOUS
<1>1. TypeOK
  <2>1. NoRequest \in Requests /\ 0 \in 0 .. Delay
    BY DelayAssumption DEF NoRequest, Requests
  <2>2. NoRecord \in [active : BOOLEAN, weight : 0 .. MaxWeight]
    BY WeightsAssumption DEF NoRecord
  <2>3. NoProfile \in [exists : BOOLEAN, staked : BOOLEAN, active : BOOLEAN, bond : Nat]
    BY DEF NoProfile
  <2> QED
    BY <2>1, <2>2, <2>3 DEF Init, TypeOK
<1>2. DrawableSeatIsBonded
  BY DEF Init, DrawableSeatIsBonded, NoRecord
<1>3. ExitsPending /\ ActiveIsBonded
  BY DEF Init, ExitsPending, NoRequest, ActiveIsBonded, NoProfile
<1> QED
  BY <1>1, <1>2, <1>3 DEF RegistryInv

\* Registration.
LEMMA EnrollKeeps ==
    ASSUME RegistryInv, NEW a \in Agents, NEW amount \in Amounts,
           RegisterAgent(a, amount) \/ RegisterStakedAgent(a, amount)
    PROVE  RegistryInv'
<1>1. PICK staked \in BOOLEAN, weight \in 1 .. MaxWeight :
          /\ Enroll(a, amount, staked, weight)
          /\ amount >= IF staked THEN MinStake ELSE MinBond
  <2>1. CASE RegisterAgent(a, amount)
    <3>1. BaseWeight \in 1 .. MaxWeight /\ FALSE \in BOOLEAN
      BY WeightsAssumption
    <3> QED
      BY <2>1, <3>1 DEF RegisterAgent
  <2>2. CASE RegisterStakedAgent(a, amount)
    <3>1. StakeWeight(amount) \in 1 .. MaxWeight
      BY <2>2, StakeWeightBounds, AmountsAssumption, WeightsAssumption DEF RegisterStakedAgent
    <3> QED
      BY <2>2, <3>1 DEF RegisterStakedAgent
  <2> QED
    BY <2>1, <2>2
<1>2. amount \in Nat
  BY AmountsAssumption
<1>3. /\ paused' = paused /\ withdrawal' = withdrawal /\ unstake' = unstake /\ idle' = idle
      /\ position' \subseteq Agents
  BY DEF RegisterAgent, RegisterStakedAgent, RegistryInv, TypeOK
<1>4. TypeOK'
  BY <1>1, <1>2, <1>3 DEF RegistryInv, TypeOK, Enroll
<1>5. DrawableSeatIsBonded' /\ ActiveIsBonded'
  BY <1>1, <1>2 DEF RegistryInv, DrawableSeatIsBonded, ActiveIsBonded, Enroll, TypeOK
<1>6. ExitsPending'
  <2>1. ~withdrawal[a].pending /\ ~unstake[a].pending
    BY <1>1 DEF RegistryInv, ExitsPending, Enroll
  <2>2. profile'[a].exists /\ \A b \in Agents : b # a => profile'[b] = profile[b]
    BY <1>1 DEF RegistryInv, TypeOK, Enroll
  <2>3. \A b \in Agents : b # a /\ b \in position' => b \in position
    BY DEF RegisterAgent, RegisterStakedAgent
  <2> QED
    BY <1>3, <2>1, <2>2, <2>3 DEF RegistryInv, ExitsPending
<1> QED
  BY <1>4, <1>5, <1>6 DEF RegistryInv

\* A deposit, the admin's and the pause cap's calls.
LEMMA AdminKeeps ==
    ASSUME RegistryInv,
           \/ \E a \in Agents, amount \in Amounts : DepositAgentBond(a, amount)
           \/ \E a \in Agents, active \in BOOLEAN, weight \in AdminWeights :
                 SetAgentEligibility(a, active, weight)
           \/ SetPaused
    PROVE  RegistryInv'
<1> USE DEF RegistryInv
<1>1. ASSUME NEW a \in Agents, NEW amount \in Amounts, DepositAgentBond(a, amount)
      PROVE  RegistryInv'
  <2>1. amount \in Nat
    BY AmountsAssumption
  <2>2. TypeOK'
    BY <1>1, <2>1 DEF TypeOK, DepositAgentBond
  <2>3. DrawableSeatIsBonded' /\ ActiveIsBonded'
    BY <1>1, <2>1, MinimaAssumption
    DEF TypeOK, DepositAgentBond, DrawableSeatIsBonded, ActiveIsBonded
  <2>4. ExitsPending'
    BY <1>1 DEF TypeOK, DepositAgentBond, ExitsPending
  <2> QED
    BY <2>2, <2>3, <2>4
<1>2. ASSUME NEW a \in Agents, NEW active \in BOOLEAN, NEW weight \in AdminWeights,
             SetAgentEligibility(a, active, weight)
      PROVE  RegistryInv'
  <2>1. weight \in 1 .. MaxWeight
    BY WeightsAssumption
  <2>2. TypeOK'
    BY <1>2, <2>1, WeightsAssumption DEF TypeOK, SetAgentEligibility
  <2>3. DrawableSeatIsBonded'
    <3>1. ASSUME NEW b \in Agents, record'[b].active
          PROVE  record'[b].weight > 0 /\ profile[b].active
                 /\ profile[b].bond >= IF profile[b].staked THEN MinStake ELSE MinBond
      <4>1. CASE b = a
        <5>1. profile[a].active /\ record'[a].weight = weight
          BY <1>2, <3>1, <4>1 DEF TypeOK, SetAgentEligibility
        <5> QED
          BY <2>1, <4>1, <5>1 DEF ActiveIsBonded
      <4>2. CASE b # a
        BY <1>2, <3>1, <4>2 DEF TypeOK, SetAgentEligibility, DrawableSeatIsBonded
      <4> QED
        BY <4>1, <4>2
    <3> QED
      BY <1>2, <3>1 DEF DrawableSeatIsBonded, SetAgentEligibility
  <2>4. ExitsPending' /\ ActiveIsBonded'
    BY <1>2 DEF SetAgentEligibility, ExitsPending, ActiveIsBonded
  <2> QED
    BY <2>2, <2>3, <2>4
<1>3. CASE SetPaused
  BY <1>3 DEF SetPaused, TypeOK, DrawableSeatIsBonded, ActiveIsBonded, ExitsPending
<1> QED
  BY <1>1, <1>2, <1>3

\* Leaving the draw, for good or to withdraw.
LEMMA LeaveKeeps ==
    ASSUME RegistryInv, NEW a \in Agents,
           \/ DeprecateAgent(a) \/ RequestUnstake(a)
           \/ \E amount \in Amounts : RequestAgentBondWithdrawal(a, amount)
    PROVE  RegistryInv'
<1> USE DEF RegistryInv
<1>1. ASSUME Deactivate(a), profile[a].exists, UNCHANGED <<paused, withdrawal, position>>,
             unstake' = unstake \/ unstake' = [unstake EXCEPT ![a] = NewRequest(profile[a].bond)]
      PROVE  RegistryInv'
  <2>1. 0 \in 0 .. Delay /\ NewRequest(profile[a].bond) \in Requests
    BY DelayAssumption DEF TypeOK, NewRequest, Requests
  <2>2. TypeOK'
    <3>1. profile' \in [Agents -> ProfileRecords]
      <4>1. profile \in [Agents -> ProfileRecords]
        BY DEF TypeOK, ProfileRecords
      <4>2. [profile[a] EXCEPT !.active = FALSE] \in ProfileRecords
        BY <4>1 DEF ProfileRecords
      <4>3. profile' = [profile EXCEPT ![a] = [profile[a] EXCEPT !.active = FALSE]]
        BY <1>1 DEF Deactivate
      <4> QED
        BY <4>1, <4>2, <4>3
    <3>2. record' \in [Agents -> [active : BOOLEAN, weight : 0 .. MaxWeight]]
      BY <1>1, ZenonT(30) DEF TypeOK, Deactivate
    <3>3. unstake' \in [Agents -> Requests]
      BY <1>1, <2>1 DEF TypeOK
    <3>4. idle' \in [Agents -> 0 .. Delay]
      BY <1>1, <2>1 DEF TypeOK, Deactivate
    <3> QED
      BY <1>1, <3>1, <3>2, <3>3, <3>4 DEF TypeOK, ProfileRecords
  <2>3. DrawableSeatIsBonded' /\ ActiveIsBonded'
    BY <1>1 DEF TypeOK, Deactivate, DrawableSeatIsBonded, ActiveIsBonded
  <2>4. ASSUME NEW b \in Agents
        PROVE  /\ withdrawal'[b].pending =>
                     profile'[b].exists /\ ~profile'[b].active /\ idle'[b] + withdrawal'[b].left >= Delay
               /\ unstake'[b].pending =>
                     profile'[b].exists /\ ~profile'[b].active /\ idle'[b] + unstake'[b].left >= Delay
               /\ b \in position' => profile'[b].exists
               /\ ~profile'[b].exists => profile'[b].bond = 0
    <3>1. CASE b # a
      BY <1>1, <3>1 DEF TypeOK, Deactivate, ExitsPending
    <3>2. CASE b = a
      <4>1. /\ profile'[a].exists /\ ~profile'[a].active
            /\ idle'[a] = IF profile[a].active THEN 0 ELSE idle[a]
            /\ idle'[a] \in 0 .. Delay
        BY <1>1, <2>1 DEF TypeOK, Deactivate
      <4>2. unstake'[a] = unstake[a] \/ unstake'[a].left = Delay
        BY <1>1 DEF TypeOK, NewRequest
      <4>3. withdrawal[a].pending => ~profile[a].active /\ idle[a] + withdrawal[a].left >= Delay
        BY DEF ExitsPending
      <4>4. unstake[a].pending => ~profile[a].active /\ idle[a] + unstake[a].left >= Delay
        BY DEF ExitsPending
      <4>5. unstake'[a].pending => idle'[a] + unstake'[a].left >= Delay
        BY <4>1, <4>2, <4>4, DelayAssumption
      <4> QED
        BY <1>1, <3>2, <4>1, <4>3, <4>5
    <3> QED
      BY <3>1, <3>2
  <2>5. ExitsPending'
    BY <2>4 DEF ExitsPending
  <2> QED
    BY <2>2, <2>3, <2>5
<1>2. ASSUME NEW amount \in Amounts, RequestAgentBondWithdrawal(a, amount) PROVE RegistryInv'
  <2>1. /\ withdrawal' = [withdrawal EXCEPT ![a] = NewRequest(amount)]
        /\ UNCHANGED <<paused, profile, record, unstake, position, idle>>
        /\ profile[a].exists /\ ~profile[a].active
    BY <1>2 DEF RequestAgentBondWithdrawal
  <2>2. NewRequest(amount) \in Requests
    BY DelayAssumption, AmountsAssumption DEF NewRequest, Requests
  <2>3. TypeOK'
    BY <2>1, <2>2 DEF TypeOK
  <2>4. DrawableSeatIsBonded' /\ ActiveIsBonded'
    BY <2>1 DEF DrawableSeatIsBonded, ActiveIsBonded
  <2>5. idle[a] + Delay >= Delay
    BY DelayAssumption DEF TypeOK
  <2>6. ExitsPending'
    BY <2>1, <2>5 DEF ExitsPending, TypeOK, NewRequest
  <2> QED
    BY <2>3, <2>4, <2>6
<1>3. CASE DeprecateAgent(a)
  BY <1>1, <1>3 DEF DeprecateAgent
<1>4. CASE RequestUnstake(a)
  <2>1. profile[a].exists
    BY <1>4 DEF ExitsPending, RequestUnstake
  <2> QED
    BY <1>1, <1>4, <2>1 DEF RequestUnstake
<1> QED
  BY <1>2, <1>3, <1>4

\* Both payouts, and what they take off the bond.
LEMMA PayoutKeeps ==
    ASSUME RegistryInv, NEW a \in Agents, CompleteUnstake(a) \/ CompleteAgentBondWithdrawal(a)
    PROVE  RegistryInv'
<1> USE DEF RegistryInv
<1>1. /\ ~profile[a].active /\ ~record[a].active
      /\ profile[a].bond \in Nat /\ unstake[a].amount \in Nat /\ withdrawal[a].amount \in Nat
  BY DEF CompleteUnstake, CompleteAgentBondWithdrawal, ExitsPending, DrawableSeatIsBonded, TypeOK,
     Requests
<1>2. PICK bond \in Nat, staked \in BOOLEAN :
          profile' = [profile EXCEPT ![a].bond = bond, ![a].staked = staked]
  <2>1. CASE CompleteUnstake(a)
    <3>1. profile[a].bond - Smaller(unstake[a].amount, profile[a].bond) \in Nat
      BY <1>1 DEF Smaller
    <3> QED
      BY <2>1, <3>1 DEF CompleteUnstake
  <2>2. CASE CompleteAgentBondWithdrawal(a)
    <3>1. profile[a].bond - withdrawal[a].amount \in Nat /\ profile[a].staked \in BOOLEAN
      BY <1>1, <2>2 DEF CompleteAgentBondWithdrawal, TypeOK
    <3>2. profile' = [profile EXCEPT ![a].bond = profile[a].bond - withdrawal[a].amount,
                                     ![a].staked = profile[a].staked]
      BY <2>2 DEF CompleteAgentBondWithdrawal, TypeOK
    <3> QED
      BY <3>1, <3>2
  <2> QED
    BY <2>1, <2>2
<1>3. /\ UNCHANGED <<paused, record, idle>> /\ position' \subseteq position
      /\ unstake' = unstake \/ unstake' = [unstake EXCEPT ![a] = NoRequest]
      /\ withdrawal' = withdrawal \/ withdrawal' = [withdrawal EXCEPT ![a] = NoRequest]
  BY DEF CompleteUnstake, CompleteAgentBondWithdrawal
<1>4. NoRequest \in Requests
  BY DelayAssumption DEF NoRequest, Requests
<1>5. TypeOK'
  <2>1. profile' \in [Agents -> ProfileRecords]
    <3>1. profile \in [Agents -> ProfileRecords]
      BY DEF TypeOK, ProfileRecords
    <3>2. [profile[a] EXCEPT !.bond = bond, !.staked = staked] \in ProfileRecords
      BY <3>1 DEF ProfileRecords
    <3> QED
      BY <1>2, <3>1, <3>2
  <2>2. withdrawal' \in [Agents -> Requests] /\ unstake' \in [Agents -> Requests]
    BY <1>3, <1>4 DEF TypeOK
  <2> QED
    BY <1>3, <2>1, <2>2 DEF TypeOK, ProfileRecords
<1>6. DrawableSeatIsBonded' /\ ActiveIsBonded'
  BY <1>1, <1>2, <1>3 DEF DrawableSeatIsBonded, ActiveIsBonded, TypeOK
<1>7. ExitsPending'
  <2>1. ~NoRequest.pending
    BY DEF NoRequest
  <2>2. \A b \in Agents : /\ profile'[b].exists = profile[b].exists
                          /\ profile'[b].active = profile[b].active
                          /\ b # a => profile'[b] = profile[b]
    BY <1>2 DEF TypeOK
  <2>3. profile[a].exists
    BY DEF CompleteUnstake, CompleteAgentBondWithdrawal, ExitsPending
  <2>4. \A b \in Agents : /\ withdrawal'[b] = withdrawal[b] \/ withdrawal'[b] = NoRequest
                          /\ unstake'[b] = unstake[b] \/ unstake'[b] = NoRequest
    BY <1>3 DEF TypeOK
  <2> QED
    BY <1>3, <2>1, <2>2, <2>3, <2>4 DEF ExitsPending
<1> QED
  BY <1>5, <1>6, <1>7

\* Time brings an exit no nearer than it takes the seat away from the draw.
LEMMA TickKeeps == RegistryInv /\ Tick => RegistryInv'
<1> SUFFICES ASSUME RegistryInv, Tick PROVE RegistryInv'
  OBVIOUS
<1> USE DEF RegistryInv
<1>1. \A r \in Requests : /\ Elapse(r) \in Requests /\ Elapse(r).pending = r.pending
                          /\ Elapse(r).left = IF r.left = 0 THEN 0 ELSE r.left - 1
  BY DelayAssumption DEF Elapse, Requests
<1>2. \A i \in 0 .. Delay : /\ Smaller(i + 1, Delay) \in 0 .. Delay
                           /\ Smaller(i + 1, Delay) = IF i = Delay THEN Delay ELSE i + 1
  BY DelayAssumption DEF Smaller
<1>3. TypeOK'
  BY <1>1, <1>2 DEF Tick, TypeOK
<1>4. DrawableSeatIsBonded' /\ ActiveIsBonded'
  BY DEF Tick, DrawableSeatIsBonded, ActiveIsBonded
<1>5. ASSUME NEW a \in Agents
      PROVE  /\ withdrawal'[a].pending =>
                   profile'[a].exists /\ ~profile'[a].active /\ idle'[a] + withdrawal'[a].left >= Delay
             /\ unstake'[a].pending =>
                   profile'[a].exists /\ ~profile'[a].active /\ idle'[a] + unstake'[a].left >= Delay
             /\ a \in position' => profile'[a].exists
             /\ ~profile'[a].exists => profile'[a].bond = 0
  <2>1. /\ withdrawal[a] \in Requests /\ unstake[a] \in Requests /\ idle[a] \in 0 .. Delay
        /\ withdrawal'[a] = Elapse(withdrawal[a]) /\ unstake'[a] = Elapse(unstake[a])
        /\ profile' = profile /\ position' = position
    BY DEF Tick, TypeOK
  <2>2. profile[a].exists /\ ~profile[a].active => idle'[a] = Smaller(idle[a] + 1, Delay)
    BY DEF Tick
  <2>3. \A r \in Requests : r.pending \in BOOLEAN /\ r.left \in 0 .. Delay
    BY DEF Requests
  <2>4. ASSUME NEW r \in Requests, idle[a] + r.left >= Delay
        PROVE  Smaller(idle[a] + 1, Delay) + Elapse(r).left >= Delay
    BY <1>1, <1>2, <2>1, <2>3, <2>4, DelayAssumption
  <2>5. withdrawal'[a].pending = withdrawal[a].pending /\ unstake'[a].pending = unstake[a].pending
    BY <1>1, <2>1
  <2> QED
    BY <2>1, <2>2, <2>4, <2>5 DEF ExitsPending
<1>6. ExitsPending'
  BY <1>5 DEF ExitsPending
<1> QED
  BY <1>3, <1>4, <1>6

\* Every step keeps the invariant.
LEMMA RegistryStep == RegistryInv /\ [Next]_vars => RegistryInv'
<1> SUFFICES ASSUME RegistryInv, [Next]_vars PROVE RegistryInv'
  OBVIOUS
<1>1. CASE UNCHANGED vars
  BY <1>1 DEF vars, RegistryInv, TypeOK, DrawableSeatIsBonded, ActiveIsBonded, ExitsPending
<1> QED
  BY <1>1, EnrollKeeps, AdminKeeps, LeaveKeeps, PayoutKeeps, TickKeeps DEF Next

\* For every minimum, weight and delay, every variable keeps its type; the unsigned
\* splits of both exits never underflow.
THEOREM RegistryTypes == Spec => []TypeOK
<1>1. RegistryInv => TypeOK
  BY DEF RegistryInv
<1> QED
  BY <1>1, RegistryInit, RegistryStep, PTL DEF Spec

\* For every minimum, weight and delay: what the draw can pick has a bond to lose and
\* a positive weight, whatever exits, deposits and eligibility changes went before.
THEOREM DrawableSeatsAreBonded == Spec => []DrawableSeatIsBonded
<1>1. RegistryInv => DrawableSeatIsBonded
  BY DEF RegistryInv
<1> QED
  BY <1>1, RegistryInit, RegistryStep, PTL DEF Spec

\* For every delay: neither exit ever pays before the seat has been out of the draw for
\* the whole delay.
THEOREM EveryExitIsDelayed == Spec => ExitsAreDelayed
<1> DEFINE Delayed == \A a \in Agents : profile'[a].bond < profile[a].bond =>
                          ~profile[a].active /\ idle[a] = Delay
<1>1. ASSUME RegistryInv, Next, NEW a \in Agents, profile'[a].bond < profile[a].bond
      PROVE  ~profile[a].active /\ idle[a] = Delay
  <2> USE DEF RegistryInv
  <2>1. profile \in [Agents -> [exists : BOOLEAN, staked : BOOLEAN, active : BOOLEAN, bond : Nat]]
    BY <1>1 DEF TypeOK
  <2>2. CASE \E b \in Agents : CompleteUnstake(b) \/ CompleteAgentBondWithdrawal(b)
    <3>1. CompleteUnstake(a) \/ CompleteAgentBondWithdrawal(a)
      BY <1>1, <2>1, <2>2 DEF CompleteUnstake, CompleteAgentBondWithdrawal
    <3>2. ~profile[a].active /\ idle[a] + 0 >= Delay
      BY <1>1, <3>1 DEF CompleteUnstake, CompleteAgentBondWithdrawal, ExitsPending
    <3>3. idle[a] \in 0 .. Delay
      BY <1>1 DEF TypeOK
    <3> QED
      BY <3>2, <3>3, DelayAssumption
  <2>3. CASE \E b \in Agents, amount \in Amounts :
                \/ RegisterAgent(b, amount) \/ RegisterStakedAgent(b, amount)
                \/ DepositAgentBond(b, amount)
    <3>1. PICK b \in Agents, amount \in Amounts :
              \/ RegisterAgent(b, amount) \/ RegisterStakedAgent(b, amount)
              \/ DepositAgentBond(b, amount)
      BY <2>3
    <3>2. amount \in Nat
      BY AmountsAssumption
    <3>3. CASE DepositAgentBond(b, amount)
      BY <1>1, <2>1, <3>2, <3>3 DEF DepositAgentBond
    <3>4. CASE RegisterAgent(b, amount) \/ RegisterStakedAgent(b, amount)
      <4>1. profile[b].bond = 0 /\ profile'[b].bond = amount
            /\ (b # a => profile'[a] = profile[a])
        BY <1>1, <2>1, <3>4 DEF RegisterAgent, RegisterStakedAgent, Enroll, ExitsPending
      <4> QED
        BY <1>1, <2>1, <3>2, <4>1
    <3> QED
      BY <3>1, <3>3, <3>4
  <2>4. CASE ~(\E b \in Agents : CompleteUnstake(b) \/ CompleteAgentBondWithdrawal(b))
             /\ ~(\E b \in Agents, amount \in Amounts :
                     \/ RegisterAgent(b, amount) \/ RegisterStakedAgent(b, amount)
                     \/ DepositAgentBond(b, amount))
    <3>1. profile'[a].bond = profile[a].bond
      BY <1>1, <2>1, <2>4
      DEF Next, DeprecateAgent, RequestUnstake, Deactivate, RequestAgentBondWithdrawal,
          SetAgentEligibility, SetPaused, Tick
    <3> QED
      BY <1>1, <2>1, <3>1
  <2> QED
    BY <2>2, <2>3, <2>4
<1>2. RegistryInv /\ [Next]_vars => [Delayed]_vars
  BY <1>1
<1> QED
  BY <1>2, RegistryInit, RegistryStep, PTL DEF Spec, ExitsAreDelayed

-----------------------------------------------------------------------------
(* Sets of numbers                                                         *)

\* A set of numbers that is not empty has a least one: of the initial segments that they
\* bound one is minimal.
LEMMA LeastExists ==
    ASSUME NEW S \in SUBSET Nat, S # {}
    PROVE  \E m \in S : \A j \in S : m <= j
<1> DEFINE Segments == {1 .. k : k \in S}
<1>1. Segments \subseteq FiniteSubsetsOf(Nat)
  <2> SUFFICES ASSUME NEW k \in S PROVE 1 .. k \in FiniteSubsetsOf(Nat)
    OBVIOUS
  <2>1. k \in Int /\ 1 .. k \subseteq Nat
    OBVIOUS
  <2>2. IsFiniteSet(1 .. k)
    BY <2>1, FS_Interval
  <2> QED BY <2>1, <2>2 DEF FiniteSubsetsOf
<1>2. PICK x \in Segments : \A y \in Segments : ~(<<y, x>> \in StrictSubsetOrdering(Nat))
  <2>1. Segments # {}
    OBVIOUS
  <2> HIDE DEF Segments
  <2> QED BY <1>1, <2>1, FS_StrictSubsetOrderingWellFounded, WFMin
<1>3. PICK m \in S : x = 1 .. m
  OBVIOUS
<1>4. ASSUME NEW j \in S PROVE m <= j
  <2> SUFFICES ASSUME j < m PROVE FALSE
    OBVIOUS
  <2>1. m \in 1 .. m /\ m \notin 1 .. j /\ 1 .. j \subseteq 1 .. m
    OBVIOUS
  <2>2. <<1 .. j, 1 .. m>> \in StrictSubsetOrdering(Nat)
    BY <2>1 DEF StrictSubsetOrdering
  <2> QED BY <1>2, <1>3, <2>2
<1> QED BY <1>4

\* A set of numbers that has zero and every successor has them all.
LEMMA AllNumbers ==
    ASSUME NEW G \in SUBSET Nat, 0 \in G, \A n \in G : n + 1 \in G
    PROVE  G = Nat
<1> SUFFICES ASSUME Nat \ G # {} PROVE FALSE
  OBVIOUS
<1>1. PICK m \in Nat \ G : \A j \in Nat \ G : m <= j
  <2>1. Nat \ G \in SUBSET Nat
    OBVIOUS
  <2> QED BY <2>1, LeastExists
<1>2. m # 0 /\ m - 1 \in Nat
  OBVIOUS
<1>3. m - 1 \in G
  BY <1>1, <1>2
<1> QED BY <1>2, <1>3

-----------------------------------------------------------------------------
(* The search for a jury                                                   *)

\* No key twice, and no model or role more often than the caps allow.
Capped(five) ==
    /\ \A s, t \in five : s.owner = t.owner => s = t
    /\ \A m \in Models : Cardinality({s \in five : s.model = m}) <= Rule.perModel
    /\ \A o \in ToSet(Roles) : Cardinality({s \in five : s.role = o}) <= MaxPerRole

\* A seat that may be added keeps the caps.
LEMMA AddedSeatIsCapped ==
    ASSUME NEW chosen \in SUBSET Rows, IsFiniteSet(chosen), Capped(chosen),
           NEW s \in Rows, CanAddSeat(chosen, s)
    PROVE  Capped(chosen \cup {s}) /\ s \notin chosen
<1>1. s.owner \notin {t.owner : t \in chosen} /\ s \notin chosen
  BY DEF CanAddSeat
<1>2. \A t, u \in chosen \cup {s} : t.owner = u.owner => t = u
  BY <1>1 DEF Capped
<1>3. ASSUME NEW m \in Models
      PROVE  Cardinality({t \in chosen \cup {s} : t.model = m}) <= Rule.perModel
  <2> DEFINE old == {t \in chosen : t.model = m}
  <2>1. IsFiniteSet(old) /\ Cardinality(old) \in Nat /\ Cardinality(old) <= Rule.perModel
    <3>1. old \in SUBSET chosen
      OBVIOUS
    <3>2. IsFiniteSet(old)
      BY <3>1, FS_Subset
    <3> QED BY <3>2, FS_CardinalityType DEF Capped
  <2>2. CASE s.model = m
    <3>1. {t \in chosen \cup {s} : t.model = m} = old \cup {s} /\ s \notin old
      BY <1>1, <2>2
    <3>2. Cardinality(old) < Rule.perModel
      BY <2>2 DEF CanAddSeat, CountOf
    <3>3. Cardinality(old \cup {s}) = Cardinality(old) + 1
      BY <2>1, <3>1, FS_AddElement
    <3>4. Cardinality({t \in chosen \cup {s} : t.model = m}) = Cardinality(old) + 1
      BY <3>1, <3>3
    <3>5. Rule.perModel \in Nat
      BY SizesAssumption
    <3> HIDE DEF old
    <3> QED BY <2>1, <3>2, <3>4, <3>5
  <2>3. CASE s.model # m
    <3>1. {t \in chosen \cup {s} : t.model = m} = old
      BY <2>3
    <3> QED BY <2>1, <3>1
  <2> QED BY <2>2, <2>3
<1>4. ASSUME NEW o \in ToSet(Roles)
      PROVE  Cardinality({t \in chosen \cup {s} : t.role = o}) <= MaxPerRole
  <2> DEFINE old == {t \in chosen : t.role = o}
  <2>1. IsFiniteSet(old) /\ Cardinality(old) \in Nat /\ Cardinality(old) <= MaxPerRole
    <3>1. old \in SUBSET chosen
      OBVIOUS
    <3>2. IsFiniteSet(old)
      BY <3>1, FS_Subset
    <3> QED BY <3>2, FS_CardinalityType DEF Capped
  <2>2. CASE s.role = o
    <3>1. {t \in chosen \cup {s} : t.role = o} = old \cup {s} /\ s \notin old
      BY <1>1, <2>2
    <3>2. Cardinality(old) < MaxPerRole
      BY <2>2 DEF CanAddSeat, CountOf
    <3>3. Cardinality(old \cup {s}) = Cardinality(old) + 1
      BY <2>1, <3>1, FS_AddElement
    <3>4. Cardinality({t \in chosen \cup {s} : t.role = o}) = Cardinality(old) + 1
      BY <3>1, <3>3
    <3>5. MaxPerRole \in Nat
      BY SizesAssumption
    <3> HIDE DEF old
    <3> QED BY <2>1, <3>2, <3>4, <3>5
  <2>3. CASE s.role # o
    <3>1. {t \in chosen \cup {s} : t.role = o} = old
      BY <2>3
    <3> QED BY <2>1, <3>1
  <2> QED BY <2>2, <2>3
<1> QED BY <1>1, <1>2, <1>3, <1>4 DEF Capped

\* What a function over sets of seats must satisfy to be the search of a roster.
Explores(seats, g) ==
    g = [chosen \in SUBSET seats |->
            IF Cardinality(chosen) = CommitteeSize
            THEN IsDiverse(chosen) /\ ReservesExist(seats, chosen)
            ELSE \E s \in seats :
                    /\ \A t \in chosen : t.profile < s.profile
                    /\ CanAddSeat(chosen, s)
                    /\ g[chosen \cup {s}]]

\* The search is such a function.
LEMMA SearchIsExplored ==
    ASSUME NEW seats, NEW start
    PROVE  Search(seats, start) <=> (CHOOSE g : Explores(seats, g))[start]
BY DEF Search, Explores

\* There is one: the search of the sets that all but n seats were added to finds
\* its next step among those that lack fewer.
LEMMA ExplorationExists ==
    ASSUME NEW seats \in SUBSET Rows, IsFiniteSet(seats)
    PROVE  \E g : Explores(seats, g)
<1> DEFINE Lacks(chosen) == Cardinality(seats \ chosen)
           Near(n) == {chosen \in SUBSET seats : Lacks(chosen) <= n}
           Step(g, chosen) ==
              IF Cardinality(chosen) = CommitteeSize
              THEN IsDiverse(chosen) /\ ReservesExist(seats, chosen)
              ELSE \E s \in seats :
                      /\ \A t \in chosen : t.profile < s.profile
                      /\ CanAddSeat(chosen, s)
                      /\ g[chosen \cup {s}]
           Solves(n, g) == g = [chosen \in Near(n) |-> Step(g, chosen)]
           G == {n \in Nat : \E g : Solves(n, g)}
<1>1. \A chosen \in SUBSET seats :
         /\ IsFiniteSet(seats \ chosen) /\ Lacks(chosen) \in Nat
         /\ Lacks(chosen) <= Cardinality(seats)
         /\ \A s \in seats \ chosen : Lacks(chosen \cup {s}) = Lacks(chosen) - 1
  <2> SUFFICES ASSUME NEW chosen \in SUBSET seats
               PROVE  /\ IsFiniteSet(seats \ chosen) /\ Lacks(chosen) \in Nat
                      /\ Lacks(chosen) <= Cardinality(seats)
                      /\ \A s \in seats \ chosen : Lacks(chosen \cup {s}) = Lacks(chosen) - 1
    OBVIOUS
  <2>1. seats \ chosen \in SUBSET seats
    OBVIOUS
  <2>2. IsFiniteSet(seats \ chosen) /\ Cardinality(seats \ chosen) <= Cardinality(seats)
    BY <2>1, FS_Subset
  <2>3. \A s \in seats \ chosen : seats \ (chosen \cup {s}) = (seats \ chosen) \ {s}
    OBVIOUS
  <2>4. \A s \in seats \ chosen : Cardinality((seats \ chosen) \ {s}) = Cardinality(seats \ chosen) - 1
    BY <2>2, FS_RemoveElement
  <2> QED BY <2>2, <2>3, <2>4, FS_CardinalityType
<1>2. \A chosen \in SUBSET seats, s \in seats : CanAddSeat(chosen, s) => s \in seats \ chosen
  BY DEF CanAddSeat
<1> HIDE DEF Lacks
<1>3. ASSUME NEW n \in Nat, NEW g, NEW h,
             \A chosen \in SUBSET seats : Lacks(chosen) <= n - 1 => g[chosen] = h[chosen],
             NEW chosen \in Near(n)
      PROVE  Step(g, chosen) = Step(h, chosen)
  <2>1. \A s \in seats : CanAddSeat(chosen, s) => g[chosen \cup {s}] = h[chosen \cup {s}]
    <3> SUFFICES ASSUME NEW s \in seats, CanAddSeat(chosen, s)
                 PROVE  g[chosen \cup {s}] = h[chosen \cup {s}]
      OBVIOUS
    <3>1. chosen \in SUBSET seats /\ Lacks(chosen) <= n /\ s \in seats \ chosen
      BY <1>2
    <3>2. Lacks(chosen) \in Nat /\ Lacks(chosen \cup {s}) = Lacks(chosen) - 1
      BY <1>1, <3>1
    <3>3. chosen \cup {s} \in SUBSET seats /\ Lacks(chosen \cup {s}) <= n - 1
      BY <3>1, <3>2
    <3> QED BY <1>3, <3>3
  <2>2. CASE Cardinality(chosen) = CommitteeSize
    BY <2>2
  <2>3. CASE Cardinality(chosen) # CommitteeSize
    <3>1. (\E s \in seats : /\ \A t \in chosen : t.profile < s.profile
                            /\ CanAddSeat(chosen, s)
                            /\ g[chosen \cup {s}])
          <=> (\E s \in seats : /\ \A t \in chosen : t.profile < s.profile
                                /\ CanAddSeat(chosen, s)
                                /\ h[chosen \cup {s}])
      BY <2>1
    <3> QED BY <2>3, <3>1
  <2> QED BY <2>2, <2>3
<1> HIDE DEF Step
<1>4. 0 \in G
  <2>1. PICK g : g = [chosen \in SUBSET seats |-> Step([c \in {} |-> TRUE], chosen)]
    OBVIOUS
  <2>2. PICK h : h = [chosen \in Near(0) |-> Step(g, chosen)]
    OBVIOUS
  <2>3. \A chosen \in SUBSET seats : Lacks(chosen) <= 0 - 1 => g[chosen] = h[chosen]
    <3>1. \A chosen \in SUBSET seats : Lacks(chosen) \in Nat
      BY <1>1
    <3>2. \A k \in Nat : ~(k <= 0 - 1)
      OBVIOUS
    <3> HIDE DEF Near
    <3> QED BY <3>1, <3>2
  <2>4. \A chosen \in Near(0) : Step(g, chosen) = Step(h, chosen)
    BY <1>3, <2>3
  <2>5. Solves(0, h)
    <3> HIDE DEF Near
    <3> QED BY <2>2, <2>4
  <2> QED BY <2>5
<1>5. ASSUME NEW n \in G PROVE n + 1 \in G
  <2>1. n \in Nat /\ n + 1 \in Nat
    OBVIOUS
  <2>2. PICK g : Solves(n, g)
    OBVIOUS
  <2>3. PICK h : h = [chosen \in Near(n + 1) |-> Step(g, chosen)]
    OBVIOUS
  <2>4. \A chosen \in SUBSET seats : Lacks(chosen) <= (n + 1) - 1 => g[chosen] = h[chosen]
    <3> SUFFICES ASSUME NEW chosen \in SUBSET seats, Lacks(chosen) <= (n + 1) - 1
                 PROVE  g[chosen] = h[chosen]
      OBVIOUS
    <3>1. Lacks(chosen) \in Nat
      BY <1>1
    <3>2. chosen \in Near(n) /\ chosen \in Near(n + 1)
      BY <2>1, <3>1
    <3> HIDE DEF Near, G
    <3> QED BY <2>2, <2>3, <3>2
  <2>5. \A chosen \in Near(n + 1) : Step(g, chosen) = Step(h, chosen)
    <3> HIDE DEF G
    <3> QED BY <1>3, <2>1, <2>4
  <2>6. Solves(n + 1, h)
    <3> HIDE DEF Near
    <3> QED BY <2>3, <2>5
  <2> QED BY <2>1, <2>6
<1>6. Cardinality(seats) \in G
  <2>1. G \in SUBSET Nat /\ Cardinality(seats) \in Nat
    BY FS_CardinalityType
  <2> HIDE DEF G
  <2> QED BY <1>4, <1>5, <2>1, AllNumbers
<1>7. Near(Cardinality(seats)) = SUBSET seats
  BY <1>1
<1>8. PICK g : Solves(Cardinality(seats), g)
  BY <1>6
<1> HIDE DEF Near
<1> QED BY <1>7, <1>8 DEF Explores, Step

\* Five seats that the draw accepts, with their reserves.
Jury(seats, five) ==
    /\ five \in SUBSET seats /\ Cardinality(five) = CommitteeSize
    /\ Capped(five) /\ IsDiverse(five) /\ ReservesExist(seats, five)

\* What the search finds is a jury around the seats that it started from.
LEMMA SearchFinds ==
    ASSUME NEW seats \in SUBSET Rows, IsFiniteSet(seats),
           NEW start \in SUBSET seats, Capped(start), Search(seats, start)
    PROVE  \E five : Jury(seats, five) /\ start \subseteq five
<1>1. PICK g : g = (CHOOSE k : Explores(seats, k)) /\ Explores(seats, g)
  <2>1. \E k : Explores(seats, k)
    BY ExplorationExists
  <2> QED BY <2>1
<1>2. g[start]
  BY <1>1, SearchIsExplored
<1>3. \A chosen \in SUBSET seats :
         g[chosen] <=> IF Cardinality(chosen) = CommitteeSize
                       THEN IsDiverse(chosen) /\ ReservesExist(seats, chosen)
                       ELSE \E s \in seats :
                               /\ \A t \in chosen : t.profile < s.profile
                               /\ CanAddSeat(chosen, s)
                               /\ g[chosen \cup {s}]
  <2>1. g = [chosen \in SUBSET seats |->
                IF Cardinality(chosen) = CommitteeSize
                THEN IsDiverse(chosen) /\ ReservesExist(seats, chosen)
                ELSE \E s \in seats :
                        /\ \A t \in chosen : t.profile < s.profile
                        /\ CanAddSeat(chosen, s)
                        /\ g[chosen \cup {s}]]
    BY <1>1 DEF Explores
  <2> QED BY <2>1
<1> DEFINE Finds(chosen) == \E five : Jury(seats, five) /\ chosen \subseteq five
           G == {n \in Nat : \A chosen \in SUBSET seats :
                    Cardinality(seats \ chosen) <= n /\ Capped(chosen) /\ g[chosen] => Finds(chosen)}
<1>4. \A chosen \in SUBSET seats :
         /\ IsFiniteSet(chosen) /\ IsFiniteSet(seats \ chosen) /\ chosen \in SUBSET Rows
         /\ Cardinality(seats \ chosen) \in Nat
  BY FS_Subset, FS_Difference, FS_CardinalityType
<1>5. ASSUME NEW chosen \in SUBSET seats, Capped(chosen), g[chosen],
             ~Finds(chosen)
      PROVE  \E s \in seats \ chosen :
                /\ chosen \cup {s} \in SUBSET seats /\ Capped(chosen \cup {s}) /\ g[chosen \cup {s}]
                /\ ~Finds(chosen \cup {s})
                /\ Cardinality(seats \ (chosen \cup {s})) = Cardinality(seats \ chosen) - 1
  <2>1. Cardinality(chosen) # CommitteeSize
    <3> SUFFICES ASSUME Cardinality(chosen) = CommitteeSize PROVE FALSE
      OBVIOUS
    <3>1. IsDiverse(chosen) /\ ReservesExist(seats, chosen)
      BY <1>3, <1>5
    <3>2. Jury(seats, chosen)
      BY <1>5, <3>1 DEF Jury
    <3> QED BY <1>5, <3>2
  <2>2. PICK s \in seats : CanAddSeat(chosen, s) /\ g[chosen \cup {s}]
    BY <1>3, <1>5, <2>1
  <2>3. Capped(chosen \cup {s}) /\ s \notin chosen
    <3>1. s \in Rows
      OBVIOUS
    <3> QED BY <1>4, <1>5, <2>2, <3>1, AddedSeatIsCapped
  <2>4. ~Finds(chosen \cup {s})
    BY <1>5
  <2>5. Cardinality(seats \ (chosen \cup {s})) = Cardinality(seats \ chosen) - 1
    <3>1. seats \ (chosen \cup {s}) = (seats \ chosen) \ {s} /\ s \in seats \ chosen
      BY <2>3
    <3>2. Cardinality((seats \ chosen) \ {s}) = Cardinality(seats \ chosen) - 1
      BY <1>4, <3>1, FS_RemoveElement
    <3> QED BY <3>1, <3>2
  <2> QED BY <2>2, <2>3, <2>4, <2>5
<1> HIDE DEF Finds
<1>6. 0 \in G
  <2> SUFFICES ASSUME NEW chosen \in SUBSET seats, Cardinality(seats \ chosen) <= 0,
                      Capped(chosen), g[chosen], ~Finds(chosen)
               PROVE  FALSE
    OBVIOUS
  <2>1. PICK s \in seats \ chosen : TRUE
    BY <1>5
  <2>2. Cardinality(seats \ chosen) = 0
    BY <1>4
  <2>3. seats \ chosen = {}
    BY <1>4, <2>2, FS_EmptySet
  <2> QED BY <2>1, <2>3
<1>7. ASSUME NEW n \in G PROVE n + 1 \in G
  <2>0. /\ n \in Nat /\ n + 1 \in Nat
        /\ \A chosen \in SUBSET seats :
              Cardinality(seats \ chosen) <= n /\ Capped(chosen) /\ g[chosen] => Finds(chosen)
    OBVIOUS
  <2> SUFFICES ASSUME NEW chosen \in SUBSET seats, Cardinality(seats \ chosen) <= n + 1,
                      Capped(chosen), g[chosen], ~Finds(chosen)
               PROVE  FALSE
    BY <2>0
  <2>1. PICK s \in seats \ chosen :
           /\ chosen \cup {s} \in SUBSET seats /\ Capped(chosen \cup {s}) /\ g[chosen \cup {s}]
           /\ ~Finds(chosen \cup {s})
           /\ Cardinality(seats \ (chosen \cup {s})) = Cardinality(seats \ chosen) - 1
    BY <1>5
  <2>2. Cardinality(seats \ chosen) \in Nat
    BY <1>4
  <2>3. Cardinality(seats \ (chosen \cup {s})) <= n
    BY <2>0, <2>1, <2>2
  <2> HIDE DEF G
  <2> QED BY <2>0, <2>1, <2>3
<1>8. Finds(start)
  <2>1. G \in SUBSET Nat
    OBVIOUS
  <2>2. Cardinality(seats \ start) \in G
    <3>1. Cardinality(seats \ start) \in Nat
      BY <1>4
    <3> HIDE DEF G
    <3>2. G = Nat
      BY <1>6, <1>7, <2>1, AllNumbers
    <3> QED BY <3>1, <3>2
  <2>3. Cardinality(seats \ start) <= Cardinality(seats \ start)
    BY <1>4
  <2> QED BY <1>2, <2>2, <2>3
<1> QED BY <1>8 DEF Finds

\* A seat by itself is within the caps.
LEMMA OneSeatIsCapped ==
    ASSUME NEW s \in Rows
    PROVE  Capped({s})
<1>1. \A t \in SUBSET {s} : IsFiniteSet(t) /\ Cardinality(t) <= 1
  <2>1. IsFiniteSet({s}) /\ Cardinality({s}) = 1
    BY FS_Singleton
  <2> QED BY <2>1, FS_Subset
<1>2. \A m \in Models : {t \in {s} : t.model = m} \in SUBSET {s}
  OBVIOUS
<1>3. \A o \in ToSet(Roles) : {t \in {s} : t.role = o} \in SUBSET {s}
  OBVIOUS
<1>4. \A t \in SUBSET {s} : Cardinality(t) \in Nat
  BY <1>1, FS_CardinalityType
<1>5. Rule.perModel \in Nat /\ Rule.perModel >= 1 /\ MaxPerRole \in Nat /\ MaxPerRole >= 1
  BY SizesAssumption
<1> QED BY <1>1, <1>2, <1>3, <1>4, <1>5 DEF Capped

\* Rows of different profiles have as many profiles.
LEMMA ProfilesCount ==
    ASSUME NEW S \in SUBSET Rows, IsFiniteSet(S),
           \A s, t \in S : s.profile = t.profile => s = t
    PROVE  /\ IsFiniteSet({s.profile : s \in S})
           /\ Cardinality({s.profile : s \in S}) = Cardinality(S)
<1> DEFINE V == {s.profile : s \in S}
           f == [s \in S |-> s.profile]
<1>1. f \in [S -> V] /\ (\A s, t \in S : f[s] = f[t] => s = t) /\ \A v \in V : \E s \in S : f[s] = v
  OBVIOUS
<1>2. f \in Bijection(S, V)
  <2> HIDE DEF f, V
  <2> QED BY <1>1 DEF Bijection, Injection, Surjection, IsInjective
<1>3. ExistsBijection(S, V)
  <2> HIDE DEF f, V
  <2> QED BY <1>2 DEF ExistsBijection
<1> HIDE DEF V
<1>4. IsFiniteSet(V) /\ Cardinality(V) = Cardinality(S)
  BY <1>3, FS_Bijection
<1> QED BY <1>4 DEF V

\* Profiles of different keys have as many keys.
LEMMA OwnersCount ==
    ASSUME NEW P \in SUBSET DOMAIN registry, IsFiniteSet(P),
           \A p, q \in P : registry[p].owner = registry[q].owner => p = q
    PROVE  Cardinality({registry[p].owner : p \in P}) = Cardinality(P)
<1> DEFINE V == {registry[p].owner : p \in P}
           f == [p \in P |-> registry[p].owner]
<1>1. f \in [P -> V] /\ (\A p, q \in P : f[p] = f[q] => p = q) /\ \A v \in V : \E p \in P : f[p] = v
  OBVIOUS
<1>2. f \in Bijection(P, V)
  <2> HIDE DEF f, V
  <2> QED BY <1>1 DEF Bijection, Injection, Surjection, IsInjective
<1>3. ExistsBijection(P, V)
  <2> HIDE DEF f, V
  <2> QED BY <1>2 DEF ExistsBijection
<1> HIDE DEF V
<1>4. Cardinality(V) = Cardinality(P)
  BY <1>3, FS_Bijection
<1> QED BY <1>4 DEF V

-----------------------------------------------------------------------------
(* A seat that some jury of the chain can hold                             *)

OfModel(profiles, m) == {q \in profiles : registry[q].model = m}
OfRole(profiles, o) == {q \in profiles : registry[q].role = o}

\* No two profiles share a key, and none has the key of the seat.
KeysApart(profiles, owner) ==
    /\ \A q, r \in profiles : registry[q].owner = registry[r].owner => q = r
    /\ \A q \in profiles : registry[q].owner # owner

\* The other seats of a jury, and its reserves k and l, for a seat with this key, model
\* and role.
Benches(others, k, l, owner, model, role) ==
    /\ others \in SUBSET DOMAIN registry /\ IsFiniteSet(others)
    /\ Cardinality(others) = CommitteeSize - 1
    /\ k \in DOMAIN registry \ others /\ l \in DOMAIN registry \ others /\ k # l
    /\ KeysApart(others \cup {k, l}, owner)
    /\ registry[k].role = Skeptic /\ registry[l].role = Source
    /\ Cardinality({model} \cup {registry[q].model : q \in others}) >= Rule.required
    /\ {Skeptic, Source} \subseteq {role} \cup {registry[q].role : q \in others}
    /\ \A m \in Models : Cardinality(OfModel(others, m)) <= Rule.perModel
    /\ \A o \in ToSet(Roles) : Cardinality(OfRole(others, o)) <= MaxPerRole
    /\ Cardinality(OfModel(others, model)) < Rule.perModel
    /\ Cardinality(OfRole(others, role)) < MaxPerRole

CanSit(owner, model, role) ==
    \E others \in SUBSET DOMAIN registry :
        \E k, l \in DOMAIN registry : Benches(others, k, l, owner, model, role)

\* A seat that can sit, once it has a profile, is on some panel of the chain's draw.
LEMMA SitsInPanel ==
    ASSUME SeatTypeOK, NEW p \in DOMAIN registry,
           CanSit(registry[p].owner, registry[p].model, registry[p].role)
    PROVE  PanelSeats(p)
<1>1. PICK others \in SUBSET DOMAIN registry :
         \E k, l \in DOMAIN registry :
            Benches(others, k, l, registry[p].owner, registry[p].model, registry[p].role)
  BY DEF CanSit
<1>2. PICK k \in DOMAIN registry, l \in DOMAIN registry :
         Benches(others, k, l, registry[p].owner, registry[p].model, registry[p].role)
  BY <1>1
<1> DEFINE five == others \cup {p}
           all == five \cup {k, l}
<1>3. CommitteeSize \in Nat /\ MaxPerRole \in Nat /\ Rule.perModel \in Nat
  BY SizesAssumption
<1>4. p \notin others /\ k \notin five /\ l \notin five /\ k # l
  BY <1>2 DEF Benches, KeysApart
<1>5. IsFiniteSet(others) /\ Cardinality(others) = CommitteeSize - 1 /\ IsFiniteSet(five)
      /\ Cardinality(five) = CommitteeSize
  <2>1. IsFiniteSet(others) /\ Cardinality(others) = CommitteeSize - 1
    BY <1>2 DEF Benches
  <2>2. IsFiniteSet(five) /\ Cardinality(five) = Cardinality(others) + 1
    BY <1>4, <2>1, FS_AddElement
  <2> QED BY <1>3, <2>1, <2>2
<1>6. others \in kSubset(CommitteeSize - 1, DOMAIN registry \ {p})
  BY <1>4, <1>5 DEF kSubset
<1>7. IsFiniteSet(all) /\ Cardinality(all) = CommitteeSize + ReserveCount
  <2>1. IsFiniteSet(five \cup {k}) /\ Cardinality(five \cup {k}) = CommitteeSize + 1
    BY <1>4, <1>5, FS_AddElement
  <2>2. l \notin five \cup {k}
    BY <1>4
  <2>3. IsFiniteSet((five \cup {k}) \cup {l})
        /\ Cardinality((five \cup {k}) \cup {l}) = (CommitteeSize + 1) + 1
    <3> HIDE DEF five
    <3> QED BY <2>1, <2>2, FS_AddElement
  <2>4. (five \cup {k}) \cup {l} = all
    OBVIOUS
  <2> HIDE DEF five, all
  <2> QED BY <1>3, <2>3, <2>4, ReservesAssumption
<1>8. Cardinality({registry[q].owner : q \in all}) = CommitteeSize + ReserveCount
  <2>1. all \in SUBSET DOMAIN registry
    OBVIOUS
  <2>2. \A q, r \in all : registry[q].owner = registry[r].owner => q = r
    BY <1>2 DEF Benches, KeysApart
  <2> HIDE DEF all
  <2>3. Cardinality({registry[q].owner : q \in all}) = Cardinality(all)
    BY <1>7, <2>1, <2>2, OwnersCount
  <2> QED BY <1>7, <2>3
<1>9. {registry[q].model : q \in five} = {registry[p].model} \cup {registry[q].model : q \in others}
      /\ {registry[q].role : q \in five} = {registry[p].role} \cup {registry[q].role : q \in others}
  OBVIOUS
<1>10. /\ Cardinality({registry[q].model : q \in five}) >= Rule.required
       /\ {Skeptic, Source} \subseteq {registry[q].role : q \in five}
  <2>1. /\ Cardinality({registry[p].model} \cup {registry[q].model : q \in others}) >= Rule.required
        /\ {Skeptic, Source} \subseteq {registry[p].role} \cup {registry[q].role : q \in others}
    BY <1>2 DEF Benches
  <2> HIDE DEF five
  <2> QED BY <1>9, <2>1
<1>11. \A q \in DOMAIN registry : registry[q].model \in Models /\ registry[q].role \in ToSet(Roles)
  <2>1. registry \in Seq(Owned)
    BY DEF SeatTypeOK
  <2>2. \A q \in DOMAIN registry : registry[q] \in Owned
    BY <2>1
  <2> QED BY <2>2 DEF Owned
<1>12. \A m \in Models : IsFiniteSet(OfModel(others, m)) /\ Cardinality(OfModel(others, m)) \in Nat
  <2>1. \A m \in Models : OfModel(others, m) \in SUBSET others
    BY DEF OfModel
  <2> QED BY <1>5, <2>1, FS_Subset, FS_CardinalityType
<1>13. \A o \in ToSet(Roles) : IsFiniteSet(OfRole(others, o)) /\ Cardinality(OfRole(others, o)) \in Nat
  <2>1. \A o \in ToSet(Roles) : OfRole(others, o) \in SUBSET others
    BY DEF OfRole
  <2> QED BY <1>5, <2>1, FS_Subset, FS_CardinalityType
<1>14. ASSUME NEW m \in Models
       PROVE  Cardinality({q \in five : registry[q].model = m}) <= Rule.perModel
  <2>1. CASE m = registry[p].model
    <3>1. {q \in five : registry[q].model = m} = OfModel(others, m) \cup {p}
          /\ p \notin OfModel(others, m)
      BY <1>4, <2>1 DEF OfModel
    <3>2. Cardinality(OfModel(others, m)) < Rule.perModel
      BY <1>2, <2>1 DEF Benches
    <3>3. Cardinality(OfModel(others, m) \cup {p}) = Cardinality(OfModel(others, m)) + 1
      BY <1>12, <3>1, FS_AddElement
    <3>4. Cardinality({q \in five : registry[q].model = m}) = Cardinality(OfModel(others, m)) + 1
      <4> HIDE DEF five
      <4> QED BY <3>1, <3>3
    <3> HIDE DEF five
    <3> QED BY <1>3, <1>12, <3>2, <3>4
  <2>2. CASE m # registry[p].model
    <3>1. {q \in five : registry[q].model = m} = OfModel(others, m)
      BY <2>2 DEF OfModel
    <3>2. Cardinality(OfModel(others, m)) <= Rule.perModel
      BY <1>2 DEF Benches
    <3> HIDE DEF five
    <3> QED BY <3>1, <3>2
  <2> QED BY <2>1, <2>2
<1>15. ASSUME NEW o \in ToSet(Roles)
       PROVE  Cardinality({q \in five : registry[q].role = o}) <= MaxPerRole
  <2>1. CASE o = registry[p].role
    <3>1. {q \in five : registry[q].role = o} = OfRole(others, o) \cup {p}
          /\ p \notin OfRole(others, o)
      BY <1>4, <2>1 DEF OfRole
    <3>2. Cardinality(OfRole(others, o)) < MaxPerRole
      BY <1>2, <2>1 DEF Benches
    <3>3. Cardinality(OfRole(others, o) \cup {p}) = Cardinality(OfRole(others, o)) + 1
      BY <1>13, <3>1, FS_AddElement
    <3>4. Cardinality({q \in five : registry[q].role = o}) = Cardinality(OfRole(others, o)) + 1
      <4> HIDE DEF five
      <4> QED BY <3>1, <3>3
    <3> HIDE DEF five
    <3> QED BY <1>3, <1>13, <3>2, <3>4
  <2>2. CASE o # registry[p].role
    <3>1. {q \in five : registry[q].role = o} = OfRole(others, o)
      BY <2>2 DEF OfRole
    <3>2. Cardinality(OfRole(others, o)) <= MaxPerRole
      BY <1>2 DEF Benches
    <3> HIDE DEF five
    <3> QED BY <3>1, <3>2
  <2> QED BY <2>1, <2>2
<1>16. /\ \A m \in {registry[q].model : q \in five} :
             Cardinality({q \in five : registry[q].model = m}) <= Rule.perModel
       /\ \A o \in {registry[q].role : q \in five} :
             Cardinality({q \in five : registry[q].role = o}) <= MaxPerRole
  <2>1. five \subseteq DOMAIN registry
    OBVIOUS
  <2> HIDE DEF five
  <2> QED BY <1>11, <1>14, <1>15, <2>1
<1>17. /\ k \in DOMAIN registry \ five /\ l \in DOMAIN registry \ five
       /\ registry[k].role = Skeptic /\ registry[l].role = Source
  BY <1>2, <1>4 DEF Benches
<1> QED
  <2>1. all = five \cup {k, l} /\ five = others \cup {p}
    OBVIOUS
  <2> HIDE DEF all, five
  <2> QED BY <1>6, <1>8, <1>10, <1>16, <1>17, <2>1 DEF PanelSeats

\* A row says of its profile what the chain says.
LEMMA RowsRepeat ==
    ASSUME SeatTypeOK, MirrorRepeatsTheChain, NEW r \in mirror
    PROVE  /\ r \in Rows /\ r.profile \in DOMAIN registry
           /\ registry[r.profile].owner = r.owner /\ registry[r.profile].model = r.model
           /\ registry[r.profile].role = r.role /\ registry[r.profile].staker = r.staker
<1>1. r \in Rows
  BY DEF SeatTypeOK
<1>2. r.profile \in DOMAIN registry /\ r = [Row(r.profile, registry[r.profile]) EXCEPT !.active = r.active]
  BY DEF MirrorRepeatsTheChain
<1>3. PICK seat : seat = registry[r.profile]
  OBVIOUS
<1>4. PICK p : p = r.profile
  OBVIOUS
<1>5. r = [Row(p, seat) EXCEPT !.active = r.active]
  BY <1>2, <1>3, <1>4
<1>6. r.owner = seat.owner /\ r.model = seat.model /\ r.role = seat.role /\ r.staker = seat.staker
  BY <1>5 DEF Row
<1> QED BY <1>1, <1>2, <1>3, <1>6

\* The jury that the search found around a candidate is one of the chain's: its other
\* seats and its reserves are rows of the mirror.
LEMMA JurySits ==
    ASSUME SeatTypeOK, MirrorRepeatsTheChain,
           NEW candidate \in Rows, NEW seats \in SUBSET (mirror \cup {candidate}),
           NEW five, Jury(seats, five), candidate \in five
    PROVE  CanSit(candidate.owner, candidate.model, candidate.role)
<1> DEFINE bench == five \ {candidate}
           others == {r.profile : r \in bench}
<1>1. CommitteeSize \in Nat /\ MaxPerRole \in Nat /\ Rule.perModel \in Nat
  BY SizesAssumption
<1>2. /\ five \in SUBSET seats /\ Cardinality(five) = CommitteeSize
      /\ Capped(five) /\ IsDiverse(five) /\ ReservesExist(seats, five)
  BY DEF Jury
<1>3. five \subseteq Rows /\ bench \subseteq mirror /\ bench \subseteq five
  <2>1. mirror \subseteq Rows
    BY DEF SeatTypeOK
  <2> QED BY <1>2, <2>1
<1>4. IsFiniteSet(five) /\ IsFiniteSet(bench) /\ Cardinality(bench) = CommitteeSize - 1
  <2>1. IsFiniteSet(mirror \cup {candidate})
    <3>1. IsFiniteSet(mirror)
      BY DEF SeatTypeOK
    <3> QED BY <3>1, FS_AddElement
  <2>2. IsFiniteSet(five)
    <3>1. five \in SUBSET (mirror \cup {candidate})
      BY <1>2
    <3> QED BY <2>1, <3>1, FS_Subset
  <2>3. IsFiniteSet(five \ {candidate}) /\ Cardinality(five \ {candidate}) = Cardinality(five) - 1
    BY <2>2, FS_RemoveElement
  <2> QED BY <1>2, <2>2, <2>3
<1>5. \A r \in mirror :
         /\ r.profile \in DOMAIN registry
         /\ registry[r.profile].owner = r.owner /\ registry[r.profile].model = r.model
         /\ registry[r.profile].role = r.role
  BY RowsRepeat
<1>6. \A s, t \in five : s.owner = t.owner => s = t
  BY <1>2 DEF Capped
<1>7. \A s, t \in bench : s.profile = t.profile => s = t
  <2> SUFFICES ASSUME NEW s \in bench, NEW t \in bench, s.profile = t.profile PROVE s = t
    OBVIOUS
  <2>1. s.owner = t.owner
    <3> HIDE DEF bench
    <3> QED BY <1>3, <1>5
  <2> QED BY <1>6, <2>1
<1>8. \A S \in SUBSET bench : IsFiniteSet({s.profile : s \in S})
                              /\ Cardinality({s.profile : s \in S}) = Cardinality(S)
  <2> SUFFICES ASSUME NEW S \in SUBSET bench
               PROVE  IsFiniteSet({s.profile : s \in S})
                      /\ Cardinality({s.profile : s \in S}) = Cardinality(S)
    OBVIOUS
  <2> HIDE DEF bench
  <2>1. S \in SUBSET Rows /\ S \in SUBSET bench
    BY <1>3
  <2>2. IsFiniteSet(S)
    BY <1>4, <2>1, FS_Subset
  <2>3. \A s, t \in S : s.profile = t.profile => s = t
    BY <1>7, <2>1
  <2> QED BY <2>1, <2>2, <2>3, ProfilesCount
<1>9. others \in SUBSET DOMAIN registry /\ IsFiniteSet(others) /\ Cardinality(others) = CommitteeSize - 1
  <2>1. others \in SUBSET DOMAIN registry
    <3> HIDE DEF bench
    <3> QED BY <1>3, <1>5
  <2>2. bench \in SUBSET bench
    OBVIOUS
  <2> HIDE DEF bench
  <2> QED BY <1>4, <1>8, <2>1, <2>2
<1>10. PICK skeptic \in mirror, source \in mirror :
          /\ skeptic.role = Skeptic /\ source.role = Source /\ skeptic.owner # source.owner
          /\ skeptic.owner \notin {t.owner : t \in five} /\ source.owner \notin {t.owner : t \in five}
  <2>1. PICK skeptic \in {s \in seats : s.owner \notin {t.owner : t \in five}},
             source \in {s \in seats : s.owner \notin {t.owner : t \in five}} :
               skeptic.role = Skeptic /\ source.role = Source /\ skeptic.owner # source.owner
    BY <1>2 DEF ReservesExist
  <2>2. skeptic \in mirror /\ source \in mirror
    BY <2>1
  <2> QED BY <2>1, <2>2
<1>11. PICK k \in DOMAIN registry, l \in DOMAIN registry :
          /\ k = skeptic.profile /\ l = source.profile
          /\ registry[k].owner = skeptic.owner /\ registry[l].owner = source.owner
          /\ registry[k].role = Skeptic /\ registry[l].role = Source
  BY <1>5, <1>10
<1>12. \A q \in others : \E r \in bench : q = r.profile /\ registry[q].owner = r.owner
                                          /\ registry[q].model = r.model /\ registry[q].role = r.role
  <2> HIDE DEF bench
  <2> QED BY <1>3, <1>5
<1>13. \A r \in bench : /\ r.profile \in others /\ registry[r.profile].owner = r.owner
                        /\ registry[r.profile].model = r.model /\ registry[r.profile].role = r.role
  <2>1. \A r \in bench : r.profile \in others
    OBVIOUS
  <2> HIDE DEF bench, others
  <2> QED BY <1>3, <1>5, <2>1
<1>14. \A q \in others : registry[q].owner # candidate.owner
                         /\ registry[q].owner # skeptic.owner /\ registry[q].owner # source.owner
  <2> SUFFICES ASSUME NEW q \in others
               PROVE  registry[q].owner # candidate.owner
                      /\ registry[q].owner # skeptic.owner /\ registry[q].owner # source.owner
    OBVIOUS
  <2>1. PICK r \in bench : registry[q].owner = r.owner
    BY <1>12
  <2>2. r \in five /\ r # candidate
    OBVIOUS
  <2> HIDE DEF bench, others
  <2> QED BY <1>6, <1>10, <2>1, <2>2
<1>15. k \notin others /\ l \notin others /\ k # l
  <2> HIDE DEF others
  <2> QED BY <1>10, <1>11, <1>14
<1>16. KeysApart(others \cup {k, l}, candidate.owner)
  <2>1. \A q, r \in others : registry[q].owner = registry[r].owner => q = r
    <3> SUFFICES ASSUME NEW q \in others, NEW r \in others, registry[q].owner = registry[r].owner
                 PROVE  q = r
      OBVIOUS
    <3>1. PICK s \in bench : q = s.profile /\ registry[q].owner = s.owner
      BY <1>12
    <3>2. PICK t \in bench : r = t.profile /\ registry[r].owner = t.owner
      BY <1>12
    <3>3. s \in five /\ t \in five
      OBVIOUS
    <3> HIDE DEF bench, others
    <3> QED BY <1>6, <3>1, <3>2, <3>3
  <2>2. registry[k].owner # registry[l].owner /\ registry[k].owner # candidate.owner
        /\ registry[l].owner # candidate.owner
    BY <1>10, <1>11
  <2>3. \A q \in others : registry[q].owner # registry[k].owner /\ registry[q].owner # registry[l].owner
                          /\ registry[q].owner # candidate.owner
    <3> HIDE DEF others
    <3> QED BY <1>11, <1>14
  <2> HIDE DEF others
  <2> QED BY <2>1, <2>2, <2>3 DEF KeysApart
<1>17. /\ Cardinality({candidate.model} \cup {registry[q].model : q \in others}) >= Rule.required
       /\ {Skeptic, Source} \subseteq {candidate.role} \cup {registry[q].role : q \in others}
  <2>1. five = bench \cup {candidate}
    OBVIOUS
  <2>2. {registry[q].model : q \in others} = {r.model : r \in bench}
        /\ {registry[q].role : q \in others} = {r.role : r \in bench}
    <3> HIDE DEF others, bench
    <3> QED BY <1>12, <1>13
  <2>3. {s.model : s \in five} = {candidate.model} \cup {registry[q].model : q \in others}
        /\ {s.role : s \in five} = {candidate.role} \cup {registry[q].role : q \in others}
    <3> HIDE DEF others, bench
    <3> QED BY <2>1, <2>2
  <2>4. Cardinality({s.model : s \in five}) >= Rule.required
        /\ {Skeptic, Source} \subseteq {s.role : s \in five}
    BY <1>2 DEF IsDiverse
  <2> HIDE DEF others, bench
  <2> QED BY <2>3, <2>4
<1>18. \A m \in Models : OfModel(others, m) = {r.profile : r \in {s \in bench : s.model = m}}
  <2> HIDE DEF others, bench
  <2> QED BY <1>12, <1>13 DEF OfModel
<1>19. \A o \in ToSet(Roles) : OfRole(others, o) = {r.profile : r \in {s \in bench : s.role = o}}
  <2> HIDE DEF others, bench
  <2> QED BY <1>12, <1>13 DEF OfRole
<1>20. \A m \in Models : Cardinality(OfModel(others, m)) = Cardinality({s \in bench : s.model = m})
  <2>1. \A m \in Models : {s \in bench : s.model = m} \in SUBSET bench
    OBVIOUS
  <2> HIDE DEF others, bench
  <2> QED BY <1>8, <1>18, <2>1
<1>21. \A o \in ToSet(Roles) : Cardinality(OfRole(others, o)) = Cardinality({s \in bench : s.role = o})
  <2>1. \A o \in ToSet(Roles) : {s \in bench : s.role = o} \in SUBSET bench
    OBVIOUS
  <2> HIDE DEF others, bench
  <2> QED BY <1>8, <1>19, <2>1
<1>22. \A S \in SUBSET five : IsFiniteSet(S) /\ Cardinality(S) \in Nat
  BY <1>4, FS_Subset, FS_CardinalityType
<1>23. \A m \in Models : Cardinality({s \in five : s.model = m}) <= Rule.perModel
  BY <1>2 DEF Capped
<1>24. \A o \in ToSet(Roles) : Cardinality({s \in five : s.role = o}) <= MaxPerRole
  BY <1>2 DEF Capped
<1>25. \A m \in Models : Cardinality(OfModel(others, m)) <= Rule.perModel
  <2> SUFFICES ASSUME NEW m \in Models PROVE Cardinality({s \in bench : s.model = m}) <= Rule.perModel
    BY <1>20
  <2>1. {s \in bench : s.model = m} \in SUBSET {s \in five : s.model = m}
        /\ {s \in five : s.model = m} \in SUBSET five
    OBVIOUS
  <2> HIDE DEF bench
  <2>2. Cardinality({s \in bench : s.model = m}) <= Cardinality({s \in five : s.model = m})
        /\ Cardinality({s \in five : s.model = m}) \in Nat /\ Cardinality({s \in bench : s.model = m}) \in Nat
    <3>1. IsFiniteSet({s \in five : s.model = m})
      BY <1>22, <2>1
    <3> QED BY <2>1, <3>1, FS_Subset, FS_CardinalityType
  <2>3. Cardinality({s \in five : s.model = m}) <= Rule.perModel
    BY <1>23
  <2> QED BY <1>1, <2>2, <2>3
<1>26. \A o \in ToSet(Roles) : Cardinality(OfRole(others, o)) <= MaxPerRole
  <2> SUFFICES ASSUME NEW o \in ToSet(Roles) PROVE Cardinality({s \in bench : s.role = o}) <= MaxPerRole
    BY <1>21
  <2>1. {s \in bench : s.role = o} \in SUBSET {s \in five : s.role = o}
        /\ {s \in five : s.role = o} \in SUBSET five
    OBVIOUS
  <2> HIDE DEF bench
  <2>2. Cardinality({s \in bench : s.role = o}) <= Cardinality({s \in five : s.role = o})
        /\ Cardinality({s \in five : s.role = o}) \in Nat /\ Cardinality({s \in bench : s.role = o}) \in Nat
    <3>1. IsFiniteSet({s \in five : s.role = o})
      BY <1>22, <2>1
    <3> QED BY <2>1, <3>1, FS_Subset, FS_CardinalityType
  <2>3. Cardinality({s \in five : s.role = o}) <= MaxPerRole
    BY <1>24
  <2> QED BY <1>1, <2>2, <2>3
<1>27. Cardinality(OfModel(others, candidate.model)) < Rule.perModel
  <2>1. PICK m \in Models : m = candidate.model
    BY DEF Rows
  <2>2. {s \in bench : s.model = m} = {s \in five : s.model = m} \ {candidate}
        /\ candidate \in {s \in five : s.model = m} /\ {s \in five : s.model = m} \in SUBSET five
    BY <2>1
  <2>3. IsFiniteSet({s \in five : s.model = m}) /\ Cardinality({s \in five : s.model = m}) \in Nat
    BY <1>22, <2>2
  <2>4. Cardinality({s \in five : s.model = m} \ {candidate}) = Cardinality({s \in five : s.model = m}) - 1
    BY <2>2, <2>3, FS_RemoveElement
  <2> HIDE DEF bench, others
  <2>5. Cardinality(OfModel(others, m)) = Cardinality({s \in five : s.model = m}) - 1
    BY <1>20, <2>2, <2>4
  <2>6. Cardinality({s \in five : s.model = m}) <= Rule.perModel
    BY <1>23
  <2>7. Cardinality(OfModel(others, m)) < Rule.perModel
    BY <1>1, <2>3, <2>5, <2>6
  <2> QED BY <2>1, <2>7
<1>28. Cardinality(OfRole(others, candidate.role)) < MaxPerRole
  <2>1. PICK o \in ToSet(Roles) : o = candidate.role
    BY DEF Rows
  <2>2. {s \in bench : s.role = o} = {s \in five : s.role = o} \ {candidate}
        /\ candidate \in {s \in five : s.role = o} /\ {s \in five : s.role = o} \in SUBSET five
    BY <2>1
  <2>3. IsFiniteSet({s \in five : s.role = o}) /\ Cardinality({s \in five : s.role = o}) \in Nat
    BY <1>22, <2>2
  <2>4. Cardinality({s \in five : s.role = o} \ {candidate}) = Cardinality({s \in five : s.role = o}) - 1
    BY <2>2, <2>3, FS_RemoveElement
  <2> HIDE DEF bench, others
  <2>5. Cardinality(OfRole(others, o)) = Cardinality({s \in five : s.role = o}) - 1
    BY <1>21, <2>2, <2>4
  <2>6. Cardinality({s \in five : s.role = o}) <= MaxPerRole
    BY <1>24
  <2>7. Cardinality(OfRole(others, o)) < MaxPerRole
    BY <1>1, <2>3, <2>5, <2>6
  <2> QED BY <2>1, <2>7
<1>29. Benches(others, k, l, candidate.owner, candidate.model, candidate.role)
  <2> HIDE DEF others
  <2> QED BY <1>9, <1>11, <1>15, <1>16, <1>17, <1>25, <1>26, <1>27, <1>28 DEF Benches
<1> HIDE DEF others
<1> QED BY <1>9, <1>29 DEF CanSit

\* What the registry says of a seat stays, and the registry only grows.
Grows ==
    /\ DOMAIN registry \subseteq DOMAIN registry'
    /\ \A p \in DOMAIN registry :
          /\ registry'[p].owner = registry[p].owner /\ registry'[p].model = registry[p].model
          /\ registry'[p].role = registry[p].role /\ registry'[p].staker = registry[p].staker

\* A seat that can sit still can when more seats have joined.
LEMMA CanSitGrows ==
    ASSUME NEW owner, NEW model, NEW role, CanSit(owner, model, role), Grows
    PROVE  CanSit(owner, model, role)'
<1>1. PICK others \in SUBSET DOMAIN registry :
         \E k, l \in DOMAIN registry : Benches(others, k, l, owner, model, role)
  BY DEF CanSit
<1>2. PICK k \in DOMAIN registry, l \in DOMAIN registry : Benches(others, k, l, owner, model, role)
  BY <1>1
<1>3. others \in SUBSET DOMAIN registry' /\ k \in DOMAIN registry' /\ l \in DOMAIN registry'
      /\ \A q \in others \cup {k, l} :
            /\ registry'[q].owner = registry[q].owner /\ registry'[q].model = registry[q].model
            /\ registry'[q].role = registry[q].role
  BY DEF Grows
<1>4. /\ \A m : OfModel(others, m)' = OfModel(others, m)
      /\ \A o : OfRole(others, o)' = OfRole(others, o)
      /\ {registry'[q].model : q \in others} = {registry[q].model : q \in others}
      /\ {registry'[q].role : q \in others} = {registry[q].role : q \in others}
  BY <1>3 DEF OfModel, OfRole
<1>5. KeysApart(others \cup {k, l}, owner) => KeysApart(others \cup {k, l}, owner)'
  BY <1>3 DEF KeysApart
<1>6. Benches(others, k, l, owner, model, role)'
  BY <1>2, <1>3, <1>4, <1>5 DEF Benches
<1> QED BY <1>3, <1>6 DEF CanSit

-----------------------------------------------------------------------------
(* What a registration takes to the desk                                   *)

\* When a slot is free the engine takes one that is.
LEMMA SlotIsFree ==
    ASSUME FreeSlots # {}
    PROVE  AllocatedSlot \in Slots /\ AllocatedSlot \notin TakenSlots
<1>1. FreeSlots \in SUBSET Nat
  BY SizesAssumption DEF FreeSlots
<1>2. PICK F : F = FreeSlots
  OBVIOUS
<1>3. \E s \in F : \A t \in F : s <= t
  BY <1>1, <1>2, LeastExists
<1>4. AllocatedSlot \in F
  BY <1>2, <1>3 DEF AllocatedSlot
<1> QED BY <1>2, <1>4 DEF FreeSlots

\* Of any roles one comes first.
LEMMA FirstRoleExists ==
    ASSUME SeatTypeOK, NEW indices \in SUBSET DOMAIN Roles, indices # {}, NEW model
    PROVE  FirstOf(indices, model) \in ToSet(Roles)
<1> DEFINE Held(k) == CountOf(ActiveRows, LAMBDA r : r.model = model /\ r.role = Roles[k])
           counts == {Held(i) : i \in indices}
<1>1. indices \in SUBSET Nat
  <2>1. DOMAIN Roles = 1 .. Len(Roles) /\ Len(Roles) \in Nat
    BY NamesAssumption, LenProperties
  <2> QED BY <2>1
<1>2. \A k \in indices : Held(k) \in Nat
  <2> SUFFICES ASSUME NEW k \in indices PROVE Held(k) \in Nat
    OBVIOUS
  <2>1. {r \in ActiveRows : r.model = model /\ r.role = Roles[k]} \in SUBSET mirror /\ IsFiniteSet(mirror)
    BY DEF SeatTypeOK, ActiveRows
  <2>2. Cardinality({r \in ActiveRows : r.model = model /\ r.role = Roles[k]}) \in Nat
    BY <2>1, FS_Subset, FS_CardinalityType
  <2> QED BY <2>2 DEF CountOf
<1>3. \A i, j \in indices : RanksBefore(i, j, model) <=> (Held(i) < Held(j) \/ (Held(i) = Held(j) /\ i <= j))
  BY DEF RanksBefore
<1>4. counts \in SUBSET Nat /\ counts # {}
  <2> HIDE DEF Held
  <2> QED BY <1>2
<1> HIDE DEF Held
<1>5. PICK m \in counts : \A n \in counts : m <= n
  <2> HIDE DEF counts
  <2> QED BY <1>4, LeastExists
<1> DEFINE firsts == {i \in indices : Held(i) = m}
<1>6. firsts \in SUBSET Nat /\ firsts # {}
  BY <1>1, <1>5
<1>7. PICK i \in firsts : \A j \in firsts : i <= j
  <2> HIDE DEF firsts
  <2> QED BY <1>6, LeastExists
<1>8. i \in indices /\ Held(i) = m /\ m \in Nat
  BY <1>4
<1>9. \A j \in indices : RanksBefore(i, j, model)
  <2> SUFFICES ASSUME NEW j \in indices PROVE RanksBefore(i, j, model)
    OBVIOUS
  <2>1. m <= Held(j) /\ Held(j) \in Nat
    BY <1>2, <1>5
  <2>2. CASE Held(j) = m
    <3>1. i <= j
      BY <1>7, <2>2
    <3> QED BY <1>3, <1>8, <2>2, <3>1
  <2>3. CASE Held(j) # m
    <3>1. Held(i) < Held(j)
      BY <1>8, <2>1, <2>3
    <3> QED BY <1>3, <1>8, <3>1
  <2> QED BY <2>2, <2>3
<1>10. (CHOOSE k \in indices : \A j \in indices : RanksBefore(k, j, model)) \in indices
  BY <1>8, <1>9
<1> QED BY <1>10 DEF FirstOf, ToSet

\* The engine chooses one of the roles.
LEMMA AssignedRole ==
    ASSUME SeatTypeOK, NEW staker, NEW model
    PROVE  AssignSeatRole(staker, model) \in ToSet(Roles)
<1>1. PICK fits : fits = {i \in DOMAIN Roles :
                     RosterCanSeat(ActiveRows, Candidate(staker, model, Roles[i]))}
  OBVIOUS
<1>2. fits \in SUBSET DOMAIN Roles
  BY <1>1
<1>3. DOMAIN Roles # {}
  BY NamesAssumption DEF ToSet
<1>4. AssignSeatRole(staker, model) = IF ~RosterAdmitsDraw(ActiveRows) \/ fits = {}
                                      THEN FirstOf(DOMAIN Roles, model) ELSE FirstOf(fits, model)
  BY <1>1 DEF AssignSeatRole
<1>5. FirstOf(DOMAIN Roles, model) \in ToSet(Roles)
  BY <1>3, FirstRoleExists
<1>6. fits # {} => FirstOf(fits, model) \in ToSet(Roles)
  BY <1>2, FirstRoleExists
<1> QED BY <1>4, <1>5, <1>6

\* What is published at the desk: a seat on a slot that nobody holds.
Published(kind, seat, checked) ==
    [stage |-> "PUBLISHING", kind |-> kind, seat |-> seat, profile |-> 0, checked |-> checked]

\* A registration begins with a seat of the wanted model on a free slot; when it counts as
\* checked the roster could draw and can seat it.
LEMMA RegistrationBegins ==
    ASSUME SeatTypeOK, NEW kind, NEW staker \in Stakers \cup {"OPERATOR"}, NEW model \in Models,
           NEW wish \in ToSet(Roles) \cup {NoRole}, BeginRegistration(kind, staker, model, wish)
    PROVE  \E seat \in Rows, checked \in BOOLEAN :
              /\ desk' = Published(kind, seat, checked)
              /\ seat.owner \in Slots /\ seat.owner \notin TakenSlots /\ seat.staker = staker
              /\ checked => RosterCanSeat(ActiveRows, seat)
<1>1. PICK role : role = IF wish = NoRole THEN AssignSeatRole(staker, model) ELSE wish
  OBVIOUS
<1>2. role \in ToSet(Roles)
  <2>1. AssignSeatRole(staker, model) \in ToSet(Roles)
    BY AssignedRole
  <2> QED BY <1>1, <2>1
<1>3. PICK slot : slot = AllocatedSlot
  OBVIOUS
<1>4. slot \in Slots /\ slot \notin TakenSlots /\ slot \in Nat
  <2>1. FreeSlots # {}
    BY DEF BeginRegistration
  <2> QED BY <1>3, <2>1, SlotIsFree, SizesAssumption
<1>5. PICK seat : seat = Candidate(staker, model, role)
  OBVIOUS
<1>6. seat = [profile |-> 0, owner |-> slot, model |-> model, role |-> role, staker |-> staker,
              active |-> TRUE]
  BY <1>3, <1>5 DEF Candidate, Row
<1>7. seat \in Rows
  BY <1>2, <1>4, <1>6 DEF Rows
<1>8. PICK checked \in BOOLEAN : checked = (kind = "STAKE" /\ RosterAdmitsDraw(ActiveRows))
  OBVIOUS
<1>9. /\ kind = "STAKE" => SeatIsDrawable(seat)
      /\ desk' = Published(kind, seat, checked)
  BY <1>1, <1>5, <1>8 DEF BeginRegistration, Published
<1>10. checked => RosterCanSeat(ActiveRows, seat)
  BY <1>8, <1>9 DEF SeatIsDrawable
<1>11. seat.owner = slot /\ seat.staker = staker
  BY <1>6
<1> QED BY <1>4, <1>7, <1>9, <1>10, <1>11

-----------------------------------------------------------------------------
(* Types                                                                   *)

\* What the reservations say stays, but for their status and profile.
HoldsStay ==
    /\ DOMAIN holds \subseteq DOMAIN holds'
    /\ \A h \in DOMAIN holds :
          /\ holds'[h].slot = holds[h].slot /\ holds'[h].staker = holds[h].staker
          /\ holds'[h].model = holds[h].model /\ holds'[h].role = holds[h].role
          /\ holds'[h].checked = holds[h].checked /\ holds'[h].expires = holds[h].expires

\* The types hold at the start.
LEMMA SeatTypesInit == SeatInit => SeatTypeOK
<1> SUFFICES ASSUME SeatInit PROVE SeatTypeOK
  OBVIOUS
<1>1. PICK seats \in Seeds : /\ registry = Seed(seats)
                             /\ mirror = {Row(i, Seed(seats)[i]) : i \in DOMAIN seats}
  BY DEF SeatInit
<1>2. seats \in Seq([model : Models, role : ToSet(Roles)])
  BY NamesAssumption
<1>3. DOMAIN seats = 1 .. Len(seats) /\ Len(seats) \in Nat
      /\ \A i \in DOMAIN seats : seats[i].model \in Models /\ seats[i].role \in ToSet(Roles)
  <2>1. DOMAIN seats = 1 .. Len(seats) /\ Len(seats) \in Nat
    BY <1>2, LenProperties
  <2>2. \A i \in 1 .. Len(seats) : seats[i] \in [model : Models, role : ToSet(Roles)]
    BY <1>2, ElementOfSeq
  <2> QED BY <2>1, <2>2
<1>4. \A i \in DOMAIN seats : Seed(seats)[i] \in Owned
  BY <1>3 DEF Seed, Owned
<1>5. registry \in Seq(Owned) /\ DOMAIN registry = DOMAIN seats
  <2>1. DOMAIN Seed(seats) = 1 .. Len(seats)
    BY <1>3 DEF Seed
  <2>2. Seed(seats) \in [1 .. Len(seats) -> Owned]
    BY <1>3, <1>4, <2>1 DEF Seed
  <2>3. Seed(seats) \in Seq(Owned)
    BY <1>3, <2>2, SeqDef
  <2> QED BY <1>1, <1>3, <2>1, <2>3
<1>6. mirror \in SUBSET Rows
  <2>1. \A i \in DOMAIN seats : Row(i, Seed(seats)[i]) \in Rows
    <3> SUFFICES ASSUME NEW i \in DOMAIN seats PROVE Row(i, Seed(seats)[i]) \in Rows
      OBVIOUS
    <3>1. PICK seat \in Owned : seat = Seed(seats)[i]
      BY <1>4
    <3>2. i \in Nat
      BY <1>3
    <3>3. Row(i, seat) \in Rows
      BY <3>2 DEF Row, Rows, Owned
    <3> QED BY <3>1, <3>3
  <2> QED BY <1>1, <2>1
<1>7. IsFiniteSet(mirror)
  <2>1. 1 \in Int /\ Len(seats) \in Int
    BY <1>3
  <2>2. IsFiniteSet(1 .. Len(seats))
    BY <2>1, FS_Interval
  <2>3. IsFiniteSet({Row(i, Seed(seats)[i]) : i \in 1 .. Len(seats)})
    <3> DEFINE V == {Row(i, Seed(seats)[i]) : i \in 1 .. Len(seats)}
               f == [i \in 1 .. Len(seats) |-> Row(i, Seed(seats)[i])]
    <3>1. f \in [1 .. Len(seats) -> V] /\ \A v \in V : \E i \in 1 .. Len(seats) : f[i] = v
      OBVIOUS
    <3>2. f \in Surjection(1 .. Len(seats), V)
      <4> HIDE DEF f, V
      <4> QED BY <3>1 DEF Surjection
    <3> HIDE DEF f, V
    <3>3. IsFiniteSet(V)
      BY <2>2, <3>2, FS_Surjection
    <3> QED BY <3>3 DEF V
  <2> QED BY <1>1, <1>3, <2>3
<1>8. holds \in Seq(Reservations) /\ posted \subseteq DOMAIN holds
  BY EmptySeq DEF SeatInit
<1>9. RegistrationTypeOK
  BY DEF SeatInit, RegistrationTypeOK, NobodyAtDesk
<1>10. ConfirmationsTypeOK
  BY DEF SeatInit, ConfirmationsTypeOK
<1> QED BY <1>5, <1>6, <1>7, <1>8, <1>9, <1>10 DEF SeatInit, SeatTypeOK, NotSyncing

\* One more record in the registry, the others as they were.
LEMMA RegistryAppended ==
    ASSUME registry \in Seq(Owned), NEW entry \in Owned, registry' = Append(registry, entry)
    PROVE  /\ registry' \in Seq(Owned) /\ Grows
           /\ Len(registry) + 1 \in DOMAIN registry' /\ registry'[Len(registry) + 1] = entry
<1>1. /\ Append(registry, entry) \in Seq(Owned)
      /\ DOMAIN registry = 1 .. Len(registry) /\ Len(registry) \in Nat
      /\ DOMAIN registry' = 1 .. (Len(registry) + 1)
      /\ registry'[Len(registry) + 1] = entry
      /\ \A p \in 1 .. Len(registry) : registry'[p] = registry[p]
  BY AppendProperties, LenProperties
<1> QED BY <1>1 DEF Grows

\* A registry with more seats keeps the type of the registration under way.
LEMMA RegistrationTypeStays ==
    ASSUME RegistrationTypeOK, DOMAIN registry \subseteq DOMAIN registry', UNCHANGED desk
    PROVE  RegistrationTypeOK'
<1>1. \/ desk = NobodyAtDesk
      \/ desk \in [stage : {"PUBLISHING"}, kind : {"STAKE", "FREE"}, seat : Rows,
                   profile : {0}, checked : BOOLEAN]
      \/ desk \in [stage : {"REGISTERED"}, kind : {"FREE"}, seat : Rows,
                   profile : DOMAIN registry, checked : BOOLEAN]
  BY DEF RegistrationTypeOK
<1>2. desk \in [stage : {"REGISTERED"}, kind : {"FREE"}, seat : Rows,
                profile : DOMAIN registry, checked : BOOLEAN]
      => desk \in [stage : {"REGISTERED"}, kind : {"FREE"}, seat : Rows,
                   profile : DOMAIN registry', checked : BOOLEAN]
  OBVIOUS
<1> QED BY <1>1, <1>2 DEF RegistrationTypeOK, NobodyAtDesk

\* More seats and more reservations keep the type of the confirmations under way.
LEMMA ConfirmationsTypeStays ==
    ASSUME ConfirmationsTypeOK, DOMAIN registry \subseteq DOMAIN registry',
           DOMAIN holds \subseteq DOMAIN holds', UNCHANGED call
    PROVE  ConfirmationsTypeOK'
<1>1. ASSUME NEW c \in Calls
      PROVE  \/ call[c] = IdleCall
             \/ call[c] \in [pc : {"CHECK", "EXPIRE"}, hold : DOMAIN holds']
             \/ call[c] \in [pc : {"RECORDED"}, hold : DOMAIN holds', profile : DOMAIN registry']
  <2>1. CASE call[c] = IdleCall
    BY <2>1
  <2>2. CASE call[c] \in [pc : {"CHECK", "EXPIRE"}, hold : DOMAIN holds]
    BY <2>2
  <2>3. CASE call[c] \in [pc : {"RECORDED"}, hold : DOMAIN holds, profile : DOMAIN registry]
    BY <2>3
  <2> QED BY <2>1, <2>2, <2>3 DEF ConfirmationsTypeOK
<1>2. call' = call /\ DOMAIN call = Calls
  BY DEF ConfirmationsTypeOK
<1> QED BY <1>1, <1>2 DEF ConfirmationsTypeOK, IdleCall

\* An empty desk has the type of one.
LEMMA EmptyDesk == desk' = NobodyAtDesk => RegistrationTypeOK'
BY DEF RegistrationTypeOK, NobodyAtDesk

\* One confirmation moves on, the others stay.
LEMMA OneCallMoves ==
    ASSUME ConfirmationsTypeOK, DOMAIN registry \subseteq DOMAIN registry',
           DOMAIN holds \subseteq DOMAIN holds', NEW c \in Calls, NEW state,
           call' = [call EXCEPT ![c] = state],
           \/ state = IdleCall
           \/ state \in [pc : {"CHECK", "EXPIRE"}, hold : DOMAIN holds]
           \/ state \in [pc : {"RECORDED"}, hold : DOMAIN holds, profile : DOMAIN registry]
    PROVE  ConfirmationsTypeOK'
<1>1. DOMAIN call' = Calls /\ \A d \in Calls : call'[d] = IF d = c THEN state ELSE call[d]
  BY DEF ConfirmationsTypeOK
<1>2. ASSUME NEW s,
             \/ s = IdleCall
             \/ s \in [pc : {"CHECK", "EXPIRE"}, hold : DOMAIN holds]
             \/ s \in [pc : {"RECORDED"}, hold : DOMAIN holds, profile : DOMAIN registry]
      PROVE  \/ s = IdleCall
             \/ s \in [pc : {"CHECK", "EXPIRE"}, hold : DOMAIN holds']
             \/ s \in [pc : {"RECORDED"}, hold : DOMAIN holds', profile : DOMAIN registry']
  <2>1. CASE s = IdleCall
    BY <2>1
  <2>2. CASE s \in [pc : {"CHECK", "EXPIRE"}, hold : DOMAIN holds]
    BY <2>2
  <2>3. CASE s \in [pc : {"RECORDED"}, hold : DOMAIN holds, profile : DOMAIN registry]
    BY <2>3
  <2> QED BY <1>2, <2>1, <2>2, <2>3
<1>3. ASSUME NEW d \in Calls
      PROVE  \/ call'[d] = IdleCall
             \/ call'[d] \in [pc : {"CHECK", "EXPIRE"}, hold : DOMAIN holds']
             \/ call'[d] \in [pc : {"RECORDED"}, hold : DOMAIN holds', profile : DOMAIN registry']
  <2>1. CASE d = c
    BY <1>1, <1>2, <2>1
  <2>2. CASE d # c
    <3>1. call'[d] = call[d]
      BY <1>1, <2>2
    <3>2. \/ call[d] = IdleCall
          \/ call[d] \in [pc : {"CHECK", "EXPIRE"}, hold : DOMAIN holds]
          \/ call[d] \in [pc : {"RECORDED"}, hold : DOMAIN holds, profile : DOMAIN registry]
      BY DEF ConfirmationsTypeOK
    <3> QED BY <1>2, <3>1, <3>2
  <2> QED BY <2>1, <2>2
<1> QED BY <1>1, <1>3 DEF ConfirmationsTypeOK, IdleCall

\* A row takes the place of those of its profile.
LEMMA RowTakesItsPlace ==
    ASSUME SeatTypeOK, NEW row \in Rows, mirror' = WithRow(row)
    PROVE  /\ mirror' \in SUBSET Rows /\ IsFiniteSet(mirror') /\ row \in mirror'
           /\ \A r \in mirror' : r = row \/ (r \in mirror /\ r.profile # row.profile)
           /\ \A r \in mirror : r \in mirror' \/ r.profile = row.profile
<1>1. mirror \in SUBSET Rows /\ IsFiniteSet(mirror)
  BY DEF SeatTypeOK
<1>2. IsFiniteSet({r \in mirror : r.profile # row.profile})
  <2>1. {r \in mirror : r.profile # row.profile} \in SUBSET mirror
    OBVIOUS
  <2> QED BY <1>1, <2>1, FS_Subset
<1>3. IsFiniteSet({r \in mirror : r.profile # row.profile} \cup {row})
  BY <1>2, FS_AddElement
<1> QED BY <1>1, <1>3 DEF WithRow

\* What is at the desk at each stage.
LEMMA DeskStages ==
    ASSUME SeatTypeOK, desk.stage \in {"PUBLISHING", "REGISTERED"}
    PROVE  /\ desk # NobodyAtDesk /\ desk.seat \in Rows /\ desk.seat.owner \in Slots
           /\ desk.checked \in BOOLEAN
           /\ desk.kind = "STAKE" => desk.seat.staker \in Stakers
           /\ desk.stage = "REGISTERED" => desk.profile \in DOMAIN registry /\ desk.kind = "FREE"
           /\ desk.stage = "PUBLISHING" =>
                 desk \in [stage : {"PUBLISHING"}, kind : {"STAKE", "FREE"}, seat : Rows,
                           profile : {0}, checked : BOOLEAN]
<1>1. RegistrationTypeOK
  BY DEF SeatTypeOK
<1>2. desk # NobodyAtDesk
  BY DEF NobodyAtDesk
<1>3. CASE desk \in [stage : {"PUBLISHING"}, kind : {"STAKE", "FREE"}, seat : Rows,
                     profile : {0}, checked : BOOLEAN]
  BY <1>1, <1>2, <1>3 DEF RegistrationTypeOK
<1>4. CASE desk \in [stage : {"REGISTERED"}, kind : {"FREE"}, seat : Rows,
                     profile : DOMAIN registry, checked : BOOLEAN]
  BY <1>1, <1>2, <1>4 DEF RegistrationTypeOK
<1> QED BY <1>1, <1>2, <1>3, <1>4 DEF RegistrationTypeOK

\* What a confirmation knows at each of its stages.
LEMMA CallStages ==
    ASSUME SeatTypeOK, NEW c \in Calls, call[c].pc \in {"CHECK", "EXPIRE", "RECORDED"}
    PROVE  /\ call[c].hold \in DOMAIN holds
           /\ call[c].pc = "RECORDED" => call[c].profile \in DOMAIN registry
<1>1. \/ call[c] = IdleCall
      \/ call[c] \in [pc : {"CHECK", "EXPIRE"}, hold : DOMAIN holds]
      \/ call[c] \in [pc : {"RECORDED"}, hold : DOMAIN holds, profile : DOMAIN registry]
  BY DEF SeatTypeOK, ConfirmationsTypeOK
<1>2. CASE call[c] = IdleCall
  BY <1>2 DEF IdleCall
<1>3. CASE call[c] \in [pc : {"CHECK", "EXPIRE"}, hold : DOMAIN holds]
  BY <1>3
<1>4. CASE call[c] \in [pc : {"RECORDED"}, hold : DOMAIN holds, profile : DOMAIN registry]
  BY <1>4
<1> QED BY <1>1, <1>2, <1>3, <1>4

\* What a reservation holds.
LEMMA HoldTypes ==
    ASSUME SeatTypeOK, NEW h \in DOMAIN holds
    PROVE  /\ holds[h] \in Reservations
           /\ holds[h].staker \in Stakers /\ holds[h].slot \in Slots /\ holds[h].slot \in Nat
           /\ holds[h].model \in Models /\ holds[h].role \in ToSet(Roles)
           /\ holds[h].checked \in BOOLEAN /\ holds[h].expires \in Nat
<1>1. holds[h] \in Reservations
  <2>1. holds \in Seq(Reservations)
    BY DEF SeatTypeOK
  <2>2. h \in 1 .. Len(holds)
    BY <2>1, LenProperties
  <2> QED BY <2>1, <2>2, ElementOfSeq
<1> QED BY <1>1, SizesAssumption DEF Reservations

\* What the chain says of a profile.
LEMMA RecordTypes ==
    ASSUME SeatTypeOK, NEW p \in DOMAIN registry
    PROVE  /\ registry[p] \in Owned /\ p \in Nat
           /\ registry[p].owner \in Nat /\ registry[p].model \in Models
           /\ registry[p].role \in ToSet(Roles) /\ registry[p].staker \in Stakers \cup {"OPERATOR"}
<1>1. registry[p] \in Owned /\ p \in Nat
  <2>1. registry \in Seq(Owned)
    BY DEF SeatTypeOK
  <2>2. p \in 1 .. Len(registry) /\ Len(registry) \in Nat
    BY <2>1, LenProperties
  <2> QED BY <2>1, <2>2, ElementOfSeq
<1> QED BY <1>1 DEF Owned

\* A reservation changes its status and its profile only.
LEMMA HoldRewritten ==
    ASSUME SeatTypeOK, NEW h \in DOMAIN holds,
           NEW status \in {"PENDING", "CONFIRMED", "EXPIRED"}, NEW p \in Nat,
           \/ holds' = [holds EXCEPT ![h].status = status]
           \/ holds' = [holds EXCEPT ![h].status = status, ![h].profile = p]
    PROVE  /\ holds' \in Seq(Reservations) /\ DOMAIN holds' = DOMAIN holds /\ HoldsStay
           /\ holds'[h].status = status
           /\ \A g \in DOMAIN holds : g # h => holds'[g] = holds[g]
<1>1. holds \in Seq(Reservations) /\ DOMAIN holds = 1 .. Len(holds) /\ Len(holds) \in Nat
  BY LenProperties DEF SeatTypeOK
<1>2. \A g \in DOMAIN holds : holds[g] \in Reservations
  BY HoldTypes
<1>3. CASE holds' = [holds EXCEPT ![h].status = status]
  <2>1. DOMAIN holds' = DOMAIN holds
        /\ \A g \in DOMAIN holds : holds'[g] = IF g = h THEN [holds[h] EXCEPT !.status = status] ELSE holds[g]
    BY <1>3
  <2>2. \A g \in DOMAIN holds : holds'[g] \in Reservations
    BY <1>2, <2>1 DEF Reservations
  <2>3. holds' \in [1 .. Len(holds) -> Reservations]
    BY <1>1, <1>3, <2>1, <2>2
  <2>4. holds' \in Seq(Reservations)
    BY <1>1, <2>3, SeqDef
  <2>5. HoldsStay /\ holds'[h].status = status /\ \A g \in DOMAIN holds : g # h => holds'[g] = holds[g]
    BY <1>2, <2>1 DEF HoldsStay, Reservations
  <2> QED BY <2>1, <2>4, <2>5
<1>4. CASE holds' = [holds EXCEPT ![h].status = status, ![h].profile = p]
  <2>1. DOMAIN holds' = DOMAIN holds
        /\ \A g \in DOMAIN holds :
              holds'[g] = IF g = h THEN [holds[h] EXCEPT !.status = status, !.profile = p] ELSE holds[g]
    BY <1>4
  <2>2. \A g \in DOMAIN holds : holds'[g] \in Reservations
    BY <1>2, <2>1 DEF Reservations
  <2>3. holds' \in [1 .. Len(holds) -> Reservations]
    BY <1>1, <1>4, <2>1, <2>2
  <2>4. holds' \in Seq(Reservations)
    BY <1>1, <2>3, SeqDef
  <2>5. HoldsStay /\ holds'[h].status = status /\ \A g \in DOMAIN holds : g # h => holds'[g] = holds[g]
    BY <1>2, <2>1 DEF HoldsStay, Reservations
  <2> QED BY <2>1, <2>4, <2>5
<1> QED BY <1>3, <1>4

\* A new reservation comes last.
LEMMA HoldAppended ==
    ASSUME SeatTypeOK, NEW hold \in Reservations, holds' = Append(holds, hold)
    PROVE  /\ holds' \in Seq(Reservations) /\ HoldsStay
           /\ \A g \in DOMAIN holds : holds'[g] = holds[g]
           /\ Len(holds) + 1 \in DOMAIN holds' /\ Len(holds) + 1 \notin DOMAIN holds
           /\ holds'[Len(holds) + 1] = hold
           /\ DOMAIN holds' = DOMAIN holds \cup {Len(holds) + 1}
<1>1. holds \in Seq(Reservations) /\ DOMAIN holds = 1 .. Len(holds) /\ Len(holds) \in Nat
  BY LenProperties DEF SeatTypeOK
<1>2. /\ holds' \in Seq(Reservations) /\ DOMAIN holds' = 1 .. (Len(holds) + 1)
      /\ holds'[Len(holds) + 1] = hold
      /\ \A g \in 1 .. Len(holds) : holds'[g] = holds[g]
  <2>1. /\ Append(holds, hold) \in Seq(Reservations)
        /\ Len(Append(holds, hold)) = Len(holds) + 1
        /\ \A i \in 1 .. Len(holds) : Append(holds, hold)[i] = holds[i]
        /\ Append(holds, hold)[Len(holds) + 1] = hold
    BY <1>1, AppendProperties
  <2>2. DOMAIN Append(holds, hold) = 1 .. (Len(holds) + 1)
    BY <2>1, LenProperties
  <2> QED BY <2>1, <2>2
<1>3. 1 .. (Len(holds) + 1) = (1 .. Len(holds)) \cup {Len(holds) + 1}
      /\ Len(holds) + 1 \notin 1 .. Len(holds)
  BY <1>1
<1> QED BY <1>1, <1>2, <1>3 DEF HoldsStay

\* The steps of a registration keep the types, and what chain and reservations say.
LEMMA TypesAtTheDesk ==
    ASSUME SeatTypeOK,
           \/ \E s \in Stakers, w \in Wishes : PrepareStake(s, w[1], w[2])
           \/ \E w \in Wishes : RegisterZkBackedAgent(w[1], w[2])
           \/ AbandonRegistration \/ SaveStakeReservation \/ RegisterOnChain \/ SaveFreeSeat
    PROVE  SeatTypeOK' /\ Grows /\ HoldsStay
<1>1. DOMAIN registry' = DOMAIN registry /\ DOMAIN holds' = DOMAIN holds /\ UNCHANGED call
      => (ConfirmationsTypeOK => ConfirmationsTypeOK')
  BY DEF ConfirmationsTypeOK, IdleCall
<1>2. UNCHANGED registry => Grows
  BY DEF Grows
<1>3. UNCHANGED holds => HoldsStay
  BY DEF HoldsStay
<1>4. \A w \in Wishes : w[1] \in Models /\ w[2] \in ToSet(Roles) \cup {NoRole}
  BY NamesAssumption
<1>5. ASSUME NEW kind \in {"STAKE", "FREE"}, NEW seat \in Rows, NEW checked \in BOOLEAN,
             desk' = Published(kind, seat, checked), seat.owner \in Slots,
             kind = "STAKE" => seat.staker \in Stakers
      PROVE  RegistrationTypeOK'
  <2>1. desk' \in [stage : {"PUBLISHING"}, kind : {"STAKE", "FREE"}, seat : Rows,
                   profile : {0}, checked : BOOLEAN]
        /\ desk'.seat = seat /\ desk'.kind = kind
    BY <1>5 DEF Published
  <2> QED BY <1>5, <2>1 DEF RegistrationTypeOK, NobodyAtDesk
<1>6. ASSUME NEW s \in Stakers, NEW w \in Wishes, PrepareStake(s, w[1], w[2])
      PROVE  SeatTypeOK' /\ Grows /\ HoldsStay
  <2>1. BeginRegistration("STAKE", s, w[1], w[2]) /\ free' = free
    BY <1>6 DEF PrepareStake
  <2>2. PICK seat \in Rows, checked \in BOOLEAN :
           /\ desk' = Published("STAKE", seat, checked)
           /\ seat.owner \in Slots /\ seat.staker = s
    BY <1>4, <2>1, RegistrationBegins
  <2>3. RegistrationTypeOK'
    BY <1>5, <2>2
  <2>4. UNCHANGED <<now, registry, mirror, holds, posted, call, sync, faults, admitted, overtime>>
    BY <2>1 DEF BeginRegistration
  <2> QED BY <1>1, <1>2, <1>3, <2>1, <2>3, <2>4 DEF SeatTypeOK
<1>7. ASSUME NEW w \in Wishes, RegisterZkBackedAgent(w[1], w[2])
      PROVE  SeatTypeOK' /\ Grows /\ HoldsStay
  <2>1. BeginRegistration("FREE", "OPERATOR", w[1], w[2]) /\ free' = free + 1
    BY <1>7 DEF RegisterZkBackedAgent
  <2>2. PICK seat \in Rows, checked \in BOOLEAN :
           /\ desk' = Published("FREE", seat, checked)
           /\ seat.owner \in Slots
    BY <1>4, <2>1, RegistrationBegins
  <2>3. RegistrationTypeOK'
    BY <1>5, <2>2
  <2>4. UNCHANGED <<now, registry, mirror, holds, posted, call, sync, faults, admitted, overtime>>
    BY <2>1 DEF BeginRegistration
  <2> QED BY <1>1, <1>2, <1>3, <2>1, <2>3, <2>4 DEF SeatTypeOK
<1>8. CASE AbandonRegistration
  <2>1. RegistrationTypeOK'
    BY <1>8, EmptyDesk DEF AbandonRegistration
  <2> QED BY <1>1, <1>2, <1>3, <1>8, <2>1 DEF AbandonRegistration, SeatTypeOK
<1>9. CASE SaveStakeReservation
  <2>1. RegistrationTypeOK'
    BY <1>9, EmptyDesk DEF SaveStakeReservation
  <2>2. desk.stage = "PUBLISHING" /\ desk.seat \in Rows /\ desk.seat.owner \in Slots
        /\ desk.seat.staker \in Stakers /\ desk.checked \in BOOLEAN
    BY <1>9, DeskStages DEF SaveStakeReservation
  <2>3. PICK hold : hold = [staker |-> desk.seat.staker, slot |-> desk.seat.owner,
                            model |-> desk.seat.model, role |-> desk.seat.role,
                            checked |-> desk.checked, status |-> "PENDING",
                            expires |-> now + HoldTime, profile |-> 0]
    OBVIOUS
  <2>4. hold \in Reservations
    <3>1. now + HoldTime \in Nat
      BY SizesAssumption DEF SeatTypeOK
    <3> QED BY <2>2, <2>3, <3>1 DEF Rows, Reservations
  <2>5. holds' = Append(holds, hold)
    BY <1>9, <2>3 DEF SaveStakeReservation
  <2>6. holds' \in Seq(Reservations) /\ HoldsStay /\ DOMAIN holds \subseteq DOMAIN holds'
    BY <2>4, <2>5, HoldAppended
  <2>7. UNCHANGED <<now, registry, mirror, posted, call, sync, free, faults, admitted, overtime>>
    BY <1>9 DEF SaveStakeReservation
  <2>8. ConfirmationsTypeOK'
    BY <2>6, <2>7, ConfirmationsTypeStays DEF SeatTypeOK
  <2>9. posted' \subseteq DOMAIN holds'
    BY <2>6, <2>7 DEF SeatTypeOK
  <2> QED BY <1>2, <2>1, <2>6, <2>7, <2>8, <2>9 DEF SeatTypeOK
<1>10. CASE RegisterOnChain
  <2>1. /\ desk.stage = "PUBLISHING" /\ desk.kind = "FREE" /\ desk.seat \in Rows
        /\ desk.seat.owner \in Slots
        /\ desk \in [stage : {"PUBLISHING"}, kind : {"STAKE", "FREE"}, seat : Rows,
                     profile : {0}, checked : BOOLEAN]
    BY <1>10, DeskStages DEF RegisterOnChain
  <2>2. PICK entry : entry = [owner |-> desk.seat.owner, model |-> desk.seat.model,
                                role |-> desk.seat.role, staker |-> desk.seat.staker,
                                active |-> TRUE]
    OBVIOUS
  <2>3. entry \in Owned
    BY <2>1, <2>2 DEF Rows, Owned
  <2>4. registry' = Append(registry, entry) /\ registry \in Seq(Owned)
    BY <1>10, <2>2 DEF RegisterOnChain, SeatTypeOK
  <2>5. registry' \in Seq(Owned) /\ Grows /\ Len(registry) + 1 \in DOMAIN registry'
    BY <2>3, <2>4, RegistryAppended
  <2>6. DOMAIN registry \subseteq DOMAIN registry'
    BY <2>5 DEF Grows
  <2>7. desk' = [desk EXCEPT !.stage = "REGISTERED", !.profile = Len(registry) + 1]
    BY <1>10 DEF RegisterOnChain
  <2>8. desk' \in [stage : {"REGISTERED"}, kind : {"FREE"}, seat : Rows,
                   profile : DOMAIN registry', checked : BOOLEAN]
        /\ desk'.seat = desk.seat
    BY <2>1, <2>5, <2>7
  <2>9. RegistrationTypeOK'
    BY <2>1, <2>8 DEF RegistrationTypeOK, NobodyAtDesk
  <2>10. UNCHANGED <<now, mirror, holds, posted, call, sync, free, faults, admitted, overtime>>
    BY <1>10 DEF RegisterOnChain
  <2>11. ConfirmationsTypeOK'
    BY <2>6, <2>10, ConfirmationsTypeStays DEF SeatTypeOK
  <2>12. admitted' \subseteq DOMAIN registry' /\ overtime' \subseteq DOMAIN registry'
    BY <2>6, <2>10 DEF SeatTypeOK
  <2> QED BY <1>3, <2>5, <2>9, <2>10, <2>11, <2>12 DEF SeatTypeOK
<1>11. CASE SaveFreeSeat
  <2>1. RegistrationTypeOK'
    BY <1>11, EmptyDesk DEF SaveFreeSeat
  <2>2. desk.stage = "REGISTERED" /\ desk.seat \in Rows /\ desk.profile \in DOMAIN registry
    BY <1>11, DeskStages DEF SaveFreeSeat
  <2>3. PICK row : row = Row(desk.profile, desk.seat)
    OBVIOUS
  <2>4. row \in Rows
    <3>1. desk.profile \in Nat
      BY <2>2, RecordTypes
    <3> QED BY <2>2, <2>3, <3>1 DEF Row, Rows
  <2>5. mirror' \in SUBSET Rows /\ IsFiniteSet(mirror')
    BY <1>11, <2>3, <2>4, RowTakesItsPlace DEF SaveFreeSeat
  <2>6. UNCHANGED <<now, registry, holds, posted, call, sync, free, faults, admitted, overtime>>
    BY <1>11 DEF SaveFreeSeat
  <2> QED BY <1>1, <1>2, <1>3, <2>1, <2>5, <2>6 DEF SeatTypeOK
<1> QED BY <1>6, <1>7, <1>8, <1>9, <1>10, <1>11

\* A record changes whether it is active only.
LEMMA RecordRewritten ==
    ASSUME SeatTypeOK, NEW p \in DOMAIN registry,
           registry' = [registry EXCEPT ![p].active = FALSE]
    PROVE  registry' \in Seq(Owned) /\ DOMAIN registry' = DOMAIN registry /\ Grows
<1>1. registry \in Seq(Owned) /\ DOMAIN registry = 1 .. Len(registry) /\ Len(registry) \in Nat
  BY LenProperties DEF SeatTypeOK
<1>2. \A q \in DOMAIN registry : registry[q] \in Owned
  BY RecordTypes
<1>3. DOMAIN registry' = DOMAIN registry
      /\ \A q \in DOMAIN registry :
            registry'[q] = IF q = p THEN [registry[p] EXCEPT !.active = FALSE] ELSE registry[q]
  OBVIOUS
<1>4. \A q \in DOMAIN registry : registry'[q] \in Owned
  BY <1>2, <1>3 DEF Owned
<1>5. registry' \in [1 .. Len(registry) -> Owned]
  BY <1>1, <1>3, <1>4
<1>6. registry' \in Seq(Owned)
  BY <1>1, <1>5, SeqDef
<1>7. Grows
  BY <1>2, <1>3 DEF Grows, Owned
<1> QED BY <1>3, <1>6, <1>7

\* The steps of wallets, chain and clock keep the types, and what chain and reservations say.
LEMMA TypesOnChain ==
    ASSUME SeatTypeOK,
           \/ \E h \in DOMAIN holds : PostStake(h)
           \/ \E p \in DOMAIN registry : StakerLeaves(p)
           \/ ClockTicks
    PROVE  SeatTypeOK' /\ Grows /\ HoldsStay
<1>1. UNCHANGED holds => HoldsStay
  BY DEF HoldsStay
<1>2. RegistrationTypeOK /\ ConfirmationsTypeOK
  BY DEF SeatTypeOK
<1>3. ASSUME NEW h \in DOMAIN holds, PostStake(h)
      PROVE  SeatTypeOK' /\ Grows /\ HoldsStay
  <2>1. PICK entry : entry = [owner |-> holds[h].slot, model |-> holds[h].model,
                                role |-> holds[h].role, staker |-> holds[h].staker,
                                active |-> TRUE]
    OBVIOUS
  <2>2. entry \in Owned
    BY <2>1, HoldTypes DEF Owned
  <2>3. registry' = Append(registry, entry) /\ registry \in Seq(Owned)
    BY <1>3, <2>1 DEF PostStake, SeatTypeOK
  <2>4. registry' \in Seq(Owned) /\ Grows
    BY <2>2, <2>3, RegistryAppended
  <2>5. DOMAIN registry \subseteq DOMAIN registry'
    BY <2>4 DEF Grows
  <2>6. posted' = posted \cup {h}
        /\ UNCHANGED <<now, mirror, holds, desk, call, sync, free, faults, admitted, overtime>>
    BY <1>3 DEF PostStake
  <2>7. RegistrationTypeOK' /\ ConfirmationsTypeOK'
    BY <1>2, <2>5, <2>6, RegistrationTypeStays, ConfirmationsTypeStays
  <2>8. admitted' \subseteq DOMAIN registry' /\ overtime' \subseteq DOMAIN registry'
    BY <2>5, <2>6 DEF SeatTypeOK
  <2> QED BY <1>1, <2>4, <2>6, <2>7, <2>8 DEF SeatTypeOK
<1>4. ASSUME NEW p \in DOMAIN registry, StakerLeaves(p)
      PROVE  SeatTypeOK' /\ Grows /\ HoldsStay
  <2>1. registry' = [registry EXCEPT ![p].active = FALSE]
        /\ UNCHANGED <<now, mirror, holds, posted, desk, call, sync, free, faults, admitted, overtime>>
    BY <1>4 DEF StakerLeaves
  <2>2. registry' \in Seq(Owned) /\ DOMAIN registry' = DOMAIN registry /\ Grows
    BY <2>1, RecordRewritten
  <2>3. RegistrationTypeOK' /\ ConfirmationsTypeOK'
    BY <1>2, <2>1, <2>2, RegistrationTypeStays, ConfirmationsTypeStays
  <2> QED BY <1>1, <2>1, <2>2, <2>3 DEF SeatTypeOK
<1>5. CASE ClockTicks
  <2>1. now' = now + 1
        /\ UNCHANGED <<registry, mirror, holds, posted, desk, call, sync, free, faults, admitted, overtime>>
    BY <1>5 DEF ClockTicks
  <2>2. RegistrationTypeOK' /\ ConfirmationsTypeOK'
    BY <1>2, <2>1, RegistrationTypeStays, ConfirmationsTypeStays
  <2>3. Grows
    BY <2>1 DEF Grows
  <2> QED BY <1>1, <2>1, <2>2, <2>3 DEF SeatTypeOK
<1> QED BY <1>3, <1>4, <1>5

\* The row of a seat on chain.
LEMMA RowTypes ==
    ASSUME NEW p \in Nat, NEW seat \in Owned
    PROVE  Row(p, seat) \in Rows
BY DEF Row, Rows, Owned

\* What a matching transaction and its reservation make a row of.
LEMMA ConfirmedRow ==
    ASSUME SeatTypeOK, NEW h \in DOMAIN holds, NEW p \in DOMAIN registry, Matches(h, p),
           NEW row, row = Row(p, [owner |-> registry[p].owner, staker |-> registry[p].staker,
                                  model |-> holds[h].model, role |-> holds[h].role])
    PROVE  /\ row \in Rows /\ row.profile = p
           /\ row.owner = registry[p].owner /\ row.owner = holds[h].slot
           /\ row.staker = registry[p].staker /\ row.staker = holds[h].staker
           /\ row = [Row(p, registry[p]) EXCEPT !.active = row.active]
<1>1. /\ registry[p].staker = holds[h].staker /\ registry[p].owner = holds[h].slot
      /\ registry[p].model = holds[h].model /\ registry[p].role = holds[h].role
  BY DEF Matches
<1>2. PICK seat \in Owned : seat = registry[p]
  BY RecordTypes
<1>3. row = Row(p, [owner |-> seat.owner, staker |-> seat.staker, model |-> seat.model, role |-> seat.role])
  BY <1>1, <1>2
<1>4. p \in Nat
  BY RecordTypes
<1>5. row = [profile |-> p, owner |-> seat.owner, model |-> seat.model, role |-> seat.role,
             staker |-> seat.staker, active |-> TRUE]
  BY <1>3 DEF Row
<1>6. row \in Rows
  <2>1. row = Row(p, seat)
    BY <1>5 DEF Row
  <2> QED BY <1>4, <2>1, RowTypes
<1>7. row = [Row(p, seat) EXCEPT !.active = row.active]
  BY <1>5 DEF Row
<1>8. row.profile = p /\ row.owner = seat.owner /\ row.staker = seat.staker
  BY <1>5
<1> QED BY <1>1, <1>2, <1>6, <1>7, <1>8

\* The steps of a confirmation keep the types, and what chain and reservations say.
LEMMA TypesAtConfirmation ==
    ASSUME SeatTypeOK,
           \/ \E c \in Calls, h \in DOMAIN holds : StartConfirmation(c, h)
           \/ \E c \in Calls : ExpireHold(c) \/ CloseHold(c)
           \/ \E c \in Calls, p \in DOMAIN registry : RefuseTransaction(c, p) \/ SaveStakedSeat(c, p)
           \/ Crash
    PROVE  SeatTypeOK' /\ Grows /\ HoldsStay
<1>1. UNCHANGED registry => Grows
  BY DEF Grows
<1>2. UNCHANGED holds => HoldsStay
  BY DEF HoldsStay
<1>3. RegistrationTypeOK /\ ConfirmationsTypeOK
  BY DEF SeatTypeOK
<1>4. ASSUME NEW c \in Calls, NEW h \in DOMAIN holds, StartConfirmation(c, h)
      PROVE  SeatTypeOK' /\ Grows /\ HoldsStay
  <2>1. PICK state : state = [pc |-> IF Live(h) THEN "CHECK" ELSE "EXPIRE", hold |-> h]
    OBVIOUS
  <2>2. state \in [pc : {"CHECK", "EXPIRE"}, hold : DOMAIN holds]
    BY <2>1
  <2>3. call' = [call EXCEPT ![c] = state]
        /\ UNCHANGED <<now, registry, mirror, holds, posted, desk, sync, free, faults, admitted, overtime>>
    BY <1>4, <2>1 DEF StartConfirmation
  <2>4. ConfirmationsTypeOK'
    BY <1>3, <2>2, <2>3, OneCallMoves
  <2>5. RegistrationTypeOK'
    BY <1>3, <2>3, RegistrationTypeStays
  <2> QED BY <1>1, <1>2, <2>3, <2>4, <2>5 DEF SeatTypeOK
<1>5. ASSUME NEW c \in Calls, ExpireHold(c)
      PROVE  SeatTypeOK' /\ Grows /\ HoldsStay
  <2>1. PICK h \in DOMAIN holds : h = call[c].hold
    BY <1>5, CallStages DEF ExpireHold
  <2>2. holds' = [holds EXCEPT ![h].status = "EXPIRED"] /\ call' = [call EXCEPT ![c] = IdleCall]
        /\ UNCHANGED <<now, registry, mirror, posted, desk, sync, free, faults, admitted, overtime>>
    BY <1>5, <2>1 DEF ExpireHold
  <2>3. holds' \in Seq(Reservations) /\ DOMAIN holds' = DOMAIN holds /\ HoldsStay
    BY <2>2, HoldRewritten
  <2>4. ConfirmationsTypeOK'
    BY <1>3, <2>2, <2>3, OneCallMoves
  <2>5. RegistrationTypeOK'
    BY <1>3, <2>2, RegistrationTypeStays
  <2> QED BY <1>1, <2>2, <2>3, <2>4, <2>5 DEF SeatTypeOK
<1>6. ASSUME NEW c \in Calls, CloseHold(c)
      PROVE  SeatTypeOK' /\ Grows /\ HoldsStay
  <2>1. PICK h \in DOMAIN holds, p \in DOMAIN registry : h = call[c].hold /\ p = call[c].profile
    BY <1>6, CallStages DEF CloseHold
  <2>2. holds' = [holds EXCEPT ![h].status = "CONFIRMED", ![h].profile = p]
        /\ call' = [call EXCEPT ![c] = IdleCall]
        /\ UNCHANGED <<now, registry, mirror, posted, desk, sync, free, faults, admitted, overtime>>
    BY <1>6, <2>1 DEF CloseHold
  <2>3. p \in Nat
    BY RecordTypes
  <2>4. holds' \in Seq(Reservations) /\ DOMAIN holds' = DOMAIN holds /\ HoldsStay
    BY <2>2, <2>3, HoldRewritten
  <2>5. ConfirmationsTypeOK'
    BY <1>3, <2>2, <2>4, OneCallMoves
  <2>6. RegistrationTypeOK'
    BY <1>3, <2>2, RegistrationTypeStays
  <2> QED BY <1>1, <2>2, <2>4, <2>5, <2>6 DEF SeatTypeOK
<1>7. ASSUME NEW c \in Calls, NEW p \in DOMAIN registry, RefuseTransaction(c, p)
      PROVE  SeatTypeOK' /\ Grows /\ HoldsStay
  <2>1. call' = [call EXCEPT ![c] = IdleCall]
        /\ UNCHANGED <<now, registry, mirror, holds, posted, desk, sync, free, faults, admitted, overtime>>
    BY <1>7 DEF RefuseTransaction
  <2>2. ConfirmationsTypeOK'
    BY <1>3, <2>1, OneCallMoves
  <2>3. RegistrationTypeOK'
    BY <1>3, <2>1, RegistrationTypeStays
  <2> QED BY <1>1, <1>2, <2>1, <2>2, <2>3 DEF SeatTypeOK
<1>8. ASSUME NEW c \in Calls, NEW p \in DOMAIN registry, SaveStakedSeat(c, p)
      PROVE  SeatTypeOK' /\ Grows /\ HoldsStay
  <2>1. PICK h \in DOMAIN holds : h = call[c].hold
    BY <1>8, CallStages DEF SaveStakedSeat
  <2>2. PICK row : row = Row(p, [owner |-> registry[p].owner, staker |-> registry[p].staker,
                                 model |-> holds[h].model, role |-> holds[h].role])
    OBVIOUS
  <2>3. PICK state : state = [pc |-> "RECORDED", hold |-> h, profile |-> p]
    OBVIOUS
  <2>4. Matches(h, p) /\ mirror' = WithRow(row) /\ call' = [call EXCEPT ![c] = state]
        /\ admitted' \subseteq admitted \cup {p} /\ overtime' \subseteq overtime \cup {p}
        /\ UNCHANGED <<now, registry, holds, posted, desk, sync, free, faults>>
    BY <1>8, <2>1, <2>2, <2>3 DEF SaveStakedSeat
  <2>5. row \in Rows
    BY <2>2, <2>4, ConfirmedRow
  <2>6. mirror' \in SUBSET Rows /\ IsFiniteSet(mirror')
    BY <2>4, <2>5, RowTakesItsPlace
  <2>7. state \in [pc : {"RECORDED"}, hold : DOMAIN holds, profile : DOMAIN registry]
    BY <2>3
  <2>8. ConfirmationsTypeOK'
    BY <1>3, <2>4, <2>7, OneCallMoves
  <2>9. RegistrationTypeOK'
    BY <1>3, <2>4, RegistrationTypeStays
  <2>10. admitted' \subseteq DOMAIN registry' /\ overtime' \subseteq DOMAIN registry'
    BY <2>4 DEF SeatTypeOK
  <2> QED BY <1>1, <1>2, <2>4, <2>6, <2>8, <2>9, <2>10 DEF SeatTypeOK
<1>9. CASE Crash
  <2>1. faults' = faults + 1 /\ desk' = NobodyAtDesk /\ call' = [c \in Calls |-> IdleCall]
        /\ UNCHANGED <<now, registry, mirror, holds, posted, sync, free, admitted, overtime>>
    BY <1>9 DEF Crash
  <2>2. RegistrationTypeOK'
    BY <2>1, EmptyDesk
  <2>3. ConfirmationsTypeOK'
    BY <2>1 DEF ConfirmationsTypeOK, IdleCall
  <2> QED BY <1>1, <1>2, <2>1, <2>2, <2>3 DEF SeatTypeOK
<1> QED BY <1>4, <1>5, <1>6, <1>7, <1>8, <1>9

\* The steps of the mirror sync keep the types, and what chain and reservations say.
LEMMA TypesAtSync ==
    ASSUME SeatTypeOK, ReadRegistry \/ DeactivateOutsideRegistry
    PROVE  SeatTypeOK' /\ Grows /\ HoldsStay
<1>1. UNCHANGED <<now, registry, holds, posted, desk, call, free, faults, admitted, overtime>>
  BY DEF ReadRegistry, DeactivateOutsideRegistry
<1>2. Grows /\ HoldsStay
  BY <1>1 DEF Grows, HoldsStay
<1>3. RegistrationTypeOK' /\ ConfirmationsTypeOK'
  BY <1>1, RegistrationTypeStays, ConfirmationsTypeStays DEF SeatTypeOK
<1>4. CASE ReadRegistry
  <2>1. sync' = DOMAIN registry /\ mirror' = mirror
    BY <1>4 DEF ReadRegistry
  <2>2. sync' \subseteq Nat
    BY <2>1, RecordTypes
  <2> QED BY <1>1, <1>2, <1>3, <2>1, <2>2 DEF SeatTypeOK
<1>5. CASE DeactivateOutsideRegistry
  <2>1. sync' = NotSyncing /\ mirror' = {[r EXCEPT !.active = @ /\ r.profile \in sync] : r \in mirror}
    BY <1>5 DEF DeactivateOutsideRegistry
  <2>2. mirror \in SUBSET Rows /\ IsFiniteSet(mirror)
    BY DEF SeatTypeOK
  <2>3. mirror' \in SUBSET Rows
    <3>1. \A r \in mirror : [r EXCEPT !.active = @ /\ r.profile \in sync] \in Rows
      BY <2>2 DEF Rows
    <3> QED BY <2>1, <3>1
  <2>4. IsFiniteSet(mirror')
    <3> DEFINE f == [r \in mirror |-> [r EXCEPT !.active = @ /\ r.profile \in sync]]
    <3>1. f \in [mirror -> mirror'] /\ \A s \in mirror' : \E r \in mirror : f[r] = s
      BY <2>1
    <3>2. f \in Surjection(mirror, mirror')
      <4> HIDE DEF f
      <4> QED BY <3>1 DEF Surjection
    <3> HIDE DEF f
    <3> QED BY <2>2, <3>2, FS_Surjection
  <2>5. sync' \subseteq Nat
    BY <2>1 DEF NotSyncing
  <2> QED BY <1>1, <1>2, <1>3, <2>3, <2>4, <2>5 DEF SeatTypeOK
<1> QED BY <1>4, <1>5

\* Every step keeps the types, and what chain and reservations say.
LEMMA SeatTypesStep ==
    ASSUME SeatTypeOK, [SeatNext]_seatVars
    PROVE  SeatTypeOK' /\ Grows /\ HoldsStay
<1>1. CASE SeatNext
  BY <1>1, TypesAtTheDesk, TypesOnChain, TypesAtConfirmation, TypesAtSync DEF SeatNext
<1>2. CASE UNCHANGED seatVars
  <2>1. UNCHANGED <<now, registry, mirror, holds, posted, desk, call, sync, free, faults,
                    admitted, overtime>>
    BY <1>2 DEF seatVars
  <2>2. RegistrationTypeOK' /\ ConfirmationsTypeOK'
    BY <2>1, RegistrationTypeStays, ConfirmationsTypeStays DEF SeatTypeOK
  <2> QED BY <2>1, <2>2 DEF SeatTypeOK, Grows, HoldsStay
<1> QED BY <1>1, <1>2

-----------------------------------------------------------------------------
(* The inductive invariant of the seats                                    *)

Punctual == {r \in mirror : r.profile \notin overtime}
Lent(h) == holds[h].expires > now

\* A row of this profile, staker and key is in the mirror.
Recorded(p, staker, slot) ==
    \E r \in mirror : r.profile = p /\ r.staker = staker /\ r.owner = slot

\* What is under way agrees with the chain and with the mirror.
WorkAgrees ==
    /\ desk.stage = "REGISTERED" =>
          /\ registry[desk.profile].owner = desk.seat.owner
          /\ registry[desk.profile].model = desk.seat.model
          /\ registry[desk.profile].role = desk.seat.role
          /\ registry[desk.profile].staker = desk.seat.staker
    /\ \A c \in Calls : call[c].pc = "RECORDED" =>
          Recorded(call[c].profile, holds[call[c].hold].staker, holds[call[c].hold].slot)

\* A slot is lent until its hold has run out, whatever became of the hold: only one hold
\* has it, no registration under way has it, and only its staker's punctual seats sign
\* with it.
SlotsAreLentOnce ==
    /\ \A r, s \in Punctual :
          r.owner = s.owner => r.profile = s.profile \/ (r.staker = s.staker /\ r.staker \in Stakers)
    /\ \A h \in DOMAIN holds : Lent(h) =>
          \A r \in Punctual : r.owner = holds[h].slot => r.staker = holds[h].staker
    /\ \A g, h \in DOMAIN holds :
          Lent(g) /\ Lent(h) /\ holds[g].slot = holds[h].slot => g = h
    /\ desk # NobodyAtDesk =>
          /\ \A r \in Punctual : r.owner # desk.seat.owner
          /\ \A h \in DOMAIN holds : Lent(h) => holds[h].slot # desk.seat.owner
    /\ \A h \in DOMAIN holds : holds[h].status = "EXPIRED" => ~Lent(h)
    /\ \A c \in Calls : call[c].pc = "EXPIRE" => ~Lent(call[c].hold)

\* A seat that was checked against a roster that could draw can sit, from the check on.
CheckedSeatsCanSit ==
    /\ \A h \in DOMAIN holds :
          holds[h].checked => CanSit(holds[h].slot, holds[h].model, holds[h].role)
    /\ desk.stage = "PUBLISHING" /\ desk.checked =>
          CanSit(desk.seat.owner, desk.seat.model, desk.seat.role)
    /\ \A p \in admitted : CanSit(registry[p].owner, registry[p].model, registry[p].role)

SeatInv == SeatTypeOK /\ MirrorRepeatsTheChain /\ WorkAgrees /\ SlotsAreLentOnce /\ CheckedSeatsCanSit

-----------------------------------------------------------------------------
(* The mirror                                                              *)

\* The row copies the record of its profile.
Repeats(r) ==
    /\ r.profile \in DOMAIN registry
    /\ r = [Row(r.profile, registry[r.profile]) EXCEPT !.active = r.active]

\* Every row that was recorded still is, but perhaps not active.
RowsStay ==
    \A r \in mirror : \E s \in mirror' :
        s.profile = r.profile /\ s.owner = r.owner /\ s.staker = r.staker

\* A row that copies its record does so when the registry has grown.
LEMMA RepeatsStays ==
    ASSUME Grows, NEW r, Repeats(r)
    PROVE  Repeats(r)'
<1>1. r.profile \in DOMAIN registry /\ r.profile \in DOMAIN registry'
  BY DEF Repeats, Grows
<1>2. PICK p : p = r.profile
  OBVIOUS
<1>3. PICK seat, next : seat = registry[p] /\ next = registry'[p]
  OBVIOUS
<1>4. seat.owner = next.owner /\ seat.model = next.model /\ seat.role = next.role
      /\ seat.staker = next.staker
  BY <1>1, <1>2, <1>3 DEF Grows
<1>5. Row(p, seat) = Row(p, next)
  BY <1>4 DEF Row
<1>6. r = [Row(p, seat) EXCEPT !.active = r.active]
  BY <1>2, <1>3 DEF Repeats
<1>7. r = [Row(r.profile, registry'[r.profile]) EXCEPT !.active = r.active]
  BY <1>2, <1>3, <1>5, <1>6
<1> QED BY <1>1, <1>7 DEF Repeats, Row

\* What is recorded stays so.
LEMMA RecordedStays ==
    ASSUME RowsStay, NEW p, NEW staker, NEW slot, Recorded(p, staker, slot)
    PROVE  Recorded(p, staker, slot)'
BY DEF RowsStay, Recorded

\* The property in terms of its parts.
LEMMA MirrorInParts ==
    MirrorRepeatsTheChain <=>
        /\ \A r \in mirror : Repeats(r)
        /\ \A h \in DOMAIN holds : holds[h].status = "CONFIRMED" =>
              Recorded(holds[h].profile, holds[h].staker, holds[h].slot)
BY DEF MirrorRepeatsTheChain, Repeats, Recorded

\* The same of the next state.
LEMMA MirrorInPartsNext ==
    MirrorRepeatsTheChain' <=>
        /\ \A r \in mirror' : Repeats(r)'
        /\ \A h \in DOMAIN holds' : holds'[h].status = "CONFIRMED" =>
              Recorded(holds[h].profile, holds[h].staker, holds[h].slot)'
BY DEF MirrorRepeatsTheChain, Repeats, Recorded, Row

\* The confirmed reservations of the next state were confirmed before.
NoneConfirmed ==
    \A h \in DOMAIN holds' : holds'[h].status = "CONFIRMED" =>
        h \in DOMAIN holds /\ holds[h].status = "CONFIRMED" /\ holds'[h].profile = holds[h].profile

\* Rows that copy their records, and reservations no more of which are confirmed.
LEMMA MirrorStays ==
    ASSUME MirrorRepeatsTheChain, HoldsStay, RowsStay, NoneConfirmed,
           \A r \in mirror' : Repeats(r)'
    PROVE  MirrorRepeatsTheChain'
<1> SUFFICES ASSUME NEW h \in DOMAIN holds', holds'[h].status = "CONFIRMED"
             PROVE  Recorded(holds[h].profile, holds[h].staker, holds[h].slot)'
  BY MirrorInPartsNext
<1>1. PICK p, staker, slot : p = holds[h].profile /\ staker = holds[h].staker /\ slot = holds[h].slot
  OBVIOUS
<1>2. h \in DOMAIN holds /\ holds[h].status = "CONFIRMED" /\ holds'[h].profile = p
  BY <1>1 DEF NoneConfirmed
<1>3. holds'[h].staker = staker /\ holds'[h].slot = slot
  BY <1>1, <1>2 DEF HoldsStay
<1>4. Recorded(p, staker, slot)
  BY <1>1, <1>2, MirrorInParts
<1>5. Recorded(p, staker, slot)'
  BY <1>4, RecordedStays
<1> QED BY <1>2, <1>3, <1>5

\* What is under way still agrees, when no registration reached the chain and no
\* confirmation recorded a seat.
LEMMA WorkStays ==
    ASSUME SeatTypeOK, WorkAgrees, Grows, HoldsStay, RowsStay,
           desk' = desk \/ desk'.stage # "REGISTERED",
           NEW moved \in SUBSET Calls, \A c \in Calls \ moved : call'[c] = call[c],
           \A c \in moved : call'[c].pc # "RECORDED"
    PROVE  WorkAgrees'
<1>1. ASSUME desk'.stage = "REGISTERED"
      PROVE  /\ registry'[desk'.profile].owner = desk'.seat.owner
             /\ registry'[desk'.profile].model = desk'.seat.model
             /\ registry'[desk'.profile].role = desk'.seat.role
             /\ registry'[desk'.profile].staker = desk'.seat.staker
  <2>1. desk' = desk
    BY <1>1
  <2>2. desk.profile \in DOMAIN registry
    BY <1>1, <2>1, DeskStages
  <2>3. PICK p \in DOMAIN registry : p = desk.profile
    BY <2>2
  <2>4. /\ registry[p].owner = desk.seat.owner /\ registry[p].model = desk.seat.model
        /\ registry[p].role = desk.seat.role /\ registry[p].staker = desk.seat.staker
    BY <1>1, <2>1, <2>3 DEF WorkAgrees
  <2> QED BY <2>1, <2>3, <2>4 DEF Grows
<1>2. ASSUME NEW c \in Calls, call'[c].pc = "RECORDED"
      PROVE  Recorded(call[c].profile, holds[call[c].hold].staker, holds[call[c].hold].slot)'
  <2>1. call'[c] = call[c]
    BY <1>2
  <2>2. PICK h \in DOMAIN holds : h = call[c].hold
    BY <1>2, <2>1, CallStages
  <2>3. PICK p, staker, slot : p = call[c].profile /\ staker = holds[h].staker /\ slot = holds[h].slot
    OBVIOUS
  <2>4. Recorded(p, staker, slot)
    BY <1>2, <2>1, <2>2, <2>3 DEF WorkAgrees
  <2>5. Recorded(p, staker, slot)'
    BY <2>4, RecordedStays
  <2>6. holds'[h].staker = staker /\ holds'[h].slot = slot /\ call'[c].hold = h /\ call'[c].profile = p
    BY <2>1, <2>2, <2>3 DEF HoldsStay
  <2> QED BY <2>5, <2>6
<1> QED BY <1>1, <1>2 DEF WorkAgrees

\* At the start the mirror has the rows of the seeds.
LEMMA MirrorInit == SeatInit => MirrorRepeatsTheChain /\ WorkAgrees
<1> SUFFICES ASSUME SeatInit PROVE MirrorRepeatsTheChain /\ WorkAgrees
  OBVIOUS
<1>1. PICK seats \in Seeds : /\ registry = Seed(seats)
                             /\ mirror = {Row(i, Seed(seats)[i]) : i \in DOMAIN seats}
  BY DEF SeatInit
<1>2. DOMAIN registry = DOMAIN seats
  BY <1>1 DEF Seed
<1>3. ASSUME NEW r \in mirror PROVE Repeats(r)
  <2>1. PICK i \in DOMAIN seats : r = Row(i, registry[i])
    BY <1>1
  <2>2. PICK seat : seat = registry[i]
    OBVIOUS
  <2>3. r.profile = i /\ r = [Row(i, seat) EXCEPT !.active = r.active]
    BY <2>1, <2>2 DEF Row
  <2> QED BY <1>2, <2>2, <2>3 DEF Repeats
<1>4. DOMAIN holds = {}
  BY DEF SeatInit
<1>5. WorkAgrees
  BY DEF SeatInit, WorkAgrees, NobodyAtDesk, IdleCall
<1> QED BY <1>3, <1>4, <1>5, MirrorInParts

\* The mirror and what is under way agree with the chain after a step that leaves the
\* mirror alone and confirms nothing.
LEMMA QuietStep ==
    ASSUME SeatTypeOK, MirrorRepeatsTheChain, WorkAgrees, Grows, HoldsStay, UNCHANGED mirror,
           NoneConfirmed, desk' = desk \/ desk'.stage # "REGISTERED",
           NEW moved \in SUBSET Calls, \A c \in Calls \ moved : call'[c] = call[c],
           \A c \in moved : call'[c].pc # "RECORDED"
    PROVE  MirrorRepeatsTheChain' /\ WorkAgrees' /\ RowsStay
<1>1. RowsStay
  BY DEF RowsStay
<1>2. \A r \in mirror' : Repeats(r)'
  BY MirrorInParts, RepeatsStays
<1>3. MirrorRepeatsTheChain'
  BY <1>1, <1>2, MirrorStays
<1>4. WorkAgrees'
  BY <1>1, WorkStays
<1> QED BY <1>1, <1>3, <1>4

\* A row that copies its record takes the place of the one of its profile, which said the
\* same of owner and staker.
LEMMA RowRecorded ==
    ASSUME SeatTypeOK, MirrorRepeatsTheChain, UNCHANGED <<registry, holds>>,
           NEW row \in Rows, Repeats(row), mirror' = WithRow(row)
    PROVE  MirrorRepeatsTheChain' /\ RowsStay /\ Recorded(row.profile, row.staker, row.owner)'
<1>1. /\ row \in mirror'
      /\ \A r \in mirror' : r = row \/ (r \in mirror /\ r.profile # row.profile)
      /\ \A r \in mirror : r \in mirror' \/ r.profile = row.profile
  BY RowTakesItsPlace
<1>2. Grows /\ HoldsStay /\ NoneConfirmed
  BY DEF Grows, HoldsStay, NoneConfirmed
<1>3. \A r : Repeats(r) => Repeats(r)'
  BY <1>2, RepeatsStays
<1>4. \A r \in mirror : Repeats(r)
  BY MirrorInParts
<1>5. PICK p \in DOMAIN registry : p = row.profile
  BY DEF Repeats
<1>6. PICK seat : seat = registry[p]
  OBVIOUS
<1>7. row.owner = seat.owner /\ row.staker = seat.staker
  <2>1. row = [Row(p, seat) EXCEPT !.active = row.active]
    BY <1>5, <1>6 DEF Repeats
  <2> QED BY <2>1 DEF Row
<1>8. RowsStay
  <2> SUFFICES ASSUME NEW r \in mirror
               PROVE  \E s \in mirror' : s.profile = r.profile /\ s.owner = r.owner /\ s.staker = r.staker
    BY DEF RowsStay
  <2>1. CASE r \in mirror'
    BY <2>1
  <2>2. CASE r.profile = row.profile
    <3>1. registry[p].owner = r.owner /\ registry[p].staker = r.staker
      BY <1>5, <2>2, RowsRepeat
    <3> QED BY <1>1, <1>6, <1>7, <2>2, <3>1
  <2> QED BY <1>1, <2>1, <2>2
<1>9. \A r \in mirror' : Repeats(r)'
  BY <1>1, <1>3, <1>4
<1>10. MirrorRepeatsTheChain'
  BY <1>2, <1>8, <1>9, MirrorStays
<1>11. Recorded(row.profile, row.staker, row.owner)'
  BY <1>1 DEF Recorded
<1> QED BY <1>8, <1>10, <1>11

\* A step of a registration keeps the mirror true to the chain.
LEMMA MirrorAtTheDesk ==
    ASSUME SeatTypeOK, MirrorRepeatsTheChain, WorkAgrees,
           \/ \E s \in Stakers, w \in Wishes : PrepareStake(s, w[1], w[2])
           \/ \E w \in Wishes : RegisterZkBackedAgent(w[1], w[2])
           \/ AbandonRegistration \/ SaveStakeReservation \/ RegisterOnChain \/ SaveFreeSeat
    PROVE  MirrorRepeatsTheChain' /\ WorkAgrees'
<1>1. Grows /\ HoldsStay
  BY TypesAtTheDesk
<1>2. UNCHANGED holds => NoneConfirmed
  BY DEF NoneConfirmed
<1>3. ASSUME UNCHANGED <<mirror, call>>, NoneConfirmed, desk' = desk \/ desk'.stage # "REGISTERED"
      PROVE  MirrorRepeatsTheChain' /\ WorkAgrees'
  <2>1. PICK moved \in SUBSET Calls : moved = {}
    OBVIOUS
  <2>2. /\ \A c \in Calls \ moved : call'[c] = call[c]
        /\ \A c \in moved : call'[c].pc # "RECORDED"
    BY <1>3, <2>1
  <2> QED BY <1>1, <1>3, <2>2, QuietStep
<1>4. ASSUME NEW kind, NEW staker \in Stakers \cup {"OPERATOR"}, NEW w \in Wishes,
             BeginRegistration(kind, staker, w[1], w[2])
      PROVE  MirrorRepeatsTheChain' /\ WorkAgrees'
  <2>1. desk'.stage = "PUBLISHING" /\ UNCHANGED <<mirror, holds, call>>
    BY <1>4 DEF BeginRegistration
  <2> QED BY <1>2, <1>3, <2>1
<1>5. CASE \E s \in Stakers, w \in Wishes : PrepareStake(s, w[1], w[2])
  BY <1>4, <1>5 DEF PrepareStake
<1>6. CASE \E w \in Wishes : RegisterZkBackedAgent(w[1], w[2])
  BY <1>4, <1>6 DEF RegisterZkBackedAgent
<1>7. CASE AbandonRegistration
  <2>1. desk'.stage = "IDLE" /\ UNCHANGED <<mirror, holds, call>>
    BY <1>7 DEF AbandonRegistration, NobodyAtDesk
  <2> QED BY <1>2, <1>3, <2>1
<1>8. CASE SaveStakeReservation
  <2>1. desk'.stage = "IDLE" /\ UNCHANGED <<mirror, call>>
    BY <1>8 DEF SaveStakeReservation, NobodyAtDesk
  <2>2. PICK hold : /\ holds' = Append(holds, hold) /\ hold.status = "PENDING"
    BY <1>8 DEF SaveStakeReservation
  <2>3. NoneConfirmed
    <3>1. holds \in Seq(Reservations) /\ DOMAIN holds = 1 .. Len(holds) /\ Len(holds) \in Nat
      BY LenProperties DEF SeatTypeOK
    <3>2. /\ DOMAIN holds' = 1 .. (Len(holds) + 1) /\ holds'[Len(holds) + 1] = hold
          /\ \A g \in 1 .. Len(holds) : holds'[g] = holds[g]
      BY <2>2, <3>1
    <3>3. \A h \in DOMAIN holds' : h \in DOMAIN holds \/ h = Len(holds) + 1
      BY <3>1, <3>2
    <3> QED BY <2>2, <3>1, <3>2, <3>3 DEF NoneConfirmed
  <2> QED BY <1>3, <2>1, <2>3
<1>9. CASE RegisterOnChain
  <2>1. UNCHANGED <<mirror, holds, call>>
    BY <1>9 DEF RegisterOnChain
  <2>2. NoneConfirmed /\ RowsStay
    BY <1>2, <2>1 DEF RowsStay
  <2>3. \A r \in mirror' : Repeats(r)'
    BY <1>1, <2>1, MirrorInParts, RepeatsStays
  <2>4. MirrorRepeatsTheChain'
    BY <1>1, <2>2, <2>3, MirrorStays
  <2>5. PICK entry : entry = [owner |-> desk.seat.owner, model |-> desk.seat.model,
                                role |-> desk.seat.role, staker |-> desk.seat.staker,
                                active |-> TRUE]
    OBVIOUS
  <2>6. entry \in Owned
    <3>1. desk.seat \in Rows
      BY <1>9, DeskStages DEF RegisterOnChain
    <3> QED BY <2>5, <3>1 DEF Rows, Owned
  <2>7. registry' = Append(registry, entry) /\ registry \in Seq(Owned)
    BY <1>9, <2>5 DEF RegisterOnChain, SeatTypeOK
  <2>8. registry'[Len(registry) + 1] = entry
    BY <2>6, <2>7, RegistryAppended
  <2>9. desk'.profile = Len(registry) + 1 /\ desk'.seat = desk.seat
    <3>1. desk \in [stage : {"PUBLISHING"}, kind : {"STAKE", "FREE"}, seat : Rows,
                    profile : {0}, checked : BOOLEAN]
      BY <1>9, DeskStages DEF RegisterOnChain
    <3>2. desk' = [desk EXCEPT !.stage = "REGISTERED", !.profile = Len(registry) + 1]
      BY <1>9 DEF RegisterOnChain
    <3> QED BY <3>1, <3>2
  <2>10. /\ registry'[desk'.profile].owner = desk'.seat.owner
         /\ registry'[desk'.profile].model = desk'.seat.model
         /\ registry'[desk'.profile].role = desk'.seat.role
         /\ registry'[desk'.profile].staker = desk'.seat.staker
    BY <2>5, <2>8, <2>9
  <2>11. ASSUME NEW c \in Calls, call'[c].pc = "RECORDED"
         PROVE  Recorded(call[c].profile, holds[call[c].hold].staker, holds[call[c].hold].slot)'
    <3>1. Recorded(call[c].profile, holds[call[c].hold].staker, holds[call[c].hold].slot)
      BY <2>1, <2>11 DEF WorkAgrees
    <3> QED BY <2>1, <3>1 DEF Recorded
  <2>12. WorkAgrees'
    BY <2>10, <2>11 DEF WorkAgrees
  <2> QED BY <2>4, <2>12
<1>10. CASE SaveFreeSeat
  <2>1. desk.stage = "REGISTERED" /\ desk.seat \in Rows /\ desk.profile \in DOMAIN registry
    BY <1>10, DeskStages DEF SaveFreeSeat
  <2>2. PICK p \in DOMAIN registry, seat \in Rows : p = desk.profile /\ seat = desk.seat
    BY <2>1
  <2>3. PICK row : row = Row(p, seat)
    OBVIOUS
  <2>4. p \in Nat
    BY RecordTypes
  <2>5. row \in Rows /\ row.profile = p
    BY <2>3, <2>4 DEF Row, Rows
  <2>6. PICK entry : entry = registry[p]
    OBVIOUS
  <2>7. seat.owner = entry.owner /\ seat.model = entry.model /\ seat.role = entry.role
        /\ seat.staker = entry.staker
    BY <2>1, <2>2, <2>6 DEF WorkAgrees
  <2>8. Row(p, seat) = Row(p, entry)
    BY <2>7 DEF Row
  <2>9. row = [Row(p, entry) EXCEPT !.active = row.active]
    BY <2>3, <2>8 DEF Row
  <2>10. Repeats(row)
    BY <2>5, <2>6, <2>9 DEF Repeats
  <2>11. mirror' = WithRow(row) /\ UNCHANGED <<registry, holds, call>> /\ desk'.stage # "REGISTERED"
    BY <1>10, <2>2, <2>3 DEF SaveFreeSeat, NobodyAtDesk
  <2>12. MirrorRepeatsTheChain' /\ RowsStay
    BY <2>5, <2>10, <2>11, RowRecorded
  <2>13. PICK moved \in SUBSET Calls : moved = {}
    OBVIOUS
  <2>14. /\ \A c \in Calls \ moved : call'[c] = call[c]
         /\ \A c \in moved : call'[c].pc # "RECORDED"
    BY <2>11, <2>13
  <2>15. WorkAgrees'
    BY <1>1, <2>11, <2>12, <2>14, WorkStays
  <2> QED BY <2>12, <2>15
<1> QED BY <1>5, <1>6, <1>7, <1>8, <1>9, <1>10

\* A step of a wallet, the chain or the clock keeps the mirror true to the chain.
LEMMA MirrorOnChain ==
    ASSUME SeatTypeOK, MirrorRepeatsTheChain, WorkAgrees,
           \/ \E h \in DOMAIN holds : PostStake(h)
           \/ \E p \in DOMAIN registry : StakerLeaves(p)
           \/ ClockTicks
    PROVE  MirrorRepeatsTheChain' /\ WorkAgrees'
<1>1. Grows /\ HoldsStay
  BY TypesOnChain
<1>2. UNCHANGED <<mirror, holds, desk, call>>
  BY DEF PostStake, StakerLeaves, ClockTicks
<1>3. PICK moved \in SUBSET Calls : moved = {}
  OBVIOUS
<1>4. /\ NoneConfirmed
      /\ \A c \in Calls \ moved : call'[c] = call[c]
      /\ \A c \in moved : call'[c].pc # "RECORDED"
  BY <1>2, <1>3 DEF NoneConfirmed
<1> QED BY <1>1, <1>2, <1>4, QuietStep

\* A confirmation keeps the mirror true to the chain: it copies the transaction's owner and
\* staker, which it compared with those of the reservation.
LEMMA MirrorAtConfirmation ==
    ASSUME SeatTypeOK, MirrorRepeatsTheChain, WorkAgrees,
           \/ \E c \in Calls, h \in DOMAIN holds : StartConfirmation(c, h)
           \/ \E c \in Calls : ExpireHold(c) \/ CloseHold(c)
           \/ \E c \in Calls, p \in DOMAIN registry : RefuseTransaction(c, p) \/ SaveStakedSeat(c, p)
           \/ Crash
    PROVE  MirrorRepeatsTheChain' /\ WorkAgrees'
<1>1. Grows /\ HoldsStay
  BY TypesAtConfirmation
<1>2. DOMAIN call = Calls
  BY DEF SeatTypeOK, ConfirmationsTypeOK
<1>3. UNCHANGED holds => NoneConfirmed
  BY DEF NoneConfirmed
<1>4. ASSUME NEW c \in Calls, NEW state, call' = [call EXCEPT ![c] = state],
             UNCHANGED <<mirror, desk>>, NoneConfirmed, state.pc # "RECORDED"
      PROVE  MirrorRepeatsTheChain' /\ WorkAgrees'
  <2>1. PICK moved \in SUBSET Calls : moved = {c}
    OBVIOUS
  <2>2. /\ \A d \in Calls \ moved : call'[d] = call[d]
        /\ \A d \in moved : call'[d].pc # "RECORDED"
    BY <1>2, <1>4, <2>1
  <2> QED BY <1>1, <1>4, <2>2, QuietStep
<1>5. ASSUME NEW c \in Calls, NEW h \in DOMAIN holds, StartConfirmation(c, h)
      PROVE  MirrorRepeatsTheChain' /\ WorkAgrees'
  <2>1. PICK state : state = [pc |-> IF Live(h) THEN "CHECK" ELSE "EXPIRE", hold |-> h]
    OBVIOUS
  <2>2. state.pc # "RECORDED"
    BY <2>1
  <2>3. call' = [call EXCEPT ![c] = state] /\ UNCHANGED <<mirror, desk, holds>>
    BY <1>5, <2>1 DEF StartConfirmation
  <2> QED BY <1>3, <1>4, <2>2, <2>3
<1>6. ASSUME NEW c \in Calls, ExpireHold(c)
      PROVE  MirrorRepeatsTheChain' /\ WorkAgrees'
  <2>1. PICK h \in DOMAIN holds : h = call[c].hold
    BY <1>6, CallStages DEF ExpireHold
  <2>2. holds' = [holds EXCEPT ![h].status = "EXPIRED"] /\ call' = [call EXCEPT ![c] = IdleCall]
        /\ UNCHANGED <<mirror, desk>>
    BY <1>6, <2>1 DEF ExpireHold
  <2>3. DOMAIN holds' = DOMAIN holds /\ holds'[h].status = "EXPIRED"
        /\ \A g \in DOMAIN holds : g # h => holds'[g] = holds[g]
    BY <2>2, HoldRewritten
  <2>4. NoneConfirmed /\ IdleCall.pc # "RECORDED"
    BY <2>3 DEF NoneConfirmed, IdleCall
  <2> QED BY <1>4, <2>2, <2>4
<1>7. ASSUME NEW c \in Calls, CloseHold(c)
      PROVE  MirrorRepeatsTheChain' /\ WorkAgrees'
  <2>1. PICK h \in DOMAIN holds, p \in DOMAIN registry : h = call[c].hold /\ p = call[c].profile
    BY <1>7, CallStages DEF CloseHold
  <2>2. holds' = [holds EXCEPT ![h].status = "CONFIRMED", ![h].profile = p]
        /\ call' = [call EXCEPT ![c] = IdleCall] /\ UNCHANGED <<mirror, desk>>
    BY <1>7, <2>1 DEF CloseHold
  <2>3. PICK staker, slot : staker = holds[h].staker /\ slot = holds[h].slot
    OBVIOUS
  <2>4. Recorded(p, staker, slot)
    BY <1>7, <2>1, <2>3 DEF WorkAgrees, CloseHold
  <2>5. RowsStay
    BY <2>2 DEF RowsStay
  <2>6. \A r \in mirror' : Repeats(r)'
    BY <1>1, <2>2, MirrorInParts, RepeatsStays
  <2>7. p \in Nat
    BY RecordTypes
  <2>8. DOMAIN holds' = DOMAIN holds /\ \A g \in DOMAIN holds : g # h => holds'[g] = holds[g]
    BY <2>2, <2>7, HoldRewritten
  <2>9. holds'[h].profile = p /\ holds'[h].staker = staker /\ holds'[h].slot = slot
    <3>1. holds[h] \in Reservations
      BY HoldTypes
    <3>2. holds'[h] = [holds[h] EXCEPT !.status = "CONFIRMED", !.profile = p]
      BY <2>2
    <3> QED BY <2>3, <3>1, <3>2 DEF Reservations
  <2>10. ASSUME NEW g \in DOMAIN holds', holds'[g].status = "CONFIRMED"
         PROVE  Recorded(holds[g].profile, holds[g].staker, holds[g].slot)'
    <3>1. CASE g = h
      <4>1. Recorded(p, staker, slot)'
        BY <2>4, <2>5, RecordedStays
      <4> QED BY <2>9, <3>1, <4>1
    <3>2. CASE g # h
      <4>1. g \in DOMAIN holds /\ holds'[g] = holds[g] /\ holds[g].status = "CONFIRMED"
        BY <2>8, <2>10, <3>2
      <4>2. PICK q, s, t : q = holds[g].profile /\ s = holds[g].staker /\ t = holds[g].slot
        OBVIOUS
      <4>3. Recorded(q, s, t)
        BY <4>1, <4>2, MirrorInParts
      <4>4. Recorded(q, s, t)'
        BY <2>5, <4>3, RecordedStays
      <4> QED BY <4>1, <4>2, <4>4
    <3> QED BY <3>1, <3>2
  <2>11. MirrorRepeatsTheChain'
    BY <2>6, <2>10, MirrorInPartsNext
  <2>12. PICK moved \in SUBSET Calls : moved = {c}
    OBVIOUS
  <2>13. /\ \A d \in Calls \ moved : call'[d] = call[d]
         /\ \A d \in moved : call'[d].pc # "RECORDED"
    BY <1>2, <2>2, <2>12 DEF IdleCall
  <2>14. WorkAgrees'
    BY <1>1, <2>2, <2>5, <2>13, WorkStays
  <2> QED BY <2>11, <2>14
<1>8. ASSUME NEW c \in Calls, NEW p \in DOMAIN registry, RefuseTransaction(c, p)
      PROVE  MirrorRepeatsTheChain' /\ WorkAgrees'
  <2>1. call' = [call EXCEPT ![c] = IdleCall] /\ UNCHANGED <<mirror, desk, holds>>
        /\ IdleCall.pc # "RECORDED"
    BY <1>8 DEF RefuseTransaction, IdleCall
  <2> QED BY <1>3, <1>4, <2>1
<1>9. ASSUME NEW c \in Calls, NEW p \in DOMAIN registry, SaveStakedSeat(c, p)
      PROVE  MirrorRepeatsTheChain' /\ WorkAgrees'
  <2>1. PICK h \in DOMAIN holds : h = call[c].hold
    BY <1>9, CallStages DEF SaveStakedSeat
  <2>2. PICK row : row = Row(p, [owner |-> registry[p].owner, staker |-> registry[p].staker,
                                 model |-> holds[h].model, role |-> holds[h].role])
    OBVIOUS
  <2>3. Matches(h, p) /\ mirror' = WithRow(row) /\ UNCHANGED <<registry, holds, desk>>
        /\ call' = [call EXCEPT ![c] = [pc |-> "RECORDED", hold |-> h, profile |-> p]]
    BY <1>9, <2>1, <2>2 DEF SaveStakedSeat
  <2>4. /\ row \in Rows /\ row.profile = p
        /\ row.owner = holds[h].slot /\ row.staker = holds[h].staker
        /\ row = [Row(p, registry[p]) EXCEPT !.active = row.active]
    BY <2>2, <2>3, ConfirmedRow
  <2>5. Repeats(row)
    BY <2>4 DEF Repeats
  <2>6. MirrorRepeatsTheChain' /\ RowsStay /\ Recorded(row.profile, row.staker, row.owner)'
    BY <2>3, <2>4, <2>5, RowRecorded
  <2>7. ASSUME NEW d \in Calls, call'[d].pc = "RECORDED"
        PROVE  Recorded(call[d].profile, holds[call[d].hold].staker, holds[call[d].hold].slot)'
    <3>1. CASE d = c
      <4>1. call'[d].profile = p /\ call'[d].hold = h
        BY <1>2, <2>3, <3>1
      <4>2. PICK staker, slot : staker = row.staker /\ slot = row.owner
        OBVIOUS
      <4>3. Recorded(p, staker, slot)'
        BY <2>4, <2>6, <4>2
      <4>4. holds'[h].staker = staker /\ holds'[h].slot = slot
        BY <2>3, <2>4, <4>2
      <4> QED BY <4>1, <4>3, <4>4
    <3>2. CASE d # c
      <4>1. call'[d] = call[d]
        BY <1>2, <2>3, <3>2
      <4>2. PICK q, s, t : q = call[d].profile /\ s = holds[call[d].hold].staker
                           /\ t = holds[call[d].hold].slot
        OBVIOUS
      <4>3. Recorded(q, s, t)
        BY <2>7, <4>1, <4>2 DEF WorkAgrees
      <4>4. Recorded(q, s, t)'
        BY <2>6, <4>3, RecordedStays
      <4>5. call'[d].profile = q /\ holds'[call'[d].hold].staker = s /\ holds'[call'[d].hold].slot = t
        BY <2>3, <4>1, <4>2
      <4> QED BY <4>4, <4>5
    <3> QED BY <3>1, <3>2
  <2>8. WorkAgrees'
    <3>1. desk.stage = "REGISTERED" =>
             /\ registry[desk.profile].owner = desk.seat.owner
             /\ registry[desk.profile].model = desk.seat.model
             /\ registry[desk.profile].role = desk.seat.role
             /\ registry[desk.profile].staker = desk.seat.staker
      BY DEF WorkAgrees
    <3> QED BY <2>3, <2>7, <3>1 DEF WorkAgrees
  <2> QED BY <2>6, <2>8
<1>10. CASE Crash
  <2>1. desk'.stage # "REGISTERED" /\ UNCHANGED <<mirror, holds>> /\ \A c \in Calls : call'[c].pc # "RECORDED"
    BY <1>10 DEF Crash, NobodyAtDesk, IdleCall
  <2>2. PICK moved \in SUBSET Calls : moved = Calls
    OBVIOUS
  <2> QED BY <1>1, <1>3, <2>1, <2>2, QuietStep
<1> QED BY <1>5, <1>6, <1>7, <1>8, <1>9, <1>10

\* The mirror sync changes whether rows are active only.
LEMMA MirrorAtSync ==
    ASSUME SeatTypeOK, MirrorRepeatsTheChain, WorkAgrees, ReadRegistry \/ DeactivateOutsideRegistry
    PROVE  MirrorRepeatsTheChain' /\ WorkAgrees'
<1>1. Grows /\ HoldsStay
  BY TypesAtSync
<1>2. UNCHANGED <<registry, holds, desk, call>>
  BY DEF ReadRegistry, DeactivateOutsideRegistry
<1>3. NoneConfirmed
  BY <1>2 DEF NoneConfirmed
<1>4. PICK moved \in SUBSET Calls : moved = {}
  OBVIOUS
<1>5. /\ \A c \in Calls \ moved : call'[c] = call[c]
      /\ \A c \in moved : call'[c].pc # "RECORDED"
  BY <1>2, <1>4
<1>6. CASE ReadRegistry
  <2>1. UNCHANGED mirror
    BY <1>6 DEF ReadRegistry
  <2> QED BY <1>1, <1>2, <1>3, <1>5, <2>1, QuietStep
<1>7. CASE DeactivateOutsideRegistry
  <2>1. mirror' = {[r EXCEPT !.active = @ /\ r.profile \in sync] : r \in mirror}
    BY <1>7 DEF DeactivateOutsideRegistry
  <2>2. mirror \in SUBSET Rows
    BY DEF SeatTypeOK
  <2>3. ASSUME NEW r \in mirror, NEW s, s = [r EXCEPT !.active = @ /\ r.profile \in sync]
        PROVE  /\ s.profile = r.profile /\ s.owner = r.owner /\ s.staker = r.staker
               /\ \A t : r = [t EXCEPT !.active = r.active] => s = [t EXCEPT !.active = s.active]
    BY <2>2, <2>3 DEF Rows
  <2>4. RowsStay
    <3> SUFFICES ASSUME NEW r \in mirror
                 PROVE  \E s \in mirror' :
                           s.profile = r.profile /\ s.owner = r.owner /\ s.staker = r.staker
      BY DEF RowsStay
    <3>1. PICK s : s = [r EXCEPT !.active = @ /\ r.profile \in sync]
      OBVIOUS
    <3>2. s \in mirror'
      BY <2>1, <3>1
    <3>3. s.profile = r.profile /\ s.owner = r.owner /\ s.staker = r.staker
      BY <2>3, <3>1
    <3> QED BY <3>2, <3>3
  <2>5. ASSUME NEW s \in mirror' PROVE Repeats(s)'
    <3>1. PICK r \in mirror : s = [r EXCEPT !.active = @ /\ r.profile \in sync]
      BY <2>1
    <3>2. Repeats(r)
      BY MirrorInParts
    <3>3. PICK p \in DOMAIN registry : p = r.profile
      BY <3>2 DEF Repeats
    <3>4. PICK t : t = Row(p, registry[p])
      OBVIOUS
    <3>5. s.profile = p /\ s = [t EXCEPT !.active = s.active]
      BY <2>3, <3>1, <3>2, <3>3, <3>4 DEF Repeats
    <3>6. Repeats(s)
      BY <3>3, <3>4, <3>5 DEF Repeats
    <3> QED BY <1>1, <3>6, RepeatsStays
  <2>6. MirrorRepeatsTheChain'
    BY <1>1, <1>3, <2>4, <2>5, MirrorStays
  <2>7. WorkAgrees'
    BY <1>1, <1>2, <1>5, <2>4, WorkStays
  <2> QED BY <2>6, <2>7
<1> QED BY <1>6, <1>7

\* Every step keeps the mirror true to the chain.
LEMMA MirrorStep ==
    ASSUME SeatTypeOK, MirrorRepeatsTheChain, WorkAgrees, SeatNext
    PROVE  MirrorRepeatsTheChain' /\ WorkAgrees'
BY MirrorAtTheDesk, MirrorOnChain, MirrorAtConfirmation, MirrorAtSync DEF SeatNext

-----------------------------------------------------------------------------
(* The slots                                                               *)

\* Every punctual row of the next state was one before, of the same profile, staker and key.
NoNewPunctual ==
    \A r \in Punctual' : \E s \in Punctual :
        s.profile = r.profile /\ s.owner = r.owner /\ s.staker = r.staker

\* A reservation that lends its slot did so before.
LEMMA LentBefore ==
    ASSUME SeatTypeOK, HoldsStay, now' = now \/ now' = now + 1
    PROVE  \A h \in DOMAIN holds : Lent(h)' => Lent(h)
<1> SUFFICES ASSUME NEW h \in DOMAIN holds, Lent(h)' PROVE Lent(h)
  OBVIOUS
<1>1. holds'[h].expires = holds[h].expires /\ holds[h].expires \in Nat /\ now \in Nat
  BY HoldTypes DEF HoldsStay, SeatTypeOK
<1>2. holds'[h].expires > now'
  BY DEF Lent
<1>3. PICK e, n : e = holds[h].expires /\ n = now'
  OBVIOUS
<1>4. e \in Nat /\ n \in Nat /\ e > n /\ n >= now /\ now \in Nat
  BY <1>1, <1>2, <1>3
<1>5. e > now
  BY <1>4
<1> QED BY <1>3, <1>5 DEF Lent

\* The parts of the invariant that a step keeps when it records no punctual row and makes
\* no reservation.
LEMMA LentSlotsStay ==
    ASSUME SeatTypeOK, SlotsAreLentOnce, HoldsStay, DOMAIN holds' = DOMAIN holds, NoNewPunctual,
           now' = now \/ now' = now + 1
    PROVE  /\ \A r, s \in Punctual' : r.owner = s.owner =>
                 r.profile = s.profile \/ (r.staker = s.staker /\ r.staker \in Stakers)
           /\ \A h \in DOMAIN holds' : Lent(h)' =>
                 \A r \in Punctual' : r.owner = holds'[h].slot => r.staker = holds'[h].staker
           /\ \A g, h \in DOMAIN holds' :
                 Lent(g)' /\ Lent(h)' /\ holds'[g].slot = holds'[h].slot => g = h
<1>1. \A h \in DOMAIN holds : /\ Lent(h)' => Lent(h)
                              /\ holds'[h].slot = holds[h].slot /\ holds'[h].staker = holds[h].staker
  BY LentBefore DEF HoldsStay
<1>2. ASSUME NEW r \in Punctual', NEW s \in Punctual', r.owner = s.owner
      PROVE  r.profile = s.profile \/ (r.staker = s.staker /\ r.staker \in Stakers)
  <2>1. PICK q \in Punctual : q.profile = r.profile /\ q.owner = r.owner /\ q.staker = r.staker
    BY DEF NoNewPunctual
  <2>2. PICK t \in Punctual : t.profile = s.profile /\ t.owner = s.owner /\ t.staker = s.staker
    BY DEF NoNewPunctual
  <2>3. q.profile = t.profile \/ (q.staker = t.staker /\ q.staker \in Stakers)
    BY <1>2, <2>1, <2>2 DEF SlotsAreLentOnce
  <2> QED BY <2>1, <2>2, <2>3
<1>3. ASSUME NEW h \in DOMAIN holds', Lent(h)', NEW r \in Punctual', r.owner = holds'[h].slot
      PROVE  r.staker = holds'[h].staker
  <2>1. PICK q \in Punctual : q.owner = r.owner /\ q.staker = r.staker
    BY DEF NoNewPunctual
  <2>2. q.staker = holds[h].staker
    BY <1>1, <1>3, <2>1 DEF SlotsAreLentOnce
  <2> QED BY <1>1, <2>1, <2>2
<1>4. ASSUME NEW g \in DOMAIN holds', NEW h \in DOMAIN holds',
             Lent(g)', Lent(h)', holds'[g].slot = holds'[h].slot
      PROVE  g = h
  <2>1. Lent(g) /\ Lent(h) /\ holds[g].slot = holds[h].slot
    BY <1>1, <1>4
  <2> QED BY <2>1 DEF SlotsAreLentOnce
<1> QED BY <1>2, <1>3, <1>4

\* The same for what is at the desk.
LEMMA DeskSlotStays ==
    ASSUME SeatTypeOK, SlotsAreLentOnce, HoldsStay, DOMAIN holds' = DOMAIN holds, NoNewPunctual,
           now' = now \/ now' = now + 1,
           desk' # NobodyAtDesk => desk # NobodyAtDesk /\ desk'.seat = desk.seat
    PROVE  desk' # NobodyAtDesk =>
              /\ \A r \in Punctual' : r.owner # desk'.seat.owner
              /\ \A h \in DOMAIN holds' : Lent(h)' => holds'[h].slot # desk'.seat.owner
<1> SUFFICES ASSUME desk' # NobodyAtDesk
             PROVE  /\ \A r \in Punctual' : r.owner # desk'.seat.owner
                    /\ \A h \in DOMAIN holds' : Lent(h)' => holds'[h].slot # desk'.seat.owner
  OBVIOUS
<1>1. desk # NobodyAtDesk /\ desk'.seat = desk.seat
  OBVIOUS
<1>2. PICK slot : slot = desk.seat.owner
  OBVIOUS
<1>3. /\ \A r \in Punctual : r.owner # slot
      /\ \A h \in DOMAIN holds : Lent(h) => holds[h].slot # slot
  BY <1>1, <1>2 DEF SlotsAreLentOnce
<1>4. \A r \in Punctual' : r.owner # slot
  BY <1>3 DEF NoNewPunctual
<1>5. \A h \in DOMAIN holds : (Lent(h)' => Lent(h)) /\ holds'[h].slot = holds[h].slot
  BY LentBefore DEF HoldsStay
<1>6. \A h \in DOMAIN holds' : Lent(h)' => holds'[h].slot # slot
  BY <1>3, <1>5
<1> QED BY <1>1, <1>2, <1>4, <1>6

\* And for the reservations that have run out.
LEMMA RunOutStays ==
    ASSUME SeatTypeOK, SlotsAreLentOnce, HoldsStay, DOMAIN holds' = DOMAIN holds,
           now' = now \/ now' = now + 1,
           \A h \in DOMAIN holds : holds'[h].status = "EXPIRED" => ~Lent(h),
           NEW moved \in SUBSET Calls, \A c \in Calls \ moved : call'[c] = call[c],
           \A c \in moved : call'[c].pc # "EXPIRE"
    PROVE  /\ \A h \in DOMAIN holds' : holds'[h].status = "EXPIRED" => ~Lent(h)'
           /\ \A c \in Calls : call'[c].pc = "EXPIRE" => ~Lent(call[c].hold)'
<1>1. \A h \in DOMAIN holds : Lent(h)' => Lent(h)
  BY LentBefore
<1>2. ASSUME NEW c \in Calls, call'[c].pc = "EXPIRE"
      PROVE  ~Lent(call[c].hold)'
  <2>1. call'[c] = call[c]
    BY <1>2
  <2>2. PICK h \in DOMAIN holds : h = call[c].hold
    BY <1>2, <2>1, CallStages
  <2>3. ~Lent(h)
    BY <1>2, <2>1, <2>2 DEF SlotsAreLentOnce
  <2>4. ~Lent(h)'
    BY <1>1, <2>3
  <2>5. h = call'[c].hold
    BY <2>1, <2>2
  <2> QED BY <2>4, <2>5
<1> QED BY <1>1, <1>2

\* A step that records no punctual row, makes no reservation and begins no registration.
LEMMA SlotsStay ==
    ASSUME SeatTypeOK, SlotsAreLentOnce, HoldsStay, DOMAIN holds' = DOMAIN holds, NoNewPunctual,
           now' = now \/ now' = now + 1,
           desk' # NobodyAtDesk => desk # NobodyAtDesk /\ desk'.seat = desk.seat,
           \A h \in DOMAIN holds : holds'[h].status = "EXPIRED" => ~Lent(h),
           NEW moved \in SUBSET Calls, \A c \in Calls \ moved : call'[c] = call[c],
           \A c \in moved : call'[c].pc # "EXPIRE"
    PROVE  SlotsAreLentOnce'
<1>1. /\ \A h \in DOMAIN holds' : holds'[h].status = "EXPIRED" => ~Lent(h)'
      /\ \A c \in Calls : call'[c].pc = "EXPIRE" => ~Lent(call[c].hold)'
  BY RunOutStays
<1>2. desk' # NobodyAtDesk =>
         /\ \A r \in Punctual' : r.owner # desk'.seat.owner
         /\ \A h \in DOMAIN holds' : Lent(h)' => holds'[h].slot # desk'.seat.owner
  BY DeskSlotStays
<1>3. /\ \A r, s \in Punctual' : r.owner = s.owner =>
            r.profile = s.profile \/ (r.staker = s.staker /\ r.staker \in Stakers)
      /\ \A h \in DOMAIN holds' : Lent(h)' =>
            \A r \in Punctual' : r.owner = holds'[h].slot => r.staker = holds'[h].staker
      /\ \A g, h \in DOMAIN holds' :
            Lent(g)' /\ Lent(h)' /\ holds'[g].slot = holds'[h].slot => g = h
  BY LentSlotsStay
<1>4. NobodyAtDesk' = NobodyAtDesk
  BY DEF NobodyAtDesk
<1> QED BY <1>1, <1>2, <1>3, <1>4 DEF SlotsAreLentOnce

\* At the start every key has one seat, and nothing is lent.
LEMMA SlotsInit == SeatInit => SlotsAreLentOnce
<1> SUFFICES ASSUME SeatInit PROVE SlotsAreLentOnce
  OBVIOUS
<1>1. PICK seats \in Seeds : /\ registry = Seed(seats)
                             /\ mirror = {Row(i, Seed(seats)[i]) : i \in DOMAIN seats}
  BY DEF SeatInit
<1>2. \A r \in mirror : r.profile = r.owner
  BY <1>1 DEF Seed, Row
<1>3. DOMAIN holds = {} /\ desk = NobodyAtDesk /\ \A c \in Calls : call[c].pc # "EXPIRE"
  BY DEF SeatInit, IdleCall
<1>4. \A r \in Punctual : r \in mirror
  BY DEF Punctual
<1> QED BY <1>2, <1>3, <1>4 DEF SlotsAreLentOnce

\* A registration begins with a slot that no punctual row has and no reservation lends: a
\* confirmed one has a row, one that was given up has run out.
LEMMA TakenIsLent ==
    ASSUME SeatTypeOK, MirrorRepeatsTheChain, SlotsAreLentOnce, NEW slot, slot \notin TakenSlots
    PROVE  /\ \A r \in Punctual : r.owner # slot
           /\ \A h \in DOMAIN holds : Lent(h) => holds[h].slot # slot
<1>1. \A r \in mirror : r.owner # slot
  BY DEF TakenSlots
<1>2. \A r \in Punctual : r \in mirror
  BY DEF Punctual
<1>3. ASSUME NEW h \in DOMAIN holds, Lent(h) PROVE holds[h].slot # slot
  <2>1. holds[h].status \in {"PENDING", "CONFIRMED", "EXPIRED"}
    <3>1. holds[h] \in Reservations
      BY HoldTypes
    <3> QED BY <3>1 DEF Reservations
  <2>2. CASE holds[h].status = "PENDING"
    <3>1. Live(h)
      BY <1>3, <2>2 DEF Live, Lent
    <3> QED BY <3>1 DEF TakenSlots
  <2>3. CASE holds[h].status = "CONFIRMED"
    <3>1. \E r \in mirror : r.owner = holds[h].slot
      BY <2>3 DEF MirrorRepeatsTheChain
    <3> QED BY <1>1, <3>1
  <2>4. CASE holds[h].status = "EXPIRED"
    BY <1>3, <2>4 DEF SlotsAreLentOnce
  <2> QED BY <2>1, <2>2, <2>3, <2>4
<1> QED BY <1>1, <1>2, <1>3

\* The beginning of a registration.
LEMMA SlotsAtTheDoor ==
    ASSUME SeatTypeOK, MirrorRepeatsTheChain, SlotsAreLentOnce,
           NEW kind, NEW staker \in Stakers \cup {"OPERATOR"}, NEW w \in Wishes,
           BeginRegistration(kind, staker, w[1], w[2])
    PROVE  SlotsAreLentOnce'
<1>1. w[1] \in Models /\ w[2] \in ToSet(Roles) \cup {NoRole}
  BY NamesAssumption
<1>2. PICK seat \in Rows, checked \in BOOLEAN :
         /\ desk' = Published(kind, seat, checked)
         /\ seat.owner \notin TakenSlots
  BY <1>1, RegistrationBegins
<1>3. PICK slot : slot = seat.owner
  OBVIOUS
<1>4. desk'.seat.owner = slot /\ slot \notin TakenSlots
  BY <1>2, <1>3 DEF Published
<1>5. UNCHANGED <<now, holds, mirror, overtime, call>>
  BY DEF BeginRegistration
<1>6. Punctual' = Punctual /\ \A h : Lent(h)' = Lent(h)
  BY <1>5 DEF Punctual, Lent
<1>7. /\ \A r \in Punctual : r.owner # slot
      /\ \A h \in DOMAIN holds : Lent(h) => holds[h].slot # slot
  BY <1>4, TakenIsLent
<1>8. \A c \in Calls : call'[c].pc = "EXPIRE" => ~Lent(call[c].hold)'
  <2> SUFFICES ASSUME NEW c \in Calls, call'[c].pc = "EXPIRE" PROVE ~Lent(call[c].hold)'
    OBVIOUS
  <2>1. PICK h : h = call[c].hold
    OBVIOUS
  <2>2. ~Lent(h)
    BY <1>5, <2>1 DEF SlotsAreLentOnce
  <2> QED BY <1>5, <1>6, <2>1, <2>2
<1> QED BY <1>4, <1>5, <1>6, <1>7, <1>8 DEF SlotsAreLentOnce

\* A reservation lends the slot that was at the desk.
LEMMA SlotsAtReservation ==
    ASSUME SeatTypeOK, SlotsAreLentOnce, SaveStakeReservation
    PROVE  SlotsAreLentOnce'
<1>1. /\ desk # NobodyAtDesk /\ desk.seat \in Rows /\ desk.seat.owner \in Slots
      /\ desk.seat.staker \in Stakers /\ desk.checked \in BOOLEAN
  BY DeskStages DEF SaveStakeReservation
<1>2. PICK slot, staker : slot = desk.seat.owner /\ staker = desk.seat.staker
  OBVIOUS
<1>3. PICK hold : hold = [staker |-> desk.seat.staker, slot |-> desk.seat.owner,
                          model |-> desk.seat.model, role |-> desk.seat.role,
                          checked |-> desk.checked, status |-> "PENDING",
                          expires |-> now + HoldTime, profile |-> 0]
  OBVIOUS
<1>4. hold \in Reservations
  <2>1. now + HoldTime \in Nat
    BY SizesAssumption DEF SeatTypeOK
  <2> QED BY <1>1, <1>3, <2>1 DEF Rows, Reservations
<1>5. holds' = Append(holds, hold) /\ desk' = NobodyAtDesk
      /\ UNCHANGED <<now, mirror, overtime, call>>
  BY <1>3 DEF SaveStakeReservation
<1>6. PICK n : n = Len(holds) + 1
  OBVIOUS
<1>7. /\ \A g \in DOMAIN holds : holds'[g] = holds[g]
      /\ n \notin DOMAIN holds /\ holds'[n] = hold
      /\ DOMAIN holds' = DOMAIN holds \cup {n}
  BY <1>4, <1>5, <1>6, HoldAppended
<1>8. Punctual' = Punctual /\ (\A h \in DOMAIN holds : Lent(h)' = Lent(h))
  BY <1>5, <1>7 DEF Punctual, Lent
<1>9. hold.slot = slot /\ hold.staker = staker /\ hold.status = "PENDING"
  BY <1>2, <1>3
<1>10. /\ \A r \in Punctual : r.owner # slot
       /\ \A h \in DOMAIN holds : Lent(h) => holds[h].slot # slot
  BY <1>1, <1>2 DEF SlotsAreLentOnce
<1>11. ASSUME NEW h \in DOMAIN holds', Lent(h)', NEW r \in Punctual', r.owner = holds'[h].slot
       PROVE  r.staker = holds'[h].staker
  <2>1. CASE h = n
    BY <1>7, <1>8, <1>9, <1>10, <1>11, <2>1
  <2>2. CASE h # n
    BY <1>7, <1>8, <1>11, <2>2 DEF SlotsAreLentOnce
  <2> QED BY <2>1, <2>2
<1>12. ASSUME NEW g \in DOMAIN holds', NEW h \in DOMAIN holds',
              Lent(g)', Lent(h)', holds'[g].slot = holds'[h].slot
       PROVE  g = h
  <2>1. CASE g = n /\ h # n
    BY <1>7, <1>8, <1>9, <1>10, <1>12, <2>1
  <2>2. CASE h = n /\ g # n
    BY <1>7, <1>8, <1>9, <1>10, <1>12, <2>2
  <2>3. CASE g # n /\ h # n
    BY <1>7, <1>8, <1>12, <2>3 DEF SlotsAreLentOnce
  <2> QED BY <2>1, <2>2, <2>3
<1>13. \A r, s \in Punctual' : r.owner = s.owner =>
          r.profile = s.profile \/ (r.staker = s.staker /\ r.staker \in Stakers)
  BY <1>8 DEF SlotsAreLentOnce
<1>14. \A h \in DOMAIN holds' : holds'[h].status = "EXPIRED" => ~Lent(h)'
  BY <1>7, <1>8, <1>9 DEF SlotsAreLentOnce
<1>15. ASSUME NEW c \in Calls, call'[c].pc = "EXPIRE" PROVE ~Lent(call[c].hold)'
  <2>1. PICK h \in DOMAIN holds : h = call[c].hold
    BY <1>5, <1>15, CallStages
  <2>2. ~Lent(h)
    BY <1>5, <1>15, <2>1 DEF SlotsAreLentOnce
  <2>3. ~Lent(h)' /\ h = call'[c].hold
    BY <1>5, <1>8, <2>1, <2>2
  <2> QED BY <2>3
<1>16. desk' = NobodyAtDesk'
  BY <1>5 DEF NobodyAtDesk
<1> QED BY <1>11, <1>12, <1>13, <1>14, <1>15, <1>16 DEF SlotsAreLentOnce

\* The row of the free seat signs with the key that was at the desk, which nobody else has.
LEMMA SlotsAtFreeSeat ==
    ASSUME SeatTypeOK, SlotsAreLentOnce, SaveFreeSeat
    PROVE  SlotsAreLentOnce'
<1>1. /\ desk # NobodyAtDesk /\ desk.seat \in Rows /\ desk.profile \in DOMAIN registry
  BY DeskStages DEF SaveFreeSeat
<1>2. PICK row : row = Row(desk.profile, desk.seat)
  OBVIOUS
<1>3. PICK slot : slot = desk.seat.owner
  OBVIOUS
<1>4. row \in Rows /\ row.owner = slot
  <2>1. desk.profile \in Nat
    BY <1>1, RecordTypes
  <2> QED BY <1>1, <1>2, <1>3, <2>1 DEF Row, Rows
<1>5. mirror' = WithRow(row) /\ desk' = NobodyAtDesk /\ UNCHANGED <<now, holds, overtime, call>>
  BY <1>2 DEF SaveFreeSeat
<1>6. \A r \in mirror' : r = row \/ r \in mirror
  BY <1>4, <1>5, RowTakesItsPlace
<1>7. \A r \in Punctual' : r = row \/ r \in Punctual
  BY <1>5, <1>6 DEF Punctual
<1>8. \A h : Lent(h)' = Lent(h)
  BY <1>5 DEF Lent
<1>9. /\ \A r \in Punctual : r.owner # slot
      /\ \A h \in DOMAIN holds : Lent(h) => holds[h].slot # slot
  BY <1>1, <1>3 DEF SlotsAreLentOnce
<1>10. ASSUME NEW r \in Punctual', NEW s \in Punctual', r.owner = s.owner
       PROVE  r.profile = s.profile \/ (r.staker = s.staker /\ r.staker \in Stakers)
  <2>1. CASE r = row /\ s = row
    BY <2>1
  <2>2. CASE r = row /\ s # row
    BY <1>4, <1>7, <1>9, <1>10, <2>2
  <2>3. CASE s = row /\ r # row
    BY <1>4, <1>7, <1>9, <1>10, <2>3
  <2>4. CASE r # row /\ s # row
    BY <1>7, <1>10, <2>4 DEF SlotsAreLentOnce
  <2> QED BY <2>1, <2>2, <2>3, <2>4
<1>11. ASSUME NEW h \in DOMAIN holds', Lent(h)', NEW r \in Punctual', r.owner = holds'[h].slot
       PROVE  r.staker = holds'[h].staker
  <2>1. Lent(h) /\ h \in DOMAIN holds /\ holds'[h] = holds[h]
    BY <1>5, <1>8, <1>11
  <2>2. CASE r = row
    BY <1>4, <1>9, <1>11, <2>1, <2>2
  <2>3. CASE r # row
    BY <1>7, <1>11, <2>1, <2>3 DEF SlotsAreLentOnce
  <2> QED BY <2>2, <2>3
<1>12. /\ \A g, h \in DOMAIN holds' : Lent(g)' /\ Lent(h)' /\ holds'[g].slot = holds'[h].slot => g = h
       /\ \A h \in DOMAIN holds' : holds'[h].status = "EXPIRED" => ~Lent(h)'
  BY <1>5, <1>8 DEF SlotsAreLentOnce
<1>13. ASSUME NEW c \in Calls, call'[c].pc = "EXPIRE" PROVE ~Lent(call[c].hold)'
  <2>1. PICK h : h = call[c].hold
    OBVIOUS
  <2>2. ~Lent(h)
    BY <1>5, <1>13, <2>1 DEF SlotsAreLentOnce
  <2> QED BY <1>5, <1>8, <2>1, <2>2
<1>14. desk' = NobodyAtDesk'
  BY <1>5 DEF NobodyAtDesk
<1> QED BY <1>10, <1>11, <1>12, <1>13, <1>14 DEF SlotsAreLentOnce

\* A confirmed seat signs with the key of its reservation: while that lends the slot all who
\* have the key are its staker's, and afterwards the seat is a straggler.
LEMMA SlotsAtConfirmedSeat ==
    ASSUME SeatTypeOK, SlotsAreLentOnce, NEW c \in Calls, NEW p \in DOMAIN registry,
           SaveStakedSeat(c, p)
    PROVE  SlotsAreLentOnce'
<1>1. PICK h \in DOMAIN holds : h = call[c].hold
  BY CallStages DEF SaveStakedSeat
<1>2. PICK row : row = Row(p, [owner |-> registry[p].owner, staker |-> registry[p].staker,
                               model |-> holds[h].model, role |-> holds[h].role])
  OBVIOUS
<1>3. PICK state : state = [pc |-> "RECORDED", hold |-> h, profile |-> p]
  OBVIOUS
<1>4. /\ Matches(h, p) /\ mirror' = WithRow(row) /\ call' = [call EXCEPT ![c] = state]
      /\ overtime' = IF holds[h].expires <= now THEN overtime \cup {p} ELSE overtime
      /\ UNCHANGED <<now, holds, desk>>
  BY <1>1, <1>2, <1>3 DEF SaveStakedSeat
<1>5. /\ row \in Rows /\ row.profile = p
      /\ row.owner = holds[h].slot /\ row.staker = holds[h].staker /\ row.staker \in Stakers
  BY <1>2, <1>4, ConfirmedRow, HoldTypes
<1>6. \A r \in mirror' : r = row \/ r \in mirror
  BY <1>4, <1>5, RowTakesItsPlace
<1>7. \A r \in Punctual' : (r = row /\ Lent(h)) \/ r \in Punctual
  <2> SUFFICES ASSUME NEW r \in Punctual' PROVE (r = row /\ Lent(h)) \/ r \in Punctual
    OBVIOUS
  <2>1. r \in mirror' /\ r.profile \notin overtime'
    BY DEF Punctual
  <2>2. overtime \subseteq overtime'
    BY <1>4
  <2>3. CASE r \in mirror
    BY <2>1, <2>2, <2>3 DEF Punctual
  <2>4. CASE r = row
    <3>1. ~(holds[h].expires <= now)
      BY <1>4, <1>5, <2>1, <2>4
    <3>2. holds[h].expires \in Nat /\ now \in Nat
      BY HoldTypes DEF SeatTypeOK
    <3> QED BY <2>4, <3>1, <3>2 DEF Lent
  <2> QED BY <1>6, <2>1, <2>3, <2>4
<1>8. \A g : Lent(g)' = Lent(g)
  BY <1>4 DEF Lent
<1>9. \A r \in Punctual : r.owner = row.owner /\ Lent(h) => r.staker = row.staker
  BY <1>5 DEF SlotsAreLentOnce
<1>10. ASSUME NEW r \in Punctual', NEW s \in Punctual', r.owner = s.owner
       PROVE  r.profile = s.profile \/ (r.staker = s.staker /\ r.staker \in Stakers)
  <2>1. CASE r \in Punctual /\ s \in Punctual
    BY <1>10, <2>1 DEF SlotsAreLentOnce
  <2>2. CASE r = row /\ Lent(h)
    BY <1>5, <1>7, <1>9, <1>10, <2>2
  <2>3. CASE s = row /\ Lent(h)
    BY <1>5, <1>7, <1>9, <1>10, <2>3
  <2> QED BY <1>7, <2>1, <2>2, <2>3
<1>11. ASSUME NEW g \in DOMAIN holds', Lent(g)', NEW r \in Punctual', r.owner = holds'[g].slot
       PROVE  r.staker = holds'[g].staker
  <2>1. Lent(g) /\ g \in DOMAIN holds /\ holds'[g] = holds[g]
    BY <1>4, <1>8, <1>11
  <2>2. CASE r \in Punctual
    BY <1>11, <2>1, <2>2 DEF SlotsAreLentOnce
  <2>3. CASE r = row /\ Lent(h)
    <3>1. holds[g].slot = holds[h].slot
      BY <1>5, <1>11, <2>1, <2>3
    <3>2. g = h
      BY <2>1, <2>3, <3>1 DEF SlotsAreLentOnce
    <3> QED BY <1>5, <2>1, <2>3, <3>2
  <2> QED BY <1>7, <2>2, <2>3
<1>12. /\ \A f, g \in DOMAIN holds' : Lent(f)' /\ Lent(g)' /\ holds'[f].slot = holds'[g].slot => f = g
       /\ \A g \in DOMAIN holds' : holds'[g].status = "EXPIRED" => ~Lent(g)'
  BY <1>4, <1>8 DEF SlotsAreLentOnce
<1>13. ASSUME NEW d \in Calls, call'[d].pc = "EXPIRE" PROVE ~Lent(call[d].hold)'
  <2>1. d # c /\ call'[d] = call[d]
    BY <1>3, <1>4, <1>13 DEF SeatTypeOK, ConfirmationsTypeOK
  <2>2. PICK g : g = call[d].hold
    OBVIOUS
  <2>3. ~Lent(g)
    BY <1>13, <2>1, <2>2 DEF SlotsAreLentOnce
  <2> QED BY <1>8, <2>1, <2>2, <2>3
<1>14. ASSUME desk # NobodyAtDesk
       PROVE  /\ \A r \in Punctual' : r.owner # desk.seat.owner
              /\ \A g \in DOMAIN holds : Lent(g) => holds[g].slot # desk.seat.owner
  <2>1. /\ \A r \in Punctual : r.owner # desk.seat.owner
        /\ \A g \in DOMAIN holds : Lent(g) => holds[g].slot # desk.seat.owner
    BY <1>14 DEF SlotsAreLentOnce
  <2> QED BY <1>5, <1>7, <2>1
<1>15. NobodyAtDesk' = NobodyAtDesk
  BY DEF NobodyAtDesk
<1>16. desk' # NobodyAtDesk =>
          /\ \A r \in Punctual' : r.owner # desk'.seat.owner
          /\ \A g \in DOMAIN holds' : Lent(g)' => holds'[g].slot # desk'.seat.owner
  BY <1>4, <1>8, <1>14
<1> QED BY <1>10, <1>11, <1>12, <1>13, <1>15, <1>16 DEF SlotsAreLentOnce

\* Every step lends each slot once.
LEMMA SlotsStep ==
    ASSUME SeatTypeOK, MirrorRepeatsTheChain, SlotsAreLentOnce, SeatNext
    PROVE  SlotsAreLentOnce'
<1>1. HoldsStay
  BY SeatTypesStep
<1>2. DOMAIN call = Calls
  BY DEF SeatTypeOK, ConfirmationsTypeOK
<1>3. UNCHANGED <<mirror, overtime>> => NoNewPunctual
  BY DEF NoNewPunctual, Punctual
<1>4. UNCHANGED holds => DOMAIN holds' = DOMAIN holds
                         /\ \A h \in DOMAIN holds : holds'[h].status = "EXPIRED" => ~Lent(h)
  BY DEF SlotsAreLentOnce
<1>5. CASE \E s \in Stakers, w \in Wishes : PrepareStake(s, w[1], w[2])
  BY <1>5, SlotsAtTheDoor DEF PrepareStake
<1>6. CASE \E w \in Wishes : RegisterZkBackedAgent(w[1], w[2])
  BY <1>6, SlotsAtTheDoor DEF RegisterZkBackedAgent
<1>7. CASE SaveStakeReservation
  BY <1>7, SlotsAtReservation
<1>8. CASE SaveFreeSeat
  BY <1>8, SlotsAtFreeSeat
<1>9. CASE \E c \in Calls, p \in DOMAIN registry : SaveStakedSeat(c, p)
  BY <1>9, SlotsAtConfirmedSeat
<1>10. ASSUME UNCHANGED <<holds, call>>, NoNewPunctual, now' = now \/ now' = now + 1,
              desk' # NobodyAtDesk => desk # NobodyAtDesk /\ desk'.seat = desk.seat
       PROVE  SlotsAreLentOnce'
  <2>1. PICK moved \in SUBSET Calls : moved = {}
    OBVIOUS
  <2>2. /\ \A c \in Calls \ moved : call'[c] = call[c]
        /\ \A c \in moved : call'[c].pc # "EXPIRE"
    BY <1>10, <2>1
  <2> QED BY <1>1, <1>4, <1>10, <2>2, SlotsStay
<1>11. ASSUME NEW c \in Calls, NEW state, call' = [call EXCEPT ![c] = state], state.pc # "EXPIRE",
              UNCHANGED <<now, mirror, overtime, desk>>, DOMAIN holds' = DOMAIN holds,
              \A h \in DOMAIN holds : holds'[h].status = "EXPIRED" => ~Lent(h)
       PROVE  SlotsAreLentOnce'
  <2>1. PICK moved \in SUBSET Calls : moved = {c}
    OBVIOUS
  <2>2. /\ \A d \in Calls \ moved : call'[d] = call[d]
        /\ \A d \in moved : call'[d].pc # "EXPIRE"
    BY <1>2, <1>11, <2>1
  <2> QED BY <1>1, <1>3, <1>11, <2>2, SlotsStay
<1>12. CASE AbandonRegistration \/ RegisterOnChain
  <2>1. UNCHANGED <<now, mirror, overtime, holds, call>>
    BY <1>12 DEF AbandonRegistration, RegisterOnChain
  <2>2. desk' # NobodyAtDesk => desk # NobodyAtDesk /\ desk'.seat = desk.seat
    <3>1. CASE AbandonRegistration
      BY <3>1 DEF AbandonRegistration
    <3>2. CASE RegisterOnChain
      <4>1. desk # NobodyAtDesk
            /\ desk \in [stage : {"PUBLISHING"}, kind : {"STAKE", "FREE"}, seat : Rows,
                         profile : {0}, checked : BOOLEAN]
        BY <3>2, DeskStages DEF RegisterOnChain
      <4>2. desk' = [desk EXCEPT !.stage = "REGISTERED", !.profile = Len(registry) + 1]
        BY <3>2 DEF RegisterOnChain
      <4> QED BY <4>1, <4>2
    <3> QED BY <1>12, <3>1, <3>2
  <2> QED BY <1>3, <1>10, <2>1, <2>2
<1>13. CASE \/ \E h \in DOMAIN holds : PostStake(h)
            \/ \E p \in DOMAIN registry : StakerLeaves(p)
            \/ ClockTicks \/ ReadRegistry
  <2>1. UNCHANGED <<mirror, overtime, holds, call, desk>> /\ (now' = now \/ now' = now + 1)
    BY <1>13 DEF PostStake, StakerLeaves, ClockTicks, ReadRegistry
  <2> QED BY <1>3, <1>10, <2>1
<1>14. CASE DeactivateOutsideRegistry
  <2>1. UNCHANGED <<now, overtime, holds, call, desk>>
        /\ mirror' = {[r EXCEPT !.active = @ /\ r.profile \in sync] : r \in mirror}
    BY <1>14 DEF DeactivateOutsideRegistry
  <2>2. mirror \in SUBSET Rows
    BY DEF SeatTypeOK
  <2>3. NoNewPunctual
    <3> SUFFICES ASSUME NEW s \in Punctual'
                 PROVE  \E r \in Punctual :
                           r.profile = s.profile /\ r.owner = s.owner /\ r.staker = s.staker
      BY DEF NoNewPunctual
    <3>1. s \in mirror' /\ s.profile \notin overtime
      BY <2>1 DEF Punctual
    <3>2. PICK r \in mirror : s = [r EXCEPT !.active = @ /\ r.profile \in sync]
      BY <2>1, <3>1
    <3>3. s.profile = r.profile /\ s.owner = r.owner /\ s.staker = r.staker
      BY <2>2, <3>2 DEF Rows
    <3>4. r \in Punctual
      BY <3>1, <3>3 DEF Punctual
    <3> QED BY <3>3, <3>4
  <2> QED BY <1>10, <2>1, <2>3
<1>15. ASSUME NEW c \in Calls, NEW h \in DOMAIN holds, StartConfirmation(c, h)
       PROVE  SlotsAreLentOnce'
  <2>1. UNCHANGED <<now, mirror, holds, overtime, desk>>
    BY <1>15 DEF StartConfirmation
  <2>2. CASE Live(h)
    <3>1. PICK state : state = [pc |-> "CHECK", hold |-> h]
      OBVIOUS
    <3>2. call' = [call EXCEPT ![c] = state] /\ state.pc # "EXPIRE"
      BY <1>15, <2>2, <3>1 DEF StartConfirmation
    <3> QED BY <1>4, <1>11, <2>1, <3>2
  <2>3. CASE ~Live(h)
    <3>1. ~Lent(h)
      BY <1>15, <2>3 DEF StartConfirmation, Live, Lent
    <3>2. Punctual' = Punctual /\ \A g : Lent(g)' = Lent(g)
      BY <2>1 DEF Punctual, Lent
    <3>3. call' = [call EXCEPT ![c] = [pc |-> "EXPIRE", hold |-> h]]
      BY <1>15, <2>3 DEF StartConfirmation
    <3>4. ASSUME NEW d \in Calls, call'[d].pc = "EXPIRE" PROVE ~Lent(call[d].hold)'
      <4>1. CASE d = c
        <5>1. call'[d].hold = h
          BY <1>2, <3>3, <4>1
        <5>2. ~Lent(h)'
          BY <3>1, <3>2
        <5> QED BY <5>1, <5>2
      <4>2. CASE d # c
        <5>1. call'[d] = call[d]
          BY <1>2, <3>3, <4>2
        <5>2. PICK g : g = call[d].hold
          OBVIOUS
        <5>3. ~Lent(g)
          BY <3>4, <5>1, <5>2 DEF SlotsAreLentOnce
        <5> QED BY <3>2, <5>1, <5>2, <5>3
      <4> QED BY <4>1, <4>2
    <3>5. NobodyAtDesk' = NobodyAtDesk
      BY DEF NobodyAtDesk
    <3> QED BY <2>1, <3>2, <3>4, <3>5 DEF SlotsAreLentOnce
  <2> QED BY <2>2, <2>3
<1>16. ASSUME NEW c \in Calls, ExpireHold(c)
       PROVE  SlotsAreLentOnce'
  <2>1. PICK h \in DOMAIN holds : h = call[c].hold
    BY <1>16, CallStages DEF ExpireHold
  <2>2. holds' = [holds EXCEPT ![h].status = "EXPIRED"] /\ call' = [call EXCEPT ![c] = IdleCall]
        /\ UNCHANGED <<now, mirror, overtime, desk>>
    BY <1>16, <2>1 DEF ExpireHold
  <2>3. DOMAIN holds' = DOMAIN holds /\ \A g \in DOMAIN holds : g # h => holds'[g] = holds[g]
    BY <2>2, HoldRewritten
  <2>4. ~Lent(h)
    BY <1>16, <2>1 DEF ExpireHold, SlotsAreLentOnce
  <2>5. \A g \in DOMAIN holds : holds'[g].status = "EXPIRED" => ~Lent(g)
    BY <2>3, <2>4 DEF SlotsAreLentOnce
  <2>6. IdleCall.pc # "EXPIRE"
    BY DEF IdleCall
  <2> QED BY <1>11, <2>2, <2>3, <2>5, <2>6
<1>17. ASSUME NEW c \in Calls, CloseHold(c)
       PROVE  SlotsAreLentOnce'
  <2>1. PICK h \in DOMAIN holds, p \in DOMAIN registry : h = call[c].hold /\ p = call[c].profile
    BY <1>17, CallStages DEF CloseHold
  <2>2. holds' = [holds EXCEPT ![h].status = "CONFIRMED", ![h].profile = p]
        /\ call' = [call EXCEPT ![c] = IdleCall]
        /\ UNCHANGED <<now, mirror, overtime, desk>>
    BY <1>17, <2>1 DEF CloseHold
  <2>3. DOMAIN holds' = DOMAIN holds /\ holds'[h].status = "CONFIRMED"
        /\ \A g \in DOMAIN holds : g # h => holds'[g] = holds[g]
    BY <2>2, HoldRewritten, RecordTypes
  <2>4. \A g \in DOMAIN holds : holds'[g].status = "EXPIRED" => ~Lent(g)
    BY <2>3 DEF SlotsAreLentOnce
  <2>5. IdleCall.pc # "EXPIRE"
    BY DEF IdleCall
  <2> QED BY <1>11, <2>2, <2>3, <2>4, <2>5
<1>18. ASSUME NEW c \in Calls, NEW p \in DOMAIN registry, RefuseTransaction(c, p)
       PROVE  SlotsAreLentOnce'
  <2>1. call' = [call EXCEPT ![c] = IdleCall] /\ UNCHANGED <<now, mirror, holds, overtime, desk>>
        /\ IdleCall.pc # "EXPIRE"
    BY <1>18 DEF RefuseTransaction, IdleCall
  <2> QED BY <1>4, <1>11, <2>1
<1>19. CASE Crash
  <2>1. desk' = NobodyAtDesk /\ UNCHANGED <<now, mirror, holds, overtime>>
        /\ \A c \in Calls : call'[c].pc # "EXPIRE"
    BY <1>19 DEF Crash, IdleCall
  <2>2. PICK moved \in SUBSET Calls : moved = Calls
    OBVIOUS
  <2> QED BY <1>1, <1>3, <1>4, <2>1, <2>2, SlotsStay
<1> QED BY <1>5, <1>6, <1>7, <1>8, <1>9, <1>12, <1>13, <1>14, <1>15, <1>16, <1>17, <1>18, <1>19
        DEF SeatNext

-----------------------------------------------------------------------------
(* The seats that were checked                                             *)

\* A step that makes no reservation, begins no registration and admits nobody.
LEMMA CheckedStay ==
    ASSUME SeatTypeOK, CheckedSeatsCanSit, Grows, HoldsStay, DOMAIN holds' = DOMAIN holds,
           desk' = desk \/ desk'.stage # "PUBLISHING", UNCHANGED admitted
    PROVE  CheckedSeatsCanSit'
<1>1. ASSUME NEW h \in DOMAIN holds', holds'[h].checked
      PROVE  CanSit(holds[h].slot, holds[h].model, holds[h].role)'
  <2>1. PICK slot, model, role :
           slot = holds[h].slot /\ model = holds[h].model /\ role = holds[h].role
    OBVIOUS
  <2>2. /\ holds[h].checked
        /\ holds'[h].slot = slot /\ holds'[h].model = model /\ holds'[h].role = role
    BY <1>1, <2>1 DEF HoldsStay
  <2>3. CanSit(slot, model, role)
    BY <2>1, <2>2 DEF CheckedSeatsCanSit
  <2>4. CanSit(slot, model, role)'
    BY <2>3, CanSitGrows
  <2> QED BY <2>2, <2>4
<1>2. ASSUME desk'.stage = "PUBLISHING", desk'.checked
      PROVE  CanSit(desk.seat.owner, desk.seat.model, desk.seat.role)'
  <2>1. desk' = desk
    BY <1>2
  <2>2. PICK slot, model, role :
           slot = desk.seat.owner /\ model = desk.seat.model /\ role = desk.seat.role
    OBVIOUS
  <2>3. CanSit(slot, model, role)
    BY <1>2, <2>1, <2>2 DEF CheckedSeatsCanSit
  <2>4. CanSit(slot, model, role)'
    BY <2>3, CanSitGrows
  <2> QED BY <2>1, <2>2, <2>4
<1>3. ASSUME NEW p \in admitted'
      PROVE  CanSit(registry[p].owner, registry[p].model, registry[p].role)'
  <2>1. p \in admitted /\ p \in DOMAIN registry
    BY DEF SeatTypeOK
  <2>2. PICK slot, model, role :
           slot = registry[p].owner /\ model = registry[p].model /\ role = registry[p].role
    OBVIOUS
  <2>3. CanSit(slot, model, role)
    BY <2>1, <2>2 DEF CheckedSeatsCanSit
  <2>4. CanSit(slot, model, role)'
    BY <2>3, CanSitGrows
  <2>5. registry'[p].owner = slot /\ registry'[p].model = model /\ registry'[p].role = role
    BY <2>1, <2>2 DEF Grows
  <2> QED BY <2>4, <2>5
<1> QED BY <1>1, <1>2, <1>3 DEF CheckedSeatsCanSit

\* What the roster can seat, the chain can.
LEMMA RosterSeatCanSit ==
    ASSUME SeatTypeOK, MirrorRepeatsTheChain, NEW seat \in Rows, RosterCanSeat(ActiveRows, seat)
    PROVE  CanSit(seat.owner, seat.model, seat.role)
<1>1. PICK seats : seats = {s \in ActiveRows : s.owner # seat.owner} \cup {seat}
  OBVIOUS
<1>2. seats \in SUBSET (mirror \cup {seat}) /\ mirror \subseteq Rows /\ IsFiniteSet(mirror)
      /\ seats \in SUBSET Rows /\ {seat} \in SUBSET seats
  BY <1>1 DEF ActiveRows, SeatTypeOK
<1>3. IsFiniteSet(seats)
  <2>1. IsFiniteSet(mirror \cup {seat})
    BY <1>2, FS_AddElement
  <2> QED BY <1>2, <2>1, FS_Subset
<1>4. Search(seats, {seat})
  BY <1>1 DEF RosterCanSeat
<1>5. Capped({seat})
  BY OneSeatIsCapped
<1>6. PICK five : Jury(seats, five) /\ {seat} \subseteq five
  BY <1>2, <1>3, <1>4, <1>5, SearchFinds
<1>7. seat \in five
  BY <1>6
<1> QED BY <1>2, <1>6, <1>7, JurySits

\* The beginning of a registration.
LEMMA CheckedAtTheDoor ==
    ASSUME SeatTypeOK, MirrorRepeatsTheChain, CheckedSeatsCanSit,
           NEW kind, NEW staker \in Stakers \cup {"OPERATOR"}, NEW w \in Wishes,
           BeginRegistration(kind, staker, w[1], w[2])
    PROVE  CheckedSeatsCanSit'
<1>1. w[1] \in Models /\ w[2] \in ToSet(Roles) \cup {NoRole}
  BY NamesAssumption
<1>2. PICK seat \in Rows, checked \in BOOLEAN :
         /\ desk' = Published(kind, seat, checked)
         /\ checked => RosterCanSeat(ActiveRows, seat)
  BY <1>1, RegistrationBegins
<1>3. PICK slot, model, role : slot = seat.owner /\ model = seat.model /\ role = seat.role
  OBVIOUS
<1>4. checked => CanSit(slot, model, role)
  BY <1>2, <1>3, RosterSeatCanSit
<1>5. desk'.checked = checked /\ desk'.seat = seat
  BY <1>2 DEF Published
<1>6. UNCHANGED <<registry, holds, admitted>>
  BY DEF BeginRegistration
<1>7. Grows
  BY <1>6 DEF Grows
<1>8. checked => CanSit(slot, model, role)'
  BY <1>4, <1>7, CanSitGrows
<1>9. ASSUME NEW h \in DOMAIN holds', holds'[h].checked
      PROVE  CanSit(holds[h].slot, holds[h].model, holds[h].role)'
  <2>1. PICK s, m, r : s = holds[h].slot /\ m = holds[h].model /\ r = holds[h].role
    OBVIOUS
  <2>2. CanSit(s, m, r)
    BY <1>6, <1>9, <2>1 DEF CheckedSeatsCanSit
  <2>3. CanSit(s, m, r)'
    BY <1>7, <2>2, CanSitGrows
  <2> QED BY <1>6, <2>1, <2>3
<1>10. ASSUME NEW p \in admitted'
       PROVE  CanSit(registry[p].owner, registry[p].model, registry[p].role)'
  <2>1. PICK s, m, r : s = registry[p].owner /\ m = registry[p].model /\ r = registry[p].role
    OBVIOUS
  <2>2. CanSit(s, m, r)
    BY <1>6, <2>1 DEF CheckedSeatsCanSit
  <2>3. CanSit(s, m, r)'
    BY <1>7, <2>2, CanSitGrows
  <2> QED BY <1>6, <2>1, <2>3
<1>11. desk'.checked =>
          CanSit(desk.seat.owner, desk.seat.model, desk.seat.role)'
  <2>1. desk'.seat.owner = slot /\ desk'.seat.model = model /\ desk'.seat.role = role
    BY <1>3, <1>5
  <2> QED BY <1>5, <1>8, <2>1
<1> QED BY <1>9, <1>10, <1>11 DEF CheckedSeatsCanSit

\* The reservation is of the seat that was checked.
LEMMA CheckedAtReservation ==
    ASSUME SeatTypeOK, CheckedSeatsCanSit, SaveStakeReservation
    PROVE  CheckedSeatsCanSit'
<1>1. /\ desk.stage = "PUBLISHING" /\ desk.seat \in Rows /\ desk.seat.owner \in Slots
      /\ desk.seat.staker \in Stakers /\ desk.checked \in BOOLEAN
  BY DeskStages DEF SaveStakeReservation
<1>2. PICK hold : hold = [staker |-> desk.seat.staker, slot |-> desk.seat.owner,
                          model |-> desk.seat.model, role |-> desk.seat.role,
                          checked |-> desk.checked, status |-> "PENDING",
                          expires |-> now + HoldTime, profile |-> 0]
  OBVIOUS
<1>3. hold \in Reservations
  <2>1. now + HoldTime \in Nat
    BY SizesAssumption DEF SeatTypeOK
  <2> QED BY <1>1, <1>2, <2>1 DEF Rows, Reservations
<1>4. holds' = Append(holds, hold) /\ desk'.stage = "IDLE" /\ UNCHANGED <<registry, admitted>>
  BY <1>2 DEF SaveStakeReservation, NobodyAtDesk
<1>5. Grows
  BY <1>4 DEF Grows
<1>6. PICK n : n = Len(holds) + 1
  OBVIOUS
<1>7. /\ \A g \in DOMAIN holds : holds'[g] = holds[g]
      /\ holds'[n] = hold /\ DOMAIN holds' = DOMAIN holds \cup {n}
  BY <1>3, <1>4, <1>6, HoldAppended
<1>8. ASSUME NEW h \in DOMAIN holds', holds'[h].checked
      PROVE  CanSit(holds[h].slot, holds[h].model, holds[h].role)'
  <2>1. PICK s, m, r : s = holds'[h].slot /\ m = holds'[h].model /\ r = holds'[h].role
    OBVIOUS
  <2>2. CanSit(s, m, r)
    <3>1. CASE h = n
      <4>1. desk.checked /\ s = desk.seat.owner /\ m = desk.seat.model /\ r = desk.seat.role
        BY <1>2, <1>7, <1>8, <2>1, <3>1
      <4> QED BY <1>1, <4>1 DEF CheckedSeatsCanSit
    <3>2. CASE h # n
      <4>1. h \in DOMAIN holds /\ holds[h].checked
            /\ s = holds[h].slot /\ m = holds[h].model /\ r = holds[h].role
        BY <1>7, <1>8, <2>1, <3>2
      <4> QED BY <4>1 DEF CheckedSeatsCanSit
    <3> QED BY <3>1, <3>2
  <2>3. CanSit(s, m, r)'
    BY <1>5, <2>2, CanSitGrows
  <2> QED BY <2>1, <2>3
<1>9. ASSUME NEW p \in admitted'
      PROVE  CanSit(registry[p].owner, registry[p].model, registry[p].role)'
  <2>1. PICK s, m, r : s = registry[p].owner /\ m = registry[p].model /\ r = registry[p].role
    OBVIOUS
  <2>2. CanSit(s, m, r)
    BY <1>4, <2>1 DEF CheckedSeatsCanSit
  <2>3. CanSit(s, m, r)'
    BY <1>5, <2>2, CanSitGrows
  <2> QED BY <1>4, <2>1, <2>3
<1>10. desk'.stage # "PUBLISHING"
  BY <1>4
<1> QED BY <1>8, <1>9, <1>10 DEF CheckedSeatsCanSit

\* The seat that is admitted is the one that was reserved.
LEMMA CheckedAtConfirmedSeat ==
    ASSUME SeatTypeOK, CheckedSeatsCanSit, NEW c \in Calls, NEW p \in DOMAIN registry,
           SaveStakedSeat(c, p)
    PROVE  CheckedSeatsCanSit'
<1>1. PICK h \in DOMAIN holds : h = call[c].hold
  BY CallStages DEF SaveStakedSeat
<1>2. /\ Matches(h, p) /\ UNCHANGED <<registry, holds, desk>>
      /\ admitted' = IF holds[h].checked THEN admitted \cup {p} ELSE admitted
  BY <1>1 DEF SaveStakedSeat
<1>3. Grows /\ HoldsStay
  BY <1>2 DEF Grows, HoldsStay
<1>4. ASSUME NEW q \in admitted'
      PROVE  CanSit(registry[q].owner, registry[q].model, registry[q].role)'
  <2>1. PICK s, m, r : s = registry[q].owner /\ m = registry[q].model /\ r = registry[q].role
    OBVIOUS
  <2>2. CanSit(s, m, r)
    <3>1. CASE q \in admitted
      BY <2>1, <3>1 DEF CheckedSeatsCanSit
    <3>2. CASE q \notin admitted
      <4>1. q = p /\ holds[h].checked
        BY <1>2, <3>2
      <4>2. s = holds[h].slot /\ m = holds[h].model /\ r = holds[h].role
        BY <1>2, <2>1, <4>1 DEF Matches
      <4> QED BY <4>1, <4>2 DEF CheckedSeatsCanSit
    <3> QED BY <3>1, <3>2
  <2>3. CanSit(s, m, r)'
    BY <1>3, <2>2, CanSitGrows
  <2> QED BY <1>2, <2>1, <2>3
<1>5. ASSUME NEW g \in DOMAIN holds', holds'[g].checked
      PROVE  CanSit(holds[g].slot, holds[g].model, holds[g].role)'
  <2>1. PICK s, m, r : s = holds[g].slot /\ m = holds[g].model /\ r = holds[g].role
    OBVIOUS
  <2>2. CanSit(s, m, r)
    BY <1>2, <1>5, <2>1 DEF CheckedSeatsCanSit
  <2>3. CanSit(s, m, r)'
    BY <1>3, <2>2, CanSitGrows
  <2> QED BY <1>2, <2>1, <2>3
<1>6. ASSUME desk'.stage = "PUBLISHING", desk'.checked
      PROVE  CanSit(desk.seat.owner, desk.seat.model, desk.seat.role)'
  <2>1. PICK s, m, r : s = desk.seat.owner /\ m = desk.seat.model /\ r = desk.seat.role
    OBVIOUS
  <2>2. CanSit(s, m, r)
    BY <1>2, <1>6, <2>1 DEF CheckedSeatsCanSit
  <2>3. CanSit(s, m, r)'
    BY <1>3, <2>2, CanSitGrows
  <2> QED BY <1>2, <2>1, <2>3
<1> QED BY <1>4, <1>5, <1>6 DEF CheckedSeatsCanSit

\* Every step keeps the checked seats among those that can sit.
LEMMA CheckedStep ==
    ASSUME SeatTypeOK, MirrorRepeatsTheChain, CheckedSeatsCanSit, SeatNext
    PROVE  CheckedSeatsCanSit'
<1>1. Grows /\ HoldsStay
  BY SeatTypesStep
<1>2. CASE \E s \in Stakers, w \in Wishes : PrepareStake(s, w[1], w[2])
  BY <1>2, CheckedAtTheDoor DEF PrepareStake
<1>3. CASE \E w \in Wishes : RegisterZkBackedAgent(w[1], w[2])
  BY <1>3, CheckedAtTheDoor DEF RegisterZkBackedAgent
<1>4. CASE SaveStakeReservation
  BY <1>4, CheckedAtReservation
<1>5. CASE \E c \in Calls, p \in DOMAIN registry : SaveStakedSeat(c, p)
  BY <1>5, CheckedAtConfirmedSeat
<1>6. CASE AbandonRegistration \/ RegisterOnChain \/ SaveFreeSeat \/ Crash
  <2>1. desk'.stage # "PUBLISHING"
    <3>1. CASE AbandonRegistration \/ SaveFreeSeat \/ Crash
      BY <3>1 DEF AbandonRegistration, SaveFreeSeat, Crash, NobodyAtDesk
    <3>2. CASE RegisterOnChain
      <4>1. desk \in [stage : {"PUBLISHING"}, kind : {"STAKE", "FREE"}, seat : Rows,
                      profile : {0}, checked : BOOLEAN]
        BY <3>2, DeskStages DEF RegisterOnChain
      <4>2. desk' = [desk EXCEPT !.stage = "REGISTERED", !.profile = Len(registry) + 1]
        BY <3>2 DEF RegisterOnChain
      <4> QED BY <4>1, <4>2
    <3> QED BY <1>6, <3>1, <3>2
  <2>2. DOMAIN holds' = DOMAIN holds /\ UNCHANGED admitted
    BY <1>6 DEF AbandonRegistration, RegisterOnChain, SaveFreeSeat, Crash
  <2> QED BY <1>1, <2>1, <2>2, CheckedStay
<1>7. CASE \/ \E h \in DOMAIN holds : PostStake(h)
           \/ \E p \in DOMAIN registry : StakerLeaves(p)
           \/ ClockTicks \/ ReadRegistry \/ DeactivateOutsideRegistry
  <2>1. UNCHANGED <<holds, desk, admitted>>
    BY <1>7 DEF PostStake, StakerLeaves, ClockTicks, ReadRegistry, DeactivateOutsideRegistry
  <2> QED BY <1>1, <2>1, CheckedStay
<1>8. CASE \/ \E c \in Calls, h \in DOMAIN holds : StartConfirmation(c, h)
           \/ \E c \in Calls, p \in DOMAIN registry : RefuseTransaction(c, p)
  <2>1. UNCHANGED <<holds, desk, admitted>>
    BY <1>8 DEF StartConfirmation, RefuseTransaction
  <2> QED BY <1>1, <2>1, CheckedStay
<1>9. CASE \E c \in Calls : ExpireHold(c) \/ CloseHold(c)
  <2>1. DOMAIN holds' = DOMAIN holds /\ UNCHANGED <<desk, admitted>>
    BY <1>9 DEF ExpireHold, CloseHold
  <2> QED BY <1>1, <2>1, CheckedStay
<1> QED BY <1>2, <1>3, <1>4, <1>5, <1>6, <1>7, <1>8, <1>9 DEF SeatNext

-----------------------------------------------------------------------------
(* The theorems about the seats                                            *)

\* The invariant holds at the start.
LEMMA SeatInvInit == SeatInit => SeatInv
<1> SUFFICES ASSUME SeatInit PROVE SeatInv
  OBVIOUS
<1>1. SeatTypeOK /\ MirrorRepeatsTheChain /\ WorkAgrees /\ SlotsAreLentOnce
  BY SeatTypesInit, MirrorInit, SlotsInit
<1>2. CheckedSeatsCanSit
  <2>1. DOMAIN holds = {} /\ admitted = {} /\ desk.stage # "PUBLISHING"
    BY DEF SeatInit, NobodyAtDesk
  <2> QED BY <2>1 DEF CheckedSeatsCanSit
<1> QED BY <1>1, <1>2 DEF SeatInv

\* A step that changes nothing keeps the invariant.
LEMMA SeatInvStutters ==
    ASSUME SeatInv, UNCHANGED seatVars
    PROVE  SeatInv'
<1>1. SeatTypeOK' /\ Grows /\ HoldsStay
  BY SeatTypesStep DEF SeatInv
<1>2. UNCHANGED <<now, registry, mirror, holds, desk, call, admitted, overtime>>
  BY DEF seatVars
<1>3. PICK moved \in SUBSET Calls : moved = {}
  OBVIOUS
<1>4. /\ \A c \in Calls \ moved : call'[c] = call[c]
      /\ \A c \in moved : call'[c].pc # "RECORDED" /\ call'[c].pc # "EXPIRE"
  BY <1>2, <1>3
<1>5. NoneConfirmed /\ NoNewPunctual
  BY <1>2 DEF NoneConfirmed, NoNewPunctual, Punctual
<1>6. MirrorRepeatsTheChain' /\ WorkAgrees'
  BY <1>1, <1>2, <1>4, <1>5, QuietStep DEF SeatInv
<1>7. \A h \in DOMAIN holds : holds'[h].status = "EXPIRED" => ~Lent(h)
  BY <1>2 DEF SeatInv, SlotsAreLentOnce
<1>8. SlotsAreLentOnce'
  BY <1>1, <1>2, <1>4, <1>5, <1>7, SlotsStay DEF SeatInv
<1>9. CheckedSeatsCanSit'
  BY <1>1, <1>2, CheckedStay DEF SeatInv
<1> QED BY <1>1, <1>6, <1>8, <1>9 DEF SeatInv

\* Every step keeps the invariant.
LEMMA SeatInvStep == SeatInv /\ [SeatNext]_seatVars => SeatInv'
<1> SUFFICES ASSUME SeatInv, [SeatNext]_seatVars PROVE SeatInv'
  OBVIOUS
<1>1. CASE SeatNext
  <2>1. SeatTypeOK'
    BY <1>1, SeatTypesStep DEF SeatInv
  <2> QED BY <1>1, <2>1, MirrorStep, SlotsStep, CheckedStep DEF SeatInv
<1>2. CASE UNCHANGED seatVars
  BY <1>2, SeatInvStutters
<1> QED BY <1>1, <1>2

\* The slots are shared only as the property allows.
LEMMA LentOnceIsEnough ==
    ASSUME SeatTypeOK, SlotsAreLentOnce
    PROVE  SlotsAreSharedOnlyByStragglers
<1>1. \A h \in DOMAIN holds : Live(h) => Lent(h)
  BY DEF Live, Lent
<1>2. {r \in mirror : r.profile \notin overtime} = Punctual
  BY DEF Punctual
<1>3. /\ \A r, s \in Punctual :
            r.owner = s.owner => r.profile = s.profile \/ (r.staker = s.staker /\ r.staker \in Stakers)
      /\ \A h \in DOMAIN holds : Live(h) =>
            /\ \A r \in Punctual : r.owner = holds[h].slot => r.staker = holds[h].staker
            /\ \A g \in DOMAIN holds : Live(g) /\ holds[g].slot = holds[h].slot => g = h
  BY <1>1 DEF SlotsAreLentOnce
<1> QED BY <1>2, <1>3 DEF SlotsAreSharedOnlyByStragglers

\* Who was checked can be drawn, whether or not somebody has left.
LEMMA CheckedIsEnough ==
    ASSUME SeatTypeOK, CheckedSeatsCanSit
    PROVE  AdmittedSeatCanBeDrawn
<1>1. \A p \in admitted : p \in DOMAIN registry
  BY DEF SeatTypeOK
<1> QED BY <1>1, SitsInPanel DEF CheckedSeatsCanSit, AdmittedSeatCanBeDrawn

\* The invariant holds of every behaviour of the seats.
LEMMA SeatInvHolds == SeatSpec => []SeatInv
BY SeatInvInit, SeatInvStep, PTL DEF SeatSpec

\* Registrations, reservations and confirmations under way keep their types: a registration
\* at the desk is of one of the engine's slots, a confirmation of one of its reservations.
THEOREM SeatTypes == SeatSpec => []SeatTypeOK
<1>1. SeatInv => SeatTypeOK
  BY DEF SeatInv
<1> QED BY <1>1, SeatInvHolds, PTL

\* Whatever digests the wallets confirm with, concurrently and across deaths of the web
\* process, every row of the mirror copies its record on chain, and every confirmed
\* reservation has a recorded seat of its own staker and slot.
THEOREM MirrorIsTrue == SeatSpec => []MirrorRepeatsTheChain
<1>1. SeatInv => MirrorRepeatsTheChain
  BY DEF SeatInv
<1> QED BY <1>1, SeatInvHolds, PTL

\* No two stakers' recorded seats sign with one key, and no slot is lent twice, but for the
\* seats whose confirmation outlived the reservation.
THEOREM SlotsAreShared == SeatSpec => []SlotsAreSharedOnlyByStragglers
<1>1. SeatInv => SlotsAreSharedOnlyByStragglers
  BY LentOnceIsEnough DEF SeatInv
<1> QED BY <1>1, SeatInvHolds, PTL

\* A stake admitted against a roster that could draw buys a seat on some panel of the
\* chain's draw.
THEOREM AdmittedSeatsSit == SeatSpec => []AdmittedSeatCanBeDrawn
<1>1. SeatInv => AdmittedSeatCanBeDrawn
  BY CheckedIsEnough DEF SeatInv
<1> QED BY <1>1, SeatInvHolds, PTL
=============================================================================
