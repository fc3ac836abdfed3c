----------------------------- MODULE EngineProofs -----------------------------
(***************************************************************************)
(* Proofs about ClaimEngine, for every number of seats, every threshold    *)
(* and set of outcomes, and every number of crashes, lost replies and      *)
(* strangers' cranks: no row is ahead of the chain, what the rows show of  *)
(* the round is a sealed ballot, and an attempt is decided once and never  *)
(* certified after it was voided, unless the void is that of a seat that   *)
(* failed after its approval was recorded.                                 *)
(*                                                                         *)
(* The invariant says what each worker may rely on between two steps of    *)
(* its tick: what it read before, and what the other workers can have done *)
(* to it since.                                                            *)
(***************************************************************************)
EXTENDS ClaimEngine, TLAPS, FiniteSetTheorems

-----------------------------------------------------------------------------
(* The inductive invariant                                                 *)

resolver == worker["resolver"]
juror == worker["juror"]

\* The ticks of the resolver from the opening of the reveal phase on.
SettlingSteps == {"saveReveal", "reveal", "saveRevealed", "saveRevealedTally", "saveSplit",
                  "saveDiscussion", "saveCertificate", "saveVerdict", "settleAttempt", "closeTally"}
Settling == resolver.pc \in SettlingSteps

Sealed(k) == chainSeat[k].status \in {"COMMITTED", "REVEALED"}
Stored(k) == packageRow[k].status # "NONE"
AllStored == \A k \in Seats : Stored(k)

\* The committee is seated by the transaction that opens the round, and only by it.
SeatsAreDealt ==
    \A k \in Seats :
        /\ chainSeat[k].status = "NONE" <=> chain.state = "BEFORE"
        /\ chainSeat[k].status = "NONE" => ~chainSeat[k].bound
        /\ round = 2 => chainSeat[k].status # "OFFERED"

\* A seat is run once: it has no run row before its model answers, and its approval is
\* recorded after the row.
RunsAreSingle ==
    \A k \in Seats :
        /\ At("juror", "run") /\ k \in juror.todo =>
               runRow[k] = "NONE" /\ seatRun[k] = NotRunning
        /\ seatRun[k] # NotRunning => At("juror", "run")
        /\ seatRun[k].at = "approved" => runRow[k] = "NONE" /\ seatRun[k].draft \in Outcomes
        /\ seatRun[k].at = "saveApproval" => runRow[k] # "NONE" /\ ~approvalRow[k]
        /\ approvalRow[k] => runRow[k] # "NONE"

\* A vote is approved before it is on chain, on chain before it is stored, and stored before
\* it is revealed on chain.
VotesAreInOrder ==
    \A k \in Seats :
        /\ Sealed(k) => chainSeat[k].ballot \in Outcomes /\ approvalRow[k]
        /\ Stored(k) => Sealed(k) /\ packageRow[k].vote = chainSeat[k].ballot
        /\ ~Stored(k) => packageRow[k].vote = NoOutcome
        /\ packageRow[k].status = "REVEALED" => chainSeat[k].status = "REVEALED"
        /\ chainSeat[k].status = "REVEALED" => Stored(k)
        /\ k \in db.revealed => packageRow[k].status = "REVEALED"

\* What a votesCommit pass holds in memory is still so on chain and in the rows: its copies
\* of the runs may be stale, its votes are not.
PassIsCurrent ==
    /\ committer.pc = "saveLock" => chain.locked /\ chain.state # "BEFORE"
    /\ committer.pc = "next" => committer.todo # {}
    /\ committer.pc \in {"next", "savePackage"} =>
           \A k \in committer.todo : committer.copies[k] \in Outcomes /\ ~Stored(k)
    /\ committer.pc = "savePackage" =>
           /\ committer.seat \in Seats \ committer.todo
           /\ Sealed(committer.seat) /\ ~Stored(committer.seat)
           /\ chainSeat[committer.seat].ballot = committer.copies[committer.seat]

\* So is what the reveals hold.
RevealSaves == {"saveRevealed", "saveRevealedTally"}
RevealsAreCurrent ==
    /\ resolver.pc \in {"reveal"} \cup RevealSaves =>
           /\ \A k \in resolver.todo : packageRow[k].status = "COMMITTED"
           /\ \A k \in resolver.landed : chainSeat[k].status = "REVEALED" /\ k \notin db.revealed
    /\ resolver.pc \in RevealSaves => resolver.todo = {} /\ resolver.landed # {}
    /\ resolver.pc = "saveRevealedTally" => packageRow[NextRevealed].status = "REVEALED"

\* A save that is still owed is owed for a transaction that is on chain.
SavesAreOwed ==
    /\ resolver.pc \in {"saveCommittee", "saveTally", "saveSeats"} => chain.state # "BEFORE"
    /\ resolver.pc \in {"saveCommittee", "saveTally"} => db.tally = "none"
    /\ worker["evidencer"].pc = "saveManifest" => chain.frozen
    /\ resolver.pc \in {"saveSplit", "saveDiscussion"} =>
           chain.state = "DISCUSSION" /\ db.certificate = "none"
    /\ resolver.pc = "saveSplit" => DbOutcome = NoOutcome
    /\ resolver.pc = "saveCertificate" =>
           chain.verdict = DbOutcome /\ db.certificate = "none"
    /\ resolver.pc \in {"saveVerdict", "settleAttempt", "closeTally"} => db.certificate # "none"

\* Nothing is revealed, closed or certified before every vote of the round is stored, and
\* a round is closed or certified with every reveal recorded.
RoundIsSealed ==
    /\ Settling \/ db.state \in {"REVEAL", "DISCUSSION", "FINAL"} \/ db.revealed # {} =>
           AllStored /\ Rank(chain.state) >= 2 /\ db.state # "BEFORE"
    /\ resolver.pc \in {"saveSplit", "saveCertificate"} \/ db.tally = "closed"
           \/ db.certificate # "none" => db.revealed = Seats /\ db.tally # "none"
    /\ resolver.pc = "saveCertificate" \/ db.certificate # "none" => chain.state = "FINAL"
    /\ db.tally = "closed" => db.certificate # "none" \/ chain.state = "DISCUSSION"

\* No attempt is voided while its round is being settled, nor settled after it was voided,
\* but for the one void that VoidedAfterApproval names.
AttemptIsOneThing ==
    /\ db.attempt = "VOIDED" /\ ~VoidedAfterApproval => ~Settling /\ db.certificate = "none"
    /\ db.attempt = "SETTLED" => db.certificate # "none"
    /\ resolver.pc = "void" => db.certificate = "none"

EngineInv ==
    /\ TypeOK /\ PhaseTrails /\ \A k \in Seats : SeatTrails(k)
    /\ SeatsAreDealt /\ RunsAreSingle /\ VotesAreInOrder
    /\ PassIsCurrent /\ RevealsAreCurrent
    /\ SavesAreOwed /\ RoundIsSealed /\ AttemptIsOneThing

-----------------------------------------------------------------------------
(* Types                                                                   *)

\* A nonempty set of seats has a lowest one: of the initial segments that its seats bound,
\* one is minimal.
LEMMA LowestIsMember ==
    ASSUME NEW S \in SUBSET Seats, S # {}
    PROVE  Lowest(S) \in S
<1> DEFINE Segments == {1 .. k : k \in S}
<1>1. \A k \in S : k \in Nat /\ k \in 1 .. k
  BY SeatsAssumption DEF Seats
<1>2. Segments \subseteq FiniteSubsetsOf(Nat)
  <2> SUFFICES ASSUME NEW k \in S PROVE 1 .. k \in FiniteSubsetsOf(Nat)
    OBVIOUS
  <2>1. k \in Int /\ 1 .. k \subseteq Nat
    BY <1>1
  <2>2. IsFiniteSet(1 .. k)
    BY <2>1, FS_Interval
  <2> QED BY <2>1, <2>2 DEF FiniteSubsetsOf
<1>3. PICK x \in Segments : \A y \in Segments : ~(<<y, x>> \in StrictSubsetOrdering(Nat))
  <2>1. Segments # {}
    OBVIOUS
  <2> HIDE DEF Segments
  <2> QED BY <1>2, <2>1, FS_StrictSubsetOrderingWellFounded, WFMin
<1>4. PICK m \in S : x = 1 .. m
  OBVIOUS
<1>5. ASSUME NEW j \in S PROVE m <= j
  <2>1. SUFFICES ASSUME j < m PROVE FALSE
    BY <1>1
  <2>2. 1 .. j \subseteq 1 .. m /\ 1 .. j # 1 .. m /\ 1 .. j \subseteq Nat /\ 1 .. m \subseteq Nat
    BY <1>1, <2>1
  <2>3. <<1 .. j, 1 .. m>> \in StrictSubsetOrdering(Nat)
    BY <2>2 DEF StrictSubsetOrdering
  <2> QED BY <1>3, <1>4, <2>3
<1> QED BY <1>5 DEF Lowest

\* Both counts give an outcome, or none.
LEMMA OutcomeIsVerdict == ChainOutcome \in Verdicts /\ DbOutcome \in Verdicts
BY DEF ChainOutcome, DbOutcome, Verdicts

\* A tick of a worker ends,
LEMMA TickIdle ==
    ASSUME NEW W \in [Workers -> Ticks], NEW w \in Workers
    PROVE  [W EXCEPT ![w] = Idle] \in [Workers -> Ticks]
BY DEF Idle, Ticks, TickSteps

\* goes on with what it holds,
LEMMA TickGoes ==
    ASSUME NEW W \in [Workers -> Ticks], NEW w \in Workers, NEW pc \in TickSteps
    PROVE  [W EXCEPT ![w].pc = pc] \in [Workers -> Ticks]
<1>1. [W[w] EXCEPT !.pc = pc] \in Ticks
  BY DEF Ticks
<1> QED BY <1>1

\* starts on a set of seats with nothing else in hand,
LEMMA TickTakes ==
    ASSUME NEW W \in [Workers -> Ticks], NEW w \in Workers, NEW pc \in TickSteps,
           NEW S \in SUBSET Seats
    PROVE  [W EXCEPT ![w] = [Idle EXCEPT !.pc = pc, !.todo = S]] \in [Workers -> Ticks]
<1>1. [Idle EXCEPT !.pc = pc, !.todo = S] \in Ticks
  BY DEF Idle, Ticks, TickSteps
<1> QED BY <1>1

\* turns to a set of seats with what it holds,
LEMMA TickTurnsTo ==
    ASSUME NEW W \in [Workers -> Ticks], NEW w \in Workers, NEW pc \in TickSteps,
           NEW S \in SUBSET Seats
    PROVE  [W EXCEPT ![w].pc = pc, ![w].todo = S] \in [Workers -> Ticks]
<1>1. [W[w] EXCEPT !.pc = pc, !.todo = S] \in Ticks
  BY DEF Ticks
<1>2. [W EXCEPT ![w].pc = pc, ![w].todo = S]
      = [W EXCEPT ![w] = [W[w] EXCEPT !.pc = pc, !.todo = S]]
  OBVIOUS
<1> QED BY <1>1, <1>2

\* drops a seat from its list,
LEMMA TickDrops ==
    ASSUME NEW W \in [Workers -> Ticks], NEW w \in Workers, NEW k
    PROVE  [W EXCEPT ![w].todo = W[w].todo \ {k}] \in [Workers -> Ticks]
<1>1. [W[w] EXCEPT !.todo = W[w].todo \ {k}] \in Ticks
  BY DEF Ticks
<1> QED BY <1>1

\* is through with a seat of its list, and perhaps with the list,
LEMMA TickHandles ==
    ASSUME worker \in [Workers -> Ticks], NEW w \in Workers, NEW k, Handled(w, k)
    PROVE  worker' \in [Workers -> Ticks]
<1>1. CASE Rest(w)
  BY <1>1, TickIdle DEF Rest
<1>2. CASE worker' = [worker EXCEPT ![w].todo = @ \ {k}]
  BY <1>2, TickDrops
<1> QED BY <1>1, <1>2 DEF Handled

\* counts a reveal of its list as landed,
LEMMA TickLands ==
    ASSUME NEW W \in [Workers -> Ticks], NEW w \in Workers, NEW k \in Seats
    PROVE  [W EXCEPT ![w].todo = W[w].todo \ {k}, ![w].landed = W[w].landed \cup {k}]
               \in [Workers -> Ticks]
<1>1. [W[w] EXCEPT !.todo = W[w].todo \ {k}, !.landed = W[w].landed \cup {k}] \in Ticks
  BY DEF Ticks
<1>2. [W EXCEPT ![w].todo = W[w].todo \ {k}, ![w].landed = W[w].landed \cup {k}]
      = [W EXCEPT ![w] = [W[w] EXCEPT !.todo = W[w].todo \ {k}, !.landed = W[w].landed \cup {k}]]
  OBVIOUS
<1> QED BY <1>1, <1>2

\* has saved a reveal that landed,
LEMMA TickSaves ==
    ASSUME NEW W \in [Workers -> Ticks], NEW w \in Workers, NEW k, NEW pc \in TickSteps
    PROVE  [W EXCEPT ![w].pc = pc, ![w].landed = W[w].landed \ {k}] \in [Workers -> Ticks]
<1>1. [W[w] EXCEPT !.pc = pc, !.landed = W[w].landed \ {k}] \in Ticks
  BY DEF Ticks
<1>2. [W EXCEPT ![w].pc = pc, ![w].landed = W[w].landed \ {k}]
      = [W EXCEPT ![w] = [W[w] EXCEPT !.pc = pc, !.landed = W[w].landed \ {k}]]
  OBVIOUS
<1> QED BY <1>1, <1>2

\* or never hears of it.
LEMMA TickLoses ==
    ASSUME NEW W \in [Workers -> Ticks], NEW w \in Workers, NEW k
    PROVE  [W EXCEPT ![w].landed = W[w].landed \ {k}] \in [Workers -> Ticks]
<1>1. [W[w] EXCEPT !.landed = W[w].landed \ {k}] \in Ticks
  BY DEF Ticks
<1> QED BY <1>1

\* A seat on chain is dealt,
LEMMA SeatIsDealt ==
    ASSUME NEW s \in SeatStatuses
    PROVE  Seated(s) \in [Seats -> SeatObjects]
BY DEF Seated, NoChainSeat, SeatObjects, SeatStatuses

\* moves on,
LEMMA SeatMoves ==
    ASSUME NEW C \in [Seats -> SeatObjects], NEW k \in Seats, NEW s \in SeatStatuses
    PROVE  [C EXCEPT ![k].status = s] \in [Seats -> SeatObjects]
<1>1. [C[k] EXCEPT !.status = s] \in SeatObjects
  BY DEF SeatObjects
<1> QED BY <1>1

\* is bound to the evidence,
LEMMA SeatIsBound ==
    ASSUME NEW C \in [Seats -> SeatObjects], NEW k \in Seats
    PROVE  [C EXCEPT ![k].bound = TRUE] \in [Seats -> SeatObjects]
<1>1. [C[k] EXCEPT !.bound = TRUE] \in SeatObjects
  BY DEF SeatObjects
<1> QED BY <1>1

\* has its run approved,
LEMMA SeatIsApproved ==
    ASSUME NEW C \in [Seats -> SeatObjects], NEW k \in Seats
    PROVE  [C EXCEPT ![k].approved = TRUE] \in [Seats -> SeatObjects]
<1>1. [C[k] EXCEPT !.approved = TRUE] \in SeatObjects
  BY DEF SeatObjects
<1> QED BY <1>1

\* and commits its vote.
LEMMA SeatCommits ==
    ASSUME NEW C \in [Seats -> SeatObjects], NEW k \in Seats, NEW o \in Outcomes
    PROVE  [C EXCEPT ![k].status = "COMMITTED", ![k].approved = FALSE, ![k].ballot = o]
               \in [Seats -> SeatObjects]
<1>1. [C[k] EXCEPT !.status = "COMMITTED", !.approved = FALSE, !.ballot = o] \in SeatObjects
  BY DEF SeatObjects, SeatStatuses
<1>2. [C EXCEPT ![k].status = "COMMITTED", ![k].approved = FALSE, ![k].ballot = o]
      = [C EXCEPT ![k] = [C[k] EXCEPT !.status = "COMMITTED", !.approved = FALSE, !.ballot = o]]
  OBVIOUS
<1> QED BY <1>1, <1>2

\* Its row is bound with it.
LEMMA SeatRowIsBound ==
    ASSUME NEW R \in [Seats -> SeatRows], NEW k \in Seats
    PROVE  [R EXCEPT ![k].bound = TRUE] \in [Seats -> SeatRows]
<1>1. [R[k] EXCEPT !.bound = TRUE] \in SeatRows
  BY DEF SeatRows
<1> QED BY <1>1

\* A row is accepted with the bind its writer had read.
LEMMA SeatRowIsAccepted ==
    ASSUME NEW R \in [Seats -> SeatRows], NEW k \in Seats, NEW b \in BOOLEAN
    PROVE  [R EXCEPT ![k] = [status |-> "ACCEPTED", bound |-> b]] \in [Seats -> SeatRows]
BY DEF SeatRows

\* A package is stored with the vote of the pass,
LEMMA PackageIsStored ==
    ASSUME NEW P \in [Seats -> Packages], NEW k \in Seats, NEW o \in Outcomes \cup {NoOutcome}
    PROVE  [P EXCEPT ![k] = [status |-> "COMMITTED", vote |-> o]] \in [Seats -> Packages]
BY DEF Packages

\* and is revealed with the vote it has.
LEMMA PackageIsRevealed ==
    ASSUME NEW P \in [Seats -> Packages], NEW k \in Seats
    PROVE  [P EXCEPT ![k].status = "REVEALED"] \in [Seats -> Packages]
<1>1. [P[k] EXCEPT !.status = "REVEALED"] \in Packages
  BY DEF Packages
<1> QED BY <1>1

\* A pass ends,
LEMMA PassEnds == NoPass \in Passes
BY SeatsAssumption DEF NoPass, NoCopies, Passes, PassSteps

\* goes on with the copies it holds,
LEMMA PassGoes ==
    ASSUME committer \in Passes, NEW pc \in PassSteps, NEW todo \in SUBSET Seats,
           NEW seat \in 0 .. SeatCount, Pass(pc, todo, seat)
    PROVE  committer' \in Passes
BY DEF Pass, Passes

\* to the seats that are left, or ends with the last,
LEMMA PassGoesOn ==
    ASSUME committer \in Passes, NEW todo \in SUBSET Seats, PassOn(todo)
    PROVE  committer' \in Passes
<1>1. CASE committer' = NoPass
  BY <1>1, PassEnds
<1>2. CASE Pass("next", todo, 0)
  BY <1>2, PassGoes, SeatsAssumption DEF PassSteps
<1> QED BY <1>1, <1>2 DEF PassOn

\* leaves the save of a package,
LEMMA PassLeavesSave ==
    ASSUME committer \in Passes, SaveVotePackage
    PROVE  committer' # committer
<1>1. committer.pc = "savePackage" /\ PassOn(committer.todo)
  BY DEF SaveVotePackage
<1>2. CASE committer' = NoPass
  BY <1>1, <1>2 DEF NoPass
<1>3. CASE Pass("next", committer.todo, 0)
  <2>1. committer'.pc = "next"
    BY <1>3 DEF Pass, Passes
  <2> QED BY <1>1, <2>1
<1> QED BY <1>1, <1>2, <1>3 DEF PassOn

\* and turns to a seat of its list.
LEMMA NextRunIsListed ==
    ASSUME TypeOK, PassIsCurrent, committer.pc = "next"
    PROVE  /\ NextRun \in committer.todo /\ NextRun \in Seats /\ NextRun \in 0 .. SeatCount
           /\ committer.copies[NextRun] \in Outcomes /\ ~Stored(NextRun)
<1>1. committer.todo \in SUBSET Seats /\ committer.todo # {}
  BY DEF TypeOK, Passes, PassIsCurrent
<1>2. NextRun \in committer.todo
  BY <1>1, LowestIsMember DEF NextRun
<1> QED BY <1>1, <1>2, SeatsAssumption DEF PassIsCurrent, Seats

\* A reveal that is being saved is one that landed: its vote is stored and on chain.
LEMMA NextRevealedLanded ==
    ASSUME TypeOK, VotesAreInOrder, RevealsAreCurrent, resolver.landed # {},
           resolver.pc \in {"reveal"} \cup RevealSaves
    PROVE  /\ NextRevealed \in resolver.landed /\ NextRevealed \in Seats
           /\ chainSeat[NextRevealed].status = "REVEALED" /\ NextRevealed \notin db.revealed
           /\ Stored(NextRevealed) /\ packageRow[NextRevealed].vote \in Outcomes
<1>1. resolver.landed \in SUBSET Seats
  BY DEF TypeOK, Ticks, Workers, resolver
<1>2. NextRevealed \in resolver.landed
  BY <1>1, LowestIsMember DEF NextRevealed, resolver
<1>3. NextRevealed \in Seats /\ chainSeat[NextRevealed].status = "REVEALED"
      /\ NextRevealed \notin db.revealed
  BY <1>1, <1>2 DEF RevealsAreCurrent
<1> QED BY <1>2, <1>3 DEF VotesAreInOrder, Sealed

\* Every step keeps every type.
LEMMA StepKeepsTypes ==
    ASSUME TypeOK, RunsAreSingle, VotesAreInOrder, PassIsCurrent, RevealsAreCurrent, [Next]_vars
    PROVE  TypeOK'
<1>0. TypeOK /\ RunsAreSingle /\ VotesAreInOrder /\ PassIsCurrent /\ RevealsAreCurrent
  OBVIOUS
<1>w. worker \in [Workers -> Ticks] /\ "resolver" \in Workers /\ "juror" \in Workers
      /\ {"saveSeats", "saveSplit", "saveCertificate", "void", "lastPass"} \subseteq TickSteps
  BY DEF TypeOK, Workers, TickSteps
<1>s. chainSeat \in [Seats -> SeatObjects] /\ seatRow \in [Seats -> SeatRows]
      /\ "ACCEPTED" \in SeatStatuses /\ "REVEALED" \in SeatStatuses
      /\ \A k \in Seats : seatRow[k].bound \in BOOLEAN
  BY DEF TypeOK, SeatStatuses, SeatRows
<1> USE DEF chainVars, rowVars, jurorVars
<1>1. ASSUME SelectCommittee PROVE TypeOK'
  BY <1>0, <1>1, TickGoes, SeatIsDealt DEF SelectCommittee, TypeOK, TickSteps, Workers, Goto,
       SeatStatuses, ClaimObjects, ClaimStates, EnterState
<1>2. ASSUME OpenSecondRound PROVE TypeOK'
  BY <1>0, <1>2, TickGoes, SeatIsDealt DEF OpenSecondRound, TypeOK, TickSteps, Workers, Goto,
       SeatStatuses, ClaimObjects, ClaimStates, EnterState
<1>3. ASSUME SaveCommittee PROVE TypeOK'
  BY <1>0, <1>3, TickGoes DEF SaveCommittee, TypeOK, TickSteps, Workers, Goto, ClaimRows,
       ClaimStates
<1>4. ASSUME SaveRoundTally PROVE TypeOK'
  <2>1. worker' = [worker EXCEPT !["resolver"].pc = "saveSeats", !["resolver"].todo = Seats]
    BY <1>4 DEF SaveRoundTally
  <2>2. worker' \in [Workers -> Ticks]
    BY <1>w, <2>1, TickTurnsTo
  <2>3. db' \in ClaimRows
    BY <1>0, <1>4 DEF SaveRoundTally, TypeOK, ClaimRows, ClaimStates
  <2> QED BY <1>0, <1>4, <2>1, <2>2, <2>3 DEF SaveRoundTally, TypeOK
<1>5. ASSUME ResumeSelection PROVE TypeOK'
  <2>1. worker' = [worker EXCEPT !["resolver"].pc = "saveSeats",
                                   !["resolver"].todo = MissingSeatRows]
    BY <1>5 DEF ResumeSelection
  <2>2. MissingSeatRows \in SUBSET Seats
    BY DEF MissingSeatRows
  <2>3. worker' \in [Workers -> Ticks]
    BY <1>w, <2>1, <2>2, TickTurnsTo
  <2> QED BY <1>0, <1>5, <2>1, <2>2, <2>3 DEF ResumeSelection, TypeOK
<1>6. ASSUME SaveNextSeat PROVE TypeOK'
  BY <1>0, <1>6, TickDrops, LowestIsMember DEF SaveNextSeat, TypeOK, TickSteps, Workers,
       SeatRows
<1>7. ASSUME RecordCommitPhase PROVE TypeOK'
  <2>1. worker' \in [Workers -> Ticks]
    BY <1>0, <1>7, TickIdle, TickTakes DEF RecordCommitPhase, TypeOK, TickSteps, Workers
  <2>2. db' \in ClaimRows
    BY <1>0, <1>7 DEF RecordCommitPhase, TypeOK, ClaimRows, ClaimStates
  <2> QED BY <1>0, <1>7, <2>1, <2>2 DEF RecordCommitPhase, TypeOK
<1>8. ASSUME NEW k \in Seats, AcceptOfferedSeat(k) PROVE TypeOK'
  <2>1. worker' \in [Workers -> Ticks]
    BY <1>0, <1>8, TickHandles DEF AcceptOfferedSeat, TypeOK, Workers
  <2>2. chainSeat' = chainSeat \/ chainSeat' = [chainSeat EXCEPT ![k].status = "ACCEPTED"]
    BY <1>8 DEF AcceptOfferedSeat
  <2>3. chainSeat' \in [Seats -> SeatObjects]
    BY <1>s, <2>2, SeatMoves
  <2>4. \/ seatRow' = seatRow
         \/ \E bound \in {seatRow[k].bound, FALSE} :
               seatRow' = [seatRow EXCEPT ![k] = [status |-> "ACCEPTED", bound |-> bound]]
    BY <1>8 DEF AcceptOfferedSeat
  <2>5. seatRow' \in [Seats -> SeatRows]
    <3>1. CASE seatRow' = seatRow
      BY <1>s, <3>1
    <3>2. ASSUME NEW b \in {seatRow[k].bound, FALSE},
                 seatRow' = [seatRow EXCEPT ![k] = [status |-> "ACCEPTED", bound |-> b]]
          PROVE  seatRow' \in [Seats -> SeatRows]
      <4>1. b \in BOOLEAN
        BY <1>s
      <4> QED BY <1>s, <3>2, <4>1, SeatRowIsAccepted
    <3> QED BY <2>4, <3>1, <3>2
  <2> QED BY <1>0, <1>8, <2>1, <2>2, <2>3, <2>4, <2>5 DEF AcceptOfferedSeat, TypeOK
<1>9. ASSUME NEW k \in Seats, RevealVote(k) PROVE TypeOK'
  <2>1. \/ chainSeat' = chainSeat
         \/ chainSeat' = [chainSeat EXCEPT ![k].status = "REVEALED"]
    BY <1>9 DEF RevealVote
  <2>2. chainSeat' \in [Seats -> SeatObjects]
    BY <1>s, <2>1, SeatMoves
  <2>3. \/ worker' = [worker EXCEPT !["resolver"].todo = @ \ {k}]
         \/ worker' = [worker EXCEPT !["resolver"].todo = @ \ {k},
                                      !["resolver"].landed = @ \cup {k}]
    BY <1>9 DEF RevealVote
  <2>4. worker' \in [Workers -> Ticks]
    <3>1. CASE worker' = [worker EXCEPT !["resolver"].todo = @ \ {k}]
      BY <1>w, <3>1, TickDrops
    <3>2. CASE worker' = [worker EXCEPT !["resolver"].todo = @ \ {k},
                                       !["resolver"].landed = @ \cup {k}]
      BY <1>w, <3>2, TickLands
    <3> QED BY <2>3, <3>1, <3>2
  <2> QED BY <1>0, <1>9, <2>1, <2>2, <2>3, <2>4 DEF RevealVote, TypeOK
<1>10. ASSUME NEW w \in Workers, NEW k \in Seats, BindSeat(w, k) PROVE TypeOK'
  <2>1. worker' \in [Workers -> Ticks]
    BY <1>0, <1>10, TickHandles DEF BindSeat, TypeOK
  <2>2. \/ chainSeat' = chainSeat
         \/ chainSeat' = [chainSeat EXCEPT ![k].bound = TRUE]
    BY <1>10 DEF BindSeat
  <2>3. chainSeat' \in [Seats -> SeatObjects]
    BY <1>s, <2>2, SeatIsBound
  <2>4. \/ seatRow' = seatRow
         \/ seatRow' = [seatRow EXCEPT ![k].bound = TRUE]
    BY <1>10 DEF BindSeat
  <2>5. seatRow' \in [Seats -> SeatRows]
    BY <1>0, <1>10, <2>4, SeatRowIsBound DEF TypeOK
  <2> QED BY <1>0, <1>10, <2>1, <2>2, <2>3, <2>4, <2>5 DEF BindSeat, TypeOK
<1>11. ASSUME AdvancePhase PROVE TypeOK'
  BY <1>0, <1>11, TickGoes DEF AdvancePhase, TypeOK, TickSteps, Workers, Goto, ClaimObjects,
       ClaimStates, EnterState
<1>12. ASSUME RecordRevealPhase PROVE TypeOK'
  BY <1>0, <1>12, TickTakes DEF RecordRevealPhase, TypeOK, TickSteps, Workers, EnterReveal,
       PendingReveals, ClaimRows, ClaimStates
<1>13. ASSUME StartReveal PROVE TypeOK'
  BY <1>0, <1>13, TickTakes DEF StartReveal, TypeOK, TickSteps, Workers, EnterReveal,
       PendingReveals
<1>59. ASSUME SaveRevealedRun PROVE TypeOK'
  <2>1. packageRow[NextRevealed].vote \in Outcomes
    BY <1>0, <1>59, NextRevealedLanded DEF SaveRevealedRun, At, resolver
  <2>2. worker' \in [Workers -> Ticks]
    BY <1>w, <1>59, TickGoes DEF SaveRevealedRun, Goto, TickSteps
  <2> QED BY <1>0, <1>59, <2>1, <2>2 DEF SaveRevealedRun, TypeOK
<1>14. ASSUME SaveRevealedPackage PROVE TypeOK'
  <2>1. NextRevealed \in Seats
    BY <1>0, <1>14, NextRevealedLanded
       DEF SaveRevealedPackage, RevealsAreCurrent, RevealSaves, At, resolver
  <2>2. worker' \in [Workers -> Ticks]
    BY <1>w, <1>14, TickGoes DEF SaveRevealedPackage, Goto, TickSteps
  <2>3. packageRow' \in [Seats -> Packages]
    BY <1>0, <1>14, <2>1, PackageIsRevealed DEF SaveRevealedPackage, TypeOK
  <2> QED BY <1>0, <1>14, <2>2, <2>3 DEF SaveRevealedPackage, TypeOK
<1>15. ASSUME SaveRevealedTally PROVE TypeOK'
  <2>1. worker' \in [Workers -> Ticks]
    BY <1>0, <1>15, TickSaves DEF SaveRevealedTally, TypeOK, TickSteps, Workers
  <2>2. NextRevealed \in Seats
    BY <1>0, <1>15, NextRevealedLanded
       DEF SaveRevealedTally, RevealsAreCurrent, RevealSaves, At, resolver
  <2>3. db' \in ClaimRows
    BY <1>0, <1>15, <2>2 DEF SaveRevealedTally, TypeOK, ClaimRows
  <2> QED BY <1>0, <1>15, <2>1, <2>2, <2>3 DEF SaveRevealedTally, TypeOK
<1>16. ASSUME WaitForReveals PROVE TypeOK'
  BY <1>0, <1>16, TickIdle DEF WaitForReveals, TypeOK, Rest, Workers
<1>17. ASSUME OpenDiscussion PROVE TypeOK'
  <2>1. Goto("resolver", "saveSplit") \/ Rest("resolver")
    BY <1>17 DEF OpenDiscussion
  <2>2. worker' \in [Workers -> Ticks]
    BY <1>w, <2>1, TickGoes, TickIdle DEF Goto, Rest
  <2>3. chain' \in ClaimObjects
    BY <1>0, <1>17, OutcomeIsVerdict DEF OpenDiscussion, TypeOK, Finalized, ClaimObjects,
         ClaimStates, EnterState
  <2> QED BY <1>0, <1>17, <2>1, <2>2, <2>3 DEF OpenDiscussion, TypeOK
<1>18. ASSUME Finalize PROVE TypeOK'
  <2>1. Goto("resolver", "saveCertificate") \/ Rest("resolver")
    BY <1>18 DEF Finalize
  <2>2. worker' \in [Workers -> Ticks]
    BY <1>w, <2>1, TickGoes, TickIdle DEF Goto, Rest
  <2>3. chain' \in ClaimObjects
    BY <1>0, <1>18, OutcomeIsVerdict DEF Finalize, TypeOK, Finalized, ClaimObjects, ClaimStates,
         EnterState
  <2> QED BY <1>0, <1>18, <2>1, <2>2, <2>3 DEF Finalize, TypeOK
<1>19. ASSUME SaveSplitTally PROVE TypeOK'
  BY <1>0, <1>19, TickGoes DEF SaveSplitTally, TypeOK, TickSteps, Workers, Goto, ClaimRows,
       ClaimStates
<1>20. ASSUME RecordDiscussion PROVE TypeOK'
  BY <1>0, <1>20, TickIdle DEF RecordDiscussion, TypeOK, TickSteps, Workers, Rest, ClaimRows,
       ClaimStates
<1>21. ASSUME AlreadyFinalized PROVE TypeOK'
  BY <1>0, <1>21, TickIdle DEF AlreadyFinalized, TypeOK, Rest, Workers
<1>22. ASSUME SaveCertificate PROVE TypeOK'
  BY <1>0, <1>22, TickGoes, OutcomeIsVerdict DEF SaveCertificate, TypeOK, TickSteps, Workers,
       Goto, ClaimRows, ClaimStates
<1>23. ASSUME RecordVerdict PROVE TypeOK'
  BY <1>0, <1>23, TickGoes DEF RecordVerdict, TypeOK, TickSteps, Workers, Goto, ClaimRows,
       ClaimStates
<1>24. ASSUME SettleAttempt PROVE TypeOK'
  BY <1>0, <1>24, TickGoes DEF SettleAttempt, TypeOK, TickSteps, Workers, Goto, ClaimRows,
       ClaimStates
<1>25. ASSUME CloseTally PROVE TypeOK'
  BY <1>0, <1>25, TickIdle DEF CloseTally, TypeOK, TickSteps, Workers, Rest, ClaimRows,
       ClaimStates
<1>26. ASSUME ReadAttempt PROVE TypeOK'
  <2>1. Goto("resolver", "void") \/ Rest("resolver")
    BY <1>26 DEF ReadAttempt
  <2>2. worker' \in [Workers -> Ticks]
    BY <1>w, <2>1, TickGoes, TickIdle DEF Goto, Rest
  <2> QED BY <1>0, <1>26, <2>1, <2>2 DEF ReadAttempt, TypeOK
<1>27. ASSUME VoidAttempt PROVE TypeOK'
  <2>1. 0 \in 0 .. SeatCount
    BY SeatsAssumption
  <2>2. db' \in ClaimRows
    BY <1>0, <1>27, <2>1 DEF VoidAttempt, TypeOK, ClaimRows
  <2>3. worker' \in [Workers -> Ticks]
    BY <1>w, <1>27, TickIdle DEF VoidAttempt, Rest
  <2> QED BY <1>0, <1>27, <2>2, <2>3 DEF VoidAttempt, TypeOK
<1>28. ASSUME FreezeEvidence PROVE TypeOK'
  BY <1>0, <1>28, TickGoes DEF FreezeEvidence, TypeOK, TickSteps, Workers, Goto, ClaimObjects,
       ClaimStates, EnterState
<1>29. ASSUME SaveManifest PROVE TypeOK'
  <2>1. worker' \in [Workers -> Ticks]
    BY <1>0, <1>29, TickIdle, TickTakes DEF SaveManifest, TypeOK, TickSteps, Workers
  <2>2. db' \in ClaimRows
    BY <1>0, <1>29 DEF SaveManifest, TypeOK, ClaimRows
  <2> QED BY <1>0, <1>29, <2>1, <2>2 DEF SaveManifest, TypeOK
<1>30. ASSUME NEW k \in Seats, NEW o \in Outcomes, ApproveSeatRun(k, o) PROVE TypeOK'
  <2>1. worker' \in [Workers -> Ticks]
    BY <1>0, <1>30, TickHandles DEF ApproveSeatRun, TypeOK, Workers
  <2>2. seatRun' \in [Seats -> SeatRuns]
    BY <1>0, <1>30 DEF ApproveSeatRun, TypeOK, SeatRuns, SeatSteps, NotRunning, EnterSeat
  <2>3. chainSeat' \in [Seats -> SeatObjects]
    BY <1>0, <1>30, SeatIsApproved DEF ApproveSeatRun, TypeOK
  <2> QED BY <1>0, <1>30, <2>1, <2>2, <2>3 DEF ApproveSeatRun, TypeOK
<1>31. ASSUME NEW k \in Seats, FailSeatRun(k) PROVE TypeOK'
  <2>1. worker' \in [Workers -> Ticks]
    BY <1>0, <1>31, TickHandles DEF FailSeatRun, TypeOK, Workers
  <2>2. seatRun' \in [Seats -> SeatRuns]
    BY <1>0, <1>31 DEF FailSeatRun, TypeOK, SeatRuns, SeatSteps, NotRunning, EnterSeat
  <2> QED BY <1>0, <1>31, <2>1, <2>2 DEF FailSeatRun, TypeOK
<1>32. ASSUME NEW k \in Seats, SaveInferenceRun(k) PROVE TypeOK'
  BY <1>0, <1>32 DEF SaveInferenceRun, TypeOK, RunsAreSingle, SeatRuns, SeatSteps, NotRunning,
       EnterSeat
<1>33. ASSUME NEW k \in Seats, SaveRunApproval(k) PROVE TypeOK'
  BY <1>0, <1>33 DEF SaveRunApproval, TypeOK, SeatRuns, SeatSteps, NotRunning, EnterSeat
<1>34. ASSUME NEW k \in Seats, SaveFailure(k) PROVE TypeOK'
  <2>1. seatRun' \in [Seats -> SeatRuns]
    BY <1>0, <1>34 DEF SaveFailure, TypeOK, SeatRuns, SeatSteps, EnterSeat
  <2> QED BY <1>0, <1>34, <2>1 DEF SaveFailure, TypeOK
<1>60. ASSUME NEW k \in Seats, ReadAttemptForSeat(k) PROVE TypeOK'
  <2>1. seatRun' \in [Seats -> SeatRuns]
    BY <1>0, <1>60 DEF ReadAttemptForSeat, TypeOK, SeatRuns, SeatSteps, NotRunning, EnterSeat
  <2> QED BY <1>0, <1>60, <2>1 DEF ReadAttemptForSeat, TypeOK
<1>35. ASSUME NEW k \in Seats, VoidForSeat(k) PROVE TypeOK'
  <2>1. k \in 0 .. SeatCount
    BY SeatsAssumption DEF Seats
  <2>2. db' \in ClaimRows
    BY <1>0, <1>35, <2>1 DEF VoidForSeat, TypeOK, ClaimRows
  <2>3. seatRun' \in [Seats -> SeatRuns]
    BY <1>0, <1>35 DEF VoidForSeat, TypeOK, SeatRuns, SeatSteps, NotRunning
  <2> QED BY <1>0, <1>35, <2>2, <2>3 DEF VoidForSeat, TypeOK
<1>36. ASSUME StartJuryRun PROVE TypeOK'
  BY <1>0, <1>36, TickTakes DEF StartJuryRun, TypeOK, TickSteps, Workers
<1>37. ASSUME StartSeats PROVE TypeOK'
  BY <1>0, <1>37, TickTakes DEF StartSeats, TypeOK, TickSteps, Workers
<1>38. ASSUME EndJuryTick PROVE TypeOK'
  BY <1>0, <1>38, TickIdle DEF EndJuryTick, TypeOK, TickSteps, Workers, Rest
<1>p. /\ committer \in Passes /\ {} \in SUBSET Seats /\ 0 \in 0 .. SeatCount
      /\ {"begin", "saveLock", "savePackage"} \subseteq PassSteps
  BY <1>0, SeatsAssumption DEF TypeOK, PassSteps
<1>39. ASSUME StartPass PROVE TypeOK'
  <2>1. committer' \in Passes
    BY <1>p, <1>39, PassGoes DEF StartPass
  <2>2. Goto("juror", "lastPass") \/ worker' = worker
    BY <1>39 DEF StartPass
  <2>3. worker' \in [Workers -> Ticks]
    BY <1>w, <2>2, TickGoes DEF Goto
  <2> QED BY <1>0, <1>39, <2>1, <2>2, <2>3 DEF StartPass, TypeOK
<1>40. ASSUME LockCommittee PROVE TypeOK'
  <2>1. committer' \in Passes
    BY <1>p, <1>40, PassGoes, PassEnds DEF LockCommittee
  <2>2. chain' \in ClaimObjects
    BY <1>0, <1>40 DEF LockCommittee, TypeOK, ClaimObjects
  <2> QED BY <1>0, <1>40, <2>1, <2>2 DEF LockCommittee, TypeOK
<1>41. ASSUME SaveLock PROVE TypeOK'
  <2>1. committer' \in Passes
    BY <1>p, <1>41, PassGoes DEF SaveLock
  <2>2. db' \in ClaimRows
    BY <1>0, <1>41 DEF SaveLock, TypeOK, ClaimRows
  <2> QED BY <1>0, <1>41, <2>1, <2>2 DEF SaveLock, TypeOK
<1>42. ASSUME ListRuns PROVE TypeOK'
  <2> DEFINE copies == [k \in Seats |-> IF k \in ValidRuns THEN runRow[k] ELSE NoOutcome]
  <2>1. ValidRuns \in SUBSET Seats /\ copies \in [Seats -> Outcomes \cup {NoOutcome}]
    BY DEF ValidRuns
  <2>2. committer' = NoPass
        \/ committer' = [pc |-> "next", todo |-> ValidRuns, seat |-> 0, copies |-> copies]
    BY <1>42 DEF ListRuns
  <2> HIDE DEF copies
  <2>3. committer' \in Passes
    BY <1>p, <2>1, <2>2, PassEnds DEF Passes, PassSteps
  <2> QED BY <1>0, <1>42, <2>3 DEF ListRuns, TypeOK
<1>43. ASSUME CommitVote PROVE TypeOK'
  <2>1. /\ NextRun \in Seats /\ NextRun \in 0 .. SeatCount
        /\ committer.copies[NextRun] \in Outcomes
    BY <1>0, <1>43, NextRunIsListed DEF CommitVote
  <2>2. committer.todo \ {NextRun} \in SUBSET Seats
    BY <1>p DEF Passes
  <2>3. committer' \in Passes
    BY <1>p, <1>43, <2>1, <2>2, PassGoes, PassEnds DEF CommitVote
  <2>4. chainSeat' \in [Seats -> SeatObjects]
    <3>1. Committed(NextRun) \in [Seats -> SeatObjects]
      BY <1>s, <2>1, SeatCommits DEF Committed
    <3> QED BY <1>s, <1>43, <3>1 DEF CommitVote
  <2> QED BY <1>0, <1>43, <2>3, <2>4 DEF CommitVote, TypeOK
<1>61. ASSUME SkipUnapproved PROVE TypeOK'
  <2>1. committer.todo \ {NextRun} \in SUBSET Seats
    BY <1>p DEF Passes
  <2>2. committer' \in Passes
    BY <1>p, <1>61, <2>1, PassGoesOn DEF SkipUnapproved
  <2> QED BY <1>0, <1>61, <2>2 DEF SkipUnapproved, TypeOK
<1>44. ASSUME SaveVotePackage PROVE TypeOK'
  <2>1. committer.todo \in SUBSET Seats
    BY <1>p DEF Passes
  <2>2. committer' \in Passes
    BY <1>p, <1>44, <2>1, PassGoesOn DEF SaveVotePackage
  <2>3. committer.seat \in Seats /\ committer.copies[committer.seat] \in Outcomes \cup {NoOutcome}
    BY <1>0, <1>p, <1>44 DEF SaveVotePackage, PassIsCurrent, Passes
  <2>4. packageRow' \in [Seats -> Packages]
    BY <1>0, <1>44, <2>3, PackageIsStored DEF SaveVotePackage, StorePackage, TypeOK
  <2> QED BY <1>0, <1>44, <2>2, <2>4 DEF SaveVotePackage, TypeOK
<1>45. ASSUME Tick PROVE TypeOK'
  BY <1>0, <1>45 DEF Tick, TypeOK, After
<1>46. ASSUME NEW w \in Workers, Crash(w) PROVE TypeOK'
  <2>1. faults' \in 0 .. MaxFaults[round]
    BY <1>0, <1>46, FaultsAssumption DEF Crash, TypeOK, Fault
  <2>2. worker' \in [Workers -> Ticks]
    BY <1>0, <1>46, TickIdle DEF Crash, TypeOK, Rest
  <2>3. seatRun' \in [Seats -> SeatRuns]
    BY <1>0, <1>46 DEF Crash, TypeOK, jurorVars, SeatRuns, SeatSteps, NotRunning, EnterSeat
  <2>4. committer' \in Passes
    BY <1>p, <1>46, PassEnds DEF Crash, jurorVars
  <2> QED BY <1>0, <1>46, <2>1, <2>2, <2>3, <2>4 DEF Crash, TypeOK
<1>47. ASSUME NEW k \in Seats, LoseRevealReply(k) PROVE TypeOK'
  <2>1. faults' \in 0 .. MaxFaults[round]
    BY <1>0, <1>47, FaultsAssumption DEF LoseRevealReply, TypeOK, Fault
  <2>2. worker' \in [Workers -> Ticks]
    BY <1>w, <1>47, TickLoses DEF LoseRevealReply
  <2> QED BY <1>0, <1>47, <2>1, <2>2 DEF LoseRevealReply, TypeOK
<1>48. ASSUME NEW k \in Seats, RejectSeatCall(k) PROVE TypeOK'
  <2>1. faults' \in 0 .. MaxFaults[round]
    BY <1>0, <1>48, FaultsAssumption DEF RejectSeatCall, TypeOK, Fault
  <2>2. seatRun' \in [Seats -> SeatRuns] /\ approvalRow' \in [Seats -> BOOLEAN]
    BY <1>0, <1>48 DEF RejectSeatCall, TypeOK, SeatRuns, SeatSteps, EnterSeat
  <2> QED BY <1>0, <1>48, <2>1, <2>2 DEF RejectSeatCall, TypeOK
<1>49. ASSUME LoseCommitReply PROVE TypeOK'
  <2>1. faults' \in 0 .. MaxFaults[round]
    BY <1>0, <1>49, FaultsAssumption DEF LoseCommitReply, TypeOK, Fault
  <2>2. committer' \in Passes
    BY <1>49, PassEnds DEF LoseCommitReply
  <2> QED BY <1>0, <1>49, <2>1, <2>2 DEF LoseCommitReply, TypeOK
<1>50. ASSUME OutsiderTurnsCrank PROVE TypeOK'
  <2>1. faults' \in 0 .. MaxFaults[round]
    BY <1>0, <1>50, FaultsAssumption DEF OutsiderTurnsCrank, TypeOK, Fault
  <2>2. chain' \in ClaimObjects
    BY <1>0, <1>50, OutcomeIsVerdict DEF OutsiderTurnsCrank, TypeOK, Finalized, ClaimObjects,
         ClaimStates, EnterState
  <2>3. chainSeat' \in [Seats -> SeatObjects]
    BY <1>0, <1>50, SeatIsDealt DEF OutsiderTurnsCrank, TypeOK, SeatStatuses
  <2> QED BY <1>0, <1>50, <2>1, <2>2, <2>3 DEF OutsiderTurnsCrank, TypeOK
<1>51. CASE UNCHANGED vars
  BY <1>0, <1>51 DEF TypeOK, vars
<1>52. CASE ResolverStep
  BY <1>52, <1>1, <1>2, <1>3, <1>4, <1>5, <1>6, <1>7, <1>8, <1>9, <1>10, <1>11, <1>12, <1>13,
     <1>59, <1>14, <1>15, <1>16, <1>17, <1>19, <1>20, <1>18, <1>21, <1>22, <1>23, <1>24, <1>25,
     <1>26, <1>27 DEF ResolverStep, Workers
<1>53. CASE EvidencerStep
  BY <1>53, <1>28, <1>29, <1>10 DEF EvidencerStep, Workers
<1>54. CASE JurorStep
  BY <1>54, <1>36, <1>37, <1>38, <1>10 DEF JurorStep, Workers
<1>55. CASE CommitterStep
  BY <1>55, <1>39, <1>40, <1>41, <1>42, <1>43, <1>61, <1>44 DEF CommitterStep
<1>56. CASE \E k \in Seats : SeatStep(k)
  BY <1>56, <1>30, <1>31, <1>32, <1>33, <1>34, <1>60, <1>35 DEF SeatStep
<1>57. CASE FaultStep
  BY <1>57, <1>46, <1>47, <1>48, <1>49, <1>50 DEF FaultStep
<1> QED BY <1>51, <1>45, <1>52, <1>53, <1>54, <1>55, <1>56, <1>57 DEF Next

-----------------------------------------------------------------------------
(* Which steps write what                                                  *)

\* For each variable, every step that may write it.
WritesChain ==
    \/ SelectCommittee \/ OpenSecondRound \/ AdvancePhase \/ OpenDiscussion \/ Finalize
    \/ FreezeEvidence \/ LockCommittee \/ OutsiderTurnsCrank

WritesSeats ==
    \/ SelectCommittee \/ OpenSecondRound \/ CommitVote \/ OutsiderTurnsCrank
    \/ \E k \in Seats : AcceptOfferedSeat(k)
    \/ \E k \in Seats : RevealVote(k)
    \/ \E w \in Workers, k \in Seats : BindSeat(w, k)
    \/ \E k \in Seats, o \in Outcomes : ApproveSeatRun(k, o)

WritesDatabase ==
    \/ SaveCommittee \/ SaveRoundTally \/ RecordCommitPhase \/ RecordRevealPhase
    \/ SaveRevealedTally \/ SaveSplitTally \/ RecordDiscussion \/ SaveCertificate
    \/ RecordVerdict \/ SettleAttempt \/ CloseTally \/ VoidAttempt \/ SaveManifest \/ SaveLock
    \/ \E k \in Seats : VoidForSeat(k)

WritesSeatRows ==
    \/ SaveNextSeat
    \/ \E k \in Seats : AcceptOfferedSeat(k)
    \/ \E w \in Workers, k \in Seats : BindSeat(w, k)

WritesRuns ==
    \/ \E k \in Seats : SaveInferenceRun(k)
    \/ \E k \in Seats : SaveFailure(k)
    \/ SaveRevealedRun

WritesApprovals ==
    \/ \E k \in Seats : SaveRunApproval(k)
    \/ \E k \in Seats : RejectSeatCall(k)

WritesPackages ==
    \/ SaveRevealedPackage \/ SaveVotePackage

WritesSeatRuns ==
    \/ \E k \in Seats, o \in Outcomes : ApproveSeatRun(k, o)
    \/ \E k \in Seats : FailSeatRun(k)
    \/ \E k \in Seats : SaveInferenceRun(k)
    \/ \E k \in Seats : SaveRunApproval(k)
    \/ \E k \in Seats : SaveFailure(k)
    \/ \E k \in Seats : ReadAttemptForSeat(k)
    \/ \E k \in Seats : VoidForSeat(k)
    \/ \E w \in Workers : Crash(w)
    \/ \E k \in Seats : RejectSeatCall(k)

WritesPass ==
    \/ StartPass \/ LockCommittee \/ SaveLock \/ ListRuns \/ CommitVote
    \/ SkipUnapproved \/ SaveVotePackage \/ LoseCommitReply
    \/ \E w \in Workers : Crash(w)

\* The steps that move each worker's tick.
ResolverMoves == ResolverStep \/ Crash("resolver") \/ \E k \in Seats : LoseRevealReply(k)
EvidencerMoves == EvidencerStep \/ Crash("evidencer")
JurorMoves ==
    \/ JurorStep \/ StartPass \/ Crash("juror")
    \/ \E k \in Seats : FailSeatRun(k) \/ \E o \in Outcomes : ApproveSeatRun(k, o)

\* What a step changes, it is among the writers of.
OthersKeep ==
    /\ round' = round
    /\ chain' # chain => WritesChain
    /\ chainSeat' # chainSeat => WritesSeats
    /\ db' # db => WritesDatabase
    /\ seatRow' # seatRow => WritesSeatRows
    /\ runRow' # runRow => WritesRuns
    /\ approvalRow' # approvalRow => WritesApprovals
    /\ packageRow' # packageRow => WritesPackages
    /\ seatRun' # seatRun => WritesSeatRuns
    /\ committer' # committer => WritesPass
    /\ worker'["resolver"] # worker["resolver"] => ResolverMoves
    /\ worker'["evidencer"] # worker["evidencer"] => EvidencerMoves
    /\ worker'["juror"] # worker["juror"] => JurorMoves

\* Each variable is written by few of the steps.
LEMMA WhoWrites ==
    ASSUME worker \in [Workers -> Ticks], [Next]_vars
    PROVE  OthersKeep
<1> USE DEF OthersKeep, chainVars, rowVars, jurorVars
<1>1. ASSUME SelectCommittee PROVE OthersKeep
  BY <1>1 DEF SelectCommittee, WritesChain, WritesSeats, ResolverMoves, ResolverStep, Workers,
       Goto
<1>2. ASSUME OpenSecondRound PROVE OthersKeep
  BY <1>2 DEF OpenSecondRound, WritesChain, WritesSeats, ResolverMoves, ResolverStep, Workers,
       Goto
<1>3. ASSUME SaveCommittee PROVE OthersKeep
  BY <1>3 DEF SaveCommittee, WritesDatabase, ResolverMoves, ResolverStep, Workers, Goto
<1>4. ASSUME SaveRoundTally PROVE OthersKeep
  BY <1>4 DEF SaveRoundTally, WritesDatabase, ResolverMoves, ResolverStep, Workers
<1>5. ASSUME ResumeSelection PROVE OthersKeep
  BY <1>5 DEF ResumeSelection, ResolverMoves, ResolverStep, Workers
<1>6. ASSUME SaveNextSeat PROVE OthersKeep
  BY <1>6 DEF SaveNextSeat, WritesSeatRows, ResolverMoves, ResolverStep, Workers
<1>7. ASSUME RecordCommitPhase PROVE OthersKeep
  BY <1>7 DEF RecordCommitPhase, WritesDatabase, ResolverMoves, ResolverStep, Workers
<1>8. ASSUME NEW k \in Seats, AcceptOfferedSeat(k) PROVE OthersKeep
  BY <1>8 DEF AcceptOfferedSeat, WritesSeats, WritesSeatRows, ResolverMoves, ResolverStep,
       Workers, Handled, Rest
<1>9. ASSUME NEW k \in Seats, RevealVote(k) PROVE OthersKeep
  BY <1>9 DEF RevealVote, WritesSeats, ResolverMoves, ResolverStep, Workers
<1>10. ASSUME NEW w \in Workers, NEW k \in Seats, BindSeat(w, k) PROVE OthersKeep
  <2>1. Handled(w, k) /\ UNCHANGED <<round, chain, db, runRow, approvalRow, packageRow, seatRun,
                                   committer>>
    BY <1>10 DEF BindSeat
  <2>2. WritesSeats /\ WritesSeatRows
    BY <1>10 DEF WritesSeats, WritesSeatRows
  <2>3. /\ w = "resolver" => ResolverMoves
        /\ w = "evidencer" => EvidencerMoves
        /\ w = "juror" => JurorMoves
    BY <1>10 DEF ResolverMoves, ResolverStep, EvidencerMoves, EvidencerStep, JurorMoves, JurorStep
  <2> QED BY <2>1, <2>2, <2>3 DEF Handled, Rest, Workers
<1>11. ASSUME AdvancePhase PROVE OthersKeep
  BY <1>11 DEF AdvancePhase, WritesChain, ResolverMoves, ResolverStep, Workers, Goto
<1>12. ASSUME RecordRevealPhase PROVE OthersKeep
  BY <1>12 DEF RecordRevealPhase, WritesDatabase, ResolverMoves, ResolverStep, Workers,
       EnterReveal
<1>13. ASSUME StartReveal PROVE OthersKeep
  BY <1>13 DEF StartReveal, ResolverMoves, ResolverStep, Workers, EnterReveal
<1>59. ASSUME SaveRevealedRun PROVE OthersKeep
  BY <1>59 DEF SaveRevealedRun, WritesRuns, ResolverMoves, ResolverStep, Workers, Goto
<1>14. ASSUME SaveRevealedPackage PROVE OthersKeep
  BY <1>14 DEF SaveRevealedPackage, WritesPackages, ResolverMoves, ResolverStep, Workers, Goto
<1>15. ASSUME SaveRevealedTally PROVE OthersKeep
  BY <1>15 DEF SaveRevealedTally, WritesDatabase, ResolverMoves, ResolverStep, Workers
<1>16. ASSUME WaitForReveals PROVE OthersKeep
  BY <1>16 DEF WaitForReveals, ResolverMoves, ResolverStep, Workers, Rest
<1>17. ASSUME OpenDiscussion PROVE OthersKeep
  BY <1>17 DEF OpenDiscussion, WritesChain, ResolverMoves, ResolverStep, Workers, Goto, Rest
<1>18. ASSUME SaveSplitTally PROVE OthersKeep
  BY <1>18 DEF SaveSplitTally, WritesDatabase, ResolverMoves, ResolverStep, Workers, Goto
<1>19. ASSUME RecordDiscussion PROVE OthersKeep
  BY <1>19 DEF RecordDiscussion, WritesDatabase, ResolverMoves, ResolverStep, Workers, Rest
<1>20. ASSUME Finalize PROVE OthersKeep
  BY <1>20 DEF Finalize, WritesChain, ResolverMoves, ResolverStep, Workers, Goto, Rest
<1>21. ASSUME AlreadyFinalized PROVE OthersKeep
  BY <1>21 DEF AlreadyFinalized, ResolverMoves, ResolverStep, Workers, Rest
<1>22. ASSUME SaveCertificate PROVE OthersKeep
  BY <1>22 DEF SaveCertificate, WritesDatabase, ResolverMoves, ResolverStep, Workers, Goto
<1>23. ASSUME RecordVerdict PROVE OthersKeep
  BY <1>23 DEF RecordVerdict, WritesDatabase, ResolverMoves, ResolverStep, Workers, Goto
<1>24. ASSUME SettleAttempt PROVE OthersKeep
  BY <1>24 DEF SettleAttempt, WritesDatabase, ResolverMoves, ResolverStep, Workers, Goto
<1>25. ASSUME CloseTally PROVE OthersKeep
  BY <1>25 DEF CloseTally, WritesDatabase, ResolverMoves, ResolverStep, Workers, Rest
<1>26. ASSUME ReadAttempt PROVE OthersKeep
  BY <1>26 DEF ReadAttempt, ResolverMoves, ResolverStep, Workers, Goto, Rest
<1>27. ASSUME VoidAttempt PROVE OthersKeep
  BY <1>27 DEF VoidAttempt, WritesDatabase, ResolverMoves, ResolverStep, Workers, Rest
<1>28. ASSUME FreezeEvidence PROVE OthersKeep
  BY <1>28 DEF FreezeEvidence, WritesChain, EvidencerMoves, EvidencerStep, Workers, Goto
<1>29. ASSUME SaveManifest PROVE OthersKeep
  BY <1>29 DEF SaveManifest, WritesDatabase, EvidencerMoves, EvidencerStep, Workers
<1>30. ASSUME NEW k \in Seats, NEW o \in Outcomes, ApproveSeatRun(k, o) PROVE OthersKeep
  BY <1>30 DEF ApproveSeatRun, WritesSeats, WritesSeatRuns, JurorMoves, Workers, Handled, Rest
<1>31. ASSUME NEW k \in Seats, FailSeatRun(k) PROVE OthersKeep
  BY <1>31 DEF FailSeatRun, WritesSeatRuns, JurorMoves, Workers, Handled, Rest
<1>32. ASSUME NEW k \in Seats, SaveInferenceRun(k) PROVE OthersKeep
  BY <1>32 DEF SaveInferenceRun, WritesRuns, WritesSeatRuns
<1>33. ASSUME NEW k \in Seats, SaveRunApproval(k) PROVE OthersKeep
  BY <1>33 DEF SaveRunApproval, WritesApprovals, WritesSeatRuns
<1>34. ASSUME NEW k \in Seats, SaveFailure(k) PROVE OthersKeep
  BY <1>34 DEF SaveFailure, WritesRuns, WritesSeatRuns
<1>60. ASSUME NEW k \in Seats, ReadAttemptForSeat(k) PROVE OthersKeep
  BY <1>60 DEF ReadAttemptForSeat, WritesSeatRuns
<1>35. ASSUME NEW k \in Seats, VoidForSeat(k) PROVE OthersKeep
  BY <1>35 DEF VoidForSeat, WritesDatabase, WritesSeatRuns
<1>36. ASSUME StartJuryRun PROVE OthersKeep
  BY <1>36 DEF StartJuryRun, JurorMoves, JurorStep, Workers
<1>37. ASSUME StartSeats PROVE OthersKeep
  BY <1>37 DEF StartSeats, JurorMoves, JurorStep, Workers
<1>38. ASSUME EndJuryTick PROVE OthersKeep
  BY <1>38 DEF EndJuryTick, JurorMoves, JurorStep, Workers, Rest
<1>39. ASSUME StartPass PROVE OthersKeep
  BY <1>39 DEF StartPass, WritesPass, JurorMoves, Workers, Goto
<1>40. ASSUME LockCommittee PROVE OthersKeep
  BY <1>40 DEF LockCommittee, WritesChain, WritesPass
<1>41. ASSUME SaveLock PROVE OthersKeep
  BY <1>41 DEF SaveLock, WritesDatabase, WritesPass
<1>42. ASSUME ListRuns PROVE OthersKeep
  BY <1>42 DEF ListRuns, WritesPass
<1>43. ASSUME CommitVote PROVE OthersKeep
  BY <1>43 DEF CommitVote, WritesSeats, WritesPass
<1>61. ASSUME SkipUnapproved PROVE OthersKeep
  BY <1>61 DEF SkipUnapproved, WritesPass
<1>44. ASSUME SaveVotePackage PROVE OthersKeep
  BY <1>44 DEF SaveVotePackage, WritesPackages, WritesPass
<1>45. ASSUME Tick PROVE OthersKeep
  BY <1>45 DEF Tick
<1>46. ASSUME NEW w \in Workers, Crash(w) PROVE OthersKeep
  BY <1>46 DEF Crash, WritesSeatRuns, WritesPass, ResolverMoves, EvidencerMoves, JurorMoves,
       Workers, Rest
<1>47. ASSUME NEW k \in Seats, LoseRevealReply(k) PROVE OthersKeep
  BY <1>47 DEF LoseRevealReply, ResolverMoves, Workers
<1>48. ASSUME NEW k \in Seats, RejectSeatCall(k) PROVE OthersKeep
  BY <1>48 DEF RejectSeatCall, WritesApprovals, WritesSeatRuns
<1>49. ASSUME LoseCommitReply PROVE OthersKeep
  BY <1>49 DEF LoseCommitReply, WritesPass
<1>50. ASSUME OutsiderTurnsCrank PROVE OthersKeep
  BY <1>50 DEF OutsiderTurnsCrank, WritesChain, WritesSeats
<1>51. CASE UNCHANGED vars
  BY <1>51 DEF vars
<1>52. CASE ResolverStep
  BY <1>52, <1>1, <1>2, <1>3, <1>4, <1>5, <1>6, <1>7, <1>8, <1>9, <1>10, <1>11, <1>12, <1>13,
     <1>59, <1>14, <1>15, <1>16, <1>17, <1>18, <1>19, <1>20, <1>21, <1>22, <1>23, <1>24, <1>25,
     <1>26, <1>27 DEF ResolverStep, Workers
<1>53. CASE EvidencerStep
  BY <1>53, <1>28, <1>29, <1>10 DEF EvidencerStep, Workers
<1>54. CASE JurorStep
  BY <1>54, <1>36, <1>37, <1>38, <1>10 DEF JurorStep, Workers
<1>55. CASE CommitterStep
  BY <1>55, <1>39, <1>40, <1>41, <1>42, <1>43, <1>61, <1>44 DEF CommitterStep
<1>56. CASE \E k \in Seats : SeatStep(k)
  BY <1>56, <1>30, <1>31, <1>32, <1>33, <1>34, <1>60, <1>35 DEF SeatStep
<1>57. CASE FaultStep
  BY <1>57, <1>46, <1>47, <1>48, <1>49, <1>50 DEF FaultStep
<1> QED BY <1>51, <1>45, <1>52, <1>53, <1>54, <1>55, <1>56, <1>57 DEF Next

-----------------------------------------------------------------------------
(* What no step takes back                                                 *)

\* What a step can do to the claim, to a seat, to its rows and to the claim's rows.
ChainGrows ==
    /\ Rank(chain.state) <= Rank(chain'.state)
    /\ chain.state # "BEFORE" => chain'.state # "BEFORE"
    /\ chain.state \in {"DISCUSSION", "FINAL"} =>
           chain'.state = chain.state /\ chain'.verdict = chain.verdict
    /\ chain.locked => chain'.locked
    /\ chain.frozen => chain'.frozen

SeatGrows(k) ==
    /\ chainSeat[k].status # "NONE" => chainSeat'[k].status # "NONE"
    /\ chainSeat[k].status \notin {"NONE", "OFFERED"} =>
           chainSeat'[k].status \notin {"NONE", "OFFERED"}
    /\ Sealed(k) => Sealed(k)' /\ chainSeat'[k].ballot = chainSeat[k].ballot
    /\ chainSeat[k].status = "REVEALED" => chainSeat'[k].status = "REVEALED"
    /\ chainSeat[k].bound => chainSeat'[k].bound

RowsGrow(k) ==
    /\ runRow[k] # "NONE" => runRow'[k] # "NONE"
    /\ approvalRow[k] => approvalRow'[k]
    /\ Stored(k) => Stored(k)' /\ packageRow'[k].vote = packageRow[k].vote
    /\ packageRow[k].status = "REVEALED" => packageRow'[k].status = "REVEALED"

DatabaseGrows ==
    /\ db.state # "BEFORE" => db'.state # "BEFORE"
    /\ db.tally # "none" => db'.tally # "none"
    /\ db.revealed \subseteq db'.revealed
    /\ db.certificate # "none" => db'.certificate = db.certificate

\* The chain's claim only goes forward, and what it decided stays.
LEMMA ChainStepsForward ==
    ASSUME TypeOK, OthersKeep
    PROVE  ChainGrows
<1> USE DEF ChainGrows, Rank, EnterState, ClaimObjects, chainVars
<1>1. chain \in ClaimObjects /\ chain.state \in ClaimStates
  BY DEF TypeOK
<1>2. CASE chain' = chain
  BY <1>1, <1>2 DEF ClaimStates
<1>3. CASE SelectCommittee
  BY <1>1, <1>3 DEF SelectCommittee, CanSelect
<1>4. CASE OpenSecondRound
  BY <1>1, <1>4 DEF OpenSecondRound, CanOpenSecond
<1>5. CASE AdvancePhase
  BY <1>1, <1>5 DEF AdvancePhase, CanAdvance
<1>6. CASE OpenDiscussion
  BY <1>1, <1>2, <1>6 DEF OpenDiscussion, CanDiscuss
<1>7. CASE Finalize
  <2>1. CASE CanFinalize /\ Finalized
    BY <1>1, <2>1 DEF CanFinalize, Finalized
  <2> QED BY <1>2, <1>7, <2>1 DEF Finalize
<1>8. CASE FreezeEvidence
  BY <1>1, <1>8 DEF FreezeEvidence, ClaimStates
<1>9. CASE LockCommittee
  BY <1>1, <1>2, <1>9 DEF LockCommittee, ClaimStates
<1>10. CASE OutsiderTurnsCrank
  <2>1. CASE CanAdvance /\ EnterState("REVEAL")
    BY <1>1, <2>1 DEF CanAdvance
  <2>2. CASE CanDiscuss /\ EnterState("DISCUSSION")
    BY <1>1, <2>2 DEF CanDiscuss
  <2>3. CASE (CanOpenSecond \/ CanSelect) /\ EnterState("COMMIT")
    BY <1>1, <2>3 DEF CanOpenSecond, CanSelect
  <2>4. CASE CanFinalize /\ Finalized
    BY <1>1, <2>4 DEF CanFinalize, Finalized
  <2> QED BY <1>10, <2>1, <2>2, <2>3, <2>4 DEF OutsiderTurnsCrank
<1> QED BY <1>2, <1>3, <1>4, <1>5, <1>6, <1>7, <1>8, <1>9, <1>10 DEF OthersKeep, WritesChain

\* A seat only goes forward, and a committed ballot stays.
LEMMA SeatsStepForward ==
    ASSUME TypeOK, SeatsAreDealt, OthersKeep, NEW k \in Seats
    PROVE  SeatGrows(k)
<1> USE DEF SeatGrows, Sealed, SeatObjects
<1>1. /\ chainSeat \in [Seats -> SeatObjects] /\ chainSeat[k].status \in SeatStatuses
      /\ chainSeat[k].bound \in BOOLEAN
      /\ chain.state = "BEFORE" => chainSeat[k].status = "NONE" /\ ~chainSeat[k].bound
  BY DEF TypeOK, SeatsAreDealt
<1>2. CASE chainSeat' = chainSeat
  BY <1>2
<1>3. CASE chain.state = "BEFORE" /\ \E s \in {"OFFERED", "ACCEPTED"} : chainSeat' = Seated(s)
  BY <1>1, <1>3 DEF Seated, NoChainSeat
<1>4. ASSUME NEW j \in Seats, AcceptOfferedSeat(j) PROVE SeatGrows(k)
  BY <1>1, <1>2, <1>4 DEF AcceptOfferedSeat, CanAccept
<1>5. ASSUME NEW j \in Seats, RevealVote(j) PROVE SeatGrows(k)
  BY <1>1, <1>2, <1>5 DEF RevealVote, CanReveal
<1>6. ASSUME NEW w \in Workers, NEW j \in Seats, BindSeat(w, j) PROVE SeatGrows(k)
  BY <1>1, <1>2, <1>6 DEF BindSeat
<1>7. ASSUME NEW j \in Seats, NEW o \in Outcomes, ApproveSeatRun(j, o) PROVE SeatGrows(k)
  BY <1>1, <1>2, <1>7 DEF ApproveSeatRun
<1>8. CASE CommitVote
  BY <1>1, <1>2, <1>8 DEF CommitVote, CanCommit, Committed
<1>9. CASE SelectCommittee \/ OpenSecondRound \/ OutsiderTurnsCrank
  BY <1>2, <1>3, <1>9 DEF SelectCommittee, OpenSecondRound, OutsiderTurnsCrank, CanSelect,
       CanOpenSecond
<1> QED BY <1>2, <1>4, <1>5, <1>6, <1>7, <1>8, <1>9 DEF OthersKeep, WritesSeats

\* A run keeps having a row and an approval, and a package its vote: it goes from absent to
\* committed to revealed.
LEMMA RowsStepForward ==
    ASSUME TypeOK, RunsAreSingle, VotesAreInOrder, PassIsCurrent, RevealsAreCurrent, OthersKeep,
           NEW k \in Seats
    PROVE  RowsGrow(k)
<1>1. /\ runRow \in [Seats -> {"NONE", "FAILED"} \cup Outcomes]
      /\ approvalRow \in [Seats -> BOOLEAN] /\ packageRow \in [Seats -> Packages]
      /\ "NONE" \notin Outcomes
  BY OutcomesAssumption DEF TypeOK
<1>2. runRow[k] # "NONE" => runRow'[k] # "NONE"
  <2>1. CASE runRow' = runRow
    BY <2>1
  <2>2. ASSUME NEW j \in Seats, SaveInferenceRun(j) PROVE runRow[k] # "NONE" => runRow'[k] # "NONE"
    BY <1>1, <2>2 DEF SaveInferenceRun, RunsAreSingle
  <2>3. ASSUME NEW j \in Seats, SaveFailure(j) PROVE runRow[k] # "NONE" => runRow'[k] # "NONE"
    BY <1>1, <2>3 DEF SaveFailure
  <2>4. CASE SaveRevealedRun
    <3>1. packageRow[NextRevealed].vote # "NONE"
      BY <1>1, <2>4, NextRevealedLanded DEF SaveRevealedRun, At, resolver
    <3> QED BY <1>1, <2>4, <3>1 DEF SaveRevealedRun
  <2> QED BY <2>1, <2>2, <2>3, <2>4 DEF OthersKeep, WritesRuns
<1>3. approvalRow[k] => approvalRow'[k]
  <2>1. ASSUME NEW j \in Seats, SaveRunApproval(j) PROVE approvalRow[k] => approvalRow'[k]
    BY <1>1, <2>1 DEF SaveRunApproval
  <2>2. ASSUME NEW j \in Seats, RejectSeatCall(j) PROVE approvalRow[k] => approvalRow'[k]
    <3>1. ~approvalRow[j]
      BY <2>2 DEF RejectSeatCall, RunsAreSingle
    <3>2. PICK saved \in BOOLEAN : approvalRow' = [approvalRow EXCEPT ![j] = saved]
      BY <2>2 DEF RejectSeatCall
    <3> QED BY <1>1, <3>1, <3>2
  <2> QED BY <2>1, <2>2 DEF OthersKeep, WritesApprovals
<1>4. /\ Stored(k) => Stored(k)' /\ packageRow'[k].vote = packageRow[k].vote
      /\ packageRow[k].status = "REVEALED" => packageRow'[k].status = "REVEALED"
  <2> USE DEF Stored
  <2>1. CASE packageRow' = packageRow
    BY <2>1
  <2>2. CASE SaveRevealedPackage
    BY <1>1, <2>2 DEF SaveRevealedPackage, Packages
  <2>3. CASE SaveVotePackage
    <3>1. committer.seat \in Seats /\ ~Stored(committer.seat)
      BY <2>3 DEF SaveVotePackage, PassIsCurrent
    <3>2. packageRow' = [packageRow EXCEPT ![committer.seat] =
               [status |-> "COMMITTED", vote |-> committer.copies[committer.seat]]]
      BY <2>3 DEF SaveVotePackage, StorePackage
    <3> QED BY <1>1, <3>1, <3>2
  <2> QED BY <2>1, <2>2, <2>3 DEF OthersKeep, WritesPackages
<1> QED BY <1>2, <1>3, <1>4 DEF RowsGrow

\* The claim's rows go forward, and a certificate stays as it was written.
LEMMA DatabaseStepsForward ==
    ASSUME TypeOK, SavesAreOwed, OthersKeep
    PROVE  DatabaseGrows
<1> USE DEF DatabaseGrows, ClaimRows, rowVars, chainVars, jurorVars
<1>1. db \in ClaimRows
  BY DEF TypeOK
<1>2. CASE db' = db
  BY <1>2
<1>3. CASE SaveCommittee \/ SaveRoundTally \/ RecordCommitPhase \/ RecordRevealPhase
  BY <1>1, <1>3 DEF SaveCommittee, SaveRoundTally, RecordCommitPhase, RecordRevealPhase
<1>4. CASE SaveRevealedTally \/ SaveSplitTally \/ RecordDiscussion \/ RecordVerdict
  BY <1>1, <1>4 DEF SaveRevealedTally, SaveSplitTally, RecordDiscussion, RecordVerdict
<1>5. CASE SaveCertificate
  BY <1>1, <1>5 DEF SaveCertificate, SavesAreOwed, resolver, At
<1>6. CASE SettleAttempt \/ CloseTally \/ VoidAttempt \/ SaveManifest \/ SaveLock
  BY <1>1, <1>6 DEF SettleAttempt, CloseTally, VoidAttempt, SaveManifest, SaveLock
<1>7. ASSUME NEW j \in Seats, VoidForSeat(j) PROVE DatabaseGrows
  BY <1>1, <1>7 DEF VoidForSeat
<1> QED BY <1>2, <1>3, <1>4, <1>5, <1>6, <1>7 DEF OthersKeep, WritesDatabase

-----------------------------------------------------------------------------
(* The resolver's tick                                                     *)

\* Which step leads the resolver where; the step it stays at is none of them.
Leads(pc) ==
    CASE pc = "saveCommittee" -> SelectCommittee \/ OpenSecondRound
      [] pc = "saveTally" -> SaveCommittee
      [] pc = "saveSeats" -> SaveRoundTally \/ ResumeSelection \/ SaveNextSeat
      [] pc = "saveReveal" -> AdvancePhase
      [] pc = "reveal" -> \/ RecordRevealPhase \/ StartReveal \/ SaveRevealedTally
                          \/ \E k \in Seats : RevealVote(k) \/ LoseRevealReply(k)
      [] pc = "saveRevealed" -> SaveRevealedRun
      [] pc = "saveRevealedTally" -> SaveRevealedPackage
      [] pc = "saveSplit" -> OpenDiscussion
      [] pc = "saveDiscussion" -> SaveSplitTally
      [] pc = "saveCertificate" -> Finalize
      [] pc = "saveVerdict" -> SaveCertificate
      [] pc = "settleAttempt" -> RecordVerdict
      [] pc = "closeTally" -> SettleAttempt
      [] pc = "void" -> ReadAttempt
      [] OTHER -> TRUE

\* A tick arrives at a step by the one that precedes it in the code.
LEMMA TickFollowsTheCode ==
    ASSUME TypeOK, OthersKeep
    PROVE  resolver' = resolver \/ Leads(resolver'.pc)
<1> USE DEF resolver, Leads
<1>w. worker \in [Workers -> Ticks] /\ worker["resolver"] \in Ticks /\ "resolver" \in Workers
  BY DEF TypeOK, Workers
<1>1. SUFFICES ASSUME ResolverMoves PROVE Leads(resolver'.pc)
  BY DEF OthersKeep
<1>2. CASE SelectCommittee \/ OpenSecondRound \/ SaveCommittee \/ AdvancePhase \/ SaveSplitTally
           \/ SaveCertificate \/ RecordVerdict \/ SettleAttempt
           \/ SaveRevealedRun \/ SaveRevealedPackage
  BY <1>w, <1>2 DEF SelectCommittee, OpenSecondRound, SaveCommittee, AdvancePhase,
       SaveSplitTally, SaveCertificate, RecordVerdict, SettleAttempt, SaveRevealedRun,
       SaveRevealedPackage, Goto, Ticks
<1>3. CASE SaveRoundTally \/ ResumeSelection \/ SaveNextSeat
  BY <1>w, <1>3 DEF SaveRoundTally, ResumeSelection, SaveNextSeat, At, Ticks
<1>4. CASE RecordCommitPhase
  BY <1>w, <1>4 DEF RecordCommitPhase, Idle
<1>5. ASSUME NEW k \in Seats, AcceptOfferedSeat(k) PROVE Leads(resolver'.pc)
  BY <1>w, <1>5 DEF AcceptOfferedSeat, Handled, Rest, Idle, At, Ticks
<1>6. ASSUME NEW k \in Seats, RevealVote(k) PROVE Leads(resolver'.pc)
  <2>1. resolver'.pc = "reveal"
    BY <1>w, <1>6 DEF RevealVote, At, Ticks
  <2> QED BY <1>6, <2>1
<1>7. ASSUME NEW k \in Seats, BindSeat("resolver", k) PROVE Leads(resolver'.pc)
  BY <1>w, <1>7 DEF BindSeat, Handled, Rest, Idle, At, Ticks
<1>8. CASE RecordRevealPhase \/ StartReveal \/ SaveRevealedTally
  <2>1. resolver'.pc = "reveal"
    BY <1>w, <1>8 DEF RecordRevealPhase, StartReveal, SaveRevealedTally, EnterReveal, Idle, Ticks
  <2> QED BY <1>8, <2>1
<1>9. CASE WaitForReveals \/ RecordDiscussion \/ AlreadyFinalized \/ CloseTally \/ VoidAttempt
           \/ Crash("resolver")
  BY <1>w, <1>9 DEF WaitForReveals, RecordDiscussion, AlreadyFinalized, CloseTally, VoidAttempt,
       Crash, Rest, Idle
<1>10. CASE OpenDiscussion
  BY <1>w, <1>10 DEF OpenDiscussion, Goto, Rest, Idle, Ticks
<1>11. CASE Finalize
  BY <1>w, <1>11 DEF Finalize, Goto, Rest, Idle, Ticks
<1>12. CASE ReadAttempt
  BY <1>w, <1>12 DEF ReadAttempt, Goto, Rest, Idle, Ticks
<1>13. ASSUME NEW k \in Seats, LoseRevealReply(k) PROVE Leads(resolver'.pc)
  <2>1. resolver'.pc = "reveal"
    BY <1>w, <1>13 DEF LoseRevealReply, At, Ticks
  <2> QED BY <1>13, <2>1
<1> QED BY <1>1, <1>2, <1>3, <1>4, <1>5, <1>6, <1>7, <1>8, <1>9, <1>10, <1>11, <1>12, <1>13
        DEF ResolverMoves, ResolverStep

\* Only the resolver writes the phase, the tally, the reveals and the certificate, and
\* then its tick moves on.
LEMMA RestingResolverWritesNothing ==
    ASSUME TypeOK, OthersKeep, resolver' = resolver
    PROVE  /\ db'.state = db.state /\ db'.tally = db.tally
           /\ db'.revealed = db.revealed /\ db'.certificate = db.certificate
           /\ db'.attempt # db.attempt => \E k \in Seats : VoidForSeat(k)
<1> USE DEF resolver, ClaimRows
<1>w. worker \in [Workers -> Ticks] /\ worker["resolver"] \in Ticks /\ "resolver" \in Workers
      /\ db \in ClaimRows
  BY DEF TypeOK, Workers
<1>1. CASE SaveCommittee \/ SaveRoundTally \/ RecordRevealPhase \/ SaveRevealedTally
  <2>1. CASE SaveCommittee
    BY <1>w, <2>1 DEF SaveCommittee, Goto, At, Ticks
  <2>2. CASE SaveRoundTally
    <3>1. resolver.pc = "saveTally" /\ resolver'.pc = "saveSeats"
      BY <1>w, <2>2 DEF SaveRoundTally, At, Ticks
    <3> QED BY <3>1
  <2>3. CASE RecordRevealPhase
    <3>1. resolver.pc = "saveReveal" /\ resolver'.pc = "reveal"
      BY <1>w, <2>3 DEF RecordRevealPhase, EnterReveal, Idle, At, Ticks
    <3> QED BY <3>1
  <2>4. CASE SaveRevealedTally
    <3>1. resolver.pc = "saveRevealedTally" /\ resolver'.pc = "reveal"
      BY <1>w, <2>4 DEF SaveRevealedTally, At, Ticks
    <3> QED BY <3>1
  <2> QED BY <1>1, <2>1, <2>2, <2>3, <2>4
<1>2. CASE SaveSplitTally \/ RecordDiscussion \/ SaveCertificate \/ RecordVerdict \/ SettleAttempt
           \/ CloseTally \/ VoidAttempt
  BY <1>w, <1>2 DEF SaveSplitTally, RecordDiscussion, SaveCertificate, RecordVerdict,
       SettleAttempt, CloseTally, VoidAttempt, Idle, Goto, Rest, At, Ticks
<1>3. CASE SaveManifest \/ SaveLock
  BY <1>w, <1>3 DEF SaveManifest, SaveLock
<1>4. CASE RecordCommitPhase
  <2>1. resolver'.pc # resolver.pc
    BY <1>w, <1>4 DEF RecordCommitPhase, Idle, At, Ticks
  <2> QED BY <2>1
<1>5. ASSUME NEW k \in Seats, VoidForSeat(k)
      PROVE  /\ db'.state = db.state /\ db'.tally = db.tally
             /\ db'.revealed = db.revealed /\ db'.certificate = db.certificate
  BY <1>w, <1>5 DEF VoidForSeat
<1> QED BY <1>1, <1>2, <1>3, <1>4, <1>5 DEF OthersKeep, WritesDatabase

\* Each column of the claim's rows has its own writers.
LEMMA WhoWritesTheClaimRows ==
    ASSUME TypeOK, OthersKeep
    PROVE  /\ db'.state # db.state =>
                  RecordCommitPhase \/ RecordRevealPhase \/ RecordDiscussion \/ RecordVerdict
           /\ db'.committee # db.committee => SaveCommittee \/ SaveLock
           /\ db'.tally # db.tally => SaveRoundTally \/ SaveSplitTally \/ CloseTally
           /\ db'.revealed # db.revealed => SaveRevealedTally
           /\ db'.manifest # db.manifest => SaveManifest
           /\ db'.certificate # db.certificate => SaveCertificate
           /\ db'.attempt # db.attempt =>
                  VoidAttempt \/ SettleAttempt \/ \E k \in Seats : VoidForSeat(k)
           /\ db'.voidedSeat # db.voidedSeat =>
                  VoidAttempt \/ \E k \in Seats : VoidForSeat(k)
<1> USE DEF ClaimRows
<1>1. db \in ClaimRows
  BY DEF TypeOK
<1>2. CASE SaveCommittee \/ SaveRoundTally \/ RecordCommitPhase
  BY <1>1, <1>2 DEF SaveCommittee, SaveRoundTally, RecordCommitPhase
<1>3. CASE RecordRevealPhase \/ SaveRevealedTally \/ SaveSplitTally
  BY <1>1, <1>3 DEF RecordRevealPhase, SaveRevealedTally, SaveSplitTally
<1>4. CASE RecordDiscussion \/ SaveCertificate \/ RecordVerdict
  BY <1>1, <1>4 DEF RecordDiscussion, SaveCertificate, RecordVerdict
<1>5. CASE SettleAttempt \/ CloseTally \/ VoidAttempt
  BY <1>1, <1>5 DEF SettleAttempt, CloseTally, VoidAttempt
<1>6. CASE SaveManifest \/ SaveLock
  BY <1>1, <1>6 DEF SaveManifest, SaveLock
<1>7. ASSUME NEW k \in Seats, VoidForSeat(k)
      PROVE  /\ db'.state = db.state /\ db'.committee = db.committee /\ db'.tally = db.tally
             /\ db'.revealed = db.revealed /\ db'.manifest = db.manifest
             /\ db'.certificate = db.certificate
  BY <1>1, <1>7 DEF VoidForSeat
<1> QED BY <1>1, <1>2, <1>3, <1>4, <1>5, <1>6, <1>7 DEF OthersKeep, WritesDatabase

-----------------------------------------------------------------------------
(* Each part of the invariant is kept                                      *)

\* What the step lemmas know of a step whatever it is.
Kept == TypeOK /\ TypeOK' /\ OthersKeep

\* Only the transaction that opens the round deals the seats, and it deals all of them.
LEMMA DealIsKept ==
    ASSUME Kept, SeatsAreDealt, PassIsCurrent
    PROVE  SeatsAreDealt'
<1> USE DEF SeatsAreDealt, EnterState
<1>1. /\ TypeOK /\ OthersKeep
      /\ chainSeat \in [Seats -> SeatObjects] /\ chain \in ClaimObjects
  BY DEF Kept, TypeOK
<1>2. round' = round
  BY <1>1 DEF OthersKeep
<1>3. ASSUME chainSeat' = chainSeat, (chain'.state = "BEFORE") <=> (chain.state = "BEFORE")
      PROVE  SeatsAreDealt'
  BY <1>2, <1>3
<1>4. ASSUME chain'.state # "BEFORE",
             \/ chainSeat' = Seated("OFFERED") /\ round = 1
             \/ chainSeat' = Seated("ACCEPTED")
      PROVE  SeatsAreDealt'
  BY <1>2, <1>4 DEF Seated, NoChainSeat
<1>5. ASSUME chain' = chain, NEW j \in Seats, chainSeat[j].status # "NONE",
             \A k \in Seats \ {j} : chainSeat'[k] = chainSeat[k],
             chainSeat'[j].status # "NONE",
             chainSeat'[j].status = "OFFERED" => chainSeat[j].status = "OFFERED"
      PROVE  SeatsAreDealt'
  BY <1>2, <1>5
<1>6. CASE SelectCommittee
  BY <1>1, <1>4, <1>6 DEF SelectCommittee, CanSelect, ClaimObjects
<1>7. CASE OpenSecondRound
  BY <1>1, <1>4, <1>7 DEF OpenSecondRound, ClaimObjects
<1>8. CASE AdvancePhase
  BY <1>1, <1>3, <1>8 DEF AdvancePhase, CanAdvance, ClaimObjects
<1>9. CASE OpenDiscussion
  BY <1>1, <1>3, <1>9 DEF OpenDiscussion, CanDiscuss, ClaimObjects
<1>10. CASE Finalize
  <2>1. CASE CanFinalize /\ Finalized
    BY <1>1, <1>3, <1>10, <2>1 DEF Finalize, CanFinalize, Finalized, ClaimObjects
  <2>2. CASE chain' = chain
    BY <1>3, <1>10, <2>2 DEF Finalize
  <2> QED BY <1>10, <2>1, <2>2 DEF Finalize
<1>11. CASE FreezeEvidence \/ LockCommittee
  BY <1>1, <1>3, <1>11 DEF FreezeEvidence, LockCommittee, ClaimObjects
<1>12. CASE OutsiderTurnsCrank
  <2>1. CASE CanAdvance /\ EnterState("REVEAL") /\ UNCHANGED chainSeat
    BY <1>1, <1>3, <2>1 DEF CanAdvance, ClaimObjects
  <2>2. CASE CanDiscuss /\ EnterState("DISCUSSION") /\ UNCHANGED chainSeat
    BY <1>1, <1>3, <2>2 DEF CanDiscuss, ClaimObjects
  <2>3. CASE CanOpenSecond /\ EnterState("COMMIT") /\ chainSeat' = Seated("ACCEPTED")
    BY <1>1, <1>4, <2>3 DEF ClaimObjects
  <2>4. CASE CanFinalize /\ Finalized /\ UNCHANGED chainSeat
    BY <1>1, <1>3, <2>4 DEF CanFinalize, Finalized, ClaimObjects
  <2>5. CASE CanSelect /\ EnterState("COMMIT") /\ chainSeat' = Seated("OFFERED")
    BY <1>1, <1>4, <2>5 DEF CanSelect, ClaimObjects
  <2> QED BY <1>12, <2>1, <2>2, <2>3, <2>4, <2>5 DEF OutsiderTurnsCrank
<1>13. ASSUME NEW j \in Seats, AcceptOfferedSeat(j) PROVE SeatsAreDealt'
  BY <1>1, <1>3, <1>5, <1>13 DEF AcceptOfferedSeat, CanAccept, SeatObjects
<1>14. ASSUME NEW j \in Seats, RevealVote(j) PROVE SeatsAreDealt'
  BY <1>1, <1>3, <1>5, <1>14 DEF RevealVote, CanReveal, SeatObjects
<1>15. ASSUME NEW w \in Workers, NEW j \in Seats, BindSeat(w, j) PROVE SeatsAreDealt'
  BY <1>1, <1>3, <1>5, <1>15 DEF BindSeat, CanBind, SeatObjects
<1>16. ASSUME NEW j \in Seats, NEW o \in Outcomes, ApproveSeatRun(j, o) PROVE SeatsAreDealt'
  BY <1>1, <1>2, <1>16 DEF ApproveSeatRun, SeatObjects
<1>17. CASE CommitVote
  <2>1. CASE CanCommit(NextRun) /\ chainSeat' = Committed(NextRun)
    <3>1. chainSeat[NextRun].status = "ACCEPTED" /\ NextRun \in Seats /\ chain' = chain
      BY <1>17, <2>1, NextRunIsListed, <1>1 DEF CommitVote, CanCommit
    <3> QED BY <1>1, <1>5, <2>1, <3>1 DEF Committed, SeatObjects
  <2> QED BY <1>3, <1>17, <2>1 DEF CommitVote
<1> QED BY <1>1, <1>3, <1>6, <1>7, <1>8, <1>9, <1>10, <1>11, <1>12, <1>13, <1>14, <1>15, <1>16,
           <1>17 DEF OthersKeep, WritesChain, WritesSeats

\* The steps of a seat's run follow one another, and no other seat's and no reveal starts
\* it again.
LEMMA RunsStaySingle ==
    ASSUME Kept, RunsAreSingle, VotesAreInOrder, RevealsAreCurrent,
           \A k \in Seats : RowsGrow(k)
    PROVE  RunsAreSingle'
<1> USE DEF RunsAreSingle, At, juror, NotRunning
<1>1. /\ TypeOK /\ OthersKeep
      /\ worker \in [Workers -> Ticks] /\ worker["juror"] \in Ticks /\ "juror" \in Workers
      /\ seatRun \in [Seats -> SeatRuns] /\ runRow \in [Seats -> {"NONE", "FAILED"} \cup Outcomes]
      /\ approvalRow \in [Seats -> BOOLEAN] /\ "NONE" \notin Outcomes
  BY OutcomesAssumption DEF Kept, TypeOK, Workers
<1>2. CASE worker'["juror"] = worker["juror"] /\ UNCHANGED <<runRow, seatRun, approvalRow>>
  BY <1>2
<1>3. ASSUME worker["juror"].pc # "run", UNCHANGED <<runRow, seatRun, approvalRow>>,
             worker'["juror"].pc = "run" => \A k \in worker'["juror"].todo : runRow[k] = "NONE"
      PROVE  RunsAreSingle'
  BY <1>1, <1>3
<1>4. CASE StartJuryRun
  BY <1>1, <1>3, <1>4 DEF StartJuryRun, rowVars, jurorVars, Idle
<1>5. CASE StartSeats
  BY <1>1, <1>3, <1>5 DEF StartSeats, rowVars, jurorVars, Idle
<1>6. CASE EndJuryTick
  BY <1>1, <1>6 DEF EndJuryTick, rowVars, jurorVars, Rest, Idle, SeatsFinished
<1>7. CASE StartPass
  BY <1>1, <1>7 DEF StartPass, rowVars, Goto, SeatsFinished, Ticks
<1>8. ASSUME NEW j \in Seats, BindSeat("juror", j) PROVE RunsAreSingle'
  BY <1>1, <1>3, <1>8 DEF BindSeat, jurorVars, Handled, Rest, Idle, Ticks
<1>9. ASSUME NEW w \in Workers, Crash(w) PROVE RunsAreSingle'
  <2>1. CASE w = "juror"
    BY <1>1, <1>9, <2>1 DEF Crash, rowVars, Rest, Idle
  <2>2. CASE w # "juror"
    BY <1>1, <1>2, <1>9, <2>2 DEF Crash, rowVars, jurorVars, Rest
  <2> QED BY <2>1, <2>2
<1>10. ASSUME NEW j \in Seats, FailSeatRun(j) \/ \E o \in Outcomes : ApproveSeatRun(j, o)
       PROVE  RunsAreSingle'
  <2>1. PICK o \in Outcomes \cup {NoOutcome}, at \in {"approved", "failing"} :
            /\ seatRun' = [seatRun EXCEPT ![j] = [at |-> at, draft |-> o]]
            /\ at = "approved" => o \in Outcomes
    BY <1>10 DEF FailSeatRun, ApproveSeatRun, EnterSeat
  <2>2. /\ worker["juror"].pc = "run" /\ j \in worker["juror"].todo
        /\ runRow' = runRow /\ approvalRow' = approvalRow
        /\ worker'["juror"].pc = "run" /\ worker'["juror"].todo = worker["juror"].todo \ {j}
    BY <1>1, <1>10 DEF FailSeatRun, ApproveSeatRun, rowVars, Handled, Ticks
  <2> QED BY <1>1, <2>1, <2>2
<1>11. ASSUME NEW j \in Seats, SaveInferenceRun(j) PROVE RunsAreSingle'
  <2>1. /\ seatRun[j].at = "approved" /\ seatRun[j].draft \in Outcomes /\ ~approvalRow[j]
        /\ runRow' = [runRow EXCEPT ![j] = seatRun[j].draft]
        /\ seatRun' = [seatRun EXCEPT ![j] = [at |-> "saveApproval", draft |-> NoOutcome]]
        /\ UNCHANGED <<approvalRow, worker>>
    BY <1>11 DEF SaveInferenceRun, EnterSeat
  <2> QED BY <1>1, <2>1
<1>12. ASSUME NEW j \in Seats, SaveFailure(j) PROVE RunsAreSingle'
  BY <1>1, <1>12 DEF SaveFailure, EnterSeat
<1>13. ASSUME NEW j \in Seats, SaveRunApproval(j) PROVE RunsAreSingle'
  BY <1>1, <1>13 DEF SaveRunApproval
<1>14. ASSUME NEW j \in Seats, ReadAttemptForSeat(j) \/ VoidForSeat(j) PROVE RunsAreSingle'
  <2>1. PICK at \in {"void", "none"} :
            /\ seatRun[j].at \in {"failed", "void"}
            /\ seatRun' = [seatRun EXCEPT ![j] = [at |-> at, draft |-> NoOutcome]]
            /\ UNCHANGED <<runRow, approvalRow, worker>>
    BY <1>14 DEF ReadAttemptForSeat, VoidForSeat, EnterSeat, rowVars
  <2> QED BY <1>1, <2>1
<1>15. ASSUME NEW j \in Seats, RejectSeatCall(j) PROVE RunsAreSingle'
  <2>1. PICK saved \in {FALSE, seatRun[j].at = "saveApproval"} :
            approvalRow' = [approvalRow EXCEPT ![j] = saved]
    BY <1>15 DEF RejectSeatCall
  <2>2. /\ seatRun[j].at \in {"approved", "saveApproval"}
        /\ seatRun' = [seatRun EXCEPT ![j] = [at |-> "failing", draft |-> NoOutcome]]
        /\ UNCHANGED <<runRow, worker>>
    BY <1>15 DEF RejectSeatCall, EnterSeat
  <2>3. saved => runRow[j] # "NONE"
    BY <2>2
  <2> QED BY <1>1, <2>1, <2>2, <2>3
<1>16. CASE SaveRevealedRun
  <2>1. /\ runRow[NextRevealed] # "NONE" /\ packageRow[NextRevealed].vote # "NONE"
        /\ runRow' = [runRow EXCEPT ![NextRevealed] = packageRow[NextRevealed].vote]
        /\ UNCHANGED <<seatRun, approvalRow>>
    BY <1>1, <1>16, NextRevealedLanded
       DEF SaveRevealedRun, resolver, VotesAreInOrder, Sealed, jurorVars
  <2>2. worker'["juror"] = worker["juror"]
    BY <1>1, <1>16 DEF SaveRevealedRun, Goto
  <2> QED BY <1>1, <2>1, <2>2
<1> QED BY <1>1, <1>2, <1>4, <1>5, <1>6, <1>7, <1>8, <1>9, <1>10, <1>11, <1>12, <1>13, <1>14,
           <1>15, <1>16
        DEF OthersKeep, WritesRuns, WritesApprovals, WritesSeatRuns, JurorMoves, JurorStep, Workers

\* Only the pass that committed a vote stores its package.
LEMMA PassStoresPackages ==
    ASSUME TypeOK, OthersKeep, VotesAreInOrder, RevealsAreCurrent, NEW k \in Seats,
           ~Stored(k), packageRow'[k] # packageRow[k]
    PROVE  SaveVotePackage /\ k = committer.seat
<1>1. packageRow \in [Seats -> Packages]
  BY DEF TypeOK
<1>2. ASSUME SaveRevealedPackage PROVE FALSE
  <2>1. k = NextRevealed
    BY <1>1, <1>2 DEF SaveRevealedPackage
  <2>2. Stored(NextRevealed)
    BY <1>2, NextRevealedLanded DEF SaveRevealedPackage, RevealsAreCurrent, RevealSaves, resolver, At
  <2> QED BY <2>1, <2>2
<1>3. SaveVotePackage
  BY <1>2 DEF OthersKeep, WritesPackages
<1> QED BY <1>1, <1>3 DEF SaveVotePackage, StorePackage

\* The order of approval, commit, save, reveal and save.
LEMMA VotesStayInOrder ==
    ASSUME Kept, RunsAreSingle, SeatsAreDealt, VotesAreInOrder, PassIsCurrent, RevealsAreCurrent
    PROVE  VotesAreInOrder'
<1> SUFFICES ASSUME NEW k \in Seats
             PROVE  /\ Sealed(k)' => chainSeat'[k].ballot \in Outcomes /\ approvalRow'[k]
                    /\ Stored(k)' => Sealed(k)' /\ packageRow'[k].vote = chainSeat'[k].ballot
                    /\ ~Stored(k)' => packageRow'[k].vote = NoOutcome
                    /\ packageRow'[k].status = "REVEALED" => chainSeat'[k].status = "REVEALED"
                    /\ chainSeat'[k].status = "REVEALED" => Stored(k)'
                    /\ k \in db'.revealed => packageRow'[k].status = "REVEALED"
  BY DEF VotesAreInOrder
<1>1. TypeOK /\ OthersKeep /\ SeatGrows(k) /\ RowsGrow(k)
  BY SeatsStepForward, RowsStepForward DEF Kept
<1>2. /\ chainSeat \in [Seats -> SeatObjects] /\ chainSeat[k] \in SeatObjects
      /\ packageRow \in [Seats -> Packages] /\ db \in ClaimRows
  BY <1>1 DEF TypeOK
<1>3. /\ Sealed(k) => chainSeat[k].ballot \in Outcomes /\ approvalRow[k]
      /\ Stored(k) => Sealed(k) /\ packageRow[k].vote = chainSeat[k].ballot
      /\ ~Stored(k) => packageRow[k].vote = NoOutcome
      /\ packageRow[k].status = "REVEALED" => chainSeat[k].status = "REVEALED"
      /\ chainSeat[k].status = "REVEALED" => Stored(k)
      /\ k \in db.revealed => packageRow[k].status = "REVEALED"
  BY DEF VotesAreInOrder
<1>4. Sealed(k)' => chainSeat'[k].ballot \in Outcomes /\ approvalRow'[k]
  <2>1. CASE Sealed(k)
    BY <1>1, <1>3, <2>1 DEF SeatGrows, RowsGrow
  <2>2. CASE ~Sealed(k) /\ Sealed(k)'
    <3>1. CASE CommitVote
      <4>1. /\ approvalRow' = approvalRow /\ committer.pc = "next" /\ approvalRow[NextRun]
            /\ chainSeat' = Committed(NextRun)
        BY <2>2, <3>1 DEF CommitVote, rowVars, Sealed
      <4>2. NextRun \in Seats /\ committer.copies[NextRun] \in Outcomes
        BY <1>1, <4>1, NextRunIsListed
      <4>3. NextRun = k
        BY <1>2, <2>2, <4>1, <4>2 DEF Sealed, Committed
      <4>4. chainSeat'[k].ballot = committer.copies[NextRun]
        BY <1>2, <4>1, <4>2, <4>3 DEF SeatObjects, Committed
      <4> QED BY <4>1, <4>2, <4>3, <4>4
    <3>2. CASE SelectCommittee \/ OpenSecondRound \/ OutsiderTurnsCrank
      BY <1>2, <2>2, <3>2 DEF SelectCommittee, OpenSecondRound, OutsiderTurnsCrank, Sealed, Seated,
           NoChainSeat
    <3>3. ASSUME NEW j \in Seats, AcceptOfferedSeat(j) PROVE FALSE
      BY <1>2, <2>2, <3>3 DEF AcceptOfferedSeat, Sealed, SeatObjects
    <3>4. ASSUME NEW j \in Seats, RevealVote(j) PROVE FALSE
      BY <1>2, <2>2, <3>4 DEF RevealVote, CanReveal, Sealed, SeatObjects
    <3>5. ASSUME NEW w \in Workers, NEW j \in Seats, BindSeat(w, j) PROVE FALSE
      BY <1>2, <2>2, <3>5 DEF BindSeat, Sealed, SeatObjects
    <3>6. ASSUME NEW j \in Seats, NEW o \in Outcomes, ApproveSeatRun(j, o) PROVE FALSE
      BY <1>2, <2>2, <3>6 DEF ApproveSeatRun, Sealed, SeatObjects
    <3>7. chainSeat' # chainSeat
      BY <2>2 DEF Sealed
    <3> QED BY <1>1, <3>1, <3>2, <3>3, <3>4, <3>5, <3>6, <3>7 DEF OthersKeep, WritesSeats
  <2> QED BY <2>1, <2>2
<1>5. Stored(k)' => Sealed(k)' /\ packageRow'[k].vote = chainSeat'[k].ballot
  <2>1. CASE Stored(k)
    BY <1>1, <1>3, <2>1 DEF SeatGrows, RowsGrow
  <2>2. CASE ~Stored(k) /\ Stored(k)'
    <3>1. SaveVotePackage /\ k = committer.seat
      BY <1>1, <2>2, PassStoresPackages DEF Stored
    <3>2. Sealed(k) /\ chainSeat[k].ballot = committer.copies[k]
      BY <3>1 DEF SaveVotePackage, PassIsCurrent
    <3>3. packageRow'[k].vote = committer.copies[k]
      BY <1>2, <3>1 DEF SaveVotePackage, StorePackage
    <3> QED BY <1>1, <3>2, <3>3 DEF SeatGrows
  <2> QED BY <2>1, <2>2
<1>6. ~Stored(k)' => packageRow'[k].vote = NoOutcome
  <2>1. SUFFICES ASSUME ~Stored(k)', packageRow'[k] # packageRow[k] PROVE FALSE
    BY <1>3 DEF Stored
  <2>2. SaveVotePackage /\ k = committer.seat
    BY <1>1, <2>1, PassStoresPackages DEF RowsGrow
  <2> QED BY <1>2, <2>1, <2>2 DEF SaveVotePackage, StorePackage, Stored
<1>7. packageRow'[k].status = "REVEALED" => chainSeat'[k].status = "REVEALED"
  <2>1. CASE packageRow' = packageRow
    BY <1>1, <1>3, <2>1 DEF SeatGrows
  <2>2. CASE SaveVotePackage
    BY <1>1, <1>2, <1>3, <2>2 DEF SaveVotePackage, StorePackage, SeatGrows
  <2>3. CASE SaveRevealedPackage
    <3>1. chainSeat[NextRevealed].status = "REVEALED"
      BY <1>1, <2>3, NextRevealedLanded
         DEF SaveRevealedPackage, RevealsAreCurrent, RevealSaves, resolver, At
    <3> QED BY <1>1, <1>2, <1>3, <2>3, <3>1 DEF SaveRevealedPackage, SeatGrows
  <2> QED BY <1>1, <2>1, <2>2, <2>3 DEF OthersKeep, WritesPackages
<1>8. chainSeat'[k].status = "REVEALED" => Stored(k)'
  <2>1. CASE chainSeat[k].status = "REVEALED"
    BY <1>1, <1>3, <2>1 DEF RowsGrow
  <2>2. CASE chainSeat[k].status # "REVEALED" /\ chainSeat'[k].status = "REVEALED"
    <3>1. CASE CommitVote
      BY <1>2, <2>2, <3>1 DEF CommitVote, Committed, SeatObjects
    <3>2. CASE SelectCommittee \/ OpenSecondRound \/ OutsiderTurnsCrank
      BY <1>2, <2>2, <3>2 DEF SelectCommittee, OpenSecondRound, OutsiderTurnsCrank, Seated,
           NoChainSeat
    <3>3. ASSUME NEW j \in Seats, AcceptOfferedSeat(j) PROVE FALSE
      BY <1>2, <2>2, <3>3 DEF AcceptOfferedSeat, SeatObjects
    <3>4. ASSUME NEW j \in Seats, RevealVote(j) PROVE Stored(k)'
      <4>1. j = k
        BY <1>2, <2>2, <3>4 DEF RevealVote, SeatObjects
      <4>2. Stored(k)
        BY <3>4, <4>1 DEF RevealVote, RevealsAreCurrent, resolver, At, Stored
      <4> QED BY <1>1, <4>2 DEF RowsGrow
    <3>5. ASSUME NEW w \in Workers, NEW j \in Seats, BindSeat(w, j) PROVE FALSE
      BY <1>2, <2>2, <3>5 DEF BindSeat, SeatObjects
    <3>6. ASSUME NEW j \in Seats, NEW o \in Outcomes, ApproveSeatRun(j, o) PROVE FALSE
      BY <1>2, <2>2, <3>6 DEF ApproveSeatRun, SeatObjects
    <3>7. chainSeat' # chainSeat
      BY <2>2
    <3> QED BY <1>1, <3>1, <3>2, <3>3, <3>4, <3>5, <3>6, <3>7 DEF OthersKeep, WritesSeats
  <2> QED BY <2>1, <2>2
<1>9. k \in db'.revealed => packageRow'[k].status = "REVEALED"
  <2>1. CASE SaveRevealedTally
    BY <1>1, <1>2, <1>3, <2>1
       DEF SaveRevealedTally, ClaimRows, RevealsAreCurrent, rowVars, resolver, At
  <2>2. CASE db'.revealed = db.revealed
    BY <1>1, <1>3, <2>2 DEF RowsGrow
  <2> QED BY <1>1, <2>1, <2>2, WhoWritesTheClaimRows
<1> QED BY <1>4, <1>5, <1>6, <1>7, <1>8, <1>9

\* What a pass found is still so when it comes to it: nobody else locks, commits or stores.
LEMMA PassStaysCurrent ==
    ASSUME Kept, SeatsAreDealt, VotesAreInOrder, PassIsCurrent, RevealsAreCurrent,
           ChainGrows, \A k \in Seats : SeatGrows(k) /\ RowsGrow(k)
    PROVE  PassIsCurrent'
<1> USE DEF Pass
<1>1. /\ TypeOK /\ TypeOK' /\ OthersKeep /\ packageRow \in [Seats -> Packages]
      /\ committer \in Passes /\ committer' \in Passes /\ committer.todo \in SUBSET Seats
      /\ committer'.todo \in SUBSET Seats
  BY DEF Kept, TypeOK, Passes
<1>2. ASSUME committer'.pc \in {"off", "begin"} PROVE PassIsCurrent'
  BY <1>2 DEF PassIsCurrent
<1>n. NoPass.pc = "off"
  BY DEF NoPass
<1>3. CASE committer' = committer
  <2>1. ~SaveVotePackage
    BY <1>1, <1>3, PassLeavesSave
  <2>2. \A k \in Seats : ~Stored(k) => ~Stored(k)'
    BY <1>1, <2>1, PassStoresPackages DEF Stored
  <2> QED BY <1>1, <1>3, <2>2 DEF PassIsCurrent, ChainGrows, SeatGrows
<1>4. CASE StartPass \/ SaveLock \/ LoseCommitReply
  BY <1>1, <1>2, <1>n, <1>4 DEF StartPass, SaveLock, LoseCommitReply, Passes
<1>5. ASSUME NEW w \in Workers, Crash(w) PROVE PassIsCurrent'
  BY <1>2, <1>n, <1>3, <1>5 DEF Crash, jurorVars
<1>6. CASE LockCommittee
  <2>1. CASE CanLock /\ chain' = [chain EXCEPT !.locked = TRUE] /\ Pass("saveLock", {}, 0)
    BY <1>1, <2>1 DEF PassIsCurrent, TypeOK, ClaimObjects, CanLock, Passes
  <2> QED BY <1>2, <1>n, <1>6, <2>1 DEF LockCommittee
<1>7. CASE ListRuns
  <2>1. CASE committer' = NoPass
    BY <1>2, <1>n, <2>1
  <2>2. CASE ValidRuns # {} /\ committer' # NoPass
    <3>1. /\ committer'.pc = "next" /\ committer'.todo = ValidRuns
          /\ \A k \in ValidRuns : committer'.copies[k] = runRow[k]
          /\ packageRow' = packageRow
      BY <1>7, <2>2 DEF ListRuns, rowVars, ValidRuns
    <3>2. \A k \in ValidRuns : runRow[k] \in Outcomes /\ ~Stored(k)'
      BY <3>1 DEF ValidRuns, Stored
    <3> QED BY <2>2, <3>1, <3>2 DEF PassIsCurrent
  <2> QED BY <1>7, <2>1, <2>2 DEF ListRuns
<1>8. ASSUME NEW todo \in SUBSET Seats, PassOn(todo), committer.pc \in {"next", "savePackage"},
             todo \subseteq committer.todo, \A k \in todo : ~Stored(k)'
      PROVE  PassIsCurrent'
  <2>1. CASE todo # {} /\ Pass("next", todo, 0)
    <3>1. committer'.pc = "next" /\ committer'.todo = todo /\ committer'.copies = committer.copies
      BY <1>1, <2>1 DEF Passes
    <3> QED BY <1>8, <2>1, <3>1 DEF PassIsCurrent
  <2> QED BY <1>2, <1>n, <1>8, <2>1 DEF PassOn
<1>9. CASE CommitVote
  <2>1. PICK j \in Seats :
            /\ j = NextRun /\ j \in committer.todo /\ ~Stored(j)
            /\ committer.pc = "next" /\ packageRow' = packageRow
    BY <1>1, <1>9, NextRunIsListed DEF CommitVote, rowVars
  <2>2. CASE committer' = NoPass
    BY <1>2, <1>n, <2>2
  <2>3. CASE /\ Pass("savePackage", committer.todo \ {j}, j)
             /\ chainSeat' = Committed(j)
    <3>1. /\ committer'.pc = "savePackage" /\ committer'.todo = committer.todo \ {j}
          /\ committer'.seat = j /\ committer'.copies = committer.copies
      BY <1>1, <2>3 DEF Passes
    <3>2. chainSeat'[j].status = "COMMITTED" /\ chainSeat'[j].ballot = committer.copies[j]
      BY <1>1, <2>1, <2>3 DEF Committed, TypeOK, SeatObjects
    <3>3. \A k \in Seats : Stored(k)' <=> Stored(k)
      BY <2>1 DEF Stored
    <3> QED BY <1>1, <2>1, <3>1, <3>2, <3>3 DEF PassIsCurrent, Sealed
  <2> QED BY <1>9, <2>1, <2>2, <2>3 DEF CommitVote
<1>10. CASE SkipUnapproved
  <2>1. committer.pc = "next" /\ packageRow' = packageRow
    BY <1>10 DEF SkipUnapproved, rowVars
  <2>2. \A k \in committer.todo : ~Stored(k)'
    BY <2>1 DEF PassIsCurrent, Stored
  <2> QED BY <1>1, <1>8, <1>10, <2>1, <2>2 DEF SkipUnapproved
<1>11. CASE SaveVotePackage
  <2>1. /\ committer.pc = "savePackage" /\ committer.seat \notin committer.todo
        /\ \A k \in committer.todo : ~Stored(k)
    BY <1>11 DEF SaveVotePackage, PassIsCurrent
  <2>2. \A k \in committer.todo : packageRow'[k] = packageRow[k]
    BY <1>1, <1>11, <2>1 DEF SaveVotePackage, StorePackage
  <2>3. \A k \in committer.todo : ~Stored(k)'
    BY <1>1, <2>1, <2>2 DEF Stored
  <2> QED BY <1>1, <1>8, <1>11, <2>1, <2>3 DEF SaveVotePackage
<1> QED BY <1>1, <1>3, <1>4, <1>5, <1>6, <1>7, <1>9, <1>10, <1>11 DEF OthersKeep, WritesPass

\* So it is for the reveals: nobody else reveals on chain or records a reveal.
LEMMA RevealsStayCurrent ==
    ASSUME Kept, VotesAreInOrder, PassIsCurrent, RevealsAreCurrent,
           \A k \in Seats : SeatGrows(k) /\ RowsGrow(k)
    PROVE  RevealsAreCurrent'
<1>1. /\ TypeOK /\ OthersKeep /\ packageRow \in [Seats -> Packages]
      /\ worker["resolver"] \in Ticks /\ worker'["resolver"] \in Ticks /\ db \in ClaimRows
      /\ worker \in [Workers -> Ticks] /\ "resolver" \in Workers
      /\ resolver.todo \in SUBSET Seats /\ resolver.landed \in SUBSET Seats
  BY DEF Kept, TypeOK, Workers, Ticks, resolver
<1>2. CASE resolver'.pc \notin {"reveal"} \cup RevealSaves
  BY <1>2 DEF RevealsAreCurrent, RevealSaves
<1>3. CASE resolver' = resolver /\ resolver.pc \in {"reveal"} \cup RevealSaves
  <2>1. db'.revealed = db.revealed
    BY <1>1, <1>3, RestingResolverWritesNothing
  <2>2. ~SaveRevealedPackage
    BY <1>1, <1>3 DEF SaveRevealedPackage, Goto, resolver, At, Ticks
  <2>3. \A k \in Seats : Stored(k) => packageRow'[k] = packageRow[k]
    BY <1>1, <2>2 DEF OthersKeep, WritesPackages, SaveVotePackage, StorePackage, PassIsCurrent
  <2>4. NextRevealed' = NextRevealed
    BY <1>3 DEF NextRevealed, resolver
  <2>5. resolver.landed # {} => NextRevealed \in Seats
    BY <1>1, LowestIsMember DEF NextRevealed, resolver
  <2> QED BY <1>1, <1>3, <2>1, <2>3, <2>4, <2>5
          DEF RevealsAreCurrent, RevealSaves, SeatGrows, Stored
<1>4. CASE RecordRevealPhase \/ StartReveal
  <2>1. resolver' = [Idle EXCEPT !.pc = "reveal", !.todo = PendingReveals]
    BY <1>1, <1>4 DEF RecordRevealPhase, StartReveal, EnterReveal, resolver
  <2>2. packageRow' = packageRow
    BY <1>4 DEF RecordRevealPhase, StartReveal, rowVars
  <2> QED BY <2>1, <2>2 DEF RevealsAreCurrent, RevealSaves, Idle, PendingReveals
<1>5. ASSUME NEW k \in Seats, RevealVote(k) PROVE RevealsAreCurrent'
  <2>1. /\ resolver.pc = "reveal" /\ k \in resolver.todo /\ packageRow' = packageRow /\ db' = db
        /\ resolver'.pc = "reveal" /\ resolver'.todo = resolver.todo \ {k}
    BY <1>1, <1>5 DEF RevealVote, resolver, At, rowVars, Ticks
  <2>2. packageRow[k].status = "COMMITTED" /\ k \notin db.revealed
    BY <2>1 DEF RevealsAreCurrent, VotesAreInOrder
  <2>3. CASE resolver'.landed = resolver.landed
    BY <1>1, <2>1, <2>3 DEF RevealsAreCurrent, RevealSaves, SeatGrows
  <2>4. CASE resolver'.landed = resolver.landed \cup {k} /\ chainSeat'[k].status = "REVEALED"
    BY <1>1, <2>1, <2>2, <2>4 DEF RevealsAreCurrent, RevealSaves, SeatGrows
  <2>5. resolver'.landed = resolver.landed \/
            (resolver'.landed = resolver.landed \cup {k} /\ chainSeat'[k].status = "REVEALED")
    BY <1>1, <1>5 DEF RevealVote, resolver, Ticks, Kept, TypeOK, SeatObjects
  <2> QED BY <2>3, <2>4, <2>5
<1>6. ASSUME NEW k \in Seats, LoseRevealReply(k) PROVE RevealsAreCurrent'
  <2>1. /\ resolver.pc = "reveal" /\ UNCHANGED <<packageRow, chainSeat, db>>
        /\ resolver'.pc = "reveal" /\ resolver'.todo = resolver.todo
        /\ resolver'.landed = resolver.landed \ {k}
    BY <1>1, <1>6 DEF LoseRevealReply, resolver, At, rowVars, chainVars, Ticks
  <2> QED BY <2>1 DEF RevealsAreCurrent, RevealSaves
<1>7. CASE SaveRevealedRun
  <2>1. /\ resolver.pc = "reveal" /\ resolver.todo = {} /\ resolver.landed # {}
        /\ resolver'.pc = "saveRevealed" /\ UNCHANGED <<chainSeat, db, packageRow>>
        /\ resolver'.todo = resolver.todo /\ resolver'.landed = resolver.landed
    BY <1>1, <1>7 DEF SaveRevealedRun, RevealsSettled, resolver, At, Goto, chainVars, Ticks
  <2> QED BY <2>1 DEF RevealsAreCurrent, RevealSaves
<1>8. CASE SaveRevealedPackage
  <2>1. /\ resolver.pc = "saveRevealed"
        /\ packageRow' = [packageRow EXCEPT ![NextRevealed].status = "REVEALED"]
        /\ resolver'.pc = "saveRevealedTally" /\ UNCHANGED <<chainSeat, db>>
        /\ resolver'.todo = resolver.todo /\ resolver'.landed = resolver.landed
    BY <1>1, <1>8 DEF SaveRevealedPackage, resolver, At, Goto, chainVars, Ticks
  <2>2. NextRevealed' = NextRevealed
    BY <2>1 DEF NextRevealed, resolver
  <2>3. resolver.todo = {} /\ resolver.landed # {} /\ NextRevealed \in Seats
    BY <1>1, <2>1, NextRevealedLanded DEF RevealsAreCurrent, RevealSaves
  <2>4. packageRow'[NextRevealed].status = "REVEALED"
    BY <1>1, <2>1, <2>3 DEF Packages
  <2> QED BY <1>1, <2>1, <2>2, <2>3, <2>4 DEF RevealsAreCurrent, RevealSaves
<1>9. CASE SaveRevealedTally
  <2>1. /\ resolver.pc = "saveRevealedTally" /\ UNCHANGED <<chainSeat, packageRow>>
        /\ db'.revealed = db.revealed \cup {NextRevealed}
        /\ resolver'.pc = "reveal" /\ resolver'.todo = resolver.todo
        /\ resolver'.landed = resolver.landed \ {NextRevealed}
    BY <1>1, <1>9 DEF SaveRevealedTally, resolver, At, chainVars, rowVars, Ticks, ClaimRows
  <2> QED BY <1>1, <2>1 DEF RevealsAreCurrent, RevealSaves
<1>10. resolver'.pc = "reveal" => resolver' = resolver \/ Leads("reveal")
  BY <1>1, TickFollowsTheCode
<1>11. resolver'.pc = "saveRevealed" => resolver' = resolver \/ Leads("saveRevealed")
  BY <1>1, TickFollowsTheCode
<1>12. resolver'.pc = "saveRevealedTally" => resolver' = resolver \/ Leads("saveRevealedTally")
  BY <1>1, TickFollowsTheCode
<1> QED BY <1>2, <1>3, <1>4, <1>5, <1>6, <1>7, <1>8, <1>9, <1>10, <1>11, <1>12
        DEF Leads, RevealSaves

\* A revealed vote is not altered, so the rows' count changes only when a reveal is recorded.
LEMMA OutcomeIsStable ==
    ASSUME VotesAreInOrder, \A k \in Seats : RowsGrow(k), TypeOK, db'.revealed = db.revealed
    PROVE  DbOutcome' = DbOutcome
<1>1. db.revealed \in SUBSET Seats
  BY DEF TypeOK, ClaimRows
<1>2. \A k \in db.revealed : packageRow'[k].vote = packageRow[k].vote
  BY <1>1 DEF VotesAreInOrder, RowsGrow, Stored
<1>3. ASSUME NEW o PROVE DbVoters(o)' = DbVoters(o)
  BY <1>2 DEF DbVoters
<1> QED BY <1>3 DEF DbOutcome

\* The reveals begin with the step that finds every package stored; the steps after it
\* need one that came before.
LEMMA OnlyAdvanceOpensTheReveals ==
    ASSUME TypeOK, OthersKeep,
           Settling' \/ db'.state \in {"REVEAL", "DISCUSSION", "FINAL"} \/ db'.revealed # {}
    PROVE  \/ Settling \/ db.state \in {"REVEAL", "DISCUSSION", "FINAL"} \/ db.revealed # {}
           \/ AdvancePhase
<1> USE DEF Settling, SettlingSteps, At, resolver
<1>1. ASSUME db'.revealed # db.revealed PROVE Settling
  <2>1. SaveRevealedTally
    BY <1>1, WhoWritesTheClaimRows
  <2> QED BY <2>1 DEF SaveRevealedTally
<1>2. ASSUME db'.state # db.state, db'.state \in {"REVEAL", "DISCUSSION", "FINAL"} PROVE Settling
  <2>1. RecordCommitPhase \/ RecordRevealPhase \/ RecordDiscussion \/ RecordVerdict
    BY <1>2, WhoWritesTheClaimRows
  <2>2. ~RecordCommitPhase
    BY <1>2 DEF RecordCommitPhase, TypeOK, ClaimRows
  <2> QED BY <2>1, <2>2 DEF RecordRevealPhase, RecordDiscussion, RecordVerdict
<1>3. ASSUME resolver' # resolver, Settling'
      PROVE  Settling \/ db.state = "REVEAL" \/ AdvancePhase
  <2>1. Leads(resolver'.pc)
    BY <1>3, TickFollowsTheCode
  <2>2. CASE resolver'.pc = "saveReveal"
    BY <2>1, <2>2 DEF Leads
  <2>3. CASE resolver'.pc = "reveal"
    <3>1. RecordRevealPhase \/ StartReveal \/ SaveRevealedTally
          \/ \E k \in Seats : RevealVote(k) \/ LoseRevealReply(k)
      BY <2>1, <2>3 DEF Leads
    <3> QED BY <3>1 DEF RecordRevealPhase, StartReveal, SaveRevealedTally, RevealVote,
                        LoseRevealReply
  <2>4. CASE resolver'.pc \in {"saveRevealed", "saveRevealedTally", "saveSplit", "saveDiscussion"}
    BY <2>1, <2>4 DEF Leads, SaveRevealedRun, SaveRevealedPackage, OpenDiscussion, SaveSplitTally,
         Inspecting
  <2>5. CASE resolver'.pc \in {"saveCertificate", "saveVerdict", "settleAttempt", "closeTally"}
    BY <2>1, <2>5 DEF Leads, Finalize, SaveCertificate, RecordVerdict, SettleAttempt, Inspecting
  <2> QED BY <1>3, <2>2, <2>3, <2>4, <2>5
<1> QED BY <1>1, <1>2, <1>3

\* What the round has sealed stays sealed, and it is closed with every reveal recorded.
LEMMA RoundStaysSealed ==
    ASSUME Kept, RoundIsSealed, SavesAreOwed,
           ChainGrows, DatabaseGrows, \A k \in Seats : RowsGrow(k)
    PROVE  RoundIsSealed'
<1>1. TypeOK /\ TypeOK' /\ OthersKeep
  BY DEF Kept
<1>2. ASSUME AllStored PROVE AllStored'
  BY <1>2 DEF AllStored, RowsGrow
<1>3. ASSUME Rank(chain.state) >= 2 PROVE Rank(chain'.state) >= 2
  BY <1>1, <1>3 DEF ChainGrows, Rank, TypeOK, ClaimObjects, ClaimStates
<1>4. ASSUME Settling' \/ db'.state \in {"REVEAL", "DISCUSSION", "FINAL"} \/ db'.revealed # {}
      PROVE  AllStored' /\ Rank(chain'.state) >= 2 /\ db'.state # "BEFORE"
  <2>1. CASE Settling \/ db.state \in {"REVEAL", "DISCUSSION", "FINAL"} \/ db.revealed # {}
    BY <1>2, <1>3, <2>1 DEF RoundIsSealed, DatabaseGrows
  <2>2. CASE AdvancePhase
    <3>1. AllStored /\ db' = db /\ db.state = "COMMIT"
      BY <2>2 DEF AdvancePhase, AllPackagesCommitted, AllStored, Stored
    <3>2. chain'.state = "REVEAL"
      BY <1>1, <2>2 DEF AdvancePhase, EnterState, TypeOK, ClaimObjects
    <3> QED BY <1>2, <3>1, <3>2 DEF Rank
  <2> QED BY <1>1, <1>4, <2>1, <2>2, OnlyAdvanceOpensTheReveals
<1>5. ASSUME db.revealed = Seats, db.tally # "none"
      PROVE  db'.revealed = Seats /\ db'.tally # "none"
  BY <1>1, <1>5 DEF DatabaseGrows, TypeOK, ClaimRows
<1>6. resolver'.pc \in {"saveSplit", "saveCertificate"} =>
          \/ resolver' = resolver
          \/ AllRevealsRecorded /\ db' = db
  BY <1>1, TickFollowsTheCode DEF Leads, OpenDiscussion, Finalize
<1>7. db'.tally = "closed" => \/ db.tally = "closed" \/ db.certificate # "none"
                              \/ SaveSplitTally /\ resolver.pc = "saveSplit"
  <2>1. CASE SaveRoundTally
    BY <1>1, <2>1 DEF SaveRoundTally, TypeOK, ClaimRows
  <2>2. CASE CloseTally
    BY <2>2 DEF CloseTally, SavesAreOwed, resolver, At
  <2> QED BY <1>1, <2>1, <2>2, WhoWritesTheClaimRows DEF SaveSplitTally, resolver, At
<1>8. db'.certificate # "none" => db.certificate # "none" \/ resolver.pc = "saveCertificate"
  BY <1>1, WhoWritesTheClaimRows DEF SaveCertificate, resolver, At
<1>9. resolver'.pc \in {"saveSplit", "saveCertificate"} \/ db'.tally = "closed"
          \/ db'.certificate # "none" => db'.revealed = Seats /\ db'.tally # "none"
  BY <1>5, <1>6, <1>7, <1>8 DEF RoundIsSealed, AllRevealsRecorded
<1>10. resolver'.pc = "saveCertificate" \/ db'.certificate # "none" => chain'.state = "FINAL"
  <2>1. resolver'.pc = "saveCertificate" => resolver' = resolver \/ chain'.state = "FINAL"
    <3>1. CASE Finalize
      <4>1. CASE CanFinalize /\ Finalized
        BY <1>1, <4>1 DEF Finalized, TypeOK, ClaimObjects
      <4>2. CASE Rest("resolver")
        BY <1>1, <4>2 DEF Rest, resolver, Idle, TypeOK, Workers
      <4> QED BY <3>1, <4>1, <4>2 DEF Finalize
    <3> QED BY <1>1, <3>1, TickFollowsTheCode DEF Leads
  <2> QED BY <1>8, <2>1 DEF RoundIsSealed, ChainGrows
<1>11. db'.tally = "closed" => db'.certificate # "none" \/ chain'.state = "DISCUSSION"
  BY <1>7 DEF RoundIsSealed, DatabaseGrows, ChainGrows, SavesAreOwed
<1> QED BY <1>4, <1>9, <1>10, <1>11 DEF RoundIsSealed

\* With every reveal recorded, the rows and the chain count the same votes.
LEMMA RowsCountAsTheChain ==
    ASSUME VotesAreInOrder, db.revealed = Seats
    PROVE  ChainOutcome = DbOutcome
<1>1. \A k \in Seats : /\ chainSeat[k].status = "REVEALED"
                       /\ chainSeat[k].ballot = packageRow[k].vote
  BY DEF VotesAreInOrder
<1>2. ASSUME NEW o PROVE ChainVoters(o) = DbVoters(o)
  BY <1>1 DEF ChainVoters, DbVoters
<1> QED BY <1>2 DEF ChainOutcome, DbOutcome

\* A save that is owed stays owed until it is made: nothing on chain is taken back.
LEMMA SavesStayOwed ==
    ASSUME Kept, PhaseTrails, SavesAreOwed, RoundIsSealed, VotesAreInOrder,
           ChainGrows, DatabaseGrows, \A k \in Seats : RowsGrow(k)
    PROVE  SavesAreOwed'
<1>1. /\ TypeOK /\ TypeOK' /\ OthersKeep
      /\ worker \in [Workers -> Ticks] /\ "resolver" \in Workers /\ "evidencer" \in Workers
      /\ chain \in ClaimObjects /\ db \in ClaimRows
  BY DEF Kept, TypeOK, Workers
<1>2. resolver'.pc \in {"saveCommittee", "saveTally", "saveSeats"} => chain'.state # "BEFORE"
  <2>1. CASE resolver' = resolver
    BY <2>1 DEF SavesAreOwed, ChainGrows
  <2>2. CASE SelectCommittee \/ OpenSecondRound
    BY <1>1, <2>2 DEF SelectCommittee, OpenSecondRound, EnterState, ClaimObjects
  <2>3. CASE SaveCommittee \/ SaveRoundTally \/ SaveNextSeat
    BY <2>3 DEF SaveCommittee, SaveRoundTally, SaveNextSeat, SavesAreOwed, ChainGrows, resolver, At
  <2>4. CASE ResumeSelection
    BY <2>4 DEF ResumeSelection, PhaseTrails, ChainGrows
  <2> QED BY <1>1, <2>1, <2>2, <2>3, <2>4, TickFollowsTheCode DEF Leads
<1>3. resolver'.pc \in {"saveCommittee", "saveTally"} => db'.tally = "none"
  <2>1. CASE resolver' = resolver
    BY <1>1, <2>1, RestingResolverWritesNothing DEF SavesAreOwed
  <2>2. CASE SelectCommittee \/ OpenSecondRound
    BY <2>2 DEF SelectCommittee, OpenSecondRound, CanSelect, CanOpenSecond, PhaseTrails
  <2>3. CASE SaveCommittee
    BY <1>1, <2>3 DEF SaveCommittee, SavesAreOwed, resolver, At, ClaimRows
  <2> QED BY <1>1, <2>1, <2>2, <2>3, TickFollowsTheCode DEF Leads
<1>4. worker'["evidencer"].pc = "saveManifest" => chain'.frozen
  <2>1. CASE worker'["evidencer"] = worker["evidencer"]
    BY <2>1 DEF SavesAreOwed, ChainGrows
  <2>2. CASE FreezeEvidence
    BY <1>1, <2>2 DEF FreezeEvidence, ClaimObjects
  <2>3. CASE Crash("evidencer")
    BY <1>1, <2>3 DEF Crash, Rest, Idle
  <2>5. CASE SaveManifest
    <3> DEFINE unbound == {k \in Seats : seatRow[k].status # "NONE" /\ ~seatRow[k].bound}
    <3>1. worker'["evidencer"] = IF db.tally = "none" \/ unbound = {} THEN Idle
                                 ELSE [Idle EXCEPT !.pc = "bind", !.todo = unbound]
      BY <1>1, <2>5 DEF SaveManifest
    <3> HIDE DEF unbound
    <3> QED BY <3>1 DEF Idle
  <2>4. ASSUME NEW k \in Seats, BindSeat("evidencer", k)
        PROVE  worker'["evidencer"].pc # "saveManifest"
    BY <1>1, <2>4 DEF BindSeat, Handled, Rest, Idle, At, Ticks
  <2> QED BY <1>1, <2>1, <2>2, <2>3, <2>4, <2>5 DEF OthersKeep, EvidencerMoves, EvidencerStep
<1>5. ASSUME OpenDiscussion, resolver'.pc = "saveSplit"
      PROVE  chain'.state = "DISCUSSION" /\ DbOutcome = NoOutcome
             /\ db.certificate = "none" /\ db' = db
  <2>1. ~Rest("resolver")
    BY <1>1, <1>5 DEF Rest, resolver, Idle
  <2> QED BY <1>1, <1>5, <2>1 DEF OpenDiscussion, EnterState, ClaimObjects
<1>6. ASSUME Finalize, resolver'.pc = "saveCertificate"
      PROVE  chain'.verdict = DbOutcome /\ db.certificate = "none" /\ db' = db
  <2>1. ~Rest("resolver")
    BY <1>1, <1>6 DEF Rest, resolver, Idle
  <2>2. Finalized /\ db.revealed = Seats /\ db.certificate = "none" /\ db' = db
    BY <1>6, <2>1 DEF Finalize, AllRevealsRecorded
  <2> QED BY <1>1, <2>2, RowsCountAsTheChain DEF Finalized, ClaimObjects
<1>7. resolver'.pc \in {"saveSplit", "saveDiscussion"} =>
          chain'.state = "DISCUSSION" /\ db'.certificate = "none"
  <2>1. CASE resolver' = resolver
    BY <1>1, <2>1, RestingResolverWritesNothing DEF SavesAreOwed, ChainGrows
  <2>2. CASE SaveSplitTally
    BY <1>1, <2>2 DEF SaveSplitTally, SavesAreOwed, ChainGrows, resolver, At, ClaimRows
  <2> QED BY <1>1, <1>5, <2>1, <2>2, TickFollowsTheCode DEF Leads
<1>8. resolver'.pc = "saveSplit" => DbOutcome' = NoOutcome
  <2>1. CASE resolver' = resolver
    BY <1>1, <2>1, RestingResolverWritesNothing, OutcomeIsStable DEF SavesAreOwed
  <2> QED BY <1>1, <1>5, <2>1, TickFollowsTheCode, OutcomeIsStable DEF Leads
<1>9. resolver'.pc = "saveCertificate" => chain'.verdict = DbOutcome' /\ db'.certificate = "none"
  <2>1. CASE resolver' = resolver /\ resolver.pc = "saveCertificate"
    BY <1>1, <2>1, RestingResolverWritesNothing, OutcomeIsStable
       DEF SavesAreOwed, RoundIsSealed, ChainGrows
  <2> QED BY <1>1, <1>6, <2>1, TickFollowsTheCode, OutcomeIsStable DEF Leads
<1>10. resolver'.pc \in {"saveVerdict", "settleAttempt", "closeTally"} => db'.certificate # "none"
  <2>1. CASE resolver' = resolver
    BY <1>1, <2>1, RestingResolverWritesNothing DEF SavesAreOwed
  <2>2. CASE SaveCertificate
    <3>1. db'.certificate = DbOutcome
      BY <1>1, <2>2 DEF SaveCertificate, ClaimRows
    <3>2. DbOutcome \in Outcomes \cup {NoOutcome}
      BY DEF DbOutcome
    <3> QED BY <3>1, <3>2, OutcomesAssumption DEF NoOutcome
  <2>3. CASE RecordVerdict \/ SettleAttempt
    BY <2>3 DEF RecordVerdict, SettleAttempt, SavesAreOwed, DatabaseGrows, resolver, At
  <2> QED BY <1>1, <2>1, <2>2, <2>3, TickFollowsTheCode DEF Leads
<1> QED BY <1>2, <1>3, <1>4, <1>7, <1>8, <1>9, <1>10 DEF SavesAreOwed

\* A seat without an approval has no package, and a recorded round misses none: the void of
\* such a seat never meets a settlement, in whatever order the two workers write.
LEMMA AttemptStaysOneThing ==
    ASSUME Kept, VotesAreInOrder, SavesAreOwed, RoundIsSealed, AttemptIsOneThing,
           DatabaseGrows, \A k \in Seats : RowsGrow(k)
    PROVE  AttemptIsOneThing'
<1>1. /\ TypeOK /\ TypeOK' /\ OthersKeep
      /\ worker \in [Workers -> Ticks] /\ "resolver" \in Workers
      /\ db \in ClaimRows
  BY DEF Kept, TypeOK, Workers
<1>2. db.certificate # "none" => AllStored /\ db.revealed = Seats /\ db.tally # "none"
                                 /\ db.state # "BEFORE"
  <2>1. 1 \in Seats
    BY SeatsAssumption DEF Seats
  <2> QED BY <2>1 DEF RoundIsSealed
<1>3. ASSUME db'.certificate # db.certificate PROVE Settling
  BY <1>1, <1>3, WhoWritesTheClaimRows
     DEF SaveCertificate, Settling, SettlingSteps, resolver, At
<1>4. ASSUME db.attempt = "VOIDED", Settling' PROVE Settling
  <2>1. CASE resolver' = resolver
    BY <1>4, <2>1 DEF Settling
  <2>2. CASE resolver'.pc = "saveReveal" /\ AdvancePhase
    BY <1>4, <2>2 DEF AdvancePhase, Alive
  <2>3. CASE resolver'.pc = "reveal" /\ Leads("reveal")
    BY <1>4, <2>3 DEF Leads, RecordRevealPhase, StartReveal, SaveRevealedTally, RevealVote,
         LoseRevealReply, Alive, Settling, SettlingSteps, resolver, At
  <2>4. CASE resolver'.pc \in {"saveRevealed", "saveRevealedTally", "saveSplit", "saveDiscussion"}
             /\ Leads(resolver'.pc)
    BY <2>4 DEF Leads, SaveRevealedRun, SaveRevealedPackage, OpenDiscussion, SaveSplitTally,
         Inspecting, Settling, SettlingSteps, resolver, At
  <2>5. CASE resolver'.pc \in {"saveCertificate", "saveVerdict", "settleAttempt", "closeTally"}
             /\ Leads(resolver'.pc)
    BY <2>5 DEF Leads, Finalize, SaveCertificate, RecordVerdict, SettleAttempt, Inspecting,
         Settling, SettlingSteps, resolver, At
  <2>6. resolver' = resolver \/ Leads(resolver'.pc)
    BY <1>1, TickFollowsTheCode
  <2>7. resolver'.pc = "saveReveal" /\ Leads(resolver'.pc) => AdvancePhase
    BY DEF Leads
  <2> QED BY <1>4, <2>1, <2>2, <2>3, <2>4, <2>5, <2>6, <2>7 DEF Settling, SettlingSteps
<1>5. ASSUME VoidAttempt PROVE ~Settling' /\ db'.certificate = "none"
  BY <1>1, <1>5 DEF VoidAttempt, Rest, Idle, Settling, SettlingSteps, AttemptIsOneThing, resolver,
       At, ClaimRows
<1>6. ASSUME NEW k \in Seats, VoidForSeat(k), ~VoidedAfterApproval'
      PROVE  ~Settling' /\ db'.certificate = "none"
  <2>1. /\ worker' = worker /\ approvalRow' = approvalRow
        /\ db'.certificate = db.certificate /\ db'.voidedSeat = k
    BY <1>1, <1>6 DEF VoidForSeat, ClaimRows, rowVars
  <2>2. ~approvalRow[k]
    BY <1>6, <2>1 DEF VoidedAfterApproval
  <2>3. ~AllStored
    BY <2>2 DEF AllStored, VotesAreInOrder
  <2> QED BY <1>2, <2>1, <2>3 DEF RoundIsSealed, Settling, resolver
<1>7. ASSUME db'.voidedSeat = db.voidedSeat, VoidedAfterApproval PROVE VoidedAfterApproval'
  BY <1>7 DEF VoidedAfterApproval, RowsGrow
<1>8. db'.attempt = "VOIDED" /\ ~VoidedAfterApproval' => ~Settling' /\ db'.certificate = "none"
  <2>1. CASE db'.voidedSeat = db.voidedSeat /\ db.attempt = "VOIDED"
    BY <1>3, <1>4, <1>7, <2>1 DEF AttemptIsOneThing
  <2>2. CASE SettleAttempt
    BY <1>1, <2>2 DEF SettleAttempt, ClaimRows
  <2> QED BY <1>1, <1>5, <1>6, <2>1, <2>2, WhoWritesTheClaimRows
<1>9. db'.attempt = "SETTLED" => db'.certificate # "none"
  <2>1. CASE db.attempt = "SETTLED"
    BY <2>1 DEF AttemptIsOneThing, DatabaseGrows
  <2>2. CASE SettleAttempt
    BY <2>2 DEF SettleAttempt, SavesAreOwed, DatabaseGrows, resolver, At
  <2>3. CASE VoidAttempt
    BY <1>1, <2>3 DEF VoidAttempt, ClaimRows
  <2>4. ASSUME NEW k \in Seats, VoidForSeat(k) PROVE db'.attempt # "SETTLED"
    BY <1>1, <2>4 DEF VoidForSeat, ClaimRows
  <2> QED BY <1>1, <2>1, <2>2, <2>3, <2>4, WhoWritesTheClaimRows
<1>10. resolver'.pc = "void" => db'.certificate = "none"
  <2>1. CASE resolver' = resolver
    BY <1>1, <2>1, RestingResolverWritesNothing DEF AttemptIsOneThing
  <2>2. CASE ReadAttempt
    <3>1. db' = db /\ (MissingCommittee \/ MissingCommit \/ MissingReveal)
      BY <2>2 DEF ReadAttempt
    <3>2. db.certificate = "none"
      BY <1>2, <3>1 DEF MissingCommittee, MissingCommit, MissingReveal, AllPackagesCommitted,
           AllRevealsRecorded, AllStored, Stored
    <3> QED BY <3>1, <3>2
  <2> QED BY <1>1, <2>1, <2>2, TickFollowsTheCode DEF Leads
<1> QED BY <1>8, <1>9, <1>10 DEF AttemptIsOneThing

\* No save overtakes its transaction.
LEMMA RowsStayBehind ==
    ASSUME Kept, PhaseTrails, SavesAreOwed, PassIsCurrent, RoundIsSealed, ChainGrows
    PROVE  PhaseTrails'
<1>1. /\ TypeOK /\ TypeOK' /\ OthersKeep /\ round' = round
      /\ chain \in ClaimObjects /\ db \in ClaimRows /\ chain' \in ClaimObjects
  BY DEF Kept, TypeOK, OthersKeep
<1>2. Rank(db'.state) <= Rank(chain'.state)
      /\ (db'.state \in {"DISCUSSION", "FINAL"} => db'.state = chain'.state)
  <2>1. CASE db'.state = db.state
    BY <1>1, <2>1 DEF PhaseTrails, ChainGrows, Rank, ClaimRows, ClaimObjects, ClaimStates
  <2>2. CASE RecordCommitPhase
    <3>1. db'.state = "COMMIT" /\ chain'.state # "BEFORE"
      BY <1>1, <2>2 DEF RecordCommitPhase, SavesAreOwed, ChainGrows, resolver, At, ClaimRows
    <3> QED BY <1>1, <3>1 DEF Rank, ClaimObjects, ClaimStates
  <2>3. CASE RecordRevealPhase
    <3>1. db'.state = "REVEAL" /\ Rank(chain.state) >= 2
      BY <1>1, <2>3 DEF RecordRevealPhase, RoundIsSealed, Settling, SettlingSteps, resolver, At,
           ClaimRows
    <3> QED BY <1>1, <3>1 DEF Rank, ChainGrows, ClaimObjects, ClaimStates
  <2>4. CASE RecordDiscussion
    BY <1>1, <2>4 DEF RecordDiscussion, SavesAreOwed, ChainGrows, resolver, At, ClaimRows, Rank
  <2>5. CASE RecordVerdict
    BY <1>1, <2>5 DEF RecordVerdict, SavesAreOwed, RoundIsSealed, ChainGrows, resolver, At,
         ClaimRows, Rank
  <2> QED BY <1>1, <2>1, <2>2, <2>3, <2>4, <2>5, WhoWritesTheClaimRows
<1>3. db'.committee # "none" => round' = 2 \/ chain'.state # "BEFORE"
  <2>1. CASE SaveCommittee
    BY <2>1 DEF SaveCommittee, SavesAreOwed, ChainGrows, resolver, At
  <2>2. CASE SaveLock
    BY <2>2 DEF SaveLock, PassIsCurrent, ChainGrows
  <2> QED BY <1>1, <2>1, <2>2, WhoWritesTheClaimRows DEF PhaseTrails, ChainGrows
<1>4. db'.committee = "locked" => chain'.locked
  <2>1. CASE SaveCommittee
    BY <1>1, <2>1 DEF SaveCommittee, PhaseTrails, ChainGrows, ClaimRows
  <2>2. CASE SaveLock
    BY <2>2 DEF SaveLock, PassIsCurrent, ChainGrows
  <2> QED BY <1>1, <2>1, <2>2, WhoWritesTheClaimRows DEF PhaseTrails, ChainGrows
<1>5. db'.tally # "none" => chain'.state # "BEFORE"
  <2>1. CASE SaveRoundTally
    BY <2>1 DEF SaveRoundTally, SavesAreOwed, ChainGrows, resolver, At
  <2>2. CASE SaveSplitTally
    BY <2>2 DEF SaveSplitTally, SavesAreOwed, ChainGrows, resolver, At
  <2>3. CASE CloseTally
    BY <2>3 DEF CloseTally, SavesAreOwed, RoundIsSealed, ChainGrows, resolver, At
  <2> QED BY <1>1, <2>1, <2>2, <2>3, WhoWritesTheClaimRows DEF PhaseTrails, ChainGrows
<1>6. db'.manifest => chain'.frozen
  <2>1. CASE SaveManifest
    BY <2>1 DEF SaveManifest, SavesAreOwed, ChainGrows, At
  <2> QED BY <1>1, <2>1, WhoWritesTheClaimRows DEF PhaseTrails, ChainGrows
<1>7. db'.certificate # "none" => db'.certificate = chain'.verdict
  <2>1. CASE SaveCertificate
    BY <1>1, <2>1 DEF SaveCertificate, SavesAreOwed, RoundIsSealed, ChainGrows, resolver, At,
         ClaimRows
  <2> QED BY <1>1, <2>1, WhoWritesTheClaimRows DEF PhaseTrails, RoundIsSealed, ChainGrows
<1> QED BY <1>2, <1>3, <1>4, <1>5, <1>6, <1>7 DEF PhaseTrails

\* Nor does the save of a seat's row.
LEMMA SeatRowsStayBehind ==
    ASSUME Kept, SeatsAreDealt, SavesAreOwed, NEW k \in Seats, SeatTrails(k), SeatGrows(k),
           VotesAreInOrder'
    PROVE  SeatTrails(k)'
<1>1. /\ TypeOK /\ TypeOK' /\ OthersKeep
      /\ chainSeat \in [Seats -> SeatObjects] /\ seatRow \in [Seats -> SeatRows]
      /\ chainSeat[k] \in SeatObjects /\ seatRow[k] \in SeatRows
  BY DEF Kept, TypeOK
<1>2. /\ seatRow'[k].status # "NONE" => chainSeat'[k].status # "NONE"
      /\ seatRow'[k].status = "ACCEPTED" => chainSeat'[k].status # "OFFERED"
      /\ seatRow'[k].bound => chainSeat'[k].bound
  <2>1. CASE seatRow'[k] = seatRow[k]
    BY <1>1, <2>1 DEF SeatTrails, SeatGrows
  <2>2. CASE SaveNextSeat /\ seatRow'[k] # seatRow[k]
    <3>1. seatRow'[k] = [status |-> IF round = 1 THEN "OFFERED" ELSE "ACCEPTED", bound |-> FALSE]
      BY <1>1, <2>2 DEF SaveNextSeat
    <3>2. /\ chainSeat' = chainSeat /\ chainSeat[k].status # "NONE"
          /\ round # 1 => chainSeat[k].status # "OFFERED"
      BY <1>1, <2>2 DEF SaveNextSeat, chainVars, SavesAreOwed, SeatsAreDealt, resolver, At, TypeOK
    <3> QED BY <3>1, <3>2
  <2>3. ASSUME NEW j \in Seats, AcceptOfferedSeat(j), seatRow'[k] # seatRow[k]
        PROVE  /\ seatRow'[k].status # "NONE" => chainSeat'[k].status # "NONE"
               /\ seatRow'[k].status = "ACCEPTED" => chainSeat'[k].status # "OFFERED"
               /\ seatRow'[k].bound => chainSeat'[k].bound
    <3>1. PICK b \in {seatRow[j].bound, FALSE} :
              /\ seatRow' = [seatRow EXCEPT ![j] = [status |-> "ACCEPTED", bound |-> b]]
              /\ chainSeat' = [chainSeat EXCEPT ![j].status = "ACCEPTED"]
      BY <2>3 DEF AcceptOfferedSeat
    <3>2. j = k
      BY <1>1, <2>3, <3>1
    <3>3. /\ seatRow'[k] = [status |-> "ACCEPTED", bound |-> b]
          /\ chainSeat'[k].status = "ACCEPTED" /\ chainSeat'[k].bound = chainSeat[k].bound
      BY <1>1, <3>1, <3>2 DEF SeatObjects
    <3>4. seatRow[k].bound \in BOOLEAN /\ chainSeat[k].bound \in BOOLEAN
      BY <1>1 DEF SeatRows, SeatObjects
    <3>5. b => chainSeat[k].bound
      BY <3>1, <3>2, <3>4 DEF SeatTrails
    <3> QED BY <3>3, <3>5
  <2>4. ASSUME NEW w \in Workers, NEW j \in Seats, BindSeat(w, j), seatRow'[k] # seatRow[k]
        PROVE  /\ seatRow'[k].status # "NONE" => chainSeat'[k].status # "NONE"
               /\ seatRow'[k].status = "ACCEPTED" => chainSeat'[k].status # "OFFERED"
               /\ seatRow'[k].bound => chainSeat'[k].bound
    <3>1. /\ seatRow' = [seatRow EXCEPT ![j].bound = TRUE]
          /\ chainSeat' = [chainSeat EXCEPT ![j].bound = TRUE]
      BY <2>4 DEF BindSeat
    <3>2. j = k
      BY <1>1, <2>4, <3>1
    <3>3. /\ seatRow'[k].status = seatRow[k].status
          /\ chainSeat'[k].status = chainSeat[k].status /\ chainSeat'[k].bound = TRUE
      BY <1>1, <3>1, <3>2 DEF SeatObjects, SeatRows
    <3> QED BY <3>3 DEF SeatTrails
  <2> QED BY <1>1, <2>1, <2>2, <2>3, <2>4 DEF OthersKeep, WritesSeatRows
<1>3. /\ packageRow'[k].status # "NONE" =>
             /\ chainSeat'[k].status \in {"COMMITTED", "REVEALED"}
             /\ chainSeat'[k].ballot = packageRow'[k].vote
      /\ packageRow'[k].status = "REVEALED" \/ k \in db'.revealed =>
             chainSeat'[k].status = "REVEALED"
  BY DEF VotesAreInOrder, Sealed, Stored
<1> QED BY <1>2, <1>3 DEF SeatTrails

-----------------------------------------------------------------------------
(* The invariant, and the theorems                                         *)

\* Nothing is drawn, run, revealed or owed at first.
LEMMA EngineInvInitially == ASSUME Init PROVE EngineInv
<1>1. /\ round \in {1, 2} /\ worker = [w \in Workers |-> Idle] /\ worker["resolver"] = Idle
      /\ worker["evidencer"] = Idle /\ worker["juror"] = Idle
  BY RoundsAssumption DEF Init, Workers
<1>2. worker \in [Workers -> Ticks]
  BY <1>1 DEF Idle, Ticks, TickSteps
<1>3. /\ chainSeat \in [Seats -> SeatObjects] /\ seatRow \in [Seats -> SeatRows]
      /\ runRow \in [Seats -> {"NONE", "FAILED"} \cup Outcomes]
      /\ approvalRow \in [Seats -> BOOLEAN]
      /\ packageRow \in [Seats -> Packages] /\ seatRun \in [Seats -> SeatRuns]
  BY DEF Init, NoChainSeat, NoRow, NotRunning, NoPackage, SeatObjects, SeatStatuses, SeatRows,
         SeatRuns, SeatSteps, Packages
<1>4. chain \in ClaimObjects /\ db \in ClaimRows
  BY <1>1, SeatsAssumption DEF Init, ClaimObjects, ClaimRows, ClaimStates, Verdicts
<1>5. committer \in Passes /\ now \in 0 .. After /\ faults \in 0 .. MaxFaults[round]
  BY <1>1, FaultsAssumption, PassEnds DEF Init, After, CommitDeadline
<1>6. TypeOK
  BY <1>1, <1>2, <1>3, <1>4, <1>5 DEF TypeOK
<1>7. PhaseTrails
  <2>1. /\ chain.state = "BEFORE" /\ db.state = "BEFORE" /\ db.tally = "none" /\ ~db.manifest
        /\ db.certificate = "none"
    BY DEF Init
  <2>2. db.committee # "none" => round = 2 /\ db.committee = "locked"
    BY DEF Init
  <2>3. round = 2 => chain.locked
    <3>1. ASSUME round = 2 PROVE chain.locked = TRUE
      BY <3>1 DEF Init
    <3> QED BY <3>1
  <2> QED BY <2>1, <2>2, <2>3 DEF PhaseTrails, Rank
<1>8. /\ SeatsAreDealt /\ VotesAreInOrder /\ PassIsCurrent
      /\ \A k \in Seats : SeatTrails(k)
  BY DEF Init, NoRow, NoChainSeat, NoPackage, NoPass, SeatsAreDealt, VotesAreInOrder,
         PassIsCurrent, Sealed, Stored, SeatTrails
<1>9. RunsAreSingle
  <2>1. ~At("juror", "run") /\ \A k \in Seats : seatRun[k] = NotRunning /\ ~approvalRow[k]
    BY <1>1 DEF Init, At, Idle
  <2> QED BY <2>1 DEF RunsAreSingle, NotRunning
<1>10. resolver.pc = "idle" /\ worker["evidencer"].pc = "idle" /\ ~Settling
  BY <1>1 DEF resolver, Idle, Settling, SettlingSteps
<1>11. RevealsAreCurrent /\ SavesAreOwed /\ RoundIsSealed /\ AttemptIsOneThing
  BY <1>10 DEF Init, RevealsAreCurrent, RevealSaves, SavesAreOwed, RoundIsSealed,
       AttemptIsOneThing
<1> QED BY <1>6, <1>7, <1>8, <1>9, <1>11 DEF EngineInv

\* What the step lemmas rest on.
LEMMA StepGrows ==
    ASSUME EngineInv, [Next]_vars
    PROVE  /\ Kept /\ ChainGrows /\ DatabaseGrows
           /\ \A k \in Seats : SeatGrows(k) /\ RowsGrow(k)
<1>1. TypeOK'
  BY StepKeepsTypes DEF EngineInv
<1>2. OthersKeep
  BY WhoWrites DEF EngineInv, TypeOK
<1> QED BY <1>1, <1>2, ChainStepsForward, SeatsStepForward, RowsStepForward, DatabaseStepsForward
        DEF EngineInv, Kept

\* No step of a worker, a crash or a stranger breaks any part of it.
LEMMA EngineInvKept == ASSUME EngineInv, [Next]_vars PROVE EngineInv'
<1>1. /\ Kept /\ ChainGrows /\ DatabaseGrows
      /\ \A k \in Seats : SeatGrows(k) /\ RowsGrow(k)
  BY StepGrows
<1>2. VotesAreInOrder'
  BY <1>1, VotesStayInOrder DEF EngineInv
<1>3. SeatsAreDealt' /\ RunsAreSingle'
  BY <1>1, DealIsKept, RunsStaySingle DEF EngineInv
<1>4. PassIsCurrent' /\ RevealsAreCurrent'
  BY <1>1, PassStaysCurrent, RevealsStayCurrent DEF EngineInv
<1>5. SavesAreOwed' /\ RoundIsSealed' /\ AttemptIsOneThing'
  BY <1>1, SavesStayOwed, RoundStaysSealed, AttemptStaysOneThing DEF EngineInv
<1>6. PhaseTrails' /\ \A k \in Seats : SeatTrails(k)'
  BY <1>1, <1>2, RowsStayBehind, SeatRowsStayBehind DEF EngineInv
<1> QED BY <1>1, <1>2, <1>3, <1>4, <1>5, <1>6 DEF EngineInv, Kept

\* What the workers rely on between two steps holds throughout.
LEMMA EngineInvariant == Spec => []EngineInv
<1> QED BY EngineInvInitially, EngineInvKept, PTL DEF Spec

\* Every row, object and tick keeps its type.
THEOREM EngineTypes == Spec => []TypeOK
<1>1. EngineInv => TypeOK
  BY DEF EngineInv
<1> QED BY <1>1, EngineInvariant, PTL

\* No row is ever ahead of the chain: each is saved after its transaction returned, and no
\* crash, lost reply or stale copy of a row changes that (lib/engine/engine.ts).
THEOREM DatabaseNeverLeads == Spec => []DatabaseTrailsChain
<1>1. EngineInv => DatabaseTrailsChain
  BY DEF EngineInv, DatabaseTrailsChain
<1> QED BY <1>1, EngineInvariant, PTL

\* A voided attempt has no certificate, although the inference worker voids and the
\* resolution worker certifies without looking at each other, unless the void is that of a
\* seat that failed after its approval was recorded (lib/engine/engine.ts voidAttempt,
\* finalize, persistInferenceFailure).
THEOREM VoidedStaysUncertified == Spec => []VoidedIsNotCertified
<1>1. EngineInv => VoidedIsNotCertified
  BY DEF EngineInv, AttemptIsOneThing, VoidedIsNotCertified
<1> QED BY <1>1, EngineInvariant, PTL

\* A void is overwritten by a settlement, or a settlement by a void, only if the void is
\* that of a seat that failed after its approval.
LEMMA DecidedAttemptStays ==
    ASSUME EngineInv, [Next]_vars, db.attempt # "ACTIVE", db'.attempt # db.attempt
    PROVE  VoidedAfterApproval'
<1>1. /\ TypeOK /\ OthersKeep /\ AttemptIsOneThing /\ RoundIsSealed /\ VotesAreInOrder
      /\ db \in ClaimRows
  BY StepGrows DEF EngineInv, Kept, TypeOK
<1>2. db.attempt \in {"VOIDED", "SETTLED"}
  BY <1>1 DEF ClaimRows
<1>3. ASSUME VoidAttempt PROVE FALSE
  <2>1. db.certificate = "none" /\ db'.attempt = "VOIDED"
    BY <1>1, <1>3 DEF VoidAttempt, AttemptIsOneThing, resolver, At, ClaimRows
  <2> QED BY <1>1, <1>2, <2>1 DEF AttemptIsOneThing
<1>4. ASSUME NEW k \in Seats, VoidForSeat(k) PROVE VoidedAfterApproval'
  <2>1. db'.attempt = "VOIDED" /\ db'.voidedSeat = k /\ approvalRow' = approvalRow
    BY <1>1, <1>4 DEF VoidForSeat, ClaimRows, rowVars
  <2>2. db.certificate # "none"
    BY <1>1, <1>2, <2>1 DEF AttemptIsOneThing
  <2>3. Stored(k)
    <3>1. 1 \in Seats
      BY SeatsAssumption DEF Seats
    <3> QED BY <1>1, <2>2, <3>1 DEF RoundIsSealed, AllStored
  <2>4. approvalRow[k]
    BY <1>1, <2>3 DEF VotesAreInOrder
  <2> QED BY <2>1, <2>4 DEF VoidedAfterApproval
<1>5. ASSUME SettleAttempt PROVE VoidedAfterApproval'
  <2>1. /\ db'.attempt = "SETTLED" /\ Settling
        /\ db'.voidedSeat = db.voidedSeat /\ approvalRow' = approvalRow
    BY <1>1, <1>5 DEF SettleAttempt, Settling, SettlingSteps, resolver, At, ClaimRows, rowVars
  <2>2. VoidedAfterApproval
    BY <1>1, <1>2, <2>1 DEF AttemptIsOneThing
  <2> QED BY <2>1, <2>2 DEF VoidedAfterApproval
<1> QED BY <1>1, <1>3, <1>4, <1>5, WhoWritesTheClaimRows

\* An attempt is decided once, whichever worker writes last, but for a seat's failure after
\* its approval (lib/engine/engine.ts voidAttempt, finalize, persistInferenceFailure).
THEOREM AttemptsAreDecidedOnce == Spec => AttemptDecidedOnce
<1>1. EngineInv /\ [Next]_vars =>
          (db.attempt # "ACTIVE" /\ db'.attempt # db.attempt => VoidedAfterApproval')
  BY DecidedAttemptStays
<1> QED BY <1>1, EngineInvariant, PTL DEF Spec, AttemptDecidedOnce

-----------------------------------------------------------------------------
(* The rows implement the sealed ballot                                    *)

\* The ballots and the decision that the rows show.
ShownBallots == [k \in Seats |-> packageRow[k].vote]
ShownVerdict ==
    IF db.certificate # "none" THEN db.certificate
    ELSE IF db.tally = "closed" THEN NoOutcome ELSE "OPEN"

\* A ballot shown changes only when its package is stored.
LEMMA ShownBallotsStay ==
    ASSUME EngineInv, [Next]_vars, ~SaveVotePackage
    PROVE  ShownBallots' = ShownBallots
<1> SUFFICES ASSUME NEW k \in Seats PROVE packageRow'[k].vote = packageRow[k].vote
  BY DEF ShownBallots
<1>1. TypeOK /\ OthersKeep /\ RowsGrow(k) /\ VotesAreInOrder /\ RevealsAreCurrent
  BY StepGrows DEF EngineInv, Kept
<1>2. CASE ~Stored(k)
  BY <1>1, <1>2, PassStoresPackages
<1>3. CASE Stored(k)
  BY <1>1, <1>3 DEF RowsGrow
<1> QED BY <1>2, <1>3

\* The decision shown is the certificate, or the tally that was closed without one; while
\* a vote or a reveal is missing it is open.
LEMMA ShownVerdictStays ==
    ASSUME EngineInv, [Next]_vars, ~SaveSplitTally, ~SaveCertificate
    PROVE  ShownVerdict' = ShownVerdict
<1>1. TypeOK /\ OthersKeep /\ SavesAreOwed /\ DatabaseGrows
  BY StepGrows DEF EngineInv, Kept
<1>2. db'.certificate = db.certificate
  BY <1>1, WhoWritesTheClaimRows
<1>3. CASE CloseTally
  <2>1. db.certificate # "none"
    BY <1>1, <1>3 DEF CloseTally, SavesAreOwed, resolver, At
  <2> QED BY <1>2, <2>1 DEF ShownVerdict
<1>4. CASE SaveRoundTally
  <2>1. db.tally = "none" /\ db'.tally = "open"
    BY <1>1, <1>4 DEF SaveRoundTally, SavesAreOwed, resolver, At, TypeOK, ClaimRows
  <2> QED BY <1>2, <2>1 DEF ShownVerdict
<1> QED BY <1>1, <1>2, <1>3, <1>4, WhoWritesTheClaimRows DEF ShownVerdict

\* While a reveal is missing, the poll that the rows show is open.
LEMMA OpenUntilAllIsRecorded ==
    ASSUME EngineInv, db.revealed # Seats
    PROVE  ShownVerdict = "OPEN"
BY DEF EngineInv, RoundIsSealed, ShownVerdict

\* The rows' count is what a close of the poll must say.
LEMMA CountDecides ==
    ASSUME TypeOK
    PROVE  \/ \E o \in Outcomes : Cardinality(DbVoters(o)) >= Threshold /\ DbOutcome = o
           \/ /\ \A o \in Outcomes : Cardinality(DbVoters(o)) < Threshold
              /\ DbOutcome = NoOutcome
<1>1. ASSUME NEW o PROVE Cardinality(DbVoters(o)) \in Nat
  <2>1. DbVoters(o) \subseteq Seats
    BY DEF DbVoters, TypeOK, ClaimRows
  <2>2. IsFiniteSet(Seats)
    BY SeatsAssumption, FS_Interval DEF Seats
  <2> QED BY <2>1, <2>2, FS_Subset, FS_CardinalityType
<1>2. CASE \E o \in Outcomes : Cardinality(DbVoters(o)) >= Threshold
  BY <1>2 DEF DbOutcome
<1>3. CASE ~\E o \in Outcomes : Cardinality(DbVoters(o)) >= Threshold
  BY <1>1, <1>3, ThresholdAssumption DEF DbOutcome
<1> QED BY <1>2, <1>3

\* What the rows count of the stored reveals is what they show.
LEMMA BackersAreVoters ==
    ASSUME TypeOK, NEW o
    PROVE  {k \in db.revealed : ShownBallots[k] = o} = DbVoters(o)
BY DEF ShownBallots, DbVoters, TypeOK, ClaimRows

\* What the rows show of a round is a sealed ballot: votes are stored sealed before any
\* reveal is, none is altered, and the poll is closed once, by what the stored reveals say
\* (lib/engine/engine.ts votesCommit, votesReveal, finalize).
THEOREM RowsAreSealedBallot == Spec => DatabaseIsSealedBallot
<1>1. Init => Ballot!BallotInit
  BY DEF Init, NoPackage, Ballot!BallotInit
<1>2. EngineInv /\ [Next]_vars => [Ballot!BallotNext]_(Ballot!ballotVars)
  <2> SUFFICES ASSUME EngineInv, [Next]_vars
               PROVE  [Ballot!BallotNext]_(Ballot!ballotVars)
    OBVIOUS
  <2>1. /\ TypeOK /\ OthersKeep /\ VotesAreInOrder /\ PassIsCurrent /\ RevealsAreCurrent
        /\ SavesAreOwed /\ RoundIsSealed
        /\ db \in ClaimRows /\ packageRow \in [Seats -> Packages]
        /\ committer \in Passes
    BY StepGrows DEF EngineInv, Kept, TypeOK
  <2>2. CASE SaveVotePackage
    <3>1. PICK k \in Seats, o \in Outcomes :
              /\ ~Stored(k) /\ db' = db
              /\ packageRow' = [packageRow EXCEPT ![k] = [status |-> "COMMITTED", vote |-> o]]
      BY <2>1, <2>2 DEF SaveVotePackage, StorePackage, PassIsCurrent, VotesAreInOrder
    <3>2. db.revealed = {}
      BY <2>1, <3>1 DEF RoundIsSealed, AllStored
    <3>3. ShownVerdict = "OPEN" /\ ShownVerdict' = ShownVerdict
      BY <3>1, <3>2, OpenUntilAllIsRecorded DEF ShownVerdict
    <3>4. ShownBallots' = [ShownBallots EXCEPT ![k] = o] /\ ShownBallots[k] = NoOutcome
      BY <2>1, <3>1 DEF ShownBallots, VotesAreInOrder
    <3>5. Ballot!Cast(k, o)
      BY <3>1, <3>2, <3>3, <3>4 DEF Ballot!Cast, ShownBallots, ShownVerdict
    <3> QED BY <3>5 DEF Ballot!BallotNext
  <2>3. CASE SaveRevealedTally
    <3> DEFINE k == NextRevealed
    <3>1. resolver.pc = "saveRevealedTally" /\ resolver.landed # {}
      BY <2>1, <2>3 DEF SaveRevealedTally, RevealsAreCurrent, RevealSaves, resolver, At
    <3>2. k \in Seats /\ k \notin db.revealed /\ Stored(k) /\ packageRow[k].vote \in Outcomes
      BY <2>1, <3>1, NextRevealedLanded DEF RevealSaves
    <3>3. db'.revealed = db.revealed \cup {k}
      BY <2>1, <2>3 DEF SaveRevealedTally, ClaimRows
    <3> HIDE DEF k
    <3>6. ~SaveVotePackage /\ ~SaveSplitTally /\ ~SaveCertificate
      BY <2>1, <2>3, <3>2, <3>3 DEF SaveVotePackage, SaveSplitTally, SaveCertificate, ClaimRows
    <3>7. ShownBallots' = ShownBallots /\ ShownVerdict' = ShownVerdict /\ ShownVerdict = "OPEN"
      BY <3>2, <3>6, ShownBallotsStay, ShownVerdictStays, OpenUntilAllIsRecorded
    <3>8. ShownBallots[k] # NoOutcome
      BY <3>2, OutcomesAssumption DEF ShownBallots
    <3>9. Ballot!Open(k)
      BY <3>2, <3>3, <3>7, <3>8 DEF Ballot!Open, ShownBallots, ShownVerdict
    <3> QED BY <3>2, <3>9 DEF Ballot!BallotNext
  <2>4. CASE SaveSplitTally \/ SaveCertificate
    <3>1. ~SaveVotePackage
      BY <2>1, <2>4, PassLeavesSave DEF SaveSplitTally, SaveCertificate, jurorVars
    <3>2. ShownBallots' = ShownBallots /\ db'.revealed = db.revealed
      BY <2>1, <2>4, <3>1, ShownBallotsStay DEF SaveSplitTally, SaveCertificate, ClaimRows
    <3>3. ShownVerdict' = DbOutcome
      <4>1. DbOutcome # "none"
        BY OutcomesAssumption DEF DbOutcome, NoOutcome
      <4> QED BY <2>1, <2>4, <4>1
              DEF SaveSplitTally, SaveCertificate, SavesAreOwed, ShownVerdict, resolver, At, ClaimRows
    <3>4. ShownVerdict = "OPEN" \/ ShownVerdict' = ShownVerdict
      <4>1. CASE SaveSplitTally
        BY <2>1, <3>3, <4>1 DEF SaveSplitTally, SavesAreOwed, ShownVerdict, resolver, At
      <4>2. CASE SaveCertificate
        BY <2>1, <4>2 DEF SaveCertificate, SavesAreOwed, RoundIsSealed, ShownVerdict, resolver, At
      <4> QED BY <2>4, <4>1, <4>2
    <3>5. ASSUME NEW o PROVE Ballot!Cardinality(Ballot!Backers(o)) = Cardinality(DbVoters(o))
      <4>1. Ballot!Backers(o) = DbVoters(o)
        BY <2>1, BackersAreVoters DEF Ballot!Backers, ShownBallots
      <4> QED BY <4>1 DEF Ballot!Cardinality, Cardinality
    <3>6. CASE ShownVerdict = "OPEN"
      <4>1. Ballot!Close
        BY <2>1, <3>2, <3>3, <3>5, <3>6, CountDecides DEF Ballot!Close, ShownBallots, ShownVerdict
      <4> QED BY <4>1 DEF Ballot!BallotNext
    <3>7. CASE ShownVerdict' = ShownVerdict
      BY <3>2, <3>7 DEF Ballot!ballotVars, ShownBallots, ShownVerdict
    <3> QED BY <3>4, <3>6, <3>7
  <2>5. CASE ~SaveVotePackage /\ ~SaveRevealedTally /\ ~SaveSplitTally /\ ~SaveCertificate
    <3>1. ShownBallots' = ShownBallots /\ ShownVerdict' = ShownVerdict
      BY <2>5, ShownBallotsStay, ShownVerdictStays
    <3>2. db'.revealed = db.revealed
      BY <2>1, <2>5, WhoWritesTheClaimRows
    <3> QED BY <3>1, <3>2 DEF Ballot!ballotVars, ShownBallots, ShownVerdict
  <2> QED BY <2>2, <2>3, <2>4, <2>5
<1> QED BY <1>1, <1>2, EngineInvariant, PTL DEF Spec, DatabaseIsSealedBallot, Ballot!BallotSpec
=============================================================================
