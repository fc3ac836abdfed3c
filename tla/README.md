# OpenVerdict in TLA+

OpenVerdict answers factual claims with a jury of AI agents.  A claim is a shared object on
Sui; five agents are drawn at random from a registry of bonded seats, research the claim within
budgets, commit to sealed votes, reveal them, debate if they split and vote once more.  The
result is an immutable certificate, and the money in the claim is paid out through tickets.  A
TypeScript engine and three polling workers turn the crank; a claim whose jury fails is voided
and its statement relaunched.

This directory holds TLA+ models of the protocol in `src/move` and of the engine around it in
`src/lib` and `src/workers`, the TLC configurations that check them on small instances, and
proofs of the most important properties for every size.

## The system

| Part | State | Operations | Talks to |
|---|---|---|---|
| Claim (`claim.move`) | life-cycle state, deadlines, five balances, linked committee, tallies and evidence | create, start review, propose, challenge, advance, terminal | registry (pause, fee), jury, settlement |
| Jury (`jury.move`) | committee, seats, round tallies, certificate | draw, accept, decline, replace, lock, bind, approve run, commit, reveal, open discussion, second round | claim, evidence, registry |
| Settlement (`settlement.move`) | payout tickets | finalize (with or without challenge), cancel, withdraw | claim, jury |
| Evidence (`evidence.move`) | frozen bundles with a storage end epoch | freeze | claim |
| Agent registry (`agent_registry.move`) | profiles with a bond, eligibility records, two kinds of exit requests, diversity rule, pause switch | register, stake, deposit, deprecate, set eligibility, request and complete both exits | read by the draw |
| Demonstration pool (`demo_binary_pool.move`) | YES and NO stakes, payout vault, positions | create, enter, settle, redeem | reads the certificate |
| Engine (`lib/engine`) | database copy of claim, committee, seats, runs, votes; attempts; seat mirror and reservations; debate turns | start a fact check, draw, run, commit, reveal, debate, freeze, finalize, void, relaunch, admit a stake | chain, database, Walrus, model provider |
| Workers (`workers`) | a tick lock per process, back-off in memory | poll open claims: resolution, inference, evidence | engine |
| Research loop (`lib/research`) | one run's budgets, pages seen, repairs and transcript | call the model, search, open, refuse, accept a verdict | model and search providers |
| Model adapter (`lib/gonka`) | per call: hedges, retries | infer | model provider |
| Walrus, Seal, Sui access | writer lanes, escrowed ballots, operator lane | store, encrypt, execute | external networks |

Chain objects interact by transactions: each entry function runs atomically, in any order
that its assertions allow, sent by whoever holds the right object.  The off-chain parts are
separate processes that read the database, call the chain and then write the database, row by
row; no transaction spans two of these.

What is hard here, and what correctness means:

* **Claim and jury.** Deadlines, early closings and the entry functions of different callers
  interleave.  Sealed votes must stay sealed until nobody can still commit, a certificate must
  say what the revealed seats said, the roster must not move after its lock, and a claim should
  not hang.
* **Settlement.** Integer shares of one balance, for any number of paid jurors, redeemed in any
  order.  The tickets must add up to the balance and the bonds follow the verdict.
* **Registry.** One bond has two exits with their own requests, delays and callers, and the
  draw reads only a copy of the profile.  No drained seat may be drawn, no bond may leave early.
* **Draw.** Greedy and random, with a restart; a committee lives in parallel vectors that
  replacement edits one by one, while the registry has moved on.
* **Pool.** Floored shares, with the rest for whoever comes last.
* **Engine and workers.** Chain call first, database second: every crash in between leaves
  the two apart.  Retried calls abort on chain.  Rows are written whole from copies read before
  an await.  Three processes decide about one attempt without asking each other.
* **Attempts.** A relaunch is six writes on two systems; a worker may die between any two, and a
  void that was on its way may arrive afterwards.
* **Debate.** Two processes drive the same conversation and share only its stored turns; its
  transcript is hashed into a frozen root that everybody must be able to recompute.
* **Research.** Budgets, rules, repairs, format fallbacks and two clocks meet in one loop; what
  leaves it is a vote.
* **Stakes.** A slot is lent for a while, a wallet signs when it likes, a confirmation runs
  outside the lock: what was judged at admission may be stale at the record.

`PROJECT.json` lists every hazard at its line, with the properties that cover it or the reason
why none does.

## The modules

| Module | What it is |
|---|---|
| `Claim` | claim, committee, seats, both rounds, settlement: one action per entry function |
| `SealedBallot` | what one voting round promises, abstractly |
| `AgentRegistry` | bonds, eligibility and exits |
| `CommitteeDraw` | the draw ticket by ticket, the registry's changes, replacement |
| `JuryPanel` | what the draw promises, abstractly |
| `BinaryPool` | the demonstration pool |
| `ClaimEngine` | one voting round as three workers drive it, each transaction and each save a step |
| `VerificationAttempts` | start, void, relaunch, give up, settle |
| `VerificationLadder` | what a verification promises, abstractly |
| `DebateOrder` | who speaks next, and when a debate has converged: pure functions |
| `Debate` | the debate as two processes drive it, and the freeze of its transcript |
| `ResearchLoop` | one seat's turns, budgets, rules, repairs and deadlines |
| `StakedSeats` | how a seat joins the roster, and who may join |
| `ClaimProofs`, `PoolProofs`, `EngineProofs`, `ResearchProofs` | theorems about `Claim`, `BinaryPool`, `ClaimEngine`, `ResearchLoop` |
| `RegistryProofs` | theorems about `AgentRegistry` and, separately, about `StakedSeats` |
| `AttemptProofs` | theorems about `VerificationAttempts` and the ladder it implements |
| `DebateProofs` | theorems about `DebateOrder` and `Debate` |
| `DrawProofs` | theorems about `CommitteeDraw` and the panel it implements |
| `MC...` | instances for TLC |

`Claim`, `AgentRegistry`, `CommitteeDraw` and `BinaryPool` are the chain; the others are the
engine.  `ClaimEngine` contains the chain again, reduced to what the engine calls, and implements
the same `SealedBallot` from its database; it is the composition of the two sides.
`VerificationAttempts` takes from it that one claim is decided once, with the one exception that
`ClaimEngine!VoidedAfterApproval` names, and is otherwise above it.

### Claim

`state`, `vault`, `tickets` and `certificate` are the Claim object and what settlement makes of
it; `committee`, `seat` and `tally` are the jury's objects, two rounds of each; `evidence[r]` is
whether round r's bundle is linked and still stored.  Objects are addressed by seat and round
because every entry function asserts that its objects belong together; the assertions on
identifiers and capabilities are abstracted to that.  A commitment is kept as the ballot it
opens to: `reveal_vote` recomputes the hash, so a seat can reveal nothing else.  Model output,
rationales and blob identifiers are dropped.  Each round can link one bundle only, so an evidence
root is set or empty.

Time is the variable `now`, which jumps between the instants of `Instants`; deadlines are
constants in the order the code enforces.  An instant equal to a deadline is inside the window,
as in the code.  `approve_run` hands out a capability that is of use for one commit only, so it is
kept as a flag of its seat.  Who sits is left to chance here and is the subject of `CommitteeDraw`.

### AgentRegistry

`profile` holds the profile object with its bond, `record` the registry's copy that the draw
reads, `withdrawal` and `unstake` the two pending requests, `position` who still holds a
StakePosition.  A request keeps the time left instead of its instant.  `idle` is a history
variable, used by one property: how long ago a seat left the draw.

### CommitteeDraw

`select_committee` is one transaction; here each ticket is a step of the variable `draw` and
the registry may only change while no draw runs, so the interleavings are those of the code.
A ticket may land on any active record: weights decide how often, never whether.  An aborted
draw changes nothing and may be sent again.  `committee` holds the parallel vectors of
`Committee`, `CommitteePolicy` and `CommitteePayouts` as parallel sequences, edited as in
`replace_declined_seat`.  `DeprecateAgent` stands for every way in which a record stops being
active.  Deadlines and the lock are in `Claim`.

`DrawKeepsTrying` names its condition, `CapsForceVariety`: the rule's models less one cannot hold
five seats, and every juror has one of the two duties.  Two of the three rules that the admin may set fulfil the
first half; (3, 3) does not, and a role is any hash (`agent_registry.move:751`).  The instance contains
that rule and a roster with another role, where five accepted seats are refused and the call aborts
with tickets left.

### BinaryPool

The pool object, its positions, what was paid to each, the clock relative to `close_at_ms` and
the claim's certificate, which appears at any time.

### ClaimEngine

One voting round, first or second; the two share the names of their states.  `chain` and
`chainSeat` are the objects on Sui with the guards of their entry functions; `db`, `seatRow`,
`runRow`, `approvalRow` and `packageRow` the database; `worker`, `seatRun` and `committer` what a
process holds in memory between two awaits.  The resolution worker draws, saves the committee,
tally, seats and phase, accepts seats, advances, reveals, opens the debate, finalizes, saves the
verdict, and voids a claim whose jury did not come together.  The evidence worker freezes.  The
inference worker runs the seats side by side, approves each run, and commits seat by seat in one
pass that it repeats; a pass works from the copies of the runs it read when it began
(`committer.copies`), and so do the reveals.  `Crash` forgets a process's memory, `LoseRevealReply`
and `LoseCommitReply` forget that a transaction landed, and `OutsiderTurnsCrank` is anybody who sends
one of the permissionless calls first.  The engine does not re-read the chain: `finalize` looks for
its own certificate row, and the other handlers for the phase in theirs.

A run and its vote are two rows.  `runRow` is what the seat found or that it failed; `packageRow` has
the ballot that was committed.  They may differ: everything a seat does after its model has answered
is inside one `try`, and `RejectSeatCall` is a call in there that is rejected, or whose reply is lost,
up to and after the save of the approval (`engine.ts:3095-3126`).  The catch (3718, 4045) takes it for
a failure of the seat and calls `persistInferenceFailure`, whose steps are `SaveFailure` (4177, over
the run's row, after an upload of seconds), `ReadAttemptForSeat` and `VoidForSeat`.  Until then the
run counts as valid and approved, and the pass may commit it.  `db.voidedSeat` is the row's
`voidedSeatId`.

The statuses of a seat's row past ACCEPTED are not kept, because no code reads them.  A row that is
read and written back at once is one step; where a stale copy is written back (accepting a seat,
voiding an attempt, revealing a run) it is two.

### VerificationAttempts and VerificationLadder

`onChain` and `claimRow` are the claims that exist on chain and in the database, `attemptRow` the
`verification_attempts` rows, `voidAge` the time since a row was voided.  `replica` is a process of
the resolution worker inside `relaunchTick`: it reads the voided rows, takes one, looks for a
successor that a dead predecessor may have left, gives up when the attempts or the time are used
up, waits for launch weather, and otherwise creates the claim and saves claim, attempt and link, one
step each.  `voider` is a call of `voidAttempt` between its read and its write, with the copy it
read; the row is written whole.  `Crash` and `CallFails` may come between any two steps.  The tick
lock of `workers/runtime.ts` keeps replicas apart.

`fate` is what becomes of a claim itself: it is failing, certified, or torn.  A torn claim is the one
that `ClaimEngine` leaves with both ends: a seat reports a failure after its approval was recorded
(`Tear`), and the claim may be certified all the same, before or after its void is written; SETTLED is
then written over VOIDED or VOIDED over SETTLED.  `Settle` needs idle replicas because one tick of the
resolution worker resolves the claims and then relaunches, under one lock
(`resolution-worker.ts:121-157`); a tick that finds an attempt voided passes its claim over (`isDead`),
so a torn claim whose void a tick has listed is failing from then on (`StartTick`).

`VerificationLadder` says what is promised: attempts one after another, each after the last was
voided, at most so many, then an end, which only a torn claim may take back.

### DebateOrder and Debate

`DebateOrder` translates `debateOrder.ts` and `debateConvergedAfterExchange` as operators on the set
of stored turns.  `speakingOrder` builds an array of seats by interleaving two; `SpeakingOrder` gives
every seat a number that orders the seats as that array does (the dissenters take the even numbers and the
others the odd ones), since all that is asked of it is which of the waiting seats comes first.
In `Debate` the inference worker (`runDeliberation`) and the evidence worker
(`evidenceFreeze` of phase two) each plan a turn from the rows, ask the model, check whether the place
was taken meanwhile, save, and go on until the debate is over; then one or both save the transcript
and the evidence worker freezes its hash.  `driver` is each process's memory with the plan it is
working on, `turns` the rows, `artifact` the saved transcript, `bundle` what the frozen root
names, `window` how far the discussion window has run.  Spoken text is dropped; a turn keeps its
seat, stance and the seat it asks.

### ResearchLoop

`runResearchLoop` under tool policy version 4: one action per thing the model can ask for, and one per
way the engine can refuse it.  `turn`, `at` and `retries` are the control, `elapsed` the clock
(measured against both `maxLoopMs` and the seat's deadline), `seen`, `found`, `against`, `opened` and
`origin` what the loop knows about pages, `searches`, `opens`, `nudges` and `repairs` its budgets,
`warned` whether the messages tell the model that this is its last turn.  What the model asks, what a
search returns, what fails and how long it takes is the environment's choice.  An answer is reduced to
its outcome, its citations, whether it is well formed and whether it sums up the counter-evidence.

### StakedSeats

`registry` is the chain's eligibility records, `mirror` the database's `agent_manifests`, `holds` the
reservations of slots and `posted` those whose wallet has signed.  `desk` is the registration that
has the lock (`prepareStake` or the free registration, which queue behind each other), `call` the
confirmations, which do not, `sync` the mirror sync of the resolution worker between its read and its
writes.  `RosterAdmitsDraw`, `RosterCanSeat` and `AssignSeatRole` translate `draw-feasibility.ts` and the
choice of a role.  `admitted` and `overtime` are history variables, for the properties.

The depth-first search for a jury (`Search`) is a recursive function over sets of seats: it tries the
seats in order after those already chosen, as the loop of the code does, and prunes where the code prunes.
That there are two reserves (`draw-feasibility.ts:155`) and that the caps are positive
(`agent_registry.move:485`) is assumed.  The specification is called `SeatSpec` so that `RegistryProofs`
can extend this module beside `AgentRegistry`; the two share no variable.

## What the runs check

| Run | Question | Instance |
|---|---|---|
| `claim_first_round` | Does the first round implement a sealed ballot, with a fixed roster, windows kept and a backed verdict?  Do tickets cover the balance and bonds follow the verdict, finally? | 3 seats, threshold 2, one reserve, acceptance window of 2; direct and optimistic claims, cancellation, pause; budgets 11 + 1 + 1 or nothing, bonds of 2; instants 0, 3, 4, 5, 6; seat symmetry; 493 000 states |
| `claim_progress` | Does the second round exist only after a split, and is it a sealed ballot?  Does every claim whose crank is turned end, and where can it get stuck? | 2 seats, threshold 2, direct, debate, lapsing evidence; instants 0, 5, 6, 8, 9; 1.2 million states |
| `registry_exits` | Are drawable seats bonded, exits delayed, exits completed? | 2 profiles, bond up to 3, minima 1 and 2, delay of one tick; 56 000 states |
| `committee_draw` | Does every ticket sequence seat a varied panel or, where the caps force one, run out of tickets, and does every replacement keep it whole? | 9 profiles on two rosters, committee 5 and reserves 2 (the real ones), 8 tickets, restart after one stall, one decline, one change of rule, manifest or roster; 657 000 states |
| `pool_redemption` | Are the holders paid fairly and completely in every order? | 4 positions, amounts 2, 3, 5, cap 13; 153 000 states |
| `engine_round` | Does the database trail the chain, are the ballots it stores sealed and unchanged, which voids may meet a certificate? | 2 seats, threshold 2, either round; no fault in round one, one in round two; outcome symmetry; 327 000 states |
| `engine_progress` | Is every attempt decided, or named as fallen behind, and which one can be decided twice? | 1 seat, failing runs, two faults anywhere; 87 000 states |
| `attempts` | Do the attempts of a verification stay one ladder, and is every void answered? | one statement, 6 claims, one replica, two concurrent voids, 3 attempts, one fault (a torn claim, a death or a failing call); 343 000 states |
| `debate` | Is the stored debate one replayable conversation with a final, frozen transcript? | 3 debaters split two to one, one may change its mind, one may ask, two processes, one fault; 282 000 states |
| `research_loop` | Are budgets kept, decisive answers researched and in time? | 6 turns, 2 searches, 2 opens, 3 pages on 2 sites, one nudge, repair and retry, deadline 3; 1.9 million states |
| `staked_seats` | Does the mirror repeat the chain, are slots shared only by stragglers, can an admitted seat be drawn? | 9 slots, 2 stakers, 2 calls, 2 new seats, holds of one tick, one fault, one who leaves; two seed rosters; 1.3 million states |
| `engine_torn_draw` | A comment of the engine that the code does not keep (finding) | 1 seat, one fault |

Why these bounds suffice to make the interesting cases happen.  Three seats with threshold two have
splits and non-unanimous verdicts; one reserve is enough to lose and to win the race for a declined
seat; the instants contain one inside and one after each window a run is about.  11 divides neither
by the fee nor by the number of jurors.  Two profiles let one exit while the other registers, and a
bond of three covers deposits between two requests.  The roster of `committee_draw` and of
`staked_seats` is that of the incident in `draw-feasibility.test.ts`, with a shared key, a staked seat
and a seat of the claim's creator (`committee_draw` has a second one with investigators among the jurors); eight tickets allow a restart and a complete draw after it.  Two
seats interleave their runs, commits and reveals, and one fault may hit any of them; with one seat two
faults may hit the same write twice.  Three attempts on six claims leave room for a launch that died
before its row, and two voids for one that arrives late; a torn claim together with further faults is left to the
proof, which has any number of them; the answer comes at `GiveUpAfter`, so its value only
delays it.  Three debaters have a minority and a majority, and a question may pull the last speaker to the
front.  Two of the three pages share a site, so corroboration takes more than the first two that a
search finds.  Every bound is named in its module as "a bound for TLC" where the code has no such limit.

The real committee (five seats, threshold four) and a second round of four seats were checked with an
earlier, narrower instance of `Claim`; they take too long together with everything the two claim runs ask
now.  That the safety properties of `Claim`, `ClaimEngine`, `VerificationAttempts` and `Debate` do not depend
on the size is proved.

The finding, `engine_torn_draw`: `selectCommittee` saves the committee (`engine.ts:1384`), then
the round tally (1385), then seats and phase.  A process that dies after the first leaves a claim whose
recovery restores seats and phase but never the tally, although the comment at 1283-1287 says that
the recovery finishes the interrupted writes.  Every later step asks for the tally and throws.

Two dead ends are part of the properties' statements, since the code has them: `Claim!Stranded`
names the states of the chain from which no call leads to a verdict, and `StrandedForever` shows that they
are really dead; `ClaimEngine!Behind` names the database that is behind the chain for good.  So is one
race, `ClaimEngine!VoidedAfterApproval`: the seat named by the void had its approval recorded.
`VoidedIsNotCertified` and `AttemptDecidedOnce` except it and nothing else; that it happens, in either order,
was confirmed with TLC.  Every other void (a missed deadline, a failure before the approval) never meets a
certificate.

### Abstract specifications

* `SealedBallot`: seats choose ballots while none is open, then open them, and the closing verdict is that
  of the ballots opened.  `Claim` implements it twice, once per round, with ballots, opened seats and
  verdict mapped from seats and tally (checked and proved).  `ClaimEngine` implements it once more from the
  database alone: stored packages are the ballots, stored reveals the opened ones.
* `JuryPanel`: whole members out of the candidates of that moment, varied by the rule in force, and
  reserves who step in whole and keep the rule of the draw.  `CommitteeDraw` implements it with members
  put together from the parallel vectors.
* `VerificationLadder`: at most so many attempts, each after the last was voided, none after the end.
  `VerificationAttempts` implements it with the level and the standing read off the rows.  The
  ladder has odd steps: `ReportAgain`, a late void that takes back the end of the last attempt, and
  `SettleTorn` and `VoidTorn`, either end of a torn attempt written over the other.

### Fairness

`Claim!CrankFairness` is weak fairness of time and of the calls anybody may make: advance, open
the discussion, create the second round, finalize.  The resolution worker polls every open claim
every few seconds (`workers/resolution-worker.ts`, `workers/runtime.ts`), and anybody else may send
these calls, so one that stays possible is made.  Nothing is assumed of parties, seats, the
attestor or the evidence service.  `AgentRegistry!ExitFairness` is weak fairness of time and of
completing a matured exit, by its owner whose money it is.  `BinaryPool` assumes that time passes,
that somebody settles, and that the holders in `Diligent` redeem; the others may never come.

`ClaimEngine!WorkersRun` is weak fairness of time and of each worker's next step: `runWorker` polls
for ever, and a tick that began goes on unless it dies; the two halves of the inference worker's tick
and its seats are concurrent, so each has its own.  `VerificationAttempts` assumes that the
resolution worker polls, that a `voidAttempt` that began returns, and that time passes; nothing of the
launch weather, which may stay bad.  `Debate` assumes that the two workers poll while the claim is in
discussion and that a model call returns or times out.  Faults are never fair.

## What is proved

For every value of the constants that satisfies the named assumptions of the module.  These are all
the safety and action properties of the passing runs; their liveness properties are left to TLC.

`ClaimProofs`: every safety and action property that the two claim runs check.

* `TypesCorrect` (no balance, ticket or counter goes negative; it needs that a PROPOSED
  claim has a proposal, `TypeInv`).  `TicketsAlwaysCover`: `MoneyInv` is inductive by itself given
  the types; the arithmetic is that of a floored fee and a floored share times the number of paid
  jurors.  `VerdictsAreBacked`: the code reads counters, so `VoteInv` adds that a tally's counts are
  those of the seats (`CountsAgree`) and that a certificate repeats what its closed tally said.
  `WindowIsKept`: that all seats have revealed is read off a counter, hence `WindowInv` on top of `VoteInv`.
* `RosterIsFixed`, `DecisionsAreFinal`, `SecondRoundFollowsSplit`.  `PhaseInv` says that a
  round's objects are untouched before its phase, which makes the steps of an earlier phase harmless;
  `SplitInv` keeps what the second round was founded on.  Lemmas on what never moves: the clock, a
  closed tally, a locked roster, a decided claim, frozen evidence.
* `FirstRoundSealed` and `SecondRoundSealed`, the refinement of `SealedBallot`.
  `SealInv`: no ballot is opened before the commits are closed, and a seat without a vote has no ballot.  For
  each round every step of the claim is shown to rest, cast, open or close.
* `BondsAreShared` (with `BondInv`: a claim that reaches a jury has both bonds or none)
  and `DeadEndsAreDead`.

`EngineProofs`: every safety and action property that `engine_round` and `engine_progress` check, for any
number of seats and faults.  `EngineTypes`, `DatabaseNeverLeads`, `VoidedStaysUncertified`,
`AttemptsAreDecidedOnce`, and `RowsAreSealedBallot`, the refinement of `SealedBallot` by the database.  A
worker's tick is many steps, so `EngineInv` says what each worker may rely on between two of them: a
pass's copies are of seats without a package and hold the ballot it casts, whatever the run rows say by now
(`PassIsCurrent`); a reveal is of a committed seat (`RevealsAreCurrent`); a pending save is about a transaction
that is on chain (`SavesAreOwed`).  `AttemptIsOneThing` says that no attempt is voided while its round is
settled, but for the named void: all packages are stored by then, and a seat that failed before its approval
was recorded has none.  The invariant is kept because every variable has few writers
(`WhoWrites`, `OthersKeep`) and because what is shared only grows, on chain (`ChainGrows`, `SeatGrows`)
and in the database after it (`RowsGrow`, `DatabaseGrows`).

`RegistryProofs`: `RegistryTypes` (the unsigned bond is never overdrawn), `DrawableSeatsAreBonded` and
`EveryExitIsDelayed`.  `RegistryInv` joins the types and the bonded records with two facts: an active
profile still has its minimum (no exit pays from one), and a pending exit belongs to a profile that has been
out of the draw at least as long as its request has waited.

The same module proves the three safety properties of `StakedSeats`, and its types (`SeatTypes`), for any
slots, stakers, reservations, confirmations and rosters: `MirrorIsTrue`, `SlotsAreShared` and
`AdmittedSeatsSit`.  `SeatInv` adds three parts.  `WorkAgrees`: what the desk, a confirmation or the mirror
sync holds between two of its steps still agrees with the chain, the mirror and its reservation.
`SlotsAreLentOnce`: a slot is lent until its hold has run out, whatever the status of the hold; one hold or
the desk has it, and only seats of its staker that came in time sign with it.  This needs that a
confirmed hold has a row and an expired one has run out (`TakenIsLent`).  `CheckedSeatsCanSit`: the seat the
desk or a hold was checked for can sit with the recorded seats from the check on.  It keeps because records
are added and never removed, and a jury found among some is one among more (`CanSitGrows`); that
these seats can all be drawn is where the property supposes that nobody has left.
About the search itself: it is defined on every finite roster (`ExplorationExists`, by the number of seats not
chosen yet) and a jury it finds keeps the caps and has the reserves (`SearchFinds`); `JurySits` reads its rows as
profiles, and `SitsInPanel` makes these a panel the chain's draw accepts.  What the search returns when it
finds nothing is not needed: a refused seat joins no roster.

`AttemptProofs`: `AttemptsAreOneLadder` for any number of claims, replicas, voids, faults and attempts,
and `AttemptTypes`.  `LadderInv` says which copies are still true when they are written back: a
voider holds the unlinked row of a failed or torn claim, a tick those of voided attempts before their link
(`Listed`), whose claims are lost for good and never torn, and between the question for a successor and its row nobody else makes one
(`TickIsSound`), which is where the tick lock is needed.  `AttemptsClimb` is the refinement of
`VerificationLadder`, for every claim at once.  The level of a claim is a number of rows, so its proof first counts
them: the rows of a ladder are numbered without gaps (`Dense`), so a row that is rewritten
leaves the level alone and a new one raises it by one (`RewriteClimbs`, `NewRowClimbs`).  `ClimbInv` adds that
rows without an attempt are empty, that a settled attempt has a certified claim (a torn one has both ends), and
that nobody reports a void before its time.

`DebateProofs`: `DebateTypes`, `DebateReplays`, `DebateStops` and `TranscriptStands`, for any number of debaters
and whatever they say.  First the order: the next speaker exists and is a seat that waits
(`NextSpeakerIsWaiting`; the minority and the first in the order are least elements, `LeastExists`), the turns of an exchange are as
many as the seats that spoke in it (`SeatsAreCounted`), exchanges follow one another, and a turn planned
from all the stored ones makes a longer conversation (`NextTurnExtends`).  Then the two processes: `DebateInv`
says that a turn that was planned is still the next one unless its number is taken
(`Planned`), that whoever planned from the same rows planned the same turn (`PlannedStays`), that no exchange is
begun unless those before it moved somebody (`Reached`), and that a transcript exists, or is about to,
only when the debate is over (`Over`), where no turn can be next (`NoTurnAfterTheEnd`).

`DrawProofs`: `PanelKept`, the refinement of `JuryPanel`, and `DrawTypes`, for any profiles, rosters,
parties, rules and committee size.  It is assumed that there are two reserves, one per duty (`DutiesAssumption`;
the constant of `jury.move:44`).  `DrawInv` says what the accepted seats of a running draw have been checked
for: each may be drawn, the caps hold for all of them together, no key occurs twice
(`SeatsFit`, `ReservesFit`).  It stays true because the registry rests while a draw runs.  Of a committee it
keeps that its vectors are parallel and that no key sits or waits twice (`KeysDiffer`); that is why any reserve may take
any seat, though `replacement_preserves_diversity` looks at models and duties only.  The refinement then
reads whole members off the vectors (`WholeMembers`), turns distinct keys into a count (`DistinctValues`,
`EveryKeyOnce`), and follows ten vectors through one replacement (`WholeReserveMoves`).  `DrawPersists` is a
pigeonhole argument (`TwoValuesFill`, `FullSeatsAreValid`).

`ResearchProofs`: `BudgetsHold`, `VerdictsAreResearched` and `AnswersComeInTime`, for every tool
policy, set of pages and clock.  The strengthenings are `OriginIsEarned` (a page counts as found
only if a search of this run found it), `ResultIsLast` (nothing is researched after the answer) and `OnTime`.

`PoolProofs`: `VaultIsBacked`, `OrderMattersByRoundingOnly` and `PoolTypesHold`, for any positions, stakes and
order of arrival.  `PoolInv` is the step-wise core: what the holders left to come can claim is covered
(`Solvent`), and a refund is exact (`RefundedInFull`).  `Accounts` adds the sums: before the settlement
the pool's stakes are those of its positions; after it the vault v and the stakes r left to be claimed stay near the
proportion t : w of the whole pool to its winners' side, r * t <= v * w <= r * t + k * w with k
winners paid.  A floored payment keeps this for k + 1, and from it follows what each was paid (`NearShare`).  The sums are
`SumFunctionOnSet` of the community modules, a recursive function; that it is defined, takes its elements in any
order and sees only the values on its set is proved first (`SumExists` to `SumIsNatural`).  The library's induction
cannot be cited, so these argue with a set of numbers that has zero and every successor (`AllNumbers`),
out of the well-founded order of finite sets.

The provers are SMT and Zenon, with LS4 for the last, temporal steps.  TLC evaluates the assumptions on
the instances.

## What is only model-checked

* Liveness (`DecidedOrStranded`, `UnstakeCompletes`, `WithdrawalCompletesOrOverdrawn`,
  `DiligentHoldersRedeem`, `EndsOrFallsBehind`, `VoidedIsAnswered`, `DebateIsFrozen`): out of the
  prover's reach.
* That the search for a jury finds one whenever there is one: no property of a run needs it.
* No run spends time on the types of `CommitteeDraw`, `ClaimEngine`, `Debate` and `StakedSeats`, which are proved.  `ClosedTallyIsFrozen` of `Claim` is stated without a run; its step is the
  lemma `ClosedStays`.

## Where the code and the texts differ

Besides the finding, without a run of their own:

* `docs/PRD.md:2085` says that no finalization occurs before the required deadline; `finalize_claim` accepts a
  fully revealed tally early, deliberately.  What does hold is `CommittedSeatKeepsItsWindow`.
* `resolution-worker.ts:266`: the fallback for a claim in DISCUSSION whose committee never
  locked is `finalize`, which neither the engine nor the chain accepts in that state.
* `jury.move:280-282` promises that resampling finds a committee whenever the roster admits one.  The
  restart (293) reacts to rejected tickets only: five accepted seats that miss a duty or a model abort
  the call (301) with most tickets left.  `DrawKeepsTrying` says when that cannot happen.
* `docs/site/staking.md:137` caps the seats of a role; a replacement does not check it.
* `loop.ts:325-331` says that every model call is bounded by the time left; the second call, without the
  JSON format (521), gets the time that was left before the first (501), so it may overrun the seat's deadline.  `AnsweredInTime` therefore speaks of providers that take the format.
* A process that loses the race for a turn still emits its DELIBERATION_TURN event, and
  `debate_converged` may be emitted twice; `docs/site/api.md:88` describes one event per turn.  The stored debate is not affected.
* `engine.ts:3809-3914`: two seats that open one page at once both upload it, and `pageUploads` keeps
  the later upload, so the earlier seat may wait for an upload of other bytes than those it read; the comment
  at 3896-3900 says that every seat awaits the uploads of the pages it opened.
* Unstaking is never written to the mirror, so a later admission counts a seat that has left
  (`AdmittedSeatCanBeDrawn` assumes that nobody leaves), and a mirror sync that read an older roster marks
  a just-confirmed seat inactive (`engine.ts:848-860`).
* A worker that dies between `createClaim` or `saveClaim` and the attempt row leaves a claim that counts as attempt 1
  of a verification of its own; `OneLadder` holds of it, the submitter's ladder goes on without it.
* The spacing of relaunches lives in memory only; a restart forgets it.
* `voidAttempt` leaves a settled attempt alone and `isDead` a voided claim, as if an attempt were decided
  once.  Both look and then act: a call rejected after a seat's approval was recorded (`engine.ts:3110-3115`) voids
  an attempt (4207) while its claim is being revealed, and `finalize` (2289) and `persistFinalization` (4324) do not
  look at it.  A claim then has a certificate and a VOIDED attempt, or SETTLED is written over VOIDED, or the void over
  the settlement; the run that was committed is recorded as failed until the reveal writes its copy back.

## What is not modelled

* The model provider adapter, with its hedges and retries, is an environment step: it answers, fails
  or takes up to its time limit.
* The Walrus writer lanes, the operator lane and the retry of stale object versions: a write or a
  transaction succeeds, fails or is lost.
* The Vote escrow is recovery by others and changes nothing the rounds depend on.
* Optimistic claims and replacement from the engine's side (no worker drives them), artifact submission,
  the gas float, the shared page store, tool policies 1 to 3 of the research loop, the texts of prompts
  and refusals.
* The database's schema, the event index, audit and verification tools (read-only), evidence retrieval, byte
  encodings, the truth score, display templates, the reveal lock's pure check, command line, API and web pages: no
  protocol state.  They are most of the repository's lines, which is why the map covers a small share of them.
* A tick that throws beside its running seats.  `juryRun` waits with `Promise.all`, so when one seat's
  function throws (a lookup before its `try`, or `persistInferenceFailure` itself) the others run on unattended,
  and the next tick may run them again.  `ClaimEngine` takes such a tick for a death of its worker, and the
  handler of a failure either finishes or dies with it.  A second run of a seat could fail after the first was
  committed, and its void would meet a certificate as in `VoidedAfterApproval`, by another way.
* What the debate makes of a run row that a late failure overwrote: it reads the first round's outputs
  (`engine.ts:5459`, `5776`), and throws for a seat without one.  `Debate` begins with every output in place.
* `finalize` sent from the command line (`cli/src/index.ts:286`), outside the tick lock; and the embedded database,
  where there is one process and no lock.
* `set_treasury_policy` changes numbers that `Claim` takes as constants; reputation fields are never
  written after registration; package upgrades are out of scope.
* Two hazards are listed without a property: a drawn reserve whose profile left the registry before it
  steps in (`jury.move:399`; registry and draw are separate models), and a tick that outlives the
  connection that holds its lock (`runtime.ts:105`; every model assumes that a process whose lock is gone
  has died).

## Plan

What would add most next:

1. A composition of registry and draw: how long a drawn reserve may outlive its bond.
2. `OperatorLanes`: the operator lane, Walrus writer lanes and a tick lock that is lost while the tick goes
   on, as one family of mutual-exclusion and queueing models.
3. The provider adapter's hedged requests and their budget.
4. Proofs: that the depth-first search of `StakedSeats` is complete, which is what a refused staker relies on.
