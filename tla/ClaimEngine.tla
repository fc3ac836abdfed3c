------------------------------ MODULE ClaimEngine ------------------------------
(***************************************************************************)
(* One voting round of one claim as the operator's workers drive it        *)
(* (lib/engine/engine.ts, workers/*.ts).  The resolution worker draws the  *)
(* committee, opens the reveal phase, reveals and settles; the evidence    *)
(* worker freezes the evidence; the inference worker runs the seats and    *)
(* commits their votes.  Every step is one transaction on chain or one     *)
(* save of a database row: nothing makes the two atomic, so a worker that  *)
(* dies, or loses the reply of a call that landed, leaves the database     *)
(* behind the chain.                                                       *)
(*                                                                         *)
(* The round is the first (REVIEW_REQUESTED, COMMIT_1, REVEAL_1, then a    *)
(* verdict or DISCUSSION) or the second (DISCUSSION, COMMIT_2, REVEAL_2,   *)
(* then a verdict); both share the state names of ClaimStates.  The chain  *)
(* is what Claim.tla says of it, reduced to what the engine calls.         *)
(*                                                                         *)
(* Abstracted: the statuses of a seat's row past ACCEPTED, which no code   *)
(* reads, and the records that only the pages show.  A tick reads the rows *)
(* it dispatches on in the step that acts on them, and a read followed at  *)
(* once by its write is one step, except where a stale copy of a row is    *)
(* used or written back (accept, commit, reveal, void).  A call that       *)
(* aborts before anything happened leaves no trace, except in a seat's     *)
(* run, where it is taken for a failure of the seat.  The handler of a     *)
(* seat's failure itself succeeds, or dies with its worker.                *)
(***************************************************************************)
EXTENDS Naturals, FiniteSets

CONSTANTS
    SeatCount,      \* the seats of the committee, 1 .. SeatCount in jury_seat_id order
    Threshold,      \* REQUIRED_MATCHING
    Outcomes,       \* what a seat may find
    RoundsRun,      \* the rounds that are run: a subset of {1, 2}
    MayFail,        \* whether models, uploads and agents' binds ever fail by themselves
    MaxFaults       \* per round, the crashes, lost replies and cranks turned by strangers:
                    \* a bound for TLC

Seats == 1 .. SeatCount
NoOutcome == "UNRESOLVED"

ASSUME SeatsAssumption == SeatCount \in Nat \ {0}
ASSUME ThresholdAssumption == Threshold \in Nat /\ 2 * Threshold > SeatCount
ASSUME OutcomesAssumption == {NoOutcome, "none", "OPEN", "NONE", "FAILED"} \cap Outcomes = {}
ASSUME RoundsAssumption == RoundsRun \subseteq {1, 2}
ASSUME FaultsAssumption == MaxFaults \in [1 .. 2 -> Nat] /\ MayFail \in BOOLEAN

\* BEFORE is REVIEW_REQUESTED for round one and DISCUSSION for round two; DISCUSSION is
\* the end of a split round one.
ClaimStates == {"BEFORE", "COMMIT", "REVEAL", "DISCUSSION", "FINAL"}
Workers == {"resolver", "evidencer", "juror"}

\* The windows of the clock: 0 the discussion, 1 the commit window, 2 the reveal window.
CommitDeadline == 1
RevealDeadline == 2
After == 3

VARIABLES
    round,        \* the round that is run
    now,          \* the window the clock is in
    chain,        \* the Claim, Committee and RoundTally objects
    chainSeat,    \* the JurySeat objects
    db,           \* the claim, committee, tally, manifest, certificate and attempt rows
    seatRow,      \* the jury seat rows
    runRow,       \* the inference run rows
    approvalRow,  \* the run approval rows
    packageRow,   \* the vote package rows
    worker,       \* what each worker's current tick holds in memory
    seatRun,      \* the seats the inference worker is running, in memory
    committer,    \* the votesCommit pass of the inference worker, in memory
    faults        \* the faults that have happened

chainVars  == <<chain, chainSeat>>
rowVars    == <<seatRow, runRow, approvalRow, packageRow>>
jurorVars  == <<seatRun, committer>>
vars == <<round, now, chain, chainSeat, db, seatRow, runRow, approvalRow, packageRow,
          worker, seatRun, committer, faults>>

CommitOpen == now <= CommitDeadline
RevealOpen == now <= RevealDeadline
\* Round one freezes until its commit deadline, round two while the discussion lasts.
FreezeOpen == IF round = 1 THEN CommitOpen ELSE now < CommitDeadline

\* One more of the faults that the bound allows.
Fault == faults < MaxFaults[round] /\ faults' = faults + 1

Lowest(S) == CHOOSE k \in S : \A j \in S : k <= j

NoRow == [status |-> "NONE", bound |-> FALSE]
NoChainSeat == [status |-> "NONE", bound |-> FALSE, approved |-> FALSE, ballot |-> NoOutcome]
Idle == [pc |-> "idle", todo |-> {}, landed |-> {}]
NotRunning == [at |-> "none", draft |-> NoOutcome]
NoPackage == [status |-> "NONE", vote |-> NoOutcome]
NoCopies == [k \in Seats |-> NoOutcome]
NoPass == [pc |-> "off", todo |-> {}, seat |-> 0, copies |-> NoCopies]

Init ==
    /\ round \in RoundsRun
    /\ now = IF round = 1 THEN CommitDeadline ELSE 0
    /\ chain = [state |-> "BEFORE", locked |-> round = 2, frozen |-> FALSE,
                verdict |-> "none"]
    /\ chainSeat = [k \in Seats |-> NoChainSeat]
    /\ db = [state |-> "BEFORE", committee |-> IF round = 2 THEN "locked" ELSE "none",
             tally |-> "none", revealed |-> {}, manifest |-> FALSE, certificate |-> "none",
             attempt |-> "ACTIVE", voidedSeat |-> 0]
    /\ seatRow = [k \in Seats |-> NoRow]
    /\ runRow = [k \in Seats |-> "NONE"]
    /\ approvalRow = [k \in Seats |-> FALSE]
    /\ packageRow = [k \in Seats |-> NoPackage]
    /\ worker = [w \in Workers |-> Idle]
    /\ seatRun = [k \in Seats |-> NotRunning]
    /\ committer = NoPass
    /\ faults = 0

-----------------------------------------------------------------------------
(* The guards of the transactions the engine sends (claim.move, jury.move, *)
(* evidence.move, settlement.move)                                         *)

OnChain(S, statuses) == \A k \in S : chainSeat[k].status \in statuses

CommitClosed == OnChain(Seats, {"COMMITTED", "REVEALED"}) \/ ~CommitOpen
RevealClosed == OnChain(Seats, {"REVEALED"}) \/ ~RevealOpen

ChainVoters(o) == {k \in Seats : chainSeat[k].status = "REVEALED" /\ chainSeat[k].ballot = o}
ChainOutcome ==
    IF \E o \in Outcomes : Cardinality(ChainVoters(o)) >= Threshold
    THEN CHOOSE o \in Outcomes : Cardinality(ChainVoters(o)) >= Threshold
    ELSE NoOutcome

TallyOpen == chain.state \in {"COMMIT", "REVEAL"}

CanSelect == round = 1 /\ chain.state = "BEFORE" /\ CommitOpen
CanFreeze == ~chain.frozen /\ FreezeOpen
             /\ chain.state \in (IF round = 1 THEN {"BEFORE", "COMMIT"} ELSE {"BEFORE"})
CanAccept(k) == chainSeat[k].status = "OFFERED" /\ CommitOpen
CanLock == chain.state # "BEFORE" /\ ~chain.locked /\ CommitOpen
\* Binding the same root again is accepted.
CanBind(k) == chain.frozen /\ TallyOpen /\ chainSeat[k].status \in {"OFFERED", "ACCEPTED", "COMMITTED"}
CanCommit(k) ==
    /\ chainSeat[k].status = "ACCEPTED"
    /\ chainSeat[k].bound /\ chainSeat[k].approved
    /\ TallyOpen /\ CommitOpen
CanAdvance == chain.state = "COMMIT" /\ CommitClosed
CanReveal(k) == chainSeat[k].status = "COMMITTED" /\ TallyOpen /\ CommitClosed /\ RevealOpen
CanDiscuss ==
    round = 1 /\ chain.state = "REVEAL" /\ RevealClosed /\ ChainOutcome = NoOutcome
CanOpenSecond ==
    round = 2 /\ chain.state = "BEFORE" /\ chain.locked /\ chain.frozen /\ CommitOpen
CanFinalize ==
    /\ chain.state = "REVEAL" /\ chain.locked /\ RevealClosed
    /\ \E k \in Seats : chainSeat[k].bound
    /\ round = 1 => ChainOutcome # NoOutcome

Seated(status) == [k \in Seats |-> [NoChainSeat EXCEPT !.status = status]]
EnterState(s) == chain' = [chain EXCEPT !.state = s]
Finalized == chain' = [chain EXCEPT !.state = "FINAL", !.verdict = ChainOutcome]

-----------------------------------------------------------------------------
(* What the rows say                                                       *)

\* workers/resolution-worker.ts isDead: terminal, stranded in the debate, or voided.
Stranded ==
    /\ round = 2 /\ db.state = "BEFORE"
    /\ ~CommitOpen \/ (now >= CommitDeadline /\ ~db.manifest)
\* Mutant: a voided attempt is still driven.
AliveThoughVoided == db.state \in {"BEFORE", "COMMIT", "REVEAL"} /\ ~Stranded
Alive == db.state \in {"BEFORE", "COMMIT", "REVEAL"} /\ db.attempt = "ACTIVE" /\ ~Stranded

AllPackagesCommitted == db.tally # "none" /\ \A k \in Seats : packageRow[k].status # "NONE"
AllRevealsRecorded == db.tally # "none" /\ db.revealed = Seats
\* The tally counts the packages' own votes.
DbVoters(o) == {k \in db.revealed : packageRow[k].vote = o}
DbOutcome ==
    IF \E o \in Outcomes : Cardinality(DbVoters(o)) >= Threshold
    THEN CHOOSE o \in Outcomes : Cardinality(DbVoters(o)) >= Threshold
    ELSE NoOutcome
\* votesReveal publishes a committed, unrevealed package whose run row is complete.
PendingReveals == {k \in Seats : packageRow[k].status = "COMMITTED" /\ runRow[k] \in Outcomes}

At(w, pc) == worker[w].pc = pc
Goto(w, pc) == worker' = [worker EXCEPT ![w].pc = pc]
Rest(w) == worker' = [worker EXCEPT ![w] = Idle]
\* A loop over seats that run side by side; accepting and binding end the tick.
Handled(w, k) ==
    IF worker[w].todo = {k} /\ w # "juror" THEN Rest(w)
    ELSE worker' = [worker EXCEPT ![w].todo = @ \ {k}]

-----------------------------------------------------------------------------
(* The resolution worker: seating the committee                            *)

SelectCommittee ==
    /\ At("resolver", "idle") /\ Alive
    /\ db.state = "BEFORE" /\ db.committee = "none"
    /\ CanSelect
    /\ EnterState("COMMIT")
    /\ chainSeat' = Seated("OFFERED")
    /\ Goto("resolver", "saveCommittee")
    /\ UNCHANGED <<round, now, db, rowVars, jurorVars, faults>>

\* advance in DISCUSSION: the phase-two root must be frozen.
OpenSecondRound ==
    /\ At("resolver", "idle") /\ Alive
    /\ db.state = "BEFORE" /\ db.manifest
    /\ CanOpenSecond
    /\ EnterState("COMMIT")
    /\ chainSeat' = Seated("ACCEPTED")
    /\ Goto("resolver", "saveCommittee")
    /\ UNCHANGED <<round, now, db, rowVars, jurorVars, faults>>

SaveCommittee ==
    /\ At("resolver", "saveCommittee")
    /\ db' = [db EXCEPT !.committee = IF round = 1 THEN "open" ELSE @]
    /\ Goto("resolver", "saveTally")
    /\ UNCHANGED <<round, now, chainVars, rowVars, jurorVars, faults>>

SaveRoundTally ==
    /\ At("resolver", "saveTally")
    /\ db' = [db EXCEPT !.tally = "open"]
    /\ worker' = [worker EXCEPT !["resolver"].pc = "saveSeats", !["resolver"].todo = Seats]
    /\ UNCHANGED <<round, now, chainVars, rowVars, jurorVars, faults>>

\* A committee row without all its seat rows is a draw that was interrupted.
MissingSeatRows == {k \in Seats : seatRow[k].status = "NONE"}

ResumeSelection ==
    /\ At("resolver", "idle") /\ Alive
    /\ round = 1 /\ db.state = "BEFORE" /\ db.committee # "none" /\ CommitOpen
    /\ worker' = [worker EXCEPT !["resolver"].pc = "saveSeats",
                                !["resolver"].todo = MissingSeatRows]
    /\ UNCHANGED <<round, now, chainVars, db, rowVars, jurorVars, faults>>

SaveNextSeat ==
    /\ At("resolver", "saveSeats") /\ worker["resolver"].todo # {}
    /\ LET k == Lowest(worker["resolver"].todo)
       IN /\ seatRow' = [seatRow EXCEPT ![k] =
                [status |-> IF round = 1 THEN "OFFERED" ELSE "ACCEPTED", bound |-> FALSE]]
          /\ worker' = [worker EXCEPT !["resolver"].todo = @ \ {k}]
    /\ UNCHANGED <<round, now, chainVars, db, runRow, approvalRow, packageRow, jurorVars, faults>>

\* Then the seats are accepted (round one) or bound (round two) from the rows as they are.
RecordCommitPhase ==
    /\ At("resolver", "saveSeats") /\ worker["resolver"].todo = {}
    /\ db' = [db EXCEPT !.state = "COMMIT"]
    /\ LET offered == {k \in Seats : seatRow[k].status = "OFFERED"}
           unbound == {k \in Seats : ~seatRow[k].bound}
           todo == IF round = 1 THEN offered ELSE unbound
       IN worker' = [worker EXCEPT !["resolver"] =
            IF todo = {} THEN Idle
            ELSE [Idle EXCEPT !.pc = IF round = 1 THEN "accept" ELSE "bind", !.todo = todo]]
    /\ UNCHANGED <<round, now, chainVars, rowVars, jurorVars, faults>>

\* acceptOfferedSeats: the agents sign side by side; a seat that cannot be accepted is not
\* offered again to any later tick.  The row written back was read before the calls, so it
\* may undo a bind that was recorded meanwhile.  Nothing reads the status of an accepted
\* seat's row, and the call and its save are one step.
AcceptOfferedSeat(k) ==
    /\ At("resolver", "accept") /\ k \in worker["resolver"].todo
    /\ \/ /\ CanAccept(k)
          /\ chainSeat' = [chainSeat EXCEPT ![k].status = "ACCEPTED"]
          /\ \E bound \in {seatRow[k].bound, FALSE} :
                seatRow' = [seatRow EXCEPT ![k] = [status |-> "ACCEPTED", bound |-> bound]]
       \/ /\ MayFail \/ ~CanAccept(k)
          /\ UNCHANGED <<chainSeat, seatRow>>
    /\ Handled("resolver", k)
    /\ UNCHANGED <<round, now, chain, db, runRow, approvalRow, packageRow, jurorVars, faults>>

\* bindSeatsToEvidence, called by all three workers: the agents sign side by side, a bind
\* that fails is skipped.  Binding the same root again is harmless, so a bind that is not
\* saved is one that was not made, and the call and its save are one step.
BindSeat(w, k) ==
    /\ At(w, "bind") /\ k \in worker[w].todo
    /\ \/ /\ CanBind(k)
          /\ chainSeat' = [chainSeat EXCEPT ![k].bound = TRUE]
          /\ seatRow' = [seatRow EXCEPT ![k].bound = TRUE]
       \/ /\ MayFail \/ ~CanBind(k)
          /\ UNCHANGED <<chainSeat, seatRow>>
    /\ Handled(w, k)
    /\ UNCHANGED <<round, now, chain, db, runRow, approvalRow, packageRow, jurorVars, faults>>

-----------------------------------------------------------------------------
(* The evidence worker                                                     *)

\* The transaction, after the manifest's upload; phase two waits for the debate first.
FreezeEvidence ==
    /\ At("evidencer", "idle")
    /\ db.state = (IF round = 1 THEN "COMMIT" ELSE "BEFORE")
    /\ FreezeOpen /\ ~db.manifest
    /\ CanFreeze
    /\ chain' = [chain EXCEPT !.frozen = TRUE]
    /\ Goto("evidencer", "saveManifest")
    /\ UNCHANGED <<round, now, chainSeat, db, rowVars, jurorVars, faults>>

SaveManifest ==
    /\ At("evidencer", "saveManifest")
    /\ db' = [db EXCEPT !.manifest = TRUE]
    /\ LET unbound == {k \in Seats : seatRow[k].status # "NONE" /\ ~seatRow[k].bound}
       IN worker' = [worker EXCEPT !["evidencer"] =
            IF db.tally = "none" \/ unbound = {} THEN Idle
            ELSE [Idle EXCEPT !.pc = "bind", !.todo = unbound]]
    /\ UNCHANGED <<round, now, chainVars, rowVars, jurorVars, faults>>

-----------------------------------------------------------------------------
(* The inference worker: the seats of juryRun                              *)

StartJuryRun ==
    /\ At("juror", "idle")
    /\ db.state = "COMMIT" /\ db.manifest /\ db.attempt # "VOIDED"
    /\ db.committee # "none" /\ db.tally # "none" /\ MissingSeatRows = {}
    /\ worker' = [worker EXCEPT !["juror"] =
            [Idle EXCEPT !.pc = "bind", !.todo = {k \in Seats : ~seatRow[k].bound}]]
    /\ UNCHANGED <<round, now, chainVars, db, rowVars, jurorVars, faults>>

\* Mutant: a seat that has a run is run again by the next tick.
StartSeatsAgain ==
    /\ At("juror", "bind") /\ worker["juror"].todo = {} /\ worker["juror"].landed = {}
    /\ worker' = [worker EXCEPT !["juror"] =
            [Idle EXCEPT !.pc = "run", !.todo = {k \in Seats : seatRow[k].bound}]]
    /\ UNCHANGED <<round, now, chainVars, db, rowVars, jurorVars, faults>>

\* The rows are read again: bound seats without a run start, the others wait for a tick.
StartSeats ==
    /\ At("juror", "bind") /\ worker["juror"].todo = {} /\ worker["juror"].landed = {}
    /\ worker' = [worker EXCEPT !["juror"] =
            [Idle EXCEPT !.pc = "run",
                         !.todo = {k \in Seats : seatRow[k].bound /\ runRow[k] = "NONE"}]]
    /\ UNCHANGED <<round, now, chainVars, db, rowVars, jurorVars, faults>>

EnterSeat(k, at, draft) == seatRun' = [seatRun EXCEPT ![k] = [at |-> at, draft |-> draft]]

\* The model answers, the sealed bundle is stored and the run is approved on chain,
\* which checks nothing of the seat.
ApproveSeatRun(k, o) ==
    /\ At("juror", "run") /\ k \in worker["juror"].todo
    /\ chainSeat' = [chainSeat EXCEPT ![k].approved = TRUE]
    /\ EnterSeat(k, "approved", o)
    /\ Handled("juror", k)
    /\ UNCHANGED <<round, now, chain, db, rowVars, committer, faults>>

\* The model, the research or the storage failed, or the seat's deadline passed.
FailSeatRun(k) ==
    /\ At("juror", "run") /\ k \in worker["juror"].todo
    /\ MayFail \/ ~CommitOpen
    /\ EnterSeat(k, "failing", NoOutcome)
    /\ Handled("juror", k)
    /\ UNCHANGED <<round, now, chainVars, db, rowVars, committer, faults>>

SaveInferenceRun(k) ==
    /\ seatRun[k].at = "approved"
    /\ runRow' = [runRow EXCEPT ![k] = seatRun[k].draft]
    /\ EnterSeat(k, "saveApproval", NoOutcome)
    /\ UNCHANGED <<round, now, chainVars, db, seatRow, approvalRow, packageRow, worker,
                   committer, faults>>

SaveRunApproval(k) ==
    /\ seatRun[k].at = "saveApproval"
    /\ approvalRow' = [approvalRow EXCEPT ![k] = TRUE]
    /\ seatRun' = [seatRun EXCEPT ![k] = NotRunning]
    /\ UNCHANGED <<round, now, chainVars, db, seatRow, runRow, packageRow, worker,
                   committer, faults>>

\* A call of finishSeatRun that follows the approval on chain is rejected, or its reply is
\* lost (saveInferenceRun, saveRunApproval, and updateSeat and the events after them): the
\* catch of runSeat and runTableVoteSeat takes it for a failure of the seat, whatever has
\* been saved, and the pass may commit the seat while its failure is being recorded.
RejectSeatCall(k) ==
    /\ Fault
    /\ seatRun[k].at \in {"approved", "saveApproval"}
    /\ \E saved \in {FALSE, seatRun[k].at = "saveApproval"} :
          approvalRow' = [approvalRow EXCEPT ![k] = saved]
    /\ EnterSeat(k, "failing", NoOutcome)
    /\ UNCHANGED <<round, now, chainVars, db, seatRow, runRow, packageRow, worker, committer>>

\* persistInferenceFailure saves the failure under the seat's run id, over whatever row the
\* run has, then voids the attempt: voidAttempt reads it and writes back what it read.
SaveFailure(k) ==
    /\ seatRun[k].at = "failing"
    /\ runRow' = [runRow EXCEPT ![k] = "FAILED"]
    /\ EnterSeat(k, "failed", NoOutcome)
    /\ UNCHANGED <<round, now, chainVars, db, seatRow, approvalRow, packageRow, worker,
                   committer, faults>>

ReadAttemptForSeat(k) ==
    /\ seatRun[k].at = "failed"
    /\ IF db.attempt = "ACTIVE" THEN EnterSeat(k, "void", NoOutcome)
       ELSE seatRun' = [seatRun EXCEPT ![k] = NotRunning]
    /\ UNCHANGED <<round, now, chainVars, db, rowVars, worker, committer, faults>>

VoidForSeat(k) ==
    /\ seatRun[k].at = "void"
    /\ db' = [db EXCEPT !.attempt = "VOIDED", !.voidedSeat = k]
    /\ seatRun' = [seatRun EXCEPT ![k] = NotRunning]
    /\ UNCHANGED <<round, now, chainVars, rowVars, worker, committer, faults>>

-----------------------------------------------------------------------------
(* The inference worker: votesCommit, one pass at a time (queueCommit)     *)

SeatsFinished == worker["juror"].todo = {} /\ \A k \in Seats : seatRun[k] = NotRunning
\* The complete runs without a package, and those of them whose approval is recorded.
ValidRuns == {k \in Seats : runRow[k] \in Outcomes /\ packageRow[k].status = "NONE"}
Committable == {k \in ValidRuns : approvalRow[k]}
\* What a pass could do at all; a pass that could do nothing leaves no trace.
PassUseful == IF db.committee = "open" THEN CanLock ELSE Committable # {}

Pass(pc, todo, seat) ==
    committer' = [committer EXCEPT !.pc = pc, !.todo = todo, !.seat = seat]
PassOn(todo) == IF todo = {} THEN committer' = NoPass ELSE Pass("next", todo, 0)

\* The commit pump and the seats that finish start passes while others still run; the
\* worker's last pass comes when all seats are done.
StartPass ==
    /\ At("juror", "run") /\ committer.pc = "off"
    /\ db.state = "COMMIT" /\ PassUseful
    /\ Pass("begin", {}, 0)
    /\ IF SeatsFinished THEN Goto("juror", "lastPass") ELSE UNCHANGED worker
    /\ UNCHANGED <<round, now, chainVars, db, rowVars, seatRun, faults>>

LockCommittee ==
    /\ committer.pc = "begin" /\ db.committee = "open"
    /\ \/ CanLock /\ chain' = [chain EXCEPT !.locked = TRUE] /\ Pass("saveLock", {}, 0)
       \/ ~CanLock /\ committer' = NoPass /\ UNCHANGED chain
    /\ UNCHANGED <<round, now, chainSeat, db, rowVars, worker, seatRun, faults>>

SaveLock ==
    /\ committer.pc = "saveLock"
    /\ db' = [db EXCEPT !.committee = "locked"]
    /\ Pass("begin", {}, 0)
    /\ UNCHANGED <<round, now, chainVars, rowVars, worker, seatRun, faults>>

\* The runs are read once: the pass works from these copies to its end.
ListRuns ==
    /\ committer.pc = "begin" /\ db.committee = "locked"
    /\ IF ValidRuns = {} THEN committer' = NoPass
       ELSE committer' = [pc |-> "next", todo |-> ValidRuns, seat |-> 0,
                          copies |-> [k \in Seats |->
                              IF k \in ValidRuns THEN runRow[k] ELSE NoOutcome]]
    /\ UNCHANGED <<round, now, chainVars, db, rowVars, worker, seatRun, faults>>

NextRun == Lowest(committer.todo)

Committed(k) == [chainSeat EXCEPT ![k].status = "COMMITTED", ![k].approved = FALSE,
                                  ![k].ballot = committer.copies[k]]
StorePackage(k) ==
    packageRow' = [packageRow EXCEPT
                      ![k] = [status |-> "COMMITTED", vote |-> committer.copies[k]]]

\* Mutant: the package is saved before the transaction that commits it.
CommitVoteSavedFirst ==
    /\ committer.pc = "next" /\ approvalRow[NextRun]
    /\ StorePackage(NextRun)
    /\ chainSeat' = IF CanCommit(NextRun) THEN Committed(NextRun) ELSE chainSeat
    /\ PassOn(committer.todo \ {NextRun})
    /\ UNCHANGED <<round, now, chain, db, seatRow, runRow, approvalRow, worker, seatRun, faults>>

\* The first call that aborts ends the pass for every later seat.
CommitVote ==
    /\ committer.pc = "next" /\ approvalRow[NextRun]
    /\ \/ /\ CanCommit(NextRun)
          /\ chainSeat' = Committed(NextRun)
          /\ Pass("savePackage", committer.todo \ {NextRun}, NextRun)
       \/ ~CanCommit(NextRun) /\ committer' = NoPass /\ UNCHANGED chainSeat
    /\ UNCHANGED <<round, now, chain, db, rowVars, worker, seatRun, faults>>

\* A run whose approval is not recorded yet is left to a later pass.
SkipUnapproved ==
    /\ committer.pc = "next" /\ ~approvalRow[NextRun]
    /\ PassOn(committer.todo \ {NextRun})
    /\ UNCHANGED <<round, now, chainVars, db, rowVars, worker, seatRun, faults>>

\* The approval row is marked consumed with it: a seat with a package is passed over anyway.
SaveVotePackage ==
    /\ committer.pc = "savePackage"
    /\ StorePackage(committer.seat)
    /\ PassOn(committer.todo)
    /\ UNCHANGED <<round, now, chainVars, db, seatRow, runRow, approvalRow, worker, seatRun,
                   faults>>

EndJuryTick ==
    /\ committer.pc = "off"
    /\ \/ At("juror", "lastPass")
       \/ At("juror", "run") /\ SeatsFinished /\ ~(db.state = "COMMIT" /\ PassUseful)
    /\ Rest("juror")
    /\ UNCHANGED <<round, now, chainVars, db, rowVars, jurorVars, faults>>

-----------------------------------------------------------------------------
(* The resolution worker: revealing and settling                           *)

\* Mutant: the reveal phase opens at the commit deadline whatever is committed.
AdvanceAtDeadline ==
    /\ At("resolver", "idle") /\ Alive
    /\ db.state = "COMMIT" /\ db.tally # "none"
    /\ AllPackagesCommitted \/ \E k \in Seats : packageRow[k].status # "NONE"
    /\ CanAdvance
    /\ EnterState("REVEAL")
    /\ Goto("resolver", "saveReveal")
    /\ UNCHANGED <<round, now, chainSeat, db, rowVars, jurorVars, faults>>

AdvancePhase ==
    /\ At("resolver", "idle") /\ Alive
    /\ db.state = "COMMIT" /\ AllPackagesCommitted
    /\ CanAdvance
    /\ EnterState("REVEAL")
    /\ Goto("resolver", "saveReveal")
    /\ UNCHANGED <<round, now, chainSeat, db, rowVars, jurorVars, faults>>

EnterReveal ==
    worker' = [worker EXCEPT !["resolver"] =
                  [Idle EXCEPT !.pc = "reveal", !.todo = PendingReveals]]

\* The reveals start in the tick that opened the phase.
RecordRevealPhase ==
    /\ At("resolver", "saveReveal")
    /\ db' = [db EXCEPT !.state = "REVEAL"]
    /\ EnterReveal
    /\ UNCHANGED <<round, now, chainVars, rowVars, jurorVars, faults>>

StartReveal ==
    /\ At("resolver", "idle") /\ Alive
    /\ db.state = "REVEAL" /\ db.tally # "none"
    /\ EnterReveal
    /\ UNCHANGED <<round, now, chainVars, db, rowVars, jurorVars, faults>>

\* Every seat on its own: its bundle's upload may fail, its transaction may abort.
RevealVote(k) ==
    /\ At("resolver", "reveal") /\ k \in worker["resolver"].todo
    /\ \/ /\ CanReveal(k)
          /\ chainSeat' = [chainSeat EXCEPT ![k].status = "REVEALED"]
          /\ worker' = [worker EXCEPT !["resolver"].todo = @ \ {k},
                                      !["resolver"].landed = @ \cup {k}]
       \/ /\ MayFail \/ ~CanReveal(k)
          /\ worker' = [worker EXCEPT !["resolver"].todo = @ \ {k}]
          /\ UNCHANGED chainSeat
    /\ UNCHANGED <<round, now, chain, db, rowVars, jurorVars, faults>>

\* When all have answered: the saves, one seat after the other.
RevealsSettled == worker["resolver"].todo = {}
NextRevealed == Lowest(worker["resolver"].landed)

\* The run row that was read when the reveals began is written back with its bundle's
\* address: the complete row that the seat's package was made of.
SaveRevealedRun ==
    /\ At("resolver", "reveal") /\ RevealsSettled /\ worker["resolver"].landed # {}
    /\ runRow' = [runRow EXCEPT ![NextRevealed] = packageRow[NextRevealed].vote]
    /\ Goto("resolver", "saveRevealed")
    /\ UNCHANGED <<round, now, chainVars, db, seatRow, approvalRow, packageRow, jurorVars, faults>>

SaveRevealedPackage ==
    /\ At("resolver", "saveRevealed")
    /\ packageRow' = [packageRow EXCEPT ![NextRevealed].status = "REVEALED"]
    /\ Goto("resolver", "saveRevealedTally")
    /\ UNCHANGED <<round, now, chainVars, db, seatRow, runRow, approvalRow, jurorVars, faults>>

SaveRevealedTally ==
    /\ At("resolver", "saveRevealedTally")
    /\ db' = [db EXCEPT !.revealed = @ \cup {NextRevealed}]
    /\ worker' = [worker EXCEPT !["resolver"].pc = "reveal",
                                !["resolver"].landed = @ \ {NextRevealed}]
    /\ UNCHANGED <<round, now, chainVars, rowVars, jurorVars, faults>>

\* The inspection after the reveals.
Inspecting == At("resolver", "reveal") /\ RevealsSettled /\ worker["resolver"].landed = {}

WaitForReveals ==
    /\ Inspecting
    /\ ~AllRevealsRecorded /\ RevealOpen
    /\ Rest("resolver")
    /\ UNCHANGED <<round, now, chainVars, db, rowVars, jurorVars, faults>>

OpenDiscussion ==
    /\ Inspecting
    /\ AllRevealsRecorded /\ db.certificate = "none"
    /\ round = 1 /\ DbOutcome = NoOutcome
    /\ \/ CanDiscuss /\ EnterState("DISCUSSION") /\ Goto("resolver", "saveSplit")
       \/ ~CanDiscuss /\ Rest("resolver") /\ UNCHANGED chain
    /\ UNCHANGED <<round, now, chainSeat, db, rowVars, jurorVars, faults>>

SaveSplitTally ==
    /\ At("resolver", "saveSplit")
    /\ db' = [db EXCEPT !.tally = "closed"]
    /\ Goto("resolver", "saveDiscussion")
    /\ UNCHANGED <<round, now, chainVars, rowVars, jurorVars, faults>>

RecordDiscussion ==
    /\ At("resolver", "saveDiscussion")
    /\ db' = [db EXCEPT !.state = "DISCUSSION"]
    /\ Rest("resolver")
    /\ UNCHANGED <<round, now, chainVars, rowVars, jurorVars, faults>>

Finalize ==
    /\ Inspecting
    /\ AllRevealsRecorded /\ db.certificate = "none"
    /\ round = 1 => DbOutcome # NoOutcome
    /\ \/ CanFinalize /\ Finalized /\ Goto("resolver", "saveCertificate")
       \/ ~CanFinalize /\ Rest("resolver") /\ UNCHANGED chain
    /\ UNCHANGED <<round, now, chainSeat, db, rowVars, jurorVars, faults>>

\* finalize returns at once when there is a certificate row.
AlreadyFinalized ==
    /\ Inspecting
    /\ AllRevealsRecorded /\ db.certificate # "none"
    /\ Rest("resolver")
    /\ UNCHANGED <<round, now, chainVars, db, rowVars, jurorVars, faults>>

SaveCertificate ==
    /\ At("resolver", "saveCertificate")
    /\ db' = [db EXCEPT !.certificate = DbOutcome]
    /\ Goto("resolver", "saveVerdict")
    /\ UNCHANGED <<round, now, chainVars, rowVars, jurorVars, faults>>

RecordVerdict ==
    /\ At("resolver", "saveVerdict")
    /\ db' = [db EXCEPT !.state = "FINAL"]
    /\ Goto("resolver", "settleAttempt")
    /\ UNCHANGED <<round, now, chainVars, rowVars, jurorVars, faults>>

\* Whatever the attempt was, it is written SETTLED.
SettleAttempt ==
    /\ At("resolver", "settleAttempt")
    /\ db' = [db EXCEPT !.attempt = "SETTLED"]
    /\ Goto("resolver", "closeTally")
    /\ UNCHANGED <<round, now, chainVars, rowVars, jurorVars, faults>>

CloseTally ==
    /\ At("resolver", "closeTally")
    /\ db' = [db EXCEPT !.tally = "closed"]
    /\ Rest("resolver")
    /\ UNCHANGED <<round, now, chainVars, rowVars, jurorVars, faults>>

-----------------------------------------------------------------------------
(* The resolution worker: giving an attempt up at its deadlines            *)

\* Mutant: a draw that never succeeds is never given up.
MissingCommitteeIgnored == FALSE
MissingCommittee == At("resolver", "idle") /\ round = 1 /\ db.state = "BEFORE" /\ ~CommitOpen
MissingCommit ==
    At("resolver", "idle") /\ db.state = "COMMIT" /\ ~CommitOpen /\ ~AllPackagesCommitted
MissingReveal == Inspecting /\ ~AllRevealsRecorded /\ ~RevealOpen

\* voidAttempt reads the attempt here and writes it in VoidAttempt.
ReadAttempt ==
    /\ \/ Alive /\ (MissingCommittee \/ MissingCommit)
       \/ MissingReveal
    /\ IF db.attempt = "ACTIVE" THEN Goto("resolver", "void") ELSE Rest("resolver")
    /\ UNCHANGED <<round, now, chainVars, db, rowVars, jurorVars, faults>>

VoidAttempt ==
    /\ At("resolver", "void")
    /\ db' = [db EXCEPT !.attempt = "VOIDED", !.voidedSeat = 0]
    /\ Rest("resolver")
    /\ UNCHANGED <<round, now, chainVars, rowVars, jurorVars, faults>>

-----------------------------------------------------------------------------
(* Time, faults and strangers                                              *)

Tick ==
    /\ now < After
    /\ now' = now + 1
    /\ UNCHANGED <<round, chainVars, db, rowVars, worker, jurorVars, faults>>

\* A worker dies and its supervisor starts it again: its tick is forgotten.
Crash(w) ==
    /\ Fault
    /\ ~At(w, "idle")
    /\ Rest(w)
    /\ IF w = "juror"
       THEN seatRun' = [k \in Seats |-> NotRunning] /\ committer' = NoPass
       ELSE UNCHANGED jurorVars
    /\ UNCHANGED <<round, now, chainVars, db, rowVars>>

\* executeAndWait throws after the transaction landed, and the caller takes it for a
\* failure.  A tick that is given up because of it is a Crash; these go on, and so does a
\* seat's run in RejectSeatCall.
LoseRevealReply(k) ==
    /\ Fault
    /\ At("resolver", "reveal") /\ k \in worker["resolver"].landed
    /\ worker' = [worker EXCEPT !["resolver"].landed = @ \ {k}]
    /\ UNCHANGED <<round, now, chainVars, db, rowVars, jurorVars>>

\* Any call of a pass may be rejected, or its reply lost: queueCommit ends the pass there.
LoseCommitReply ==
    /\ Fault
    /\ committer.pc # "off"
    /\ committer' = NoPass
    /\ UNCHANGED <<round, now, chainVars, db, rowVars, worker, seatRun>>

\* The crank is permissionless: a stranger may turn it first.
OutsiderTurnsCrank ==
    /\ Fault
    /\ \/ CanAdvance /\ EnterState("REVEAL") /\ UNCHANGED chainSeat
       \/ CanDiscuss /\ EnterState("DISCUSSION") /\ UNCHANGED chainSeat
       \/ CanOpenSecond /\ EnterState("COMMIT") /\ chainSeat' = Seated("ACCEPTED")
       \/ CanFinalize /\ Finalized /\ UNCHANGED chainSeat
       \/ CanSelect /\ EnterState("COMMIT") /\ chainSeat' = Seated("OFFERED")
    /\ UNCHANGED <<round, now, db, rowVars, worker, jurorVars>>

-----------------------------------------------------------------------------

ResolverStep ==
    \/ SelectCommittee \/ OpenSecondRound \/ SaveCommittee \/ SaveRoundTally
    \/ ResumeSelection \/ SaveNextSeat \/ RecordCommitPhase
    \/ \E k \in Seats : AcceptOfferedSeat(k) \/ RevealVote(k)
    \/ \E k \in Seats : BindSeat("resolver", k)
    \/ AdvancePhase \/ RecordRevealPhase \/ StartReveal
    \/ SaveRevealedRun \/ SaveRevealedPackage \/ SaveRevealedTally \/ WaitForReveals
    \/ OpenDiscussion \/ SaveSplitTally \/ RecordDiscussion
    \/ Finalize \/ AlreadyFinalized \/ SaveCertificate \/ RecordVerdict \/ SettleAttempt
    \/ CloseTally \/ ReadAttempt \/ VoidAttempt

EvidencerStep ==
    \/ FreezeEvidence \/ SaveManifest
    \/ \E k \in Seats : BindSeat("evidencer", k)

SeatStep(k) ==
    \/ (\E o \in Outcomes : ApproveSeatRun(k, o)) \/ FailSeatRun(k)
    \/ SaveInferenceRun(k) \/ SaveRunApproval(k)
    \/ SaveFailure(k) \/ ReadAttemptForSeat(k) \/ VoidForSeat(k)

JurorStep ==
    \/ StartJuryRun \/ StartSeats \/ EndJuryTick
    \/ \E k \in Seats : BindSeat("juror", k)

CommitterStep ==
    \/ StartPass \/ LockCommittee \/ SaveLock \/ ListRuns
    \/ CommitVote \/ SkipUnapproved \/ SaveVotePackage

FaultStep ==
    \/ \E w \in Workers : Crash(w)
    \/ \E k \in Seats : LoseRevealReply(k) \/ RejectSeatCall(k)
    \/ LoseCommitReply \/ OutsiderTurnsCrank

Next ==
    \/ ResolverStep \/ EvidencerStep \/ JurorStep \/ CommitterStep
    \/ \E k \in Seats : SeatStep(k)
    \/ Tick \/ FaultStep

Spec == Init /\ [][Next]_vars

\* Every worker polls for ever (workers/runtime.ts runWorker), the seats of a tick run
\* side by side, and time passes.
WorkersRun ==
    /\ WF_vars(Tick)
    /\ WF_vars(ResolverStep) /\ WF_vars(EvidencerStep)
    /\ WF_vars(JurorStep) /\ WF_vars(CommitterStep)
    /\ \A k \in Seats : WF_vars(SeatStep(k))

FairSpec == Spec /\ WorkersRun

-----------------------------------------------------------------------------
(* Properties                                                              *)

TickSteps == {"idle", "saveCommittee", "saveTally", "saveSeats", "accept", "bind",
              "saveManifest", "run", "lastPass", "saveReveal", "reveal",
              "saveRevealed", "saveRevealedTally", "saveSplit", "saveDiscussion",
              "saveCertificate", "saveVerdict", "settleAttempt", "closeTally",
              "void"}
PassSteps == {"off", "begin", "saveLock", "next", "savePackage"}
SeatSteps == {"none", "approved", "saveApproval", "failing", "failed", "void"}
Verdicts == Outcomes \cup {NoOutcome, "none"}

ClaimObjects == [state : ClaimStates, locked : BOOLEAN, frozen : BOOLEAN, verdict : Verdicts]
SeatStatuses == {"NONE", "OFFERED", "ACCEPTED", "COMMITTED", "REVEALED"}
SeatObjects == [status : SeatStatuses, bound : BOOLEAN, approved : BOOLEAN,
                ballot : Outcomes \cup {NoOutcome}]
ClaimRows == [state : ClaimStates, committee : {"none", "open", "locked"},
              tally : {"none", "open", "closed"}, revealed : SUBSET Seats,
              manifest : BOOLEAN, certificate : Verdicts,
              attempt : {"ACTIVE", "VOIDED", "SETTLED"}, voidedSeat : 0 .. SeatCount]
SeatRows == [status : {"NONE", "OFFERED", "ACCEPTED"}, bound : BOOLEAN]
Ticks == [pc : TickSteps, todo : SUBSET Seats, landed : SUBSET Seats]
SeatRuns == [at : SeatSteps, draft : Outcomes \cup {NoOutcome}]
Packages == [status : {"NONE", "COMMITTED", "REVEALED"}, vote : Outcomes \cup {NoOutcome}]
Passes == [pc : PassSteps, todo : SUBSET Seats, seat : 0 .. SeatCount,
           copies : [Seats -> Outcomes \cup {NoOutcome}]]

\* Every variable keeps its type.
TypeOK ==
    /\ round \in {1, 2} /\ now \in 0 .. After /\ faults \in 0 .. MaxFaults[round]
    /\ chain \in ClaimObjects
    /\ chainSeat \in [Seats -> SeatObjects]
    /\ db \in ClaimRows
    /\ seatRow \in [Seats -> SeatRows]
    /\ runRow \in [Seats -> {"NONE", "FAILED"} \cup Outcomes]
    /\ approvalRow \in [Seats -> BOOLEAN]
    /\ packageRow \in [Seats -> Packages]
    /\ worker \in [Workers -> Ticks]
    /\ seatRun \in [Seats -> SeatRuns]
    /\ committer \in Passes

\* How far a claim has come.
Rank(s) == CASE s = "BEFORE" -> 0 [] s = "COMMIT" -> 1 [] s = "REVEAL" -> 2 [] OTHER -> 3

\* No row is ahead of the chain, whatever crashed and whichever stale copy of a row was
\* written back: a recorded phase, lock, root, acceptance, bind, commit, reveal or verdict
\* is one the chain holds (each is saved only after its transaction returned).
PhaseTrails ==
    /\ Rank(db.state) <= Rank(chain.state)
    /\ db.state \in {"DISCUSSION", "FINAL"} => db.state = chain.state
    /\ db.committee # "none" => round = 2 \/ chain.state # "BEFORE"
    /\ db.committee = "locked" => chain.locked
    /\ db.tally # "none" => chain.state # "BEFORE"
    /\ db.manifest => chain.frozen
    /\ db.certificate # "none" => db.certificate = chain.verdict

SeatTrails(k) ==
    /\ seatRow[k].status # "NONE" => chainSeat[k].status # "NONE"
    /\ seatRow[k].status = "ACCEPTED" => chainSeat[k].status # "OFFERED"
    /\ seatRow[k].bound => chainSeat[k].bound
    /\ packageRow[k].status # "NONE" =>
           /\ chainSeat[k].status \in {"COMMITTED", "REVEALED"}
           /\ chainSeat[k].ballot = packageRow[k].vote
    /\ packageRow[k].status = "REVEALED" \/ k \in db.revealed => chainSeat[k].status = "REVEALED"

DatabaseTrailsChain == PhaseTrails /\ \A k \in Seats : SeatTrails(k)

\* The one void that may meet a settlement: a seat's, whose run had its approval recorded
\* before a call of its own run was rejected, so that a pass commits it all the same.
VoidedAfterApproval == db.voidedSeat \in Seats /\ approvalRow[db.voidedSeat]

\* The inference worker's void and the resolution worker's verdict are written without
\* looking, and a rejected call after the approval lets either overwrite the other.  Only
\* that: whatever else fails, and at whichever deadline, an attempt is decided once.
AttemptDecidedOnce ==
    [][db.attempt # "ACTIVE" /\ db'.attempt # db.attempt => VoidedAfterApproval']_vars

\* So an attempt that was voided, and may have been relaunched, is never certified, unless
\* it was voided by a seat that failed after its approval was recorded.
VoidedIsNotCertified ==
    db.attempt = "VOIDED" /\ db.certificate # "none" => VoidedAfterApproval

\* What the database shows of the round is a sealed ballot: a vote is stored before any
\* reveal is, is never altered, and the certificate is what the stored reveals say.
Ballot == INSTANCE SealedBallot WITH
    ballot <- [k \in Seats |-> packageRow[k].vote],
    opened <- db.revealed,
    verdict <- IF db.certificate # "none" THEN db.certificate
               ELSE IF db.tally = "closed" THEN NoOutcome ELSE "OPEN"
DatabaseIsSealedBallot == Ballot!BallotSpec

\* The dead ends of a claim: decided, voided, split (the debate goes on), stranded.
Ended == db.attempt # "ACTIVE" \/ db.state = "DISCUSSION" \/ Stranded
\* The chain has left the phase the database shows, or the verdict's saves were cut short.
Behind == Rank(db.state) < Rank(chain.state) \/ db.certificate # "none"

\* The workers bring every attempt to an end, or a fault left the database for ever behind
\* the chain: nothing re-reads the chain (engine.ts finalize, advance, votesCommit), and
\* such a claim is neither settled nor voided.
EndsOrFallsBehind == <>[](Ended \/ (faults > 0 /\ Behind))

\* lib/engine/engine.ts:1282-1287 "finish the interrupted writes from the committee record".
\* A claim recorded in its commit phase has the tally row that every later step requires.
CommitPhaseHasTally == db.state # "BEFORE" => db.tally # "none"
=============================================================================
