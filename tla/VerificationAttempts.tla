-------------------------- MODULE VerificationAttempts --------------------------
(***************************************************************************)
(* The attempts of a verification: a statement gets up to three claims,    *)
(* each launched because the one before was voided (lib/engine/engine.ts,  *)
(* relaunchTick, factCheckStart, voidAttempt).                             *)
(*                                                                         *)
(* A launch is a chain transaction followed by database rows, saved one by *)
(* one by a worker that may die between any two of them.  A row is always  *)
(* written whole, from the copy the writer read before.  The resolution    *)
(* worker may run in several replicas, kept apart by the tick lock of      *)
(* workers/runtime.ts.  What happens inside one claim is modelled in       *)
(* ClaimEngine; here a claim is failing, or certified, or torn: a seat     *)
(* whose call was rejected after its approval reports a failure of a claim *)
(* that may be certified all the same, the one case of both that           *)
(* ClaimEngine leaves (VoidedAfterApproval).                               *)
(***************************************************************************)
EXTENDS Integers, FiniteSets

CONSTANTS
    Claims,         \* the identifiers the chain may hand out
    Roots,          \* a bound for TLC: how many statements are submitted
    Replicas,       \* the processes of the resolution worker
    Voiders,        \* concurrent calls of voidAttempt, numbered
    MaxAttempts,    \* MAX_VERIFICATION_ATTEMPTS
    GiveUpAfter,    \* RELAUNCH_GIVE_UP_MS, in ticks of the clock
    MaxFaults,      \* a bound for TLC on deaths of workers and on failing calls
    None

ASSUME SizesAssumption ==
    /\ IsFiniteSet(Claims) /\ Claims \subseteq Nat /\ Voiders \subseteq Nat
    /\ None \notin Claims \cup Replicas
    /\ Roots \in Nat /\ MaxAttempts \in Nat \ {0} /\ MaxFaults \in Nat
    /\ GiveUpAfter \in Nat

VARIABLES
    onChain,      \* the claims created on chain
    claimRow,     \* those of which the database has a row
    attemptRow,   \* claim -> its verification_attempts row, or NoRow
    voidAge,      \* claim -> the time since the row's voidedAt
    fate,         \* claim -> what becomes of the claim itself
    voider,       \* call of voidAttempt -> the row it has read
    replica,      \* process -> its relaunchTick
    faults

vars == <<onChain, claimRow, attemptRow, voidAge, fate, voider, replica, faults>>
world == <<onChain, claimRow, fate>>

NoRow == [verification |-> None, attempt |-> 0, parent |-> None, status |-> "NONE",
          relaunchedAs |-> None]
HasRow(c) == attemptRow[c].status # "NONE"

\* Identifiers mean nothing: a new claim takes the least one that is free.
IsNext(c) == c \notin onChain /\ \A d \in Claims \ onChain : c <= d

\* The row of a claim that was launched as the given attempt of its verification.
LaunchedRow(verification, attempt, parent) ==
    [verification |-> verification, attempt |-> attempt, parent |-> parent,
     status |-> "ACTIVE", relaunchedAs |-> None]

\* What ensureVerificationAttempt returns: the row, or that of a first attempt.
EnsuredRow(c) == IF HasRow(c) THEN attemptRow[c] ELSE LaunchedRow(c, 1, None)

Idle == [pc |-> "IDLE", todo |-> {}, cur |-> None, copy |-> NoRow, child |-> None]
NotVoiding == [claim |-> None, copy |-> NoRow]

\* One more of the faults that the bound allows.
Fault == faults < MaxFaults /\ faults' = faults + 1

Init ==
    /\ onChain = {} /\ claimRow = {}
    /\ attemptRow = [c \in Claims |-> NoRow]
    /\ voidAge = [c \in Claims |-> 0]
    /\ fate = [c \in Claims |-> "OPEN"]
    /\ voider = [v \in Voiders |-> NotVoiding]
    /\ replica = [w \in Replicas |-> Idle]
    /\ faults = 0

-----------------------------------------------------------------------------
(* Submission and the end of a claim                                       *)

\* The web process: transaction, claim row, attempt row.  They are one step: a reader in
\* between, or after a death in between, makes the same first attempt of the claim
\* (EnsuredRow).
FactCheckStart(c) ==
    /\ IsNext(c)
    /\ Cardinality(onChain) < Roots
    /\ onChain' = onChain \cup {c}
    /\ claimRow' = claimRow \cup {c}
    /\ attemptRow' = [attemptRow EXCEPT ![c] = LaunchedRow(c, 1, None)]
    /\ UNCHANGED <<voidAge, fate, voider, replica, faults>>

\* A claim lives for minutes: it is not decided between the first two saves of a live
\* launch, which follow one another, but it may be if the launch dies there.
Decidable(c) ==
    /\ c \in claimRow /\ fate[c] = "OPEN"
    /\ \A w \in Replicas : replica[w].pc = "SAVED" => replica[w].child # c

\* A claim that cannot be certified any more: a seat failed or a deadline was missed.
Fail(c) ==
    /\ Decidable(c)
    /\ fate' = [fate EXCEPT ![c] = "FAILING"]
    /\ UNCHANGED <<onChain, claimRow, attemptRow, voidAge, voider, replica, faults>>

\* A failure of a claim that may still get its certificate: the reply of a call of a run
\* was lost after the approval of the run was recorded.
Tear(c) ==
    /\ Decidable(c)
    /\ Fault
    /\ fate' = [fate EXCEPT ![c] = "TORN"]
    /\ UNCHANGED <<onChain, claimRow, attemptRow, voidAge, voider, replica>>

\* persistFinalization, at the end of a claim that got its certificate, whatever the row
\* says by then.  A tick resolves the claims, under its lock, before it relaunches any.
Settle(c) ==
    /\ Decidable(c) \/ fate[c] = "TORN"
    /\ \A w \in Replicas : replica[w].pc = "IDLE"
    /\ fate' = [fate EXCEPT ![c] = IF @ = "TORN" THEN "BOTH" ELSE "CERTIFIED"]
    /\ attemptRow' = [attemptRow EXCEPT ![c] = [EnsuredRow(c) EXCEPT !.status = "SETTLED"]]
    /\ UNCHANGED <<onChain, claimRow, voidAge, voider, replica, faults>>

\* Mutant: the early return forgets one of the final states.
NotVoidedYet(c) == EnsuredRow(c).status # "VOIDED"
Undecided(c) == EnsuredRow(c).status = "ACTIVE"

\* voidAttempt reads the row, creating it if there is none, and may find it decided.
ReadAttempt(v, c) ==
    /\ voider[v] = NotVoiding /\ \A u \in Voiders : u < v => voider[u] # NotVoiding
    /\ fate[c] \in {"FAILING", "TORN"}
    /\ Undecided(c)
    /\ attemptRow' = [attemptRow EXCEPT ![c] = EnsuredRow(c)]
    /\ voider' = [voider EXCEPT ![v] = [claim |-> c, copy |-> EnsuredRow(c)]]
    /\ UNCHANGED <<world, voidAge, replica, faults>>

\* It then writes the whole row from that copy, whoever wrote in between.
VoidAttempt(v) ==
    LET c == voider[v].claim
    IN  /\ voider[v] # NotVoiding
        /\ attemptRow' = [attemptRow EXCEPT ![c] = [voider[v].copy EXCEPT !.status = "VOIDED"]]
        /\ voidAge' = [voidAge EXCEPT ![c] = 0]
        /\ voider' = [voider EXCEPT ![v] = NotVoiding]
        /\ UNCHANGED <<world, replica, faults>>

-----------------------------------------------------------------------------
(* relaunchTick                                                            *)

\* listVerificationAttemptsByStatus, less the rows that are skipped for their link.
VoidedRows ==
    {[claim |-> c, row |-> attemptRow[c]] :
        c \in {d \in Claims : /\ attemptRow[d].status = "VOIDED"
                             /\ attemptRow[d].relaunchedAs = None}}

\* The tick lock, the claims, the list of voided attempts.  A tick that finds none changes
\* nothing.  A claim whose attempt is voided by now was not settled in this tick, and the
\* later ones pass it over (isDead).
StartTick(w) ==
    /\ \A u \in Replicas : replica[u].pc = "IDLE"
    /\ VoidedRows # {}
    /\ replica' = [replica EXCEPT ![w] = [Idle EXCEPT !.pc = "NEXT", !.todo = VoidedRows]]
    /\ fate' = [c \in Claims |-> IF fate[c] = "TORN" /\ attemptRow[c].status = "VOIDED"
                                 THEN "FAILING" ELSE fate[c]]
    /\ UNCHANGED <<onChain, claimRow, attemptRow, voidAge, voider, faults>>

\* The end of an iteration, by continue or by an error that is logged, and of the tick
\* and its lock after the last.
NextAttempt(w) ==
    IF replica[w].todo = {} THEN Idle
    ELSE [Idle EXCEPT !.pc = "NEXT", !.todo = replica[w].todo]

\* The rows were read once, for the whole tick: the copy may be old by now.
TakeAttempt(w) ==
    /\ replica[w].pc = "NEXT"
    /\ \E t \in replica[w].todo :
          replica' = [replica EXCEPT ![w].pc = "LOOK", ![w].cur = t.claim,
                                     ![w].copy = t.row, ![w].todo = @ \ {t}]
    /\ UNCHANGED <<world, attemptRow, voidAge, voider, faults>>

\* Mutant: the tick looks only at the parent's own link.
NoSuccessors(w) == {}

\* The attempts that say they continue this one.
Successors(w) ==
    {d \in Claims : /\ HasRow(d)
                    /\ attemptRow[d].verification = replica[w].copy.verification
                    /\ attemptRow[d].parent = replica[w].cur
                    /\ attemptRow[d].attempt = replica[w].copy.attempt + 1}

\* linkRelaunchedAttempt reads the parent again and leaves a linked one alone.
Linked(parent, child) ==
    [attemptRow EXCEPT ![parent].relaunchedAs = IF @ = None THEN child ELSE @]

\* An earlier tick died between the row of the successor and the link.
AdoptSuccessor(w) ==
    /\ replica[w].pc = "LOOK"
    /\ \E d \in Successors(w) : attemptRow' = Linked(replica[w].cur, d)
    /\ replica' = [replica EXCEPT ![w] = NextAttempt(w)]
    /\ UNCHANGED <<world, voidAge, voider, faults>>

Exhausted(w) == replica[w].copy.attempt >= MaxAttempts
\* Mutant: an attempt waits for good weather without a limit.
NeverTimedOut(w) == FALSE
TimedOut(w) == voidAge[replica[w].cur] > GiveUpAfter

\* Written whole, from the copy of the tick.
GiveUpVerificationAttempt(w) ==
    /\ replica[w].pc = "LOOK" /\ Successors(w) = {}
    /\ Exhausted(w) \/ TimedOut(w)
    /\ attemptRow' = [attemptRow EXCEPT ![replica[w].cur] =
                        [replica[w].copy EXCEPT !.status = "GAVE_UP"]]
    /\ replica' = [replica EXCEPT ![w] = NextAttempt(w)]
    /\ UNCHANGED <<world, voidAge, voider, faults>>

\* The weather is bad, or this process launched one in the last ten minutes (a time it
\* keeps in memory and forgets when it restarts).
WaitForLaunch(w) ==
    /\ replica[w].pc = "LOOK" /\ Successors(w) = {} /\ ~Exhausted(w) /\ ~TimedOut(w)
    /\ replica' = [replica EXCEPT ![w] = NextAttempt(w)]
    /\ UNCHANGED <<world, attemptRow, voidAge, voider, faults>>

PassWeatherGate(w) ==
    /\ replica[w].pc = "LOOK" /\ Successors(w) = {} /\ ~Exhausted(w) /\ ~TimedOut(w)
    /\ replica' = [replica EXCEPT ![w].pc = "LAUNCH"]
    /\ UNCHANGED <<world, attemptRow, voidAge, voider, faults>>

-----------------------------------------------------------------------------
(* createClaimRecord and the rest of a relaunch, step by step              *)

CreateClaim(w, c) ==
    /\ replica[w].pc = "LAUNCH" /\ IsNext(c)
    /\ onChain' = onChain \cup {c}
    /\ replica' = [replica EXCEPT ![w].pc = "CREATED", ![w].child = c]
    /\ UNCHANGED <<claimRow, attemptRow, fate, voidAge, voider, faults>>

SaveClaim(w) ==
    /\ replica[w].pc = "CREATED"
    /\ claimRow' = claimRow \cup {replica[w].child}
    /\ replica' = [replica EXCEPT ![w].pc = "SAVED"]
    /\ UNCHANGED <<onChain, attemptRow, fate, voidAge, voider, faults>>

SaveVerificationAttempt(w) ==
    LET row == LaunchedRow(replica[w].copy.verification, replica[w].copy.attempt + 1,
                           replica[w].cur)
    IN  /\ replica[w].pc = "SAVED"
        /\ attemptRow' = [attemptRow EXCEPT ![replica[w].child] = row]
        /\ replica' = [replica EXCEPT ![w].pc = "ROWED"]
        /\ UNCHANGED <<world, voidAge, voider, faults>>

LinkRelaunchedAttempt(w) ==
    /\ replica[w].pc = "ROWED"
    /\ attemptRow' = Linked(replica[w].cur, replica[w].child)
    /\ replica' = [replica EXCEPT ![w].pc = "LINKED"]
    /\ UNCHANGED <<world, voidAge, voider, faults>>

\* After the evidence of the new claim: the parent once more, whole, from the old copy.
SaveRelaunchedAs(w) ==
    /\ replica[w].pc = "LINKED"
    /\ attemptRow' = [attemptRow EXCEPT ![replica[w].cur] =
                        [replica[w].copy EXCEPT !.relaunchedAs = replica[w].child]]
    /\ replica' = [replica EXCEPT ![w] = NextAttempt(w)]
    /\ UNCHANGED <<world, voidAge, voider, faults>>

-----------------------------------------------------------------------------
(* Faults and time                                                         *)

\* A call that throws: an upload, the transaction, its lost reply, a save, the evidence.
CallFails(w) ==
    /\ replica[w].pc \in {"LAUNCH", "CREATED", "SAVED", "ROWED", "LINKED"}
    /\ Fault
    /\ replica' = [replica EXCEPT ![w] = NextAttempt(w)]
    /\ UNCHANGED <<world, attemptRow, voidAge, voider>>

\* The process dies; the database ends its transaction and with it the lock.
Crash(w) ==
    /\ replica[w].pc # "IDLE"
    /\ Fault
    /\ replica' = [replica EXCEPT ![w] = Idle]
    /\ UNCHANGED <<world, attemptRow, voidAge, voider>>

\* voidAttempt reads and writes within one instant of a clock that counts in minutes, so
\* every copy of a row has the voidedAt of the row.
Tick ==
    /\ \A v \in Voiders : voider[v] = NotVoiding
    /\ voidAge' = [c \in Claims |-> IF attemptRow[c].status = "VOIDED"
                                       /\ voidAge[c] <= GiveUpAfter
                                    THEN voidAge[c] + 1 ELSE voidAge[c]]
    /\ voidAge' # voidAge
    /\ UNCHANGED <<world, attemptRow, voider, replica, faults>>

-----------------------------------------------------------------------------

RelaunchStep(w) ==
    \/ StartTick(w) \/ TakeAttempt(w)
    \/ \E c \in Claims : CreateClaim(w, c)
    \/ AdoptSuccessor(w) \/ GiveUpVerificationAttempt(w)
    \/ WaitForLaunch(w) \/ PassWeatherGate(w)
    \/ SaveClaim(w) \/ SaveVerificationAttempt(w) \/ LinkRelaunchedAttempt(w)
    \/ SaveRelaunchedAs(w)

Next ==
    \/ \E c \in Claims : FactCheckStart(c) \/ Fail(c) \/ Tear(c) \/ Settle(c)
    \/ \E v \in Voiders, c \in Claims : ReadAttempt(v, c)
    \/ \E v \in Voiders : VoidAttempt(v)
    \/ \E w \in Replicas : RelaunchStep(w) \/ CallFails(w) \/ Crash(w)
    \/ Tick

Spec == Init /\ [][Next]_vars

\* The resolution worker keeps polling, calls of voidAttempt return, and time passes.
FairSpec ==
    /\ Spec
    /\ \A w \in Replicas : WF_vars(RelaunchStep(w))
    /\ \A v \in Voiders : WF_vars(VoidAttempt(v))
    /\ WF_vars(Tick)

-----------------------------------------------------------------------------
(* Properties                                                              *)

Statuses == {"ACTIVE", "VOIDED", "SETTLED", "GAVE_UP"}
Rows ==
    [verification : Claims \cup {None}, attempt : 0 .. MaxAttempts,
     parent : Claims \cup {None}, status : Statuses \cup {"NONE"},
     relaunchedAs : Claims \cup {None}]

\* No row counts more attempts than a verification may have, and one process at a time
\* is inside its tick.
TypeOK ==
    /\ claimRow \subseteq onChain /\ onChain \subseteq Claims
    /\ attemptRow \in [Claims -> Rows]
    /\ voidAge \in [Claims -> 0 .. GiveUpAfter + 1]
    /\ fate \in [Claims -> {"OPEN", "FAILING", "CERTIFIED", "TORN", "BOTH"}]
    /\ voider \in [Voiders -> [claim : Claims \cup {None}, copy : Rows]]
    /\ faults \in 0 .. MaxFaults
    /\ \A u, w \in Replicas : replica[u].pc # "IDLE" /\ replica[w].pc # "IDLE" => u = w

\* The attempts of a verification stay one ladder, whatever dies between two saves:
\* each number once, and each later attempt continues the voided one before it
\* (relaunchTick: "adopt that claim instead of launching another one").
OneLadder ==
    \A c \in Claims : HasRow(c) =>
        /\ \A d \in Claims \ {c} :
               HasRow(d) /\ attemptRow[d].verification = attemptRow[c].verification
               => attemptRow[d].attempt # attemptRow[c].attempt
        /\ attemptRow[c].attempt > 1 =>
               LET parent == attemptRow[attemptRow[c].parent]
               IN  /\ parent.verification = attemptRow[c].verification
                   /\ parent.attempt = attemptRow[c].attempt - 1
                   /\ parent.status = "VOIDED"
                   /\ parent.relaunchedAs \in {None, c}

\* What a reader of the attempts of a verification is told.
Level(r) == Cardinality({c \in Claims : attemptRow[c].verification = r})
Standing(r) ==
    IF Level(r) = 0 THEN "NONE"
    ELSE (CHOOSE row \in {attemptRow[c] : c \in Claims} :
              row.verification = r /\ row.attempt = Level(r)).status
\* Whether the last attempt failed and may have been certified all the same.
Torn(r) ==
    \E c \in Claims : /\ attemptRow[c].verification = r /\ attemptRow[c].attempt = Level(r)
                     /\ fate[c] \in {"TORN", "BOTH"}

Ladder ==
    INSTANCE VerificationLadder
        WITH Verifications <- Claims, level <- [r \in Claims |-> Level(r)],
             standing <- [r \in Claims |-> Standing(r)],
             torn <- [r \in Claims |-> Torn(r)]

\* Every verification climbs its ladder: the next attempt only after the last was
\* voided, at most MaxAttempts of them, none after the end unless the end was torn.
ClimbsTheLadder == Ladder!Climb

\* A voided attempt is continued by another claim or its verification gives up, even if
\* the model families never answer again: time and again none is left unanswered.
Unanswered(c) == attemptRow[c].status = "VOIDED" /\ attemptRow[c].relaunchedAs = None
VoidedIsAnswered == []<>(\A c \in Claims : ~Unanswered(c))
=============================================================================
