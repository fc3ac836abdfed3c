--------------------------------- MODULE Debate ---------------------------------
(***************************************************************************)
(* The public debate between the two rounds and the freeze of its          *)
(* transcript (lib/engine/engine.ts: executeDeliberation, runDeliberation, *)
(* evidenceFreeze of phase 2).  The inference worker and the evidence      *)
(* worker each drive it from a process of their own; all they share is the *)
(* database and the chain.                                                 *)
(*                                                                         *)
(* What a model answers depends on nothing that changes while it runs, so  *)
(* its answer is chosen when it arrives.                                   *)
(***************************************************************************)
EXTENDS DebateOrder

CONSTANTS
    Processes,      \* "inference" and "evidence"
    RoundOnes,      \* the stances the debaters may have revealed in round one
    Movers,         \* bounds for TLC: the seats that may change their mind,
    Askers,         \* those that may put a question,
    MaxQuestions,   \* how many questions,
    MaxSkips,       \* turns the model fails before the window is exhausted
    MaxFaults       \* and deaths of processes or failing calls

ASSUME BoundsAssumption ==
    /\ Processes \subseteq {"inference", "evidence"}
    /\ RoundOnes \subseteq [Seats -> Stances] /\ Movers \cup Askers \subseteq Seats
    /\ {MaxQuestions, MaxSkips, MaxFaults} \subseteq Nat

VARIABLES
    roundOne,   \* what every debater voted in round one
    turns,      \* the deliberation_turns rows
    driver,     \* process -> what it is doing
    artifact,   \* the transcript in the database, or NoTranscript
    bundle,     \* the transcript whose hash is in the frozen phase-two root
    window,     \* how far the discussion window has run
    faults

vars == <<roundOne, turns, driver, artifact, bundle, window, faults>>

NoTranscript == [turns |-> {}, converged |-> -1]
\* A silent turn: the window was exhausted, or the model failed or broke the format.
NoDraft ==
    [ordinal |-> 0, exchange |-> 1, seat |-> 0, status |-> "SKIPPED", stance |-> "NONE",
     question |-> 0]
Idle == [pc |-> "IDLE", freezing |-> FALSE, exchange |-> 1, draft |-> NoDraft,
         transcript |-> NoTranscript]

\* executeDeliberation starts over at the first exchange every time it is called.
Debating(freezing) == [Idle EXCEPT !.pc = "PLAN", !.freezing = freezing]

Transcript == [turns |-> turns, converged |-> ConvergedAfterExchange(turns, roundOne)]

Init ==
    /\ roundOne \in RoundOnes
    /\ turns = {}
    /\ driver = [p \in Processes |-> Idle]
    /\ artifact = NoTranscript /\ bundle = NoTranscript
    /\ window = "OPEN"
    /\ faults = 0

-----------------------------------------------------------------------------

\* A tick of the inference worker (runDeliberation) or of the evidence worker
\* (evidenceFreeze, which runs the debate first), while the claim is in discussion.
Start(p) ==
    /\ driver[p].pc = "IDLE"
    /\ window # "CLOSED" /\ bundle = NoTranscript
    /\ driver' = [driver EXCEPT ![p] = Debating(p = "evidence")]
    /\ UNCHANGED <<roundOne, turns, artifact, bundle, window, faults>>

Count(status) == Cardinality({t \in turns : t.status = status})
Questions == Cardinality({t \in turns : t.question # 0})

\* The answers of the model that pass validateDeliberationOutputV4: a question goes to
\* another debater.  The bounds are those of the run.
Spoken(plan) ==
    {[plan EXCEPT !.status = "SPOKEN", !.stance = stance, !.question = number] :
        stance \in IF plan.seat \in Movers THEN {"YES", "NO"} ELSE {roundOne[plan.seat]},
        number \in {0} \cup IF plan.seat \in Askers /\ Questions < MaxQuestions
                            THEN (1 .. SeatCount) \ {plan.seat + 1} ELSE {}}

\* The stored turns are read and the next one is planned from them; it is silent from the
\* start if there is no time left for a model.
PlanTurn(p) ==
    LET exchange == driver[p].exchange
        plan == [NoDraft EXCEPT !.ordinal = NextOrdinal(turns, exchange),
                                !.exchange = exchange,
                                !.seat = NextSpeaker(turns, roundOne, exchange)]
    IN  /\ driver[p].pc = "PLAN"
        /\ ~ExchangeOver(turns, exchange)
        /\ driver' = [driver EXCEPT ![p].pc = IF window = "OPEN" THEN "ASK" ELSE "CHECK",
                                    ![p].draft = plan]
        /\ UNCHANGED <<roundOne, turns, artifact, bundle, window, faults>>

Taken(record) ==
    \E t \in turns : \/ t.ordinal = record.ordinal
                     \/ t.exchange = record.exchange /\ t.seat = record.seat

\* The answer to a turn that was planned, whatever was stored while the model ran.
Completions(p) ==
    IF driver[p].pc = "CHECK" THEN {driver[p].draft}
    ELSE Spoken(driver[p].draft)
         \cup (IF Count("SKIPPED") < MaxSkips THEN {driver[p].draft} ELSE {})

\* The model has answered.  A sibling may have spoken meanwhile: then the turn is dropped.
CompleteTurn(p) ==
    /\ driver[p].pc \in {"ASK", "CHECK"}
    /\ \/ /\ Taken(driver[p].draft)
          /\ driver' = [driver EXCEPT ![p].pc = "PLAN", ![p].draft = NoDraft]
       \/ /\ ~Taken(driver[p].draft)
          /\ \E record \in Completions(p) :
                driver' = [driver EXCEPT ![p].pc = "SAVE", ![p].draft = record]
    /\ UNCHANGED <<roundOne, turns, artifact, bundle, window, faults>>

\* Mutant: the row of the ordinal is overwritten.
Upserted(record) == {t \in turns : t.ordinal # record.ordinal} \cup {record}
\* INSERT ... ON CONFLICT (turn_id) DO NOTHING.
Inserted(record) ==
    IF \E t \in turns : t.ordinal = record.ordinal THEN turns ELSE turns \cup {record}

\* (The event that publishes the turn follows, even if the row was not stored.)
PersistTurn(p) ==
    /\ driver[p].pc = "SAVE"
    /\ turns' = Inserted(driver[p].draft)
    /\ driver' = [driver EXCEPT ![p].pc = "PLAN", ![p].draft = NoDraft]
    /\ UNCHANGED <<roundOne, artifact, bundle, window, faults>>

\* Mutant: the first exchange in which nobody moved is not the last.
NeverConverged(p) == FALSE
ConvergedNow(p) == ConvergedAfterExchange(turns, roundOne) = driver[p].exchange

NextExchange(p) == [driver[p] EXCEPT !.exchange = @ + 1]

\* Mutant: without time for one more turn the debate ends where it is.
EndExchangeOutOfTime(p) ==
    /\ driver[p].pc = "PLAN"
    /\ ExchangeOver(turns, driver[p].exchange) \/ window = "EXHAUSTED"
    /\ driver' = [driver EXCEPT ![p] =
                    IF driver[p].exchange < 3 /\ ~ConvergedNow(p) /\ window = "OPEN"
                    THEN NextExchange(p)
                    ELSE [Idle EXCEPT !.pc = "ENSURE", !.freezing = driver[p].freezing]]
    /\ UNCHANGED <<roundOne, turns, artifact, bundle, window, faults>>

\* Every seat has spoken: another exchange, unless this one moved nobody.
EndExchange(p) ==
    /\ driver[p].pc = "PLAN"
    /\ ExchangeOver(turns, driver[p].exchange)
    /\ driver' = [driver EXCEPT ![p] =
                    IF driver[p].exchange < 3 /\ ~ConvergedNow(p)
                    THEN NextExchange(p)
                    ELSE [Idle EXCEPT !.pc = "ENSURE", !.freezing = driver[p].freezing]]
    /\ UNCHANGED <<roundOne, turns, artifact, bundle, window, faults>>

\* runDeliberation then freezes, unless a freeze is what ran the debate; that freeze calls
\* executeDeliberation again, which finds every turn stored and looks for the transcript.
AfterTranscript(p) ==
    IF driver[p].freezing THEN [Idle EXCEPT !.pc = "FREEZE", !.freezing = TRUE]
    ELSE IF window # "CLOSED" /\ bundle = NoTranscript
         THEN [Idle EXCEPT !.pc = "ENSURE", !.freezing = TRUE] ELSE Idle

\* A transcript that differs from the stored turns is an error.
FindTranscript(p) ==
    /\ driver[p].pc = "ENSURE" /\ artifact # NoTranscript
    /\ driver' = [driver EXCEPT ![p] = IF artifact = Transcript THEN AfterTranscript(p) ELSE Idle]
    /\ UNCHANGED <<roundOne, turns, artifact, bundle, window, faults>>

ReadTranscript(p) ==
    /\ driver[p].pc = "ENSURE" /\ artifact = NoTranscript
    /\ driver' = [driver EXCEPT ![p].pc = "INGEST", ![p].transcript = Transcript]
    /\ UNCHANGED <<roundOne, turns, artifact, bundle, window, faults>>

\* After the uploads; the row of a sibling is replaced.
IngestTranscript(p) ==
    /\ driver[p].pc = "INGEST"
    /\ artifact' = driver[p].transcript
    /\ driver' = [driver EXCEPT ![p] = AfterTranscript(p)]
    /\ UNCHANGED <<roundOne, turns, bundle, window, faults>>

\* The artifact is checked once more and its hash enters the root; the chain refuses a
\* second bundle and one after the deadline.
FreezeTranscript(p) ==
    /\ driver[p].pc = "FREEZE"
    /\ bundle' = IF artifact = Transcript /\ bundle = NoTranscript /\ window # "CLOSED"
                 THEN artifact ELSE bundle
    /\ driver' = [driver EXCEPT ![p] = Idle]
    /\ UNCHANGED <<roundOne, turns, artifact, window, faults>>

-----------------------------------------------------------------------------

\* The process dies, or a read, an upload or a transaction throws.
Crash(p) ==
    /\ driver[p].pc # "IDLE"
    /\ faults < MaxFaults
    /\ faults' = faults + 1
    /\ driver' = [driver EXCEPT ![p] = Idle]
    /\ UNCHANGED <<roundOne, turns, artifact, bundle, window>>

\* Too late for one more turn, then past the discussion deadline.
Tick ==
    /\ window # "CLOSED"
    /\ window' = IF window = "OPEN" THEN "EXHAUSTED" ELSE "CLOSED"
    /\ UNCHANGED <<roundOne, turns, driver, artifact, bundle, faults>>

Drive(p) ==
    \/ Start(p) \/ PlanTurn(p) \/ CompleteTurn(p) \/ PersistTurn(p) \/ EndExchange(p)
    \/ FindTranscript(p) \/ ReadTranscript(p) \/ IngestTranscript(p) \/ FreezeTranscript(p)

Next == (\E p \in Processes : Drive(p) \/ Crash(p)) \/ Tick

Spec == Init /\ [][Next]_vars

\* The workers poll while the claim is in discussion and a model call times out.
FairSpec == Spec /\ \A p \in Processes : WF_vars(Drive(p))

-----------------------------------------------------------------------------
(* Properties                                                              *)

\* Every stored turn has its place in one of the three exchanges.
TypeOK ==
    /\ roundOne \in RoundOnes
    /\ turns \subseteq Turns
    /\ \A p \in Processes :
          /\ driver[p].pc \in {"IDLE", "PLAN", "ASK", "CHECK", "SAVE", "ENSURE", "INGEST", "FREEZE"}
          /\ driver[p].freezing \in BOOLEAN
          /\ driver[p].exchange \in Exchanges /\ driver[p].draft \in Turns
    /\ \A t \in {artifact, bundle} :
          t = NoTranscript \/ (t.turns \subseteq Turns /\ t.converged \in 0 .. 3)
    /\ window \in {"OPEN", "EXHAUSTED", "CLOSED"}
    /\ faults \in 0 .. MaxFaults

Before(turn) == {t \in turns : t.ordinal < turn.ordinal}

\* Whoever reads the stored debate can rebuild it: every turn is the one its
\* predecessors call for, whichever process spoke it and whatever died in between
\* (docs/site/how-a-verdict-happens.md: "a restarted worker rebuilds the identical
\* conversation").
DebateIsReplayable ==
    \A t \in turns :
        /\ \A e \in 1 .. t.exchange - 1 : ExchangeOver(Before(t), e)
        /\ InExchange(Before(t), t.exchange + 1) = {}
        /\ t.ordinal = NextOrdinal(Before(t), t.exchange)
        /\ t.seat = NextSpeaker(Before(t), roundOne, t.exchange)

\* The stance a seat ended an exchange with.
StanceAfter(seat, exchange) == EffectiveStance(turns, roundOne, exchange + 1)[seat]

\* A debate is over after the third exchange or after the first that changed nobody's
\* mind, and not before every seat had its say in it.
StopsWhenNobodyMoves ==
    artifact # NoTranscript =>
        LET last == Latest(turns).exchange
            kept(e) == \A s \in Seats : StanceAfter(s, e) = StanceAfter(s, e - 1)
        IN  /\ ExchangeOver(turns, last)
            /\ last = 3 \/ kept(last)
            /\ \A e \in 1 .. last - 1 : ~kept(e)

\* Once there is a transcript no turn is added, and what was hashed into the root is
\* what every later reader of the database finds.
TranscriptIsFinal ==
    /\ artifact # NoTranscript => artifact = Transcript
    /\ bundle # NoTranscript => bundle = artifact

\* While there is time the debate ends and its transcript is frozen, even if every model
\* stays silent.
DebateIsFrozen == <>(bundle # NoTranscript \/ window = "CLOSED")

=============================================================================
