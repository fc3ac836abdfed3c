---------------------------- MODULE ResearchLoop ----------------------------
(* The research loop of one juror seat: runResearchLoop of                  *)
(* src/lib/research/loop.ts under tool policy version 4.  Each turn the      *)
(* model is called (with retries while the seat has time) and answers with   *)
(* one action: a search, one or several pages to open, or its verdict.  The  *)
(* engine executes the action, refuses what the budgets or the rules forbid, *)
(* and accepts a YES or NO only when the research behind it is two-sided and *)
(* corroborated.  What the model asks for, what a search returns and which   *)
(* call fails are the environment's choice.                                  *)
EXTENDS Naturals, FiniteSets

CONSTANTS
  Pages,          \* normalised URLs; each has one evidence id
  Submitted,      \* those the claim's creator submitted
  Site,           \* the registrable site each page is finally served from
  MaxTurns, MaxSearches, MaxOpens, MaxOpensPerTurn, \* the tool policy
  MinCitationDomains,
  MaxNudges,      \* MAX_RESEARCH_NUDGES
  MaxRepairs,     \* MAX_ANSWER_REPAIRS
  MaxRetries,     \* MAX_PROVIDER_RETRIES
  MaxLoop,        \* policy.maxLoopMs, in units of the model's clock
  Deadline,       \* deps.deadlineMs, counted from the loop's start
  Backoff,        \* the wait before a retry
  MinCall         \* MIN_RETRY_CALL_MS

ASSUME PolicyAssumption ==
  /\ IsFiniteSet(Pages) /\ Submitted \subseteq Pages
  /\ DOMAIN Site = Pages
  /\ {MaxTurns, MaxSearches, MaxOpens, MaxOpensPerTurn, MinCitationDomains,
      MaxNudges, MaxRepairs, MaxRetries, MaxLoop, Deadline, Backoff, MinCall}
       \subseteq Nat
  /\ MaxTurns > 1 /\ Deadline > 0 /\ MinCall > 0

VARIABLES
  turn,       \* the turn in progress
  at,         \* "TURN": about to call; "FAILED": the call failed; "ACT"; "DONE"
  retries,    \* retries of the turn's call
  elapsed,    \* time since the start, counted no further than Late
  jsonMode,   \* the provider is still asked for JSON
  seen,       \* URLs the juror may open
  found,      \* foundBySearch
  against,    \* challengeResultUrls
  opened,     \* pages opened in this run
  origin,     \* the origin recorded when a page was last opened
  searches, opens,      \* counts
  challenged, \* completedChallengeSearches > 0
  nudges,     \* refusals of a premature verdict, by reason
  repairs,    \* repair rounds used
  warned,     \* the messages tell the model to answer now
  result      \* how the loop ended

clock == <<elapsed, jsonMode, retries>>
research == <<seen, found, against, opened, origin, searches, opens, challenged>>
patience == <<nudges, repairs>>
vars == <<turn, at, clock, research, patience, warned, result>>

(* Every instant after the deadline is one instant: nothing the loop         *)
(* compares tells two of them apart.                                         *)
Late == (IF MaxLoop > Deadline THEN MaxLoop ELSE Deadline) + 1
After(d) == IF elapsed + d > Late THEN Late ELSE elapsed + d
(* Mutant: the time left is read once, when the loop starts.                *)
TimeLeftAtTheStart == Deadline
TimeLeft == IF elapsed >= Deadline THEN 0 ELSE Deadline - elapsed

Reasons == {"RESEARCH_REQUIRED", "CHALLENGE_REQUIRED", "CORROBORATION_REQUIRED"}
Pending == [status |-> "PENDING"]
Failed(s) == [status |-> s]
Answers == [outcome : {"YES", "UNSURE"}, cites : SUBSET Pages,
            wellFormed : BOOLEAN, counter : BOOLEAN]

Init ==
  /\ turn = 1 /\ at = "TURN" /\ retries = 0 /\ elapsed = 0 /\ jsonMode = TRUE
  /\ seen = Submitted
  /\ found = {} /\ against = {} /\ opened = {}
  /\ origin = [p \in Pages |-> "NONE"]
  /\ searches = 0 /\ opens = 0 /\ challenged = FALSE
  /\ nudges = [r \in Reasons |-> 0] /\ repairs = 0
  /\ warned = FALSE
  /\ result = Pending

-----------------------------------------------------------------------------
(* Calling the model.                                                        *)

Fail(status) ==
  /\ result' = Failed(status) /\ at' = "DONE"
  /\ UNCHANGED <<turn, clock, research, patience, warned>>

OutOfTime == elapsed > MaxLoop \/ elapsed >= Deadline

(* The checks at the head of a turn.                                         *)
StopAtHead ==
  /\ at = "TURN"
  /\ \/ turn > MaxTurns /\ Fail("INVALID_SCHEMA")
     \/ turn <= MaxTurns /\ OutOfTime /\ Fail("TIMEOUT")

(* The turn's call, bounded by the time left when the turn began.  A         *)
(* provider that rejects the JSON response format is called again at once,   *)
(* with the same bound and without the format.                               *)
CallModel ==
  /\ at = "TURN" /\ turn <= MaxTurns /\ ~OutOfTime
  /\ \/ \E d \in 0..TimeLeft : elapsed' = After(d) /\ UNCHANGED jsonMode
     \/ /\ jsonMode /\ jsonMode' = FALSE
        /\ \E d, e \in 0..TimeLeft : elapsed' = After(d + e)
  /\ at' \in {"ACT", "FAILED"} /\ retries' = 0
  /\ UNCHANGED <<turn, research, patience, warned, result>>

MayRetry == retries < MaxRetries /\ TimeLeft > Backoff + MinCall

RetryCall ==
  /\ at = "FAILED" /\ MayRetry
  /\ \E d \in 0..(TimeLeft - Backoff) : elapsed' = After(Backoff + d)
  /\ retries' = retries + 1
  /\ at' \in {"ACT", "FAILED"}
  /\ UNCHANGED <<turn, jsonMode, research, patience, warned, result>>

GiveUpCalling == at = "FAILED" /\ ~MayRetry /\ Fail("PROVIDER_ERROR")

-----------------------------------------------------------------------------
(* What follows every action that does not end the loop: the next turn, and  *)
(* before the last one the notice to answer.                                 *)
ForceAnswer == warned' = (warned \/ turn = MaxTurns - 1)
Continue ==
  /\ turn' = turn + 1 /\ at' = "TURN" /\ ForceAnswer
  /\ retries' = 0
  /\ UNCHANGED <<jsonMode, result>>

(* A tool call takes up to a minute, whatever time the seat has left.        *)
ToolTime == \E d \in {0, 1} : elapsed' = After(d)

(* recordToolError for a request refused without touching the research.      *)
Refuse == Continue /\ UNCHANGED <<elapsed, research, patience>>

CanRepair == repairs < MaxRepairs /\ turn < MaxTurns

(* A malformed reply is sent back for repair, or ends the run.               *)
Repair(status) ==
  \/ /\ CanRepair
     /\ repairs' = repairs + 1
     /\ Continue /\ UNCHANGED <<elapsed, research, nudges>>
  \/ ~CanRepair /\ Fail(status)

InvalidAction == at = "ACT" /\ Repair("INVALID_SCHEMA")

(* A search without intent, one over the budget, a batch with a duplicate,   *)
(* too many URLs or a URL the juror never saw.                               *)
RefuseTool ==
  /\ at = "ACT"
  /\ Refuse

(* Results are recorded one by one, the challenge search before any of them. *)
Record(intent, results) ==
  /\ seen' = seen \union results
  /\ found' = found \union results
  /\ IF intent = "challenge"
       THEN challenged' = TRUE /\ against' = against \union results
       ELSE UNCHANGED <<challenged, against>>

(* SEARCH_FAILED: the provider gave no answer, or one with a URL that cannot *)
(* be normalised; what came before that URL stays recorded.                  *)
SearchFails(intent) ==
  /\ searches' = searches + 1
  /\ \/ UNCHANGED <<seen, found, against, challenged>>
     \/ \E before \in SUBSET Pages : Record(intent, before)
  /\ UNCHANGED <<opened, origin, opens>>

SearchReturns(intent, results) ==
  /\ searches' = searches + 1
  /\ Record(intent, results)
  /\ UNCHANGED <<opened, origin, opens>>

Search ==
  /\ at = "ACT" /\ searches < MaxSearches
  /\ \E intent \in {"support", "challenge"} :
       \/ SearchFails(intent)
       \/ \E results \in SUBSET Pages : SearchReturns(intent, results)
  /\ ToolTime /\ Continue /\ UNCHANGED patience

(* The pages read become opened, each with the origin it has now.            *)
OriginOf(p) == IF p \in found THEN "SEARCH" ELSE "SUBMITTED"
ReadPages(ps) ==
  /\ opened' = opened \union ps
  /\ origin' = [p \in Pages |-> IF p \in ps THEN OriginOf(p) ELSE origin[p]]

(* A single page.  Only a page neither opened here nor stored by another     *)
(* seat uses up a slot, and it does so even when the fetch fails.            *)
OpenPage ==
  /\ at = "ACT"
  /\ \E p \in seen :
       \/ ReadPages({p}) /\ UNCHANGED opens
       \/ /\ p \notin opened /\ opens < MaxOpens
          /\ opens' = opens + 1
          /\ \/ ReadPages({p})
             \/ UNCHANGED <<opened, origin>>
  /\ UNCHANGED <<seen, found, against, searches, challenged>>
  /\ ToolTime /\ Continue /\ UNCHANGED patience

(* A batch.  Every requested page uses up a slot, the first ones while slots *)
(* last; of those, pages not opened before may fail to load.                 *)
(* Mutant: the slots earlier batches used up are not deducted.               *)
SlotsPerBatch == MaxOpens
Slots == MaxOpens - opens
OpenBatch ==
  /\ at = "ACT"
  /\ \E urls \in SUBSET seen, allowed \in SUBSET seen :
       /\ urls # {} /\ Cardinality(urls) <= MaxOpensPerTurn
       /\ allowed \subseteq urls
       /\ \/ allowed = urls /\ Cardinality(urls) <= Slots
          \/ Cardinality(urls) > Slots /\ Cardinality(allowed) = Slots
       /\ opens' = opens + Cardinality(allowed)
       /\ \E lost \in SUBSET (allowed \ opened) : ReadPages(allowed \ lost)
  /\ UNCHANGED <<seen, found, against, searches, challenged>>
  /\ ToolTime /\ Continue /\ UNCHANGED patience

-----------------------------------------------------------------------------
(* The verdict.                                                              *)

Decisive(a) == a.outcome # "UNSURE"

ResearchRequired(a) ==
  Decisive(a) /\ \A p \in opened : origin[p] # "SEARCH"

ChallengeRequired(a) ==
  /\ Decisive(a) /\ ~ResearchRequired(a)
  /\ ~challenged \/ (against # {} /\ against \intersect opened = {})

(* validateResearchAnswer: the answer's form, then its citations.            *)
ValidAnswer(a) ==
  /\ a.wellFormed
  /\ a.cites \subseteq opened
  /\ Decisive(a) => \E p \in a.cites : origin[p] = "SEARCH"

CitationSites(a) == {Site[p] : p \in {q \in a.cites : origin[q] = "SEARCH"}}

CorroborationRequired(a) ==
  /\ ValidAnswer(a) /\ Decisive(a)
  /\ ~ResearchRequired(a) /\ ~ChallengeRequired(a)
  /\ Cardinality(CitationSites(a)) < MinCitationDomains

CounterMissing(a) ==
  /\ Decisive(a) /\ ~a.counter
  /\ ~ResearchRequired(a) /\ ~ChallengeRequired(a) /\ ~CorroborationRequired(a)

(* The rule a verdict is refused under before it costs a repair.             *)
Refused(a, reason) ==
  \/ reason = "RESEARCH_REQUIRED" /\ ResearchRequired(a)
  \/ reason = "CHALLENGE_REQUIRED" /\ ChallengeRequired(a)
  \/ reason = "CORROBORATION_REQUIRED" /\ CorroborationRequired(a)

Nudgeable(a, reason) ==
  Refused(a, reason) /\ nudges[reason] < MaxNudges /\ turn < MaxTurns

Nudge(reason) ==
  /\ nudges' = [nudges EXCEPT ![reason] = @ + 1]
  /\ Continue /\ UNCHANGED <<elapsed, research, repairs>>

(* Mutant: a rule the nudges already spoke of is not enforced any more.      *)
AcceptableOnceNudged(a) ==
  ValidAnswer(a) /\ ~CounterMissing(a)

Acceptable(a) ==
  /\ ValidAnswer(a)
  /\ ~ChallengeRequired(a) /\ ~CorroborationRequired(a) /\ ~CounterMissing(a)

Accept(a) ==
  /\ result' = [status |-> "OK", outcome |-> a.outcome,
                cites |-> a.cites, counter |-> a.counter]
  /\ at' = "DONE"
  /\ UNCHANGED <<turn, clock, research, patience, warned>>

Answer ==
  /\ at = "ACT"
  /\ \E a \in Answers :
       \/ \E reason \in Reasons : Nudgeable(a, reason) /\ Nudge(reason)
       \/ /\ \A reason \in Reasons : ~Nudgeable(a, reason)
          /\ \/ Acceptable(a) /\ Accept(a)
             \/ ~Acceptable(a) /\ Repair("REJECTED")

Next ==
  \/ StopAtHead \/ CallModel \/ RetryCall \/ GiveUpCalling
  \/ InvalidAction \/ RefuseTool \/ Search \/ OpenPage \/ OpenBatch \/ Answer

Spec == Init /\ [][Next]_vars
-----------------------------------------------------------------------------
(* Properties.                                                               *)

(* The variables keep their types, and neither budget is ever overdrawn:     *)
(* not by a batch that asks for more pages than there are slots, nor by a    *)
(* fetch that fails after its slot was taken.                                *)
TypeOK ==
  /\ turn \in 1..(MaxTurns + 1)
  /\ at \in {"TURN", "FAILED", "ACT", "DONE"}
  /\ retries \in 0..MaxRetries /\ elapsed \in 0..Late /\ jsonMode \in BOOLEAN
  /\ found \subseteq seen /\ seen \subseteq Pages
  /\ against \subseteq found /\ opened \subseteq seen
  /\ origin \in [Pages -> {"NONE", "SUBMITTED", "SEARCH"}]
  /\ searches \in 0..MaxSearches /\ opens \in 0..MaxOpens
  /\ challenged \in BOOLEAN /\ warned \in BOOLEAN
  /\ nudges \in [Reasons -> 0..MaxNudges] /\ repairs \in 0..MaxRepairs
  /\ result.status \in {"PENDING", "OK", "TIMEOUT", "PROVIDER_ERROR",
                        "INVALID_SCHEMA", "REJECTED"}

(* Whatever refusals, repairs and last-turn exceptions an answer went        *)
(* through, a YES or NO the loop accepts cites pages the juror opened and    *)
(* its own searches had returned, from enough different sites; a challenge   *)
(* search had succeeded, one of the pages it brought up, if any, was read,   *)
(* and the counter-evidence is summed up.                                    *)
DecisiveAnswerIsResearched ==
  result.status = "OK" /\ result.outcome # "UNSURE" =>
    LET own == result.cites \intersect opened \intersect found
    IN /\ result.cites \subseteq opened
       /\ own # {} /\ Cardinality({Site[p] : p \in own}) >= MinCitationDomains
       /\ challenged /\ (against = {} \/ against \intersect opened # {})
       /\ result.counter

(* "The loop ... bounds every model call by the time left, so a slow seat    *)
(* fails closed while its committee mates still make the commit deadline":   *)
(* an accepted answer was received by the deadline.                          *)
AnsweredBeforeDeadline == result.status = "OK" => elapsed <= Deadline

(* The same for a seat whose provider never rejected the JSON format: the    *)
(* second call of the fallback is bounded by the time left before the first. *)
(* And however the turn before it ended (a result, a refusal, a repair), the *)
(* model is asked for its last turn only after it was told to answer now.    *)
AnsweredInTime ==
  /\ jsonMode => AnsweredBeforeDeadline
  /\ turn = MaxTurns /\ result = Pending => warned
=============================================================================
