---------------------------- MODULE ResearchProofs ----------------------------
(* Proofs about ResearchLoop: under every tool policy the budgets hold, an   *)
(* accepted YES or NO is two-sided and corroborated, and it came in time.    *)
EXTENDS ResearchLoop, FiniteSetTheorems, TLAPS

-----------------------------------------------------------------------------
(* The constants and the clock.                                              *)

\* The numbers of a tool policy.
LEMMA PolicyNumbers ==
  /\ MaxTurns \in Nat /\ MaxSearches \in Nat /\ MaxOpens \in Nat
  /\ MaxOpensPerTurn \in Nat /\ MinCitationDomains \in Nat
  /\ MaxNudges \in Nat /\ MaxRepairs \in Nat /\ MaxRetries \in Nat
  /\ MaxLoop \in Nat /\ Deadline \in Nat /\ Backoff \in Nat /\ MinCall \in Nat
  /\ MaxTurns > 1 /\ Deadline > 0 /\ MinCall > 0
BY PolicyAssumption

(* Late is an instant after the deadline.                                    *)
LEMMA LateIsAfterDeadline == Late \in Nat /\ Late > Deadline
BY PolicyNumbers DEF Late

(* The clock moves by a delay, and not beyond Late.                          *)
LEMMA ClockMoves ==
  ASSUME elapsed \in 0..Late, NEW d \in Nat
  PROVE  /\ After(d) \in 0..Late
         /\ elapsed + d <= Deadline => After(d) <= Deadline
BY LateIsAfterDeadline, PolicyNumbers DEF After

\* What is left of the deadline.
LEMMA TimeLeftIsLeft ==
  ASSUME elapsed \in 0..Late
  PROVE  /\ TimeLeft \in Nat
         /\ elapsed <= Deadline => elapsed + TimeLeft = Deadline
         /\ elapsed > Deadline => TimeLeft = 0
BY LateIsAfterDeadline, PolicyNumbers DEF TimeLeft

-----------------------------------------------------------------------------
(* Types and budgets.                                                        *)

(* A call is only made in a turn the policy grants.                          *)
WithinTurns == at \in {"ACT", "FAILED"} => turn <= MaxTurns

(* What every action that goes on to another turn shares: a turn that was    *)
(* granted is followed by at most one more.                                  *)
LEMMA NextTurn ==
  ASSUME TypeOK, WithinTurns, at = "ACT", Continue
  PROVE  /\ turn' \in 1..(MaxTurns + 1) /\ at' = "TURN" /\ warned' \in BOOLEAN
         /\ retries' \in 0..MaxRetries /\ jsonMode' = jsonMode /\ result' = result
         /\ WithinTurns'
BY PolicyNumbers DEF TypeOK, WithinTurns, Continue, ForceAnswer

(* The research of a turn, whatever pages it brought up or opened.           *)
ResearchTypes ==
  /\ found \subseteq seen /\ seen \subseteq Pages
  /\ against \subseteq found /\ opened \subseteq seen
  /\ origin \in [Pages -> {"NONE", "SUBMITTED", "SEARCH"}]
  /\ searches \in 0..MaxSearches /\ opens \in 0..MaxOpens
  /\ challenged \in BOOLEAN

\* Reading pages keeps the reading list typed.
LEMMA ReadingTypes ==
  ASSUME TypeOK, NEW ps \in SUBSET seen, ReadPages(ps)
  PROVE  opened' \subseteq seen /\ origin' \in [Pages -> {"NONE", "SUBMITTED", "SEARCH"}]
BY DEF TypeOK, ReadPages, OriginOf

(* A batch never takes more slots than are left.                             *)
LEMMA BatchFitsBudget ==
  ASSUME TypeOK, NEW urls \in SUBSET seen, NEW allowed \in SUBSET seen,
         \/ allowed = urls /\ Cardinality(urls) <= Slots
         \/ Cardinality(urls) > Slots /\ Cardinality(allowed) = Slots
  PROVE  opens + Cardinality(allowed) \in 0..MaxOpens
<1>1. IsFiniteSet(allowed)
  BY FS_Subset, PolicyAssumption DEF TypeOK
<1>2. Cardinality(allowed) \in Nat
  BY <1>1, FS_CardinalityType
<1> QED BY <1>2, PolicyNumbers DEF TypeOK, Slots

\* A search keeps the research typed.
LEMMA SearchTypes ==
  ASSUME TypeOK, Search
  PROVE  ResearchTypes'
<1>1. searches + 1 \in 0..MaxSearches
  BY PolicyNumbers DEF TypeOK, Search
<1>2. PICK intent \in {"support", "challenge"} :
         \/ SearchFails(intent)
         \/ \E results \in SUBSET Pages : SearchReturns(intent, results)
  BY DEF Search
<1>3. CASE SearchFails(intent)
  BY <1>1, <1>3 DEF TypeOK, ResearchTypes, SearchFails, Record
<1>4. CASE \E results \in SUBSET Pages : SearchReturns(intent, results)
  BY <1>1, <1>4 DEF TypeOK, ResearchTypes, SearchReturns, Record
<1> QED BY <1>2, <1>3, <1>4

\* So does opening one page.
LEMMA OpenPageTypes ==
  ASSUME TypeOK, OpenPage
  PROVE  ResearchTypes'
<1>1. PICK p \in seen :
         \/ ReadPages({p}) /\ UNCHANGED opens
         \/ /\ p \notin opened /\ opens < MaxOpens
            /\ opens' = opens + 1
            /\ \/ ReadPages({p})
               \/ UNCHANGED <<opened, origin>>
  BY DEF OpenPage
<1>2. opens' \in 0..MaxOpens
  BY <1>1, PolicyNumbers DEF TypeOK
<1>3. opened' \subseteq seen /\ origin' \in [Pages -> {"NONE", "SUBMITTED", "SEARCH"}]
  <2>1. CASE ReadPages({p})
    BY <1>1, <2>1, ReadingTypes
  <2>2. CASE UNCHANGED <<opened, origin>>
    BY <2>2 DEF TypeOK
  <2> QED BY <1>1, <2>1, <2>2
<1> QED BY <1>2, <1>3 DEF OpenPage, TypeOK, ResearchTypes

\* So does opening a batch, cut to the slots left.
LEMMA OpenBatchTypes ==
  ASSUME TypeOK, OpenBatch
  PROVE  ResearchTypes'
<1>1. PICK urls \in SUBSET seen, allowed \in SUBSET seen :
         /\ \/ allowed = urls /\ Cardinality(urls) <= Slots
            \/ Cardinality(urls) > Slots /\ Cardinality(allowed) = Slots
         /\ opens' = opens + Cardinality(allowed)
         /\ \E lost \in SUBSET (allowed \ opened) : ReadPages(allowed \ lost)
  BY DEF OpenBatch
<1>2. opens' \in 0..MaxOpens
  BY <1>1, BatchFitsBudget
<1>3. opened' \subseteq seen /\ origin' \in [Pages -> {"NONE", "SUBMITTED", "SEARCH"}]
  <2>1. PICK lost \in SUBSET (allowed \ opened) : ReadPages(allowed \ lost)
    BY <1>1
  <2> QED BY <2>1, ReadingTypes
<1> QED BY <1>2, <1>3 DEF OpenBatch, TypeOK, ResearchTypes

(* A turn's end that changes the research changes nothing else of account.   *)
LEMMA ResearchStepTypes ==
  ASSUME TypeOK, WithinTurns, Search \/ OpenPage \/ OpenBatch
  PROVE  TypeOK' /\ WithinTurns'
<1>1. /\ at = "ACT" /\ Continue /\ ToolTime /\ UNCHANGED patience
  BY DEF Search, OpenPage, OpenBatch
<1>2. ResearchTypes'
  BY SearchTypes, OpenPageTypes, OpenBatchTypes
<1>3. elapsed' \in 0..Late
  BY <1>1, ClockMoves DEF ToolTime, TypeOK
<1> QED BY <1>1, <1>2, <1>3, NextTurn DEF TypeOK, ResearchTypes, patience

\* A call to the model keeps every type.
LEMMA CallTypes ==
  ASSUME TypeOK, WithinTurns, CallModel \/ RetryCall
  PROVE  TypeOK' /\ WithinTurns'
<1>1. elapsed' \in 0..Late
  <2>1. TimeLeft \in Nat
    BY TimeLeftIsLeft DEF TypeOK
  <2>2. CASE CallModel
    <3>1. CASE \E d \in 0..TimeLeft : elapsed' = After(d)
      BY <2>1, <3>1, ClockMoves DEF TypeOK
    <3>2. CASE \E d, e \in 0..TimeLeft : elapsed' = After(d + e)
      <4>1. PICK d \in 0..TimeLeft, e \in 0..TimeLeft : elapsed' = After(d + e)
        BY <3>2
      <4>2. d + e \in Nat
        BY <2>1, <4>1
      <4> QED BY <4>1, <4>2, ClockMoves DEF TypeOK
    <3> QED BY <2>2, <3>1, <3>2 DEF CallModel
  <2>3. CASE RetryCall
    <3>1. PICK d \in 0..(TimeLeft - Backoff) : elapsed' = After(Backoff + d)
      BY <2>3 DEF RetryCall
    <3>2. Backoff + d \in Nat
      BY <2>1, <3>1, PolicyNumbers
    <3> QED BY <3>1, <3>2, ClockMoves DEF TypeOK
  <2> QED BY <2>2, <2>3
<1>2. retries' \in 0..MaxRetries
  BY PolicyNumbers DEF CallModel, RetryCall, MayRetry, TypeOK
<1> QED BY <1>1, <1>2 DEF CallModel, RetryCall, TypeOK, WithinTurns, research, patience

\* A failure ends the loop well typed.
LEMMA FailTypes ==
  ASSUME TypeOK, NEW s \in {"TIMEOUT", "PROVIDER_ERROR", "INVALID_SCHEMA", "REJECTED"}, Fail(s)
  PROVE  TypeOK' /\ WithinTurns'
BY DEF Fail, Failed, TypeOK, WithinTurns, clock, research, patience

\* A repair goes on or fails, well typed.
LEMMA RepairTypes ==
  ASSUME TypeOK, WithinTurns, at = "ACT",
         NEW s \in {"INVALID_SCHEMA", "REJECTED"}, Repair(s)
  PROVE  TypeOK' /\ WithinTurns'
<1>1. CASE Fail(s)
  BY <1>1, FailTypes
<1>2. CASE CanRepair /\ repairs' = repairs + 1 /\ Continue /\ UNCHANGED <<elapsed, research, nudges>>
  <2>1. repairs' \in 0..MaxRepairs
    BY <1>2, PolicyNumbers DEF CanRepair, TypeOK
  <2> QED BY <1>2, <2>1, NextTurn DEF TypeOK, research
<1> QED BY <1>1, <1>2 DEF Repair

\* An answer is accepted, nudged, repaired or rejected, well typed.
LEMMA AnswerTypes ==
  ASSUME TypeOK, WithinTurns, Answer
  PROVE  TypeOK' /\ WithinTurns'
<1>1. PICK a \in Answers :
         \/ \E reason \in Reasons : Nudgeable(a, reason) /\ Nudge(reason)
         \/ Accept(a)
         \/ Repair("REJECTED")
  BY DEF Answer
<1>2. CASE \E reason \in Reasons : Nudgeable(a, reason) /\ Nudge(reason)
  <2>1. PICK reason \in Reasons : Nudgeable(a, reason) /\ Nudge(reason)
    BY <1>2
  <2>2. nudges' \in [Reasons -> 0..MaxNudges]
    BY <2>1, PolicyNumbers DEF Nudge, Nudgeable, TypeOK
  <2> QED BY <2>1, <2>2, NextTurn DEF Answer, Nudge, TypeOK, research
<1>3. CASE Accept(a)
  BY <1>3 DEF Accept, TypeOK, WithinTurns, clock, research, patience
<1>4. CASE Repair("REJECTED")
  BY <1>4, RepairTypes DEF Answer
<1> QED BY <1>1, <1>2, <1>3, <1>4

\* The loop starts well typed.
LEMMA InitTypes == Init => TypeOK /\ WithinTurns
<1> SUFFICES ASSUME Init PROVE TypeOK /\ WithinTurns
  OBVIOUS
<1>1. turn \in 1..(MaxTurns + 1) /\ retries \in 0..MaxRetries /\ elapsed \in 0..Late
  BY PolicyNumbers, LateIsAfterDeadline DEF Init
<1>2. searches \in 0..MaxSearches /\ opens \in 0..MaxOpens /\ repairs \in 0..MaxRepairs
  BY PolicyNumbers DEF Init
<1>3. nudges \in [Reasons -> 0..MaxNudges]
  BY PolicyNumbers DEF Init
<1>4. seen \subseteq Pages
  BY PolicyAssumption DEF Init
<1> QED BY <1>1, <1>2, <1>3, <1>4 DEF Init, TypeOK, WithinTurns, Pending

\* Every step keeps the types.
LEMMA NextTypes == TypeOK /\ WithinTurns /\ [Next]_vars => TypeOK' /\ WithinTurns'
<1> SUFFICES ASSUME TypeOK, WithinTurns, [Next]_vars PROVE TypeOK' /\ WithinTurns'
  OBVIOUS
<1>1. CASE StopAtHead
  BY <1>1, FailTypes DEF StopAtHead
<1>2. CASE CallModel \/ RetryCall
  BY <1>2, CallTypes
<1>3. CASE GiveUpCalling
  BY <1>3, FailTypes DEF GiveUpCalling
<1>4. CASE InvalidAction
  BY <1>4, RepairTypes DEF InvalidAction
<1>5. CASE RefuseTool
  BY <1>5, NextTurn DEF RefuseTool, Refuse, TypeOK, research, patience
<1>6. CASE Search \/ OpenPage \/ OpenBatch
  BY <1>6, ResearchStepTypes
<1>7. CASE Answer
  BY <1>7, AnswerTypes
<1>8. CASE UNCHANGED vars
  BY <1>8 DEF vars, TypeOK, WithinTurns, clock, research, patience
<1> QED BY <1>1, <1>2, <1>3, <1>4, <1>5, <1>6, <1>7, <1>8 DEF Next

(* Every variable keeps its type and no budget of the tool policy is ever    *)
(* overdrawn, by runResearchLoop under any policy.                           *)
THEOREM BudgetsHold == Spec => []TypeOK
<1>1. Spec => [](TypeOK /\ WithinTurns)
  BY InitTypes, NextTypes, PTL DEF Spec
<1> QED BY <1>1, PTL

-----------------------------------------------------------------------------
(* What a decisive answer rests on.                                          *)

(* A page counts as found by the juror's own search only if it was.          *)
OriginIsEarned == \A p \in Pages : origin[p] = "SEARCH" => p \in opened \intersect found

(* A result ends the loop: no research follows it.                           *)
ResultIsLast == result.status = "OK" => at = "DONE"

(* Finitely many pages come from finitely many sites.                        *)
LEMMA SitesAreFinite ==
  ASSUME NEW ps \in SUBSET Pages
  PROVE  IsFiniteSet({Site[p] : p \in ps})
<1> DEFINE siteOf == [p \in ps |-> Site[p]]
<1>1. IsFiniteSet(ps)
  BY FS_Subset, PolicyAssumption
<1>2. siteOf \in Surjection(ps, {Site[p] : p \in ps})
  BY DEF Surjection
<1> QED BY <1>1, <1>2, FS_Surjection

(* The rules an accepted answer passed are those of the property: what       *)
(* validateResearchAnswer and the three refusals leave through is cited from *)
(* pages the juror's searches found, from enough sites, with a challenge.    *)
LEMMA AcceptedIsResearched ==
  ASSUME TypeOK, OriginIsEarned, NEW a \in Answers, Acceptable(a), Accept(a)
  PROVE  DecisiveAnswerIsResearched'
<1> SUFFICES ASSUME result'.outcome # "UNSURE"
             PROVE  LET own == result'.cites \intersect opened' \intersect found'
                    IN /\ result'.cites \subseteq opened'
                       /\ own # {} /\ Cardinality({Site[p] : p \in own}) >= MinCitationDomains
                       /\ challenged' /\ (against' = {} \/ against' \intersect opened' # {})
                       /\ result'.counter
  BY DEF DecisiveAnswerIsResearched
<1> DEFINE own == a.cites \intersect opened \intersect found
<1>1. /\ result'.outcome = a.outcome /\ result'.cites = a.cites /\ result'.counter = a.counter
      /\ UNCHANGED <<opened, found, against, challenged>>
  BY DEF Accept, research
<1>2. Decisive(a)
  BY <1>1 DEF Decisive
<1>3. a.cites \subseteq opened /\ \E p \in a.cites : origin[p] = "SEARCH"
  BY <1>2 DEF Acceptable, ValidAnswer
<1>4. {p \in a.cites : origin[p] = "SEARCH"} \subseteq own
  BY <1>3 DEF OriginIsEarned, TypeOK
<1>5. ~ResearchRequired(a)
  BY <1>3 DEF ResearchRequired
<1>6. challenged /\ (against = {} \/ against \intersect opened # {})
  BY <1>2, <1>5 DEF Acceptable, ChallengeRequired, TypeOK
<1>7. Cardinality(CitationSites(a)) >= MinCitationDomains
  <2>1. IsFiniteSet(CitationSites(a))
    BY <1>3, SitesAreFinite DEF CitationSites, TypeOK
  <2>2. Cardinality(CitationSites(a)) \in Nat
    BY <2>1, FS_CardinalityType
  <2>3. ~(Cardinality(CitationSites(a)) < MinCitationDomains)
    BY <1>2, <1>5 DEF Acceptable, CorroborationRequired
  <2> QED BY <2>2, <2>3, PolicyNumbers
<1>8. Cardinality({Site[p] : p \in own}) >= MinCitationDomains
  <2>2. IsFiniteSet({Site[p] : p \in own})
    BY <1>3, SitesAreFinite DEF TypeOK
  <2>3. CitationSites(a) \subseteq {Site[p] : p \in own}
    BY <1>4 DEF CitationSites
  <2>4. /\ Cardinality(CitationSites(a)) <= Cardinality({Site[p] : p \in own})
        /\ Cardinality(CitationSites(a)) \in Nat /\ Cardinality({Site[p] : p \in own}) \in Nat
    BY <2>2, <2>3, FS_Subset, FS_CardinalityType
  <2> QED BY <1>7, <2>4, PolicyNumbers
<1>9. a.counter
  BY <1>2, <1>5 DEF Acceptable, CounterMissing
<1>10. own # {}
  BY <1>3, <1>4
<1> QED BY <1>1, <1>3, <1>6, <1>8, <1>9, <1>10

(* Opening pages keeps the origins earned.                                   *)
LEMMA ReadingEarnsOrigin ==
  ASSUME TypeOK, OriginIsEarned, NEW ps \in SUBSET seen, ReadPages(ps), UNCHANGED found
  PROVE  OriginIsEarned'
BY DEF TypeOK, OriginIsEarned, ReadPages, OriginOf

Researched == OriginIsEarned /\ ResultIsLast /\ DecisiveAnswerIsResearched

\* Nothing is accepted at the start.
LEMMA InitResearched == Init => Researched
BY DEF Init, Researched, OriginIsEarned, ResultIsLast, DecisiveAnswerIsResearched, Pending

(* Without a result, only the origins are to be shown.                       *)
LEMMA NoResult ==
  ASSUME ResultIsLast, at # "DONE", result' = result
  PROVE  ResultIsLast' /\ DecisiveAnswerIsResearched'
BY DEF ResultIsLast, DecisiveAnswerIsResearched

\* Going on to another turn accepts nothing.
LEMMA ContinueResearched ==
  ASSUME Researched, at = "ACT", Continue, UNCHANGED research
  PROVE  Researched'
BY NoResult DEF Researched, OriginIsEarned, Continue, research

\* A failure accepts nothing.
LEMMA FailResearched ==
  ASSUME Researched, NEW s \in {"TIMEOUT", "PROVIDER_ERROR", "INVALID_SCHEMA", "REJECTED"}, Fail(s)
  PROVE  Researched'
BY DEF Researched, OriginIsEarned, ResultIsLast, DecisiveAnswerIsResearched, Fail, Failed, research

\* A repair accepts nothing.
LEMMA RepairResearched ==
  ASSUME Researched, at = "ACT", NEW s \in {"INVALID_SCHEMA", "REJECTED"}, Repair(s)
  PROVE  Researched'
BY ContinueResearched, FailResearched DEF Repair

\* Opening pages accepts nothing.
LEMMA OpeningResearched ==
  ASSUME TypeOK, Researched, OpenPage \/ OpenBatch
  PROVE  Researched'
<1>1. at = "ACT" /\ result' = result /\ UNCHANGED found
  BY DEF OpenPage, OpenBatch, Continue
<1>2. (\E ps \in SUBSET seen : ReadPages(ps)) \/ UNCHANGED <<opened, origin>>
  <2>1. CASE OpenPage
    BY <2>1 DEF OpenPage
  <2>2. CASE OpenBatch
    <3>1. PICK allowed \in SUBSET seen : \E lost \in SUBSET (allowed \ opened) : ReadPages(allowed \ lost)
      BY <2>2 DEF OpenBatch
    <3>2. PICK lost \in SUBSET (allowed \ opened) : ReadPages(allowed \ lost)
      BY <3>1
    <3>3. allowed \ lost \in SUBSET seen
      BY <3>1
    <3> QED BY <3>2, <3>3
  <2> QED BY <2>1, <2>2
<1>3. OriginIsEarned'
  <2>1. CASE \E ps \in SUBSET seen : ReadPages(ps)
    BY <1>1, <2>1, ReadingEarnsOrigin DEF Researched
  <2>2. CASE UNCHANGED <<opened, origin>>
    BY <1>1, <2>2 DEF Researched, OriginIsEarned
  <2> QED BY <1>2, <2>1, <2>2
<1> QED BY <1>1, <1>3, NoResult DEF Researched

\* A search accepts nothing and earns pages their origin.
LEMMA SearchResearched ==
  ASSUME Researched, Search
  PROVE  Researched'
<1>1. at = "ACT" /\ result' = result
  BY DEF Search, Continue
<1>2. found \subseteq found' /\ UNCHANGED <<opened, origin>>
  BY DEF Search, SearchFails, SearchReturns, Record
<1>3. OriginIsEarned'
  BY <1>2 DEF Researched, OriginIsEarned
<1> QED BY <1>1, <1>3, NoResult DEF Researched

\* An answer is accepted by the rules or not at all.
LEMMA AnswerResearched ==
  ASSUME TypeOK, Researched, Answer
  PROVE  Researched'
<1>1. PICK a \in Answers :
         \/ \E reason \in Reasons : Nudgeable(a, reason) /\ Nudge(reason)
         \/ Acceptable(a) /\ Accept(a)
         \/ Repair("REJECTED")
  BY DEF Answer
<1>2. CASE \E reason \in Reasons : Nudgeable(a, reason) /\ Nudge(reason)
  BY <1>2, ContinueResearched DEF Answer, Nudge
<1>3. CASE Acceptable(a) /\ Accept(a)
  <2>1. DecisiveAnswerIsResearched'
    BY <1>3, AcceptedIsResearched DEF Researched
  <2>2. OriginIsEarned' /\ ResultIsLast'
    BY <1>3 DEF Accept, Researched, OriginIsEarned, ResultIsLast, research
  <2> QED BY <2>1, <2>2 DEF Researched
<1>4. CASE Repair("REJECTED")
  BY <1>4, RepairResearched DEF Answer
<1> QED BY <1>1, <1>2, <1>3, <1>4

\* Every step keeps that.
LEMMA NextResearched == TypeOK /\ Researched /\ [Next]_vars => Researched'
<1> SUFFICES ASSUME TypeOK, Researched, [Next]_vars PROVE Researched'
  OBVIOUS
<1>1. CASE StopAtHead
  BY <1>1, FailResearched DEF StopAtHead
<1>2. CASE CallModel \/ RetryCall
  <2>1. at # "DONE" /\ UNCHANGED <<result, origin, opened, found>>
    BY <1>2 DEF CallModel, RetryCall, research
  <2> QED BY <2>1, NoResult DEF Researched, OriginIsEarned
<1>3. CASE GiveUpCalling
  BY <1>3, FailResearched DEF GiveUpCalling
<1>4. CASE InvalidAction
  BY <1>4, RepairResearched DEF InvalidAction
<1>5. CASE RefuseTool
  BY <1>5, ContinueResearched DEF RefuseTool, Refuse
<1>6. CASE Search
  BY <1>6, SearchResearched
<1>7. CASE OpenPage \/ OpenBatch
  BY <1>7, OpeningResearched
<1>8. CASE Answer
  BY <1>8, AnswerResearched
<1>9. CASE UNCHANGED vars
  BY <1>9 DEF vars, research, Researched, OriginIsEarned, ResultIsLast, DecisiveAnswerIsResearched
<1> QED BY <1>1, <1>2, <1>3, <1>4, <1>5, <1>6, <1>7, <1>8, <1>9 DEF Next

(* Whatever the budgets and the pages: a YES or NO that runResearchLoop      *)
(* accepts cites pages the juror's own searches found, from enough sites,    *)
(* after a challenge search whose findings were read.                        *)
THEOREM VerdictsAreResearched == Spec => []DecisiveAnswerIsResearched
<1>1. Researched => DecisiveAnswerIsResearched
  BY DEF Researched
<1> QED BY <1>1, BudgetsHold, InitResearched, NextResearched, PTL DEF Spec

-----------------------------------------------------------------------------
(* Time.                                                                     *)

(* While the provider takes the JSON format a reply to be acted on is in     *)
(* time, and the notice was given by the last turn.                          *)
OnTime ==
  /\ jsonMode /\ at = "ACT" => elapsed <= Deadline
  /\ jsonMode /\ result.status = "OK" => elapsed <= Deadline
  /\ turn = MaxTurns => warned

\* The loop starts in time.
LEMMA InitOnTime == Init => OnTime
BY PolicyNumbers DEF Init, OnTime, Pending

(* A call, or the retry of one, returns by the deadline.                     *)
LEMMA CallOnTime ==
  ASSUME TypeOK, ResultIsLast, OnTime, CallModel \/ RetryCall
  PROVE  OnTime'
<1>1. TimeLeft \in Nat /\ (elapsed <= Deadline => elapsed + TimeLeft = Deadline)
      /\ (elapsed > Deadline => TimeLeft = 0)
  BY TimeLeftIsLeft DEF TypeOK
<1>2. jsonMode' => jsonMode /\ elapsed' <= Deadline
  <2>1. CASE CallModel
    <3>1. elapsed <= Deadline
      BY <2>1, PolicyNumbers, LateIsAfterDeadline DEF CallModel, OutOfTime, TypeOK
    <3>2. CASE jsonMode' = FALSE
      BY <3>2
    <3>3. CASE (\E d \in 0..TimeLeft : elapsed' = After(d)) /\ UNCHANGED jsonMode
      <4>1. PICK d \in 0..TimeLeft : elapsed' = After(d)
        BY <3>3
      <4>2. d \in Nat /\ elapsed + d <= Deadline
        BY <1>1, <3>1, <4>1, PolicyNumbers, LateIsAfterDeadline DEF TypeOK
      <4> QED BY <3>3, <4>1, <4>2, ClockMoves DEF TypeOK
    <3> QED BY <2>1, <3>2, <3>3 DEF CallModel
  <2>2. CASE RetryCall
    <3>1. PICK d \in 0..(TimeLeft - Backoff) : elapsed' = After(Backoff + d)
      BY <2>2 DEF RetryCall
    <3>2. elapsed <= Deadline
      BY <1>1, <2>2, PolicyNumbers, LateIsAfterDeadline DEF RetryCall, MayRetry, TypeOK
    <3>3. Backoff + d \in Nat /\ elapsed + (Backoff + d) <= Deadline
      BY <1>1, <3>1, <3>2, PolicyNumbers, LateIsAfterDeadline DEF TypeOK
    <3> QED BY <2>2, <3>1, <3>3, ClockMoves DEF RetryCall, TypeOK
  <2> QED BY <2>1, <2>2
<1>3. result' = result /\ turn' = turn /\ warned' = warned
  BY DEF CallModel, RetryCall
<1> QED BY <1>2, <1>3 DEF OnTime

(* The notice goes out on every way into the last turn.                      *)
LEMMA ContinueOnTime ==
  ASSUME TypeOK, ResultIsLast, OnTime, at = "ACT", Continue
  PROVE  OnTime'
<1>1. jsonMode' = jsonMode /\ result' = result /\ at' = "TURN" /\ result.status # "OK"
  BY DEF Continue, ResultIsLast
<1>2. ASSUME turn' = MaxTurns PROVE warned'
  <2>1. turn = MaxTurns - 1
    BY <1>2, PolicyNumbers DEF Continue, TypeOK
  <2> QED BY <2>1 DEF Continue, ForceAnswer
<1> QED BY <1>1, <1>2 DEF OnTime

\* A failure is no answer.
LEMMA FailOnTime ==
  ASSUME OnTime, NEW s \in {"TIMEOUT", "PROVIDER_ERROR", "INVALID_SCHEMA", "REJECTED"}, Fail(s)
  PROVE  OnTime'
BY DEF OnTime, Fail, Failed, clock

\* A repair is no answer.
LEMMA RepairOnTime ==
  ASSUME TypeOK, ResultIsLast, OnTime, at = "ACT",
         NEW s \in {"INVALID_SCHEMA", "REJECTED"}, Repair(s)
  PROVE  OnTime'
BY ContinueOnTime, FailOnTime DEF Repair

\* Every step keeps the time.
LEMMA NextOnTime == TypeOK /\ ResultIsLast /\ OnTime /\ [Next]_vars => OnTime'
<1> SUFFICES ASSUME TypeOK, ResultIsLast, OnTime, [Next]_vars PROVE OnTime'
  OBVIOUS
<1>1. CASE StopAtHead \/ GiveUpCalling
  BY <1>1, FailOnTime DEF StopAtHead, GiveUpCalling
<1>2. CASE CallModel \/ RetryCall
  BY <1>2, CallOnTime
<1>3. CASE InvalidAction
  BY <1>3, RepairOnTime DEF InvalidAction
<1>4. CASE RefuseTool \/ Search \/ OpenPage \/ OpenBatch
  BY <1>4, ContinueOnTime DEF RefuseTool, Refuse, Search, OpenPage, OpenBatch
<1>5. CASE Answer
  <2>1. PICK a \in Answers :
           \/ \E reason \in Reasons : Nudge(reason)
           \/ Accept(a)
           \/ Repair("REJECTED")
    BY <1>5 DEF Answer
  <2>2. CASE \E reason \in Reasons : Nudge(reason)
    BY <1>5, <2>2, ContinueOnTime DEF Answer, Nudge
  <2>3. CASE Accept(a)
    BY <1>5, <2>3 DEF Answer, Accept, OnTime, clock
  <2>4. CASE Repair("REJECTED")
    BY <1>5, <2>4, RepairOnTime DEF Answer
  <2> QED BY <2>1, <2>2, <2>3, <2>4
<1>6. CASE UNCHANGED vars
  BY <1>6 DEF vars, clock, OnTime
<1> QED BY <1>1, <1>2, <1>3, <1>4, <1>5, <1>6 DEF Next

(* A seat whose provider takes the JSON format answers by its deadline or    *)
(* not at all, and the model is told before its last turn.                   *)
THEOREM AnswersComeInTime == Spec => []AnsweredInTime
<1>1. OnTime => AnsweredInTime
  BY DEF OnTime, AnsweredInTime, AnsweredBeforeDeadline
<1>2. Researched => ResultIsLast
  BY DEF Researched
<1>3. Spec => []Researched
  BY BudgetsHold, InitResearched, NextResearched, PTL DEF Spec
<1> QED BY <1>1, <1>2, <1>3, BudgetsHold, InitOnTime, NextOnTime, PTL DEF Spec
=============================================================================
