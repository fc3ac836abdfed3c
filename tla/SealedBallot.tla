----------------------------- MODULE SealedBallot -----------------------------
(***************************************************************************)
(* What one round of a jury promises, whatever the clock, the seats and    *)
(* the crank do: a poll in which ballots are cast sealed, none is cast     *)
(* after the first one has been opened, a cast ballot is never altered,    *)
(* and the poll is decided once, by the ballots that were opened.          *)
(***************************************************************************)
EXTENDS Naturals, FiniteSets

CONSTANTS Seats, Outcomes, NoOutcome, Threshold

VARIABLES
    ballot,    \* the sealed ballot of each seat, or NoOutcome
    opened,    \* the seats whose ballot has been opened
    verdict    \* "OPEN", then the outcome that reached the threshold, or NoOutcome

ballotVars == <<ballot, opened, verdict>>

BallotInit ==
    /\ ballot = [k \in Seats |-> NoOutcome]
    /\ opened = {}
    /\ verdict = "OPEN"

Cast(k, o) ==
    /\ verdict = "OPEN"
    /\ opened = {}
    /\ ballot[k] = NoOutcome
    /\ ballot' = [ballot EXCEPT ![k] = o]
    /\ UNCHANGED <<opened, verdict>>

Open(k) ==
    /\ verdict = "OPEN"
    /\ ballot[k] # NoOutcome
    /\ k \notin opened
    /\ opened' = opened \cup {k}
    /\ UNCHANGED <<ballot, verdict>>

Backers(o) == {k \in opened : ballot[k] = o}

Close ==
    /\ verdict = "OPEN"
    /\ \/ \E o \in Outcomes : Cardinality(Backers(o)) >= Threshold /\ verdict' = o
       \/ /\ \A o \in Outcomes : Cardinality(Backers(o)) < Threshold
          /\ verdict' = NoOutcome
    /\ UNCHANGED <<ballot, opened>>

BallotNext ==
    \/ \E k \in Seats, o \in Outcomes : Cast(k, o)
    \/ \E k \in Seats : Open(k)
    \/ Close

BallotSpec == BallotInit /\ [][BallotNext]_ballotVars
=============================================================================
