------------------------------ MODULE DebateOrder ------------------------------
(***************************************************************************)
(* Who speaks next in the public debate, and when it has converged         *)
(* (lib/engine/debateOrder.ts, debateConvergedAfterExchange of             *)
(* lib/engine/engine.ts): pure functions of the turns stored so far.       *)
(*                                                                         *)
(* A seat is its 0-based index.  A question names a seat the way the model *)
(* was shown it, counted from 1, or 0 when none is asked.                  *)
(***************************************************************************)
EXTENDS Integers, FiniteSets, FiniteSetsExt

CONSTANTS
    SeatCount,   \* the seats that revealed in round one
    Skeptic      \* the seat whose role is SKEPTIC

ASSUME SeatsAssumption == SeatCount \in Nat \ {0} /\ Skeptic \in 0 .. SeatCount

Seats == 0 .. SeatCount - 1
Exchanges == 1 .. 3
Stances == {"YES", "NO", "UNSURE"}
Ordinals == 0 .. 3 * SeatCount - 1

Turns ==
    [ordinal : Ordinals, exchange : Exchanges, seat : Seats,
     status : {"SPOKEN", "SKIPPED"}, stance : Stances \cup {"NONE"},
     question : 0 .. SeatCount]

Latest(turns) == CHOOSE t \in turns : \A u \in turns : u.ordinal <= t.ordinal
InExchange(turns, exchange) == {t \in turns : t.exchange = exchange}

\* Mutant: a silent seat still has its turn.
SpokenAloudIn(turns, exchange) ==
    {t.seat : t \in {u \in InExchange(turns, exchange) : u.status = "SPOKEN"}}
SpokenIn(turns, exchange) == {t.seat : t \in InExchange(turns, exchange)}

\* Each seat's stance entering an exchange: its last spoken one, else that of round one.
EffectiveStance(turns, roundOne, exchange) ==
    [s \in Seats |->
        LET spoken == {t \in turns : t.seat = s /\ t.exchange < exchange /\ t.status = "SPOKEN"}
        IN  IF spoken = {} THEN roundOne[s] ELSE Latest(spoken).stance]

\* The places of the seats, numbers in the order of the array: the dissenters open and the
\* sides alternate, each in the order of its seats, until only one side is left; a unanimous
\* jury is opened by its skeptic.
SpeakingOrder(stance) ==
    LET sides == {{s \in Seats : stance[s] = held} : held \in {stance[t] : t \in Seats}}
        opener == IF Skeptic \in Seats THEN Skeptic ELSE 0
        smaller(a, b) == \/ Cardinality(a) < Cardinality(b)
                         \/ Cardinality(a) = Cardinality(b) /\ Min(a) <= Min(b)
        minority == CHOOSE side \in sides : \A other \in sides : smaller(side, other)
        ahead(side, s) == Cardinality({t \in side : t < s})
    IN  IF Cardinality(sides) = 1
        THEN [s \in Seats |-> IF s = opener THEN 0 ELSE s + 1]
        ELSE [s \in Seats |-> IF s \in minority THEN 2 * ahead(minority, s)
                             ELSE 2 * ahead(Seats \ minority, s) + 1]

\* The seat a turn put its question to; the model counts seats from 1.
AskedSeat(turn) == turn.question - 1

\* A question pulls a seat that is still to speak to the front.
NextSpeaker(turns, roundOne, exchange) ==
    LET here == InExchange(turns, exchange)
        remaining == Seats \ SpokenIn(turns, exchange)
        asked == IF here # {} /\ Latest(here).status = "SPOKEN"
                 THEN {AskedSeat(Latest(here))} \cap remaining ELSE {}
        order == SpeakingOrder(EffectiveStance(turns, roundOne, exchange))
    IN  IF asked # {} THEN CHOOSE s \in asked : TRUE
        ELSE CHOOSE s \in remaining : \A other \in remaining : order[s] <= order[other]

ExchangeOver(turns, exchange) == SpokenIn(turns, exchange) = Seats

NextOrdinal(turns, exchange) ==
    (exchange - 1) * SeatCount + Cardinality(InExchange(turns, exchange))

\* Whether the exchange changed a stance; a silent seat keeps its own.
ExchangeMoved(turns, roundOne, exchange) ==
    \E t \in InExchange(turns, exchange) :
        /\ t.status = "SPOKEN"
        /\ t.stance # EffectiveStance(turns, roundOne, exchange)[t.seat]

\* The first complete exchange in which every seat kept its stance, or 0.
ConvergedAfterExchange(turns, roundOne) ==
    LET still == {e \in Exchanges : /\ \A d \in 1 .. e : ExchangeOver(turns, d)
                                   /\ ~ExchangeMoved(turns, roundOne, e)}
    IN  IF still = {} THEN 0 ELSE Min(still)
=============================================================================
