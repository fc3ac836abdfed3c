------------------------------ MODULE DebateProofs ------------------------------
(***************************************************************************)
(* Proofs about Debate and DebateOrder: however many processes drive the   *)
(* debate, die and start over, the stored turns are one conversation that  *)
(* anybody can rebuild, it stops when nobody moves, and its transcript is  *)
(* final.                                                                  *)
(***************************************************************************)
EXTENDS Debate, TLAPS, FiniteSetTheorems, WellFoundedInduction

-----------------------------------------------------------------------------
(* The order of speakers                                                   *)

\* The numbers of an instance.
LEMMA Sizes ==
    /\ SeatCount \in Nat /\ SeatCount >= 1 /\ Seats \subseteq Nat /\ 0 \in Seats
    /\ IsFiniteSet(Seats) /\ Cardinality(Seats) = SeatCount
<1>1. SeatCount \in Nat /\ SeatCount >= 1
  BY SeatsAssumption
<1>2. 0 \in Int /\ SeatCount - 1 \in Int
  BY <1>1
<1>3. IsFiniteSet(0 .. SeatCount - 1) /\ Cardinality(0 .. SeatCount - 1) = SeatCount
  BY <1>1, <1>2, FS_Interval
<1> QED BY <1>1, <1>3 DEF Seats

\* A set of numbers that is not empty has a least one: of the initial segments that they
\* bound one is minimal.
LEMMA LeastExists ==
    ASSUME NEW S \in SUBSET Nat, S # {}
    PROVE  \E m \in S : \A j \in S : m <= j
<1> DEFINE Segments == {1 .. k : k \in S}
<1>1. Segments \subseteq FiniteSubsetsOf(Nat)
  <2> SUFFICES ASSUME NEW k \in S PROVE 1 .. k \in FiniteSubsetsOf(Nat)
    OBVIOUS
  <2>1. k \in Int /\ 1 .. k \subseteq Nat
    OBVIOUS
  <2>2. IsFiniteSet(1 .. k)
    BY <2>1, FS_Interval
  <2> QED BY <2>1, <2>2 DEF FiniteSubsetsOf
<1>2. PICK x \in Segments : \A y \in Segments : ~(<<y, x>> \in StrictSubsetOrdering(Nat))
  <2>1. Segments # {}
    OBVIOUS
  <2> HIDE DEF Segments
  <2> QED BY <1>1, <2>1, FS_StrictSubsetOrderingWellFounded, WFMin
<1>3. PICK m \in S : x = 1 .. m
  OBVIOUS
<1>4. ASSUME NEW j \in S PROVE m <= j
  <2> SUFFICES ASSUME j < m PROVE FALSE
    OBVIOUS
  <2>1. m \in 1 .. m /\ m \notin 1 .. j /\ 1 .. j \subseteq 1 .. m
    OBVIOUS
  <2>2. <<1 .. j, 1 .. m>> \in StrictSubsetOrdering(Nat)
    BY <2>1 DEF StrictSubsetOrdering
  <2> QED BY <1>2, <1>3, <2>2
<1> QED BY <1>4

\* The least seat of a side is one of its numbers.
LEMMA LowestIsNumber ==
    ASSUME NEW S \in SUBSET Seats, S # {}
    PROVE  Min(S) \in Nat
<1>1. S \in SUBSET Nat
  BY Sizes
<1>2. PICK m \in S : \A j \in S : m <= j
  BY <1>1, LeastExists
<1>3. Min(S) \in S
  BY <1>2 DEF Min
<1> QED BY <1>1, <1>3

\* One of several sides is the smallest, or of the smallest the one with the least seat.
Smaller(a, b) ==
    \/ Cardinality(a) < Cardinality(b)
    \/ Cardinality(a) = Cardinality(b) /\ Min(a) <= Min(b)

\* There is such a side.
LEMMA MinorityExists ==
    ASSUME NEW Sides, Sides # {},
           \A side \in Sides : side \subseteq Seats /\ side # {}
    PROVE  \E side \in Sides : \A other \in Sides : Smaller(side, other)
<1>1. \A side \in Sides : Cardinality(side) \in Nat /\ Min(side) \in Nat
  <2> SUFFICES ASSUME NEW side \in Sides PROVE Cardinality(side) \in Nat /\ Min(side) \in Nat
    OBVIOUS
  <2>1. side \in SUBSET Seats /\ side # {}
    OBVIOUS
  <2> QED BY <2>1, Sizes, FS_Subset, FS_CardinalityType, LowestIsNumber
<1> DEFINE sizes == {Cardinality(side) : side \in Sides}
<1>2. sizes \in SUBSET Nat /\ sizes # {}
  BY <1>1
<1>3. PICK n \in sizes : \A m \in sizes : n <= m
  <2> HIDE DEF sizes
  <2> QED BY <1>2, LeastExists
<1> DEFINE small == {side \in Sides : Cardinality(side) = n}
           lows == {Min(side) : side \in small}
<1>4. lows \in SUBSET Nat /\ lows # {}
  BY <1>1
<1>5. PICK l \in lows : \A m \in lows : l <= m
  <2> HIDE DEF lows
  <2> QED BY <1>4, LeastExists
<1>6. PICK side \in small : Min(side) = l
  OBVIOUS
<1>7. ASSUME NEW other \in Sides PROVE Smaller(side, other)
  <2>1. n <= Cardinality(other) /\ Cardinality(side) = n
    BY <1>3, <1>6
  <2>2. CASE Cardinality(other) = n
    <3>1. Min(other) \in lows
      BY <2>2
    <3>2. Min(side) <= Min(other)
      BY <1>5, <1>6, <3>1
    <3> QED BY <2>1, <2>2, <3>2 DEF Smaller
  <2>3. CASE Cardinality(other) # n
    <3>1. n \in Nat /\ Cardinality(other) \in Nat
      BY <1>1, <1>2
    <3>2. Cardinality(side) < Cardinality(other)
      BY <2>1, <2>3, <3>1
    <3> QED BY <3>2 DEF Smaller
  <2> QED BY <2>2, <2>3
<1> QED BY <1>6, <1>7

\* Every seat has a place in the order.
LEMMA PlacesAreNumbers ==
    ASSUME NEW stance, NEW s \in Seats
    PROVE  SpeakingOrder(stance)[s] \in Nat
<1> DEFINE sides == {{u \in Seats : stance[u] = held} : held \in {stance[t] : t \in Seats}}
           opener == IF Skeptic \in Seats THEN Skeptic ELSE 0
           smaller(a, b) == \/ Cardinality(a) < Cardinality(b)
                            \/ Cardinality(a) = Cardinality(b) /\ Min(a) <= Min(b)
           minority == CHOOSE side \in sides : \A other \in sides : smaller(side, other)
           ahead(side, u) == Cardinality({t \in side : t < u})
<1>1. ASSUME NEW S \in SUBSET Seats PROVE ahead(S, s) \in Nat
  <2>1. {t \in S : t < s} \in SUBSET Seats
    OBVIOUS
  <2> QED BY <2>1, Sizes, FS_Subset, FS_CardinalityType
<1>2. SpeakingOrder(stance)[s] =
         IF Cardinality(sides) = 1 THEN IF s = opener THEN 0 ELSE s + 1
         ELSE IF s \in minority THEN 2 * ahead(minority, s) ELSE 2 * ahead(Seats \ minority, s) + 1
  BY DEF SpeakingOrder
<1>3. minority \in sides
  <2>1. sides # {} /\ \A side \in sides : side \subseteq Seats /\ side # {}
    <3>1. \A t \in Seats : {u \in Seats : stance[u] = stance[t]} \in sides
      OBVIOUS
    <3>2. ASSUME NEW side \in sides PROVE side \subseteq Seats /\ side # {}
      <4>1. PICK t \in Seats : side = {u \in Seats : stance[u] = stance[t]}
        OBVIOUS
      <4> QED BY <4>1
    <3> QED BY <3>1, <3>2, Sizes
  <2>2. \E side \in sides : \A other \in sides : smaller(side, other)
    <3> HIDE DEF sides
    <3> QED BY <2>1, MinorityExists DEF Smaller
  <2> HIDE DEF sides, smaller
  <2> QED BY <2>2
<1>4. minority \in SUBSET Seats /\ Seats \ minority \in SUBSET Seats
  <2> HIDE DEF minority
  <2> QED BY <1>3
<1>5. ahead(minority, s) \in Nat /\ ahead(Seats \ minority, s) \in Nat
  <2> HIDE DEF ahead, minority
  <2> QED BY <1>1, <1>4
<1>6. s \in Nat
  BY Sizes
<1> HIDE DEF minority, ahead, sides, opener
<1> QED BY <1>2, <1>5, <1>6

\* The next speaker of an exchange that is not over is a seat that has not spoken in it.
LEMMA NextSpeakerIsWaiting ==
    ASSUME NEW T, NEW stances, NEW e, ~ExchangeOver(T, e), SpokenIn(T, e) \subseteq Seats
    PROVE  NextSpeaker(T, stances, e) \in Seats \ SpokenIn(T, e)
<1> DEFINE here == InExchange(T, e)
           remaining == Seats \ SpokenIn(T, e)
           asked == IF here # {} /\ Latest(here).status = "SPOKEN"
                    THEN {AskedSeat(Latest(here))} \cap remaining ELSE {}
           order == SpeakingOrder(EffectiveStance(T, stances, e))
           first == CHOOSE s \in remaining : \A other \in remaining : order[s] <= order[other]
<1>1. NextSpeaker(T, stances, e) = IF asked # {} THEN CHOOSE s \in asked : TRUE ELSE first
  BY DEF NextSpeaker
<1>2. asked \subseteq remaining /\ remaining # {} /\ remaining \subseteq Seats
  BY DEF ExchangeOver
<1>3. first \in remaining
  <2> DEFINE places == {order[s] : s \in remaining}
  <2>1. places \in SUBSET Nat /\ places # {}
    <3> HIDE DEF order, remaining
    <3>1. \A s \in Seats : order[s] \in Nat
      BY PlacesAreNumbers DEF order
    <3> QED BY <1>2, <3>1
  <2>2. PICK n \in places : \A m \in places : n <= m
    <3> HIDE DEF places
    <3> QED BY <2>1, LeastExists
  <2> HIDE DEF order, remaining
  <2>3. \E s \in remaining : \A other \in remaining : order[s] <= order[other]
    BY <2>2
  <2> QED BY <2>3
<1> HIDE DEF asked, first, remaining
<1>4. NextSpeaker(T, stances, e) \in remaining
  BY <1>1, <1>2, <1>3
<1> QED BY <1>4 DEF remaining

-----------------------------------------------------------------------------
(* Conversations                                                           *)

\* The turns of T before the given one.
Earlier(T, turn) == {t \in T : t.ordinal < turn.ordinal}

\* The turn is the one that the turns of S call for.
Follows(turn, S, stances) ==
    /\ \A e \in 1 .. turn.exchange - 1 : ExchangeOver(S, e)
    /\ InExchange(S, turn.exchange + 1) = {}
    /\ turn.ordinal = NextOrdinal(S, turn.exchange)
    /\ turn.seat = NextSpeaker(S, stances, turn.exchange)

\* Turns in their order: no number twice, no seat twice in an exchange, each turn the one
\* its predecessors call for.
Conversation(T, stances) ==
    /\ T \subseteq Turns /\ IsFiniteSet(T)
    /\ \A t, u \in T : t.ordinal = u.ordinal => t = u
    /\ \A t, u \in T : t.exchange = u.exchange /\ t.seat = u.seat => t = u
    /\ \A t \in T : Follows(t, Earlier(T, t), stances)

\* A turn has a number, an exchange and a seat.
LEMMA TurnFields ==
    ASSUME NEW t \in Turns
    PROVE  /\ t.ordinal \in Nat /\ t.ordinal \in Ordinals /\ t.exchange \in Nat
           /\ t.exchange \in {1, 2, 3} /\ t.seat \in Seats /\ t.stance \in Stances \cup {"NONE"}
           /\ t.status \in {"SPOKEN", "SKIPPED"}
BY Sizes DEF Turns, Ordinals, Exchanges

\* The turns of an exchange are as many as the seats that have spoken in it.
LEMMA SeatsAreCounted ==
    ASSUME NEW T, T \subseteq Turns, IsFiniteSet(T), NEW e,
           \A t, u \in T : t.exchange = u.exchange /\ t.seat = u.seat => t = u
    PROVE  /\ IsFiniteSet(InExchange(T, e)) /\ Cardinality(InExchange(T, e)) \in Nat
           /\ SpokenIn(T, e) \subseteq Seats
           /\ Cardinality(InExchange(T, e)) <= SeatCount
           /\ Cardinality(InExchange(T, e)) = SeatCount <=> ExchangeOver(T, e)
<1> DEFINE here == InExchange(T, e)
           f == [t \in here |-> t.seat]
<1>1. IsFiniteSet(here) /\ Cardinality(here) \in Nat
  BY FS_Subset, FS_CardinalityType DEF InExchange
<1>2. SpokenIn(T, e) \subseteq Seats
  BY TurnFields DEF SpokenIn, InExchange
<1>3. f \in Bijection(here, SpokenIn(T, e))
  <2>1. SpokenIn(T, e) = {f[t] : t \in here}
    BY DEF SpokenIn
  <2>2. f \in [here -> SpokenIn(T, e)]
    BY <2>1
  <2>3. \A t, u \in here : f[t] = f[u] => t = u
    BY DEF InExchange
  <2>4. \A s \in SpokenIn(T, e) : \E t \in here : f[t] = s
    BY <2>1
  <2> HIDE DEF f, here
  <2> QED BY <2>2, <2>3, <2>4 DEF Bijection, Injection, Surjection, IsInjective
<1>4. Cardinality(SpokenIn(T, e)) = Cardinality(here)
  <2>1. ExistsBijection(here, SpokenIn(T, e))
    BY <1>3 DEF ExistsBijection
  <2> QED BY <1>1, <2>1, FS_Bijection
<1>5. /\ Cardinality(SpokenIn(T, e)) <= SeatCount
      /\ Cardinality(SpokenIn(T, e)) = SeatCount <=> SpokenIn(T, e) = Seats
  BY <1>2, Sizes, FS_Subset
<1> QED BY <1>1, <1>2, <1>4, <1>5 DEF ExchangeOver

\* A later turn only adds to what has been said.
LEMMA OverStaysOver ==
    ASSUME NEW S, NEW T, S \subseteq T, T \subseteq Turns, NEW e, ExchangeOver(S, e)
    PROVE  ExchangeOver(T, e)
<1>1. SpokenIn(S, e) \subseteq SpokenIn(T, e) /\ SpokenIn(T, e) \subseteq Seats
  BY TurnFields DEF SpokenIn, InExchange
<1> QED BY <1>1 DEF ExchangeOver

\* The parts of a conversation.
LEMMA ConversationFacts ==
    ASSUME NEW T, NEW stances, Conversation(T, stances), NEW t \in T
    PROVE  /\ t \in Turns /\ t.exchange \in {1, 2, 3} /\ t.ordinal \in Nat /\ t.seat \in Seats
           /\ Follows(t, Earlier(T, t), stances)
           /\ Earlier(T, t) \subseteq T /\ Earlier(T, t) \subseteq Turns
           /\ IsFiniteSet(Earlier(T, t)) /\ t \notin Earlier(T, t)
           /\ \A u, v \in Earlier(T, t) : u.exchange = v.exchange /\ u.seat = v.seat => u = v
<1>1. t \in Turns /\ T \subseteq Turns /\ IsFiniteSet(T) /\ Follows(t, Earlier(T, t), stances)
      /\ \A u, v \in T : u.exchange = v.exchange /\ u.seat = v.seat => u = v
  BY DEF Conversation
<1>2. Earlier(T, t) \subseteq T /\ t \notin Earlier(T, t)
  BY <1>1, TurnFields DEF Earlier
<1>3. IsFiniteSet(Earlier(T, t))
  BY <1>1, <1>2, FS_Subset
<1> QED BY <1>1, <1>2, <1>3, TurnFields

\* The turns of an exchange come before those of the next.
LEMMA ExchangesFollow ==
    ASSUME NEW T, NEW stances, Conversation(T, stances), NEW t \in T, NEW u \in T,
           t.exchange < u.exchange
    PROVE  t.ordinal < u.ordinal
<1>1. /\ t.exchange \in {1, 2, 3} /\ u.exchange \in {1, 2, 3} /\ t.seat \in Seats
      /\ Follows(u, Earlier(T, u), stances)
  BY ConversationFacts
<1>2. ExchangeOver(Earlier(T, u), t.exchange)
  BY <1>1 DEF Follows
<1>3. PICK v \in Earlier(T, u) : v.exchange = t.exchange /\ v.seat = t.seat
  BY <1>1, <1>2 DEF ExchangeOver, SpokenIn, InExchange
<1>4. v = t
  BY <1>3 DEF Earlier, Conversation
<1> QED BY <1>3, <1>4 DEF Earlier

\* If an exchange is the first that is not over, all turns were taken in it or before, and
\* the number of its next turn is a new one.
LEMMA NextIsLast ==
    ASSUME NEW T, NEW stances, Conversation(T, stances), NEW e \in Exchanges,
           \A d \in 1 .. e - 1 : ExchangeOver(T, d), ~ExchangeOver(T, e), NEW u \in T
    PROVE  u.exchange <= e /\ u.ordinal < NextOrdinal(T, e)
<1> DEFINE d == u.exchange
           before == Earlier(T, u)
<1>1. /\ u \in Turns /\ d \in {1, 2, 3} /\ u.ordinal \in Nat /\ Follows(u, before, stances)
      /\ before \subseteq T /\ before \subseteq Turns /\ IsFiniteSet(before) /\ u \notin before
      /\ \A t, v \in before : t.exchange = v.exchange /\ t.seat = v.seat => t = v
  BY ConversationFacts
<1>2. /\ T \subseteq Turns /\ IsFiniteSet(T)
      /\ \A t, v \in T : t.exchange = v.exchange /\ t.seat = v.seat => t = v
  BY DEF Conversation
<1>3. e \in {1, 2, 3}
  BY DEF Exchanges
<1>4. d <= e
  <2> SUFFICES ASSUME e < d PROVE FALSE
    BY <1>1, <1>3
  <2>1. ExchangeOver(before, e)
    BY <1>1, <1>3 DEF Follows
  <2>2. ExchangeOver(T, e)
    BY <1>1, <1>2, <2>1, OverStaysOver
  <2> QED BY <2>2
<1>5. Cardinality(InExchange(before, d)) < Cardinality(InExchange(T, d))
  <2>1. InExchange(before, d) \in SUBSET InExchange(T, d)
    BY <1>1 DEF InExchange
  <2>2. u \in InExchange(T, d) /\ u \notin InExchange(before, d)
    BY <1>1 DEF InExchange
  <2>3. IsFiniteSet(InExchange(T, d)) /\ Cardinality(InExchange(T, d)) \in Nat
        /\ Cardinality(InExchange(before, d)) \in Nat
    BY <1>1, <1>2, SeatsAreCounted
  <2> QED BY <2>1, <2>2, <2>3, FS_Subset
<1>6. /\ Cardinality(InExchange(T, d)) \in Nat /\ Cardinality(InExchange(before, d)) \in Nat
      /\ Cardinality(InExchange(T, e)) \in Nat /\ Cardinality(InExchange(T, d)) <= SeatCount
  BY <1>1, <1>2, SeatsAreCounted
<1>7. u.ordinal = (d - 1) * SeatCount + Cardinality(InExchange(before, d))
  BY <1>1 DEF Follows, NextOrdinal
<1>8. u.ordinal < NextOrdinal(T, e)
  <2> DEFINE a == Cardinality(InExchange(before, d))
             b == Cardinality(InExchange(T, d))
             c == Cardinality(InExchange(T, e))
  <2>1. NextOrdinal(T, e) = (e - 1) * SeatCount + c
    BY DEF NextOrdinal
  <2>2. /\ a \in Nat /\ b \in Nat /\ c \in Nat /\ a < b /\ b <= SeatCount /\ SeatCount \in Nat
        /\ u.ordinal = (d - 1) * SeatCount + a
    BY <1>5, <1>6, <1>7, Sizes
  <2>3. d = e => b = c
    OBVIOUS
  <2> HIDE DEF a, b, c, d
  <2>4. CASE d = e
    BY <1>3, <2>1, <2>2, <2>3, <2>4
  <2>5. CASE d = 1 /\ e = 2
    BY <2>1, <2>2, <2>5
  <2>6. CASE d = 1 /\ e = 3
    BY <2>1, <2>2, <2>6
  <2>7. CASE d = 2 /\ e = 3
    BY <2>1, <2>2, <2>7
  <2> QED BY <1>1, <1>3, <1>4, <2>4, <2>5, <2>6, <2>7
<1> QED BY <1>4, <1>8

\* What the order of debate calls for next is a turn of a seat that is waiting.
LEMMA NextTurn ==
    ASSUME NEW T, NEW stances, Conversation(T, stances), NEW e \in Exchanges,
           \A d \in 1 .. e - 1 : ExchangeOver(T, d), ~ExchangeOver(T, e)
    PROVE  /\ NextOrdinal(T, e) \in Ordinals /\ NextOrdinal(T, e) \in Nat
           /\ NextSpeaker(T, stances, e) \in Seats \ SpokenIn(T, e)
           /\ InExchange(T, e + 1) = {}
<1>1. /\ T \subseteq Turns /\ IsFiniteSet(T)
      /\ \A t, v \in T : t.exchange = v.exchange /\ t.seat = v.seat => t = v
  BY DEF Conversation
<1> DEFINE n == Cardinality(InExchange(T, e))
<1>2. n \in Nat /\ n < SeatCount /\ SpokenIn(T, e) \subseteq Seats
  <2>1. n \in Nat /\ n <= SeatCount /\ n # SeatCount /\ SpokenIn(T, e) \subseteq Seats
    BY <1>1, SeatsAreCounted
  <2> QED BY <2>1, Sizes
<1>3. NextOrdinal(T, e) = (e - 1) * SeatCount + n
  BY DEF NextOrdinal
<1> HIDE DEF n
<1>4. NextOrdinal(T, e) \in 0 .. 3 * SeatCount - 1
  <2>1. CASE e = 1
    BY <1>2, <1>3, <2>1, Sizes
  <2>2. CASE e = 2
    BY <1>2, <1>3, <2>2, Sizes
  <2>3. CASE e = 3
    BY <1>2, <1>3, <2>3, Sizes
  <2> QED BY <2>1, <2>2, <2>3 DEF Exchanges
<1>5. InExchange(T, e + 1) = {}
  <2> SUFFICES ASSUME NEW t \in T, t.exchange = e + 1 PROVE FALSE
    BY DEF InExchange
  <2> QED BY NextIsLast DEF Exchanges
<1> QED BY <1>2, <1>4, <1>5, NextSpeakerIsWaiting DEF Ordinals

\* Storing that turn makes a longer conversation.
LEMMA NextTurnExtends ==
    ASSUME NEW T, NEW stances, Conversation(T, stances), NEW turn \in Turns,
           \A d \in 1 .. turn.exchange - 1 : ExchangeOver(T, d),
           ~ExchangeOver(T, turn.exchange),
           turn.ordinal = NextOrdinal(T, turn.exchange),
           turn.seat = NextSpeaker(T, stances, turn.exchange)
    PROVE  /\ Conversation(T \cup {turn}, stances)
           /\ \A u \in T : u.ordinal < turn.ordinal /\ Earlier(T \cup {turn}, u) = Earlier(T, u)
           /\ Earlier(T \cup {turn}, turn) = T
<1> DEFINE U == T \cup {turn}
           e == turn.exchange
<1>1. e \in Exchanges /\ turn.ordinal \in Nat
  BY TurnFields DEF Exchanges
<1>2. /\ turn.seat \in Seats \ SpokenIn(T, e) /\ InExchange(T, e + 1) = {}
  BY <1>1, NextTurn
<1>3. \A u \in T : u \in Turns /\ u.ordinal \in Nat /\ u.ordinal < turn.ordinal
  BY <1>1, NextIsLast, ConversationFacts
<1>4. \A u \in T : Earlier(U, u) = Earlier(T, u)
  BY <1>1, <1>3 DEF Earlier
<1>5. Earlier(U, turn) = T
  BY <1>1, <1>3 DEF Earlier
<1>6. U \subseteq Turns /\ IsFiniteSet(U)
  BY FS_AddElement DEF Conversation
<1>7. ASSUME NEW t \in U, NEW u \in U, t.ordinal = u.ordinal PROVE t = u
  BY <1>1, <1>3, <1>7 DEF Conversation
<1>8. ASSUME NEW t \in U, NEW u \in U, t.exchange = u.exchange, t.seat = u.seat PROVE t = u
  <2>1. \A v \in T : v.exchange = e => v.seat # turn.seat
    BY <1>2 DEF SpokenIn, InExchange
  <2> QED BY <1>8, <2>1 DEF Conversation
<1>9. ASSUME NEW t \in U PROVE Follows(t, Earlier(U, t), stances)
  <2>1. CASE t = turn
    BY <1>2, <1>5, <2>1 DEF Follows
  <2>2. CASE t # turn
    BY <1>4, <2>2 DEF Conversation
  <2> QED BY <2>1, <2>2
<1>10. Conversation(U, stances)
  BY <1>6, <1>7, <1>8, <1>9 DEF Conversation
<1> QED BY <1>3, <1>4, <1>5, <1>10

-----------------------------------------------------------------------------
(* Changes of mind                                                         *)

\* Of several turns one is the latest.
LEMMA LatestExists ==
    ASSUME NEW T, T \subseteq Turns, T # {}
    PROVE  Latest(T) \in T /\ \A u \in T : u.ordinal <= Latest(T).ordinal
<1> DEFINE left == {3 * SeatCount - u.ordinal : u \in T}
<1>1. \A u \in T : u.ordinal \in Nat /\ 3 * SeatCount - u.ordinal \in Nat
  BY Sizes, TurnFields DEF Ordinals
<1>2. left \in SUBSET Nat /\ left # {}
  BY <1>1
<1>3. PICK n \in left : \A m \in left : n <= m
  <2> HIDE DEF left
  <2> QED BY <1>2, LeastExists
<1>4. PICK t \in T : n = 3 * SeatCount - t.ordinal
  OBVIOUS
<1>5. ASSUME NEW u \in T PROVE u.ordinal <= t.ordinal
  <2>1. 3 * SeatCount - u.ordinal \in left
    OBVIOUS
  <2>2. 3 * SeatCount - t.ordinal <= 3 * SeatCount - u.ordinal
    BY <1>3, <1>4, <2>1
  <2> QED BY <1>1, <2>2, Sizes
<1> QED BY <1>5 DEF Latest

\* The spoken turns of a seat before an exchange.
SpokenBefore(T, s, e) == {t \in T : t.seat = s /\ t.exchange < e /\ t.status = "SPOKEN"}

\* What a seat last said counts.
LEMMA StanceOf ==
    ASSUME NEW T, NEW stances, NEW e, NEW s \in Seats
    PROVE  EffectiveStance(T, stances, e)[s] =
              IF SpokenBefore(T, s, e) = {} THEN stances[s]
              ELSE Latest(SpokenBefore(T, s, e)).stance
BY DEF EffectiveStance, SpokenBefore

\* A turn changes nothing about the exchanges up to its own.
LEMMA EffectiveStays ==
    ASSUME NEW T, T \subseteq Turns, NEW stances, NEW turn \in Turns,
           NEW e \in Exchanges, e <= turn.exchange
    PROVE  EffectiveStance(T \cup {turn}, stances, e) = EffectiveStance(T, stances, e)
<1>1. \A s \in Seats : SpokenBefore(T \cup {turn}, s, e) = SpokenBefore(T, s, e)
  BY TurnFields DEF SpokenBefore, Exchanges
<1> QED BY <1>1 DEF EffectiveStance, SpokenBefore

\* A change of mind stays one.
LEMMA MovedStays ==
    ASSUME NEW T, T \subseteq Turns, NEW stances, NEW turn \in Turns,
           NEW e \in Exchanges, e <= turn.exchange, ExchangeMoved(T, stances, e)
    PROVE  ExchangeMoved(T \cup {turn}, stances, e)
<1>1. InExchange(T, e) \subseteq InExchange(T \cup {turn}, e)
  BY DEF InExchange
<1> QED BY <1>1, EffectiveStays DEF ExchangeMoved

\* After an exchange a seat that spoke in it has the stance it spoke for, another keeps its own.
LEMMA StanceAfterTurn ==
    ASSUME NEW T, NEW stances, Conversation(T, stances), NEW e \in Exchanges,
           NEW t \in InExchange(T, e)
    PROVE  EffectiveStance(T, stances, e + 1)[t.seat] =
              IF t.status = "SPOKEN" THEN t.stance
              ELSE EffectiveStance(T, stances, e)[t.seat]
<1> DEFINE s == t.seat
           after == SpokenBefore(T, s, e + 1)
           before == SpokenBefore(T, s, e)
<1>1. /\ t \in T /\ t.exchange = e /\ s \in Seats /\ e \in {1, 2, 3}
      /\ T \subseteq Turns /\ \A u \in T : u.exchange \in {1, 2, 3} /\ u.ordinal \in Nat
      /\ \A u \in T : u.exchange = e /\ u.seat = s => u = t
  BY TurnFields DEF InExchange, Conversation, Exchanges
<1>2. CASE t.status = "SPOKEN"
  <2>1. t \in after /\ after \subseteq T
    BY <1>1, <1>2 DEF SpokenBefore
  <2> DEFINE u == Latest(after)
  <2>2. u \in after /\ t.ordinal <= u.ordinal
    BY <1>1, <2>1, LatestExists
  <2>3. u \in T /\ u.seat = s /\ u.exchange <= e
    BY <1>1, <2>2 DEF SpokenBefore
  <2> HIDE DEF u
  <2>4. u.exchange = e
    <3> SUFFICES ASSUME u.exchange < e PROVE FALSE
      BY <1>1, <2>3
    <3>1. u.ordinal < t.ordinal
      BY <1>1, <2>3, ExchangesFollow
    <3> QED BY <1>1, <2>2, <2>3, <3>1
  <2>5. u = t
    BY <1>1, <2>3, <2>4
  <2> QED BY <1>1, <1>2, <2>1, <2>5, StanceOf DEF u
<1>3. CASE t.status # "SPOKEN"
  <2>1. after = before
    BY <1>1, <1>3 DEF SpokenBefore
  <2> QED BY <1>1, <1>3, <2>1, StanceOf
<1> QED BY <1>2, <1>3

\* An exchange in which every seat had its turn moved nobody if and only if every seat left
\* it with the stance it brought.
LEMMA MovedMeansChanged ==
    ASSUME NEW T, NEW stances, Conversation(T, stances), NEW e \in Exchanges,
           ExchangeOver(T, e)
    PROVE  ExchangeMoved(T, stances, e) <=>
              \E s \in Seats : EffectiveStance(T, stances, e + 1)[s]
                                  # EffectiveStance(T, stances, e)[s]
<1>1. \A t \in InExchange(T, e) : t.seat \in Seats
  BY TurnFields DEF InExchange, Conversation
<1>2. \A s \in Seats : \E t \in InExchange(T, e) : t.seat = s
  BY DEF ExchangeOver, SpokenIn
<1> DEFINE changed(s) == EffectiveStance(T, stances, e + 1)[s]
                            # EffectiveStance(T, stances, e)[s]
<1>3. \A t \in InExchange(T, e) :
         changed(t.seat) <=>
            t.status = "SPOKEN" /\ t.stance # EffectiveStance(T, stances, e)[t.seat]
  BY StanceAfterTurn
<1> QED BY <1>1, <1>2, <1>3 DEF ExchangeMoved

\* Every exchange before e is over and has changed a stance.
Reached(T, stances, e) ==
    \A d \in 1 .. e - 1 : ExchangeOver(T, d) /\ ExchangeMoved(T, stances, d)

\* The debate converges after an exchange that is over and moved nobody, and it does so
\* where all before it moved somebody.
LEMMA ConvergesWhereNobodyMoves ==
    ASSUME NEW T, NEW stances
    PROVE  /\ ConvergedAfterExchange(T, stances) \in 0 .. 3
           /\ \A e \in Exchanges :
                /\ ConvergedAfterExchange(T, stances) = e =>
                      ~ExchangeMoved(T, stances, e) /\ \A d \in 1 .. e : ExchangeOver(T, d)
                /\ Reached(T, stances, e) /\ ExchangeOver(T, e)
                      /\ ConvergedAfterExchange(T, stances) # e =>
                         ExchangeMoved(T, stances, e)
<1> DEFINE still == {e \in Exchanges : /\ \A d \in 1 .. e : ExchangeOver(T, d)
                                      /\ ~ExchangeMoved(T, stances, e)}
<1>1. ConvergedAfterExchange(T, stances) = IF still = {} THEN 0 ELSE Min(still)
  BY DEF ConvergedAfterExchange
<1>2. still # {} => Min(still) \in still /\ \A e \in still : Min(still) <= e
  <2> SUFFICES ASSUME still # {} PROVE Min(still) \in still /\ \A e \in still : Min(still) <= e
    OBVIOUS
  <2>1. still \in SUBSET Nat
    BY DEF Exchanges
  <2> HIDE DEF still
  <2>2. \E m \in still : \A j \in still : m <= j
    BY <2>1, LeastExists
  <2> QED BY <2>2 DEF Min
<1>3. \A e \in still : e \in Exchanges /\ ~ExchangeMoved(T, stances, e)
                       /\ \A d \in 1 .. e : ExchangeOver(T, d)
  OBVIOUS
<1>4. ASSUME NEW e \in Exchanges, Reached(T, stances, e), ExchangeOver(T, e),
             ~ExchangeMoved(T, stances, e)
      PROVE  e \in still /\ \A d \in still : e <= d
  <2>1. \A d \in 1 .. e : ExchangeOver(T, d)
    BY <1>4 DEF Reached, Exchanges
  <2>2. ASSUME NEW d \in still, d < e PROVE FALSE
    BY <1>4, <2>2 DEF Reached, Exchanges
  <2> QED BY <1>4, <2>1, <2>2 DEF Exchanges
<1> HIDE DEF still
<1>5. ConvergedAfterExchange(T, stances) \in 0 .. 3
  BY <1>1, <1>2, <1>3 DEF Exchanges
<1>6. ASSUME NEW e \in Exchanges, ConvergedAfterExchange(T, stances) = e
      PROVE  ~ExchangeMoved(T, stances, e) /\ \A d \in 1 .. e : ExchangeOver(T, d)
  <2>1. e # 0
    BY DEF Exchanges
  <2>2. e \in still
    BY <1>1, <1>2, <1>6, <2>1
  <2> QED BY <1>3, <2>2
<1>7. ASSUME NEW e \in Exchanges, Reached(T, stances, e), ExchangeOver(T, e),
             ConvergedAfterExchange(T, stances) # e
      PROVE  ExchangeMoved(T, stances, e)
  <2> SUFFICES ASSUME ~ExchangeMoved(T, stances, e) PROVE FALSE
    OBVIOUS
  <2>1. e \in still /\ \A d \in still : e <= d
    BY <1>4, <1>7
  <2>2. Min(still) \in still /\ Min(still) <= e /\ e <= Min(still)
    BY <1>2, <2>1
  <2>3. Min(still) = e
    BY <1>3, <2>2 DEF Exchanges
  <2> QED BY <1>1, <1>7, <2>1, <2>3
<1> QED BY <1>5, <1>6, <1>7

-----------------------------------------------------------------------------
(* The inductive invariant                                                 *)

Stages == {"IDLE", "PLAN", "ASK", "CHECK", "SAVE", "ENSURE", "INGEST", "FREEZE"}
Transcripts == {NoTranscript} \cup [turns : SUBSET Turns, converged : 0 .. 3]
Drivers == [pc : Stages, freezing : BOOLEAN, exchange : Exchanges, draft : Turns,
            transcript : Transcripts]

\* The sets the variables take their values from.
Typed ==
    /\ roundOne \in RoundOnes
    /\ turns \subseteq Turns
    /\ driver \in [Processes -> Drivers]
    /\ artifact \in Transcripts /\ bundle \in Transcripts
    /\ window \in {"OPEN", "EXHAUSTED", "CLOSED"}
    /\ faults \in 0 .. MaxFaults

\* The turn was the next one when it was planned, and it still is unless its number is taken.
Planned(T, stances, turn) ==
    /\ Follows(turn, Earlier(T, turn), stances)
    /\ ~ExchangeOver(Earlier(T, turn), turn.exchange)
    /\ Earlier(T, turn) = T \/ \E t \in T : t.ordinal = turn.ordinal

\* Every seat has had its say in the last exchange.
Over(T, stances) ==
    \E e \in Exchanges :
        /\ \A d \in 1 .. e : ExchangeOver(T, d)
        /\ e = 3 \/ ConvergedAfterExchange(T, stances) = e

\* What a process may rely on between two of its steps.
Knows(d, T, stances) ==
    /\ d.pc \in {"PLAN", "ASK", "CHECK", "SAVE"} => Reached(T, stances, d.exchange)
    /\ d.pc \in {"ASK", "CHECK", "SAVE"} =>
          d.draft.exchange = d.exchange /\ Planned(T, stances, d.draft)
    /\ d.pc \in {"ENSURE", "INGEST", "FREEZE"} => Over(T, stances)
    /\ d.pc = "INGEST" =>
          d.transcript = [turns |-> T, converged |-> ConvergedAfterExchange(T, stances)]

\* A transcript is one of a debate that is over.
TranscriptsAreOfTheEnd ==
    /\ artifact # NoTranscript => Over(turns, roundOne) /\ artifact = Transcript
    /\ bundle # NoTranscript => bundle = artifact

\* One conversation, which goes no further than its exchanges moved somebody.
Orderly(T, stances) ==
    Conversation(T, stances) /\ \A t \in T : Reached(T, stances, t.exchange)

DebateInv ==
    /\ Typed
    /\ Orderly(turns, roundOne)
    /\ \A p \in Processes : Knows(driver[p], turns, roundOne)
    /\ TranscriptsAreOfTheEnd

\* A turn without an answer is one.
LEMMA DraftTyped == NoDraft \in Turns
BY Sizes, SeatsAssumption DEF NoDraft, Turns, Ordinals, Exchanges

\* The turn with the given number, exchange and seat, still without an answer.
DraftOf(o, e, s) == [NoDraft EXCEPT !.ordinal = o, !.exchange = e, !.seat = s]

\* It has them.
LEMMA DraftOfTyped ==
    ASSUME NEW o \in Ordinals, NEW e \in Exchanges, NEW s \in Seats
    PROVE  /\ DraftOf(o, e, s) \in Turns
           /\ DraftOf(o, e, s).ordinal = o /\ DraftOf(o, e, s).exchange = e
           /\ DraftOf(o, e, s).seat = s
<1>1. PICK draft \in Turns : draft = NoDraft
  BY DraftTyped
<1>2. DraftOf(o, e, s) = [draft EXCEPT !.ordinal = o, !.exchange = e, !.seat = s]
  BY <1>1 DEF DraftOf
<1> QED BY <1>2 DEF Turns

\* The debate starts without turns.
LEMMA DebateInit == Init => DebateInv
<1> SUFFICES ASSUME Init PROVE DebateInv
  OBVIOUS
<1>2. Idle \in Drivers /\ Idle.pc = "IDLE"
  BY DraftTyped DEF Idle, Drivers, Stages, Transcripts, Exchanges
<1>3. NoTranscript \in Transcripts
  BY DEF Transcripts
<1>4. Typed
  BY <1>2, <1>3, BoundsAssumption DEF Init, Typed
<1>5. Orderly(turns, roundOne)
  BY FS_EmptySet DEF Init, Orderly, Conversation
<1>6. \A p \in Processes : Knows(driver[p], turns, roundOne)
  BY <1>2 DEF Init, Knows
<1>7. TranscriptsAreOfTheEnd
  BY DEF Init, TranscriptsAreOfTheEnd
<1> QED BY <1>4, <1>5, <1>6, <1>7 DEF DebateInv

-----------------------------------------------------------------------------
(* Steps of one process that store no turn                                 *)

\* A process that stores nothing and knows what its new place in the debate asks for keeps
\* the invariant.
LEMMA OneProcessMoves ==
    ASSUME DebateInv, NEW p \in Processes, NEW d \in Drivers, Knows(d, turns, roundOne),
           driver' = [driver EXCEPT ![p] = d],
           roundOne' = roundOne, turns' = turns, window' = window,
           faults' \in 0 .. MaxFaults,
           artifact' \in Transcripts, bundle' \in Transcripts,
           TranscriptsAreOfTheEnd'
    PROVE  DebateInv'
<1>1. Typed'
  BY DEF DebateInv, Typed
<1>2. \A q \in Processes : driver'[q] = IF q = p THEN d ELSE driver[q]
  BY DEF DebateInv, Typed
<1>3. \A q \in Processes : Knows(driver'[q], turns, roundOne)
  BY <1>2 DEF DebateInv
<1> QED BY <1>1, <1>3 DEF DebateInv

\* If no transcript changes hands either.
LEMMA OneProcessMovesOn ==
    ASSUME DebateInv, NEW p \in Processes, NEW d \in Drivers, Knows(d, turns, roundOne),
           driver' = [driver EXCEPT ![p] = d],
           roundOne' = roundOne, turns' = turns, window' = window,
           faults' \in 0 .. MaxFaults, artifact' = artifact, bundle' = bundle
    PROVE  DebateInv'
<1>1. TranscriptsAreOfTheEnd'
  BY DEF DebateInv, TranscriptsAreOfTheEnd, Transcript
<1>2. artifact' \in Transcripts /\ bundle' \in Transcripts
  BY DEF DebateInv, Typed
<1> QED BY <1>1, <1>2, OneProcessMoves

\* An idle process at the given step.
AtStep(pc, freezing) == [Idle EXCEPT !.pc = pc, !.freezing = freezing]

\* An idle process knows nothing; one that starts over is at the first exchange.
LEMMA IdleKnows ==
    /\ Idle \in Drivers
    /\ \A freezing \in BOOLEAN, pc \in Stages :
          /\ AtStep(pc, freezing) \in Drivers
          /\ AtStep(pc, freezing).pc = pc /\ AtStep(pc, freezing).exchange = 1
    /\ \A T, stances : Knows(Idle, T, stances) /\ Reached(T, stances, 1)
<1>2. Idle \in Drivers /\ Idle.pc = "IDLE" /\ Idle.exchange = 1
  BY DraftTyped DEF Idle, Drivers, Stages, Transcripts, Exchanges
<1>3. ASSUME NEW freezing \in BOOLEAN, NEW pc \in Stages
      PROVE  /\ AtStep(pc, freezing) \in Drivers
             /\ AtStep(pc, freezing).pc = pc /\ AtStep(pc, freezing).exchange = 1
  <2>1. PICK idle \in Drivers : idle = Idle
    BY <1>2
  <2>2. [idle EXCEPT !.pc = pc, !.freezing = freezing] \in Drivers
    BY DEF Drivers
  <2>3. /\ [idle EXCEPT !.pc = pc, !.freezing = freezing].pc = pc
        /\ [idle EXCEPT !.pc = pc, !.freezing = freezing].exchange = idle.exchange
    BY DEF Drivers
  <2> QED BY <1>2, <2>1, <2>2, <2>3 DEF AtStep
<1>4. \A T, stances : Knows(Idle, T, stances)
  BY <1>2 DEF Knows
<1>5. \A T, stances : Reached(T, stances, 1)
  <2>1. 1 .. 1 - 1 = {}
    OBVIOUS
  <2> QED BY <2>1 DEF Reached
<1> QED BY <1>2, <1>3, <1>4, <1>5

\* Every other kind of step is a step of this kind: the fields of the state.
LEMMA InvFields ==
    ASSUME DebateInv, NEW p \in Processes
    PROVE  /\ driver[p] \in Drivers /\ driver[p].pc \in Stages
           /\ driver[p].freezing \in BOOLEAN /\ driver[p].exchange \in Exchanges
           /\ driver[p].draft \in Turns /\ driver[p].transcript \in Transcripts
           /\ Knows(driver[p], turns, roundOne)
           /\ faults \in 0 .. MaxFaults /\ turns \subseteq Turns /\ roundOne \in RoundOnes
           /\ Conversation(turns, roundOne) /\ \A t \in turns : Reached(turns, roundOne, t.exchange)
BY DEF DebateInv, Typed, Drivers, Orderly

\* A debate that starts, or starts over, is at its first exchange.
LEMMA StartSafe ==
    ASSUME DebateInv, NEW p \in Processes, Start(p)
    PROVE  DebateInv'
<1> DEFINE d == Debating(p = "evidence")
<1>1. d \in Drivers /\ d.pc = "PLAN" /\ d.exchange = 1
  <2>1. d = AtStep("PLAN", p = "evidence")
    BY DEF Debating, AtStep
  <2>2. (p = "evidence") \in BOOLEAN /\ "PLAN" \in Stages
    BY DEF Stages
  <2> HIDE DEF d
  <2> QED BY <2>1, <2>2, IdleKnows
<1>2. Knows(d, turns, roundOne)
  BY <1>1, IdleKnows DEF Knows
<1>3. driver' = [driver EXCEPT ![p] = d]
  BY DEF Start
<1> HIDE DEF d
<1> QED BY <1>1, <1>2, <1>3, InvFields, OneProcessMovesOn DEF Start

\* A process that dies forgets everything.
LEMMA CrashSafe ==
    ASSUME DebateInv, NEW p \in Processes, Crash(p)
    PROVE  DebateInv'
<1>1. faults' \in 0 .. MaxFaults
  BY InvFields, BoundsAssumption DEF Crash
<1>2. driver' = [driver EXCEPT ![p] = Idle]
  BY DEF Crash
<1> QED BY <1>1, <1>2, IdleKnows, OneProcessMovesOn DEF Crash

\* The clock touches nothing else.
LEMMA TickSafe ==
    ASSUME DebateInv, Tick
    PROVE  DebateInv'
BY DEF DebateInv, Typed, Tick, TranscriptsAreOfTheEnd, Transcript

\* A planned turn is the next one.
LEMMA PlanTurnSafe ==
    ASSUME DebateInv, NEW p \in Processes, PlanTurn(p)
    PROVE  DebateInv'
<1> DEFINE e == driver[p].exchange
           plan == [NoDraft EXCEPT !.ordinal = NextOrdinal(turns, e),
                                   !.exchange = e,
                                   !.seat = NextSpeaker(turns, roundOne, e)]
           pc == IF window = "OPEN" THEN "ASK" ELSE "CHECK"
           d == [driver[p] EXCEPT !.pc = pc, !.draft = plan]
<1>1. e \in Exchanges /\ Conversation(turns, roundOne) /\ driver[p] \in Drivers
      /\ Reached(turns, roundOne, e) /\ ~ExchangeOver(turns, e)
  BY InvFields DEF PlanTurn, Knows
<1>2. \A x \in 1 .. e - 1 : ExchangeOver(turns, x)
  BY <1>1 DEF Reached
<1>3. /\ NextOrdinal(turns, e) \in Ordinals /\ NextOrdinal(turns, e) \in Nat
      /\ NextSpeaker(turns, roundOne, e) \in Seats
      /\ InExchange(turns, e + 1) = {}
  BY <1>1, <1>2, NextTurn
<1>4. /\ plan \in Turns /\ plan.exchange = e /\ plan.ordinal = NextOrdinal(turns, e)
      /\ plan.seat = NextSpeaker(turns, roundOne, e)
  <2>1. plan = DraftOf(NextOrdinal(turns, e), e, NextSpeaker(turns, roundOne, e))
    BY DEF DraftOf
  <2> HIDE DEF plan, e
  <2> QED BY <1>1, <1>3, <2>1, DraftOfTyped
<1> HIDE DEF plan
<1>5. Earlier(turns, plan) = turns
  BY <1>1, <1>2, <1>3, <1>4, NextIsLast DEF Earlier
<1>6. Planned(turns, roundOne, plan)
  BY <1>1, <1>2, <1>3, <1>4, <1>5 DEF Planned, Follows
<1>7. /\ d \in Drivers /\ d.pc \in {"ASK", "CHECK"} /\ d.draft = plan /\ d.exchange = e
  BY <1>1, <1>4 DEF Drivers, Stages
<1>8. driver' = [driver EXCEPT ![p] = d]
  BY DEF PlanTurn, plan
<1> HIDE DEF d
<1>9. Knows(d, turns, roundOne)
  BY <1>1, <1>4, <1>6, <1>7 DEF Knows
<1> QED BY <1>7, <1>8, <1>9, InvFields, OneProcessMovesOn DEF PlanTurn

\* The model's answer, or its silence, is to the turn that was planned.
LEMMA AnswersTheTurn ==
    ASSUME DebateInv, NEW p \in Processes, NEW record \in Completions(p)
    PROVE  /\ record \in Turns /\ record.ordinal = driver[p].draft.ordinal
           /\ record.exchange = driver[p].draft.exchange
           /\ record.seat = driver[p].draft.seat
<1> DEFINE plan == driver[p].draft
<1>1. plan \in Turns /\ plan.seat \in Seats /\ roundOne \in [Seats -> Stances]
  BY InvFields, TurnFields, BoundsAssumption
<1>2. CASE record = plan
  BY <1>1, <1>2
<1>3. CASE record \in Spoken(plan)
  <2> HIDE DEF plan
  <2>1. PICK stance \in Stances, number \in 0 .. SeatCount :
           record = [plan EXCEPT !.status = "SPOKEN", !.stance = stance, !.question = number]
    <3> DEFINE said == IF plan.seat \in Movers THEN {"YES", "NO"} ELSE {roundOne[plan.seat]}
               numbers == {0} \cup IF plan.seat \in Askers /\ Questions < MaxQuestions
                                   THEN (1 .. SeatCount) \ {plan.seat + 1} ELSE {}
               answer(stance, number) ==
                  [plan EXCEPT !.status = "SPOKEN", !.stance = stance, !.question = number]
    <3>1. said \subseteq Stances
      <4>1. roundOne[plan.seat] \in Stances
        BY <1>1
      <4> QED BY <4>1 DEF Stances
    <3>2. numbers \subseteq 0 .. SeatCount
      BY Sizes
    <3>3. Spoken(plan) = {answer(stance, number) : stance \in said, number \in numbers}
      BY DEF Spoken
    <3> HIDE DEF said, numbers, answer
    <3>4. PICK stance \in said, number \in numbers : record = answer(stance, number)
      BY <1>3, <3>3
    <3>5. stance \in Stances /\ number \in 0 .. SeatCount
      BY <3>1, <3>2
    <3> QED BY <3>4, <3>5 DEF answer
  <2> QED BY <1>1, <2>1 DEF Turns, plan
<1> QED BY <1>2, <1>3 DEF Completions

\* A turn that is dropped or answered is the turn that was planned.
LEMMA CompleteTurnSafe ==
    ASSUME DebateInv, NEW p \in Processes, CompleteTurn(p)
    PROVE  DebateInv'
<1>1. /\ driver[p] \in Drivers /\ driver[p].pc \in {"ASK", "CHECK"}
      /\ driver[p].draft \in Turns /\ Knows(driver[p], turns, roundOne) /\ faults' \in 0 .. MaxFaults
  BY InvFields DEF CompleteTurn
<1>2. CASE driver' = [driver EXCEPT ![p].pc = "PLAN", ![p].draft = NoDraft]
  <2> DEFINE d == [driver[p] EXCEPT !.pc = "PLAN", !.draft = NoDraft]
  <2>1. d \in Drivers /\ d.pc = "PLAN" /\ d.exchange = driver[p].exchange
    BY <1>1, DraftTyped DEF Drivers, Stages
  <2>2. driver' = [driver EXCEPT ![p] = d]
    BY <1>2
  <2> HIDE DEF d
  <2>3. Knows(d, turns, roundOne)
    BY <1>1, <2>1 DEF Knows
  <2> QED BY <1>1, <2>1, <2>2, <2>3, OneProcessMovesOn DEF CompleteTurn
<1>3. ASSUME NEW record \in Completions(p),
             driver' = [driver EXCEPT ![p].pc = "SAVE", ![p].draft = record]
      PROVE  DebateInv'
  <2> DEFINE d == [driver[p] EXCEPT !.pc = "SAVE", !.draft = record]
             plan == driver[p].draft
  <2>1. record \in Turns /\ record.ordinal = plan.ordinal
        /\ record.exchange = plan.exchange /\ record.seat = plan.seat
    BY AnswersTheTurn
  <2>2. d \in Drivers /\ d.pc = "SAVE" /\ d.draft = record /\ d.exchange = driver[p].exchange
    BY <1>1, <2>1 DEF Drivers, Stages
  <2>3. driver' = [driver EXCEPT ![p] = d]
    BY <1>3
  <2> HIDE DEF d
  <2>4. Planned(turns, roundOne, plan) /\ plan.exchange = driver[p].exchange
        /\ Reached(turns, roundOne, driver[p].exchange)
    BY <1>1 DEF Knows
  <2>5. Earlier(turns, record) = Earlier(turns, plan)
    BY <2>1 DEF Earlier
  <2>6. Planned(turns, roundOne, record)
    BY <2>1, <2>4, <2>5 DEF Planned, Follows
  <2>7. Knows(d, turns, roundOne)
    BY <2>1, <2>2, <2>4, <2>6 DEF Knows
  <2> QED BY <1>1, <2>2, <2>3, <2>7, OneProcessMovesOn DEF CompleteTurn
<1> QED BY <1>2, <1>3 DEF CompleteTurn

\* An exchange that is over and not the last has moved somebody.
LEMMA EndExchangeSafe ==
    ASSUME DebateInv, NEW p \in Processes, EndExchange(p)
    PROVE  DebateInv'
<1> DEFINE e == driver[p].exchange
<1>1. /\ driver[p] \in Drivers /\ driver[p].pc = "PLAN" /\ e \in Exchanges
      /\ driver[p].freezing \in BOOLEAN /\ faults' \in 0 .. MaxFaults
      /\ Reached(turns, roundOne, e) /\ ExchangeOver(turns, e)
  BY InvFields DEF EndExchange, Knows
<1>2. CASE e < 3 /\ ~ConvergedNow(p)
  <2> DEFINE d == [driver[p] EXCEPT !.exchange = e + 1]
  <2>1. d \in Drivers /\ d.pc = "PLAN" /\ d.exchange = e + 1
    BY <1>1, <1>2 DEF Drivers, Exchanges
  <2>2. driver' = [driver EXCEPT ![p] = d]
    BY <1>2 DEF EndExchange, NextExchange
  <2> HIDE DEF d
  <2>3. ExchangeMoved(turns, roundOne, e)
    BY <1>1, <1>2, ConvergesWhereNobodyMoves DEF ConvergedNow
  <2>4. Reached(turns, roundOne, e + 1)
    BY <1>1, <2>3 DEF Reached, Exchanges
  <2>5. Knows(d, turns, roundOne)
    BY <2>1, <2>4 DEF Knows
  <2> QED BY <1>1, <2>1, <2>2, <2>5, OneProcessMovesOn DEF EndExchange
<1>3. CASE ~(e < 3 /\ ~ConvergedNow(p))
  <2> DEFINE d == AtStep("ENSURE", driver[p].freezing)
  <2>1. d \in Drivers /\ d.pc = "ENSURE"
    BY <1>1, IdleKnows DEF Stages
  <2>2. driver' = [driver EXCEPT ![p] = d]
    BY <1>3 DEF EndExchange, AtStep
  <2> HIDE DEF d
  <2>3. \A x \in 1 .. e : ExchangeOver(turns, x)
    BY <1>1 DEF Reached, Exchanges
  <2>4. e = 3 \/ ConvergedAfterExchange(turns, roundOne) = e
    BY <1>1, <1>3 DEF ConvergedNow, Exchanges
  <2>5. Over(turns, roundOne)
    BY <1>1, <2>3, <2>4 DEF Over
  <2>6. Knows(d, turns, roundOne)
    BY <2>1, <2>5 DEF Knows
  <2> QED BY <1>1, <2>1, <2>2, <2>6, OneProcessMovesOn DEF EndExchange
<1> QED BY <1>2, <1>3

\* What follows a transcript only asks for a debate that is over.
LEMMA AfterTranscriptKnows ==
    ASSUME Over(turns, roundOne), NEW p \in Processes
    PROVE  AfterTranscript(p) \in Drivers /\ Knows(AfterTranscript(p), turns, roundOne)
<1>1. AfterTranscript(p) \in {AtStep("FREEZE", TRUE), AtStep("ENSURE", TRUE), Idle}
  BY DEF AfterTranscript, AtStep
<1>2. ASSUME NEW pc \in {"FREEZE", "ENSURE"}
      PROVE  AtStep(pc, TRUE) \in Drivers /\ Knows(AtStep(pc, TRUE), turns, roundOne)
  <2>1. AtStep(pc, TRUE) \in Drivers /\ AtStep(pc, TRUE).pc = pc
    BY IdleKnows DEF Stages
  <2> QED BY <2>1 DEF Knows
<1> QED BY <1>1, <1>2, IdleKnows

\* Finding the transcript changes nothing else.
LEMMA FindTranscriptSafe ==
    ASSUME DebateInv, NEW p \in Processes, FindTranscript(p)
    PROVE  DebateInv'
<1>1. Over(turns, roundOne) /\ faults' \in 0 .. MaxFaults
  BY InvFields DEF FindTranscript, Knows
<1> DEFINE d == IF artifact = Transcript THEN AfterTranscript(p) ELSE Idle
<1>2. d \in Drivers /\ Knows(d, turns, roundOne)
  BY <1>1, AfterTranscriptKnows, IdleKnows
<1>3. driver' = [driver EXCEPT ![p] = d]
  BY DEF FindTranscript
<1> HIDE DEF d
<1> QED BY <1>1, <1>2, <1>3, OneProcessMovesOn DEF FindTranscript

\* A transcript is a set of turns and where they converged.
LEMMA TranscriptTyped == DebateInv => Transcript \in Transcripts
<1> SUFFICES ASSUME DebateInv PROVE Transcript \in Transcripts
  OBVIOUS
<1>1. turns \in SUBSET Turns /\ ConvergedAfterExchange(turns, roundOne) \in 0 .. 3
  BY ConvergesWhereNobodyMoves DEF DebateInv, Typed
<1> QED BY <1>1 DEF Transcript, Transcripts

\* The transcript that is about to be uploaded is the one of all turns.
LEMMA ReadTranscriptSafe ==
    ASSUME DebateInv, NEW p \in Processes, ReadTranscript(p)
    PROVE  DebateInv'
<1>1. Over(turns, roundOne) /\ faults' \in 0 .. MaxFaults /\ driver[p] \in Drivers
      /\ Transcript \in Transcripts
  BY InvFields, TranscriptTyped DEF ReadTranscript, Knows
<1> DEFINE d == [driver[p] EXCEPT !.pc = "INGEST", !.transcript = Transcript]
<1>2. d \in Drivers /\ d.pc = "INGEST" /\ d.transcript = Transcript
  BY <1>1 DEF Drivers, Stages
<1>3. driver' = [driver EXCEPT ![p] = d]
  BY DEF ReadTranscript
<1> HIDE DEF d
<1>4. Knows(d, turns, roundOne)
  BY <1>1, <1>2 DEF Knows, Transcript
<1> QED BY <1>1, <1>2, <1>3, <1>4, OneProcessMovesOn DEF ReadTranscript

\* The uploaded transcript is still the one of all turns, so it replaces only itself.
LEMMA IngestTranscriptSafe ==
    ASSUME DebateInv, NEW p \in Processes, IngestTranscript(p)
    PROVE  DebateInv'
<1>1. Over(turns, roundOne) /\ faults' \in 0 .. MaxFaults
      /\ driver[p].transcript = Transcript /\ Transcript \in Transcripts
  BY InvFields, TranscriptTyped DEF IngestTranscript, Knows, Transcript
<1> DEFINE d == AfterTranscript(p)
<1>2. d \in Drivers /\ Knows(d, turns, roundOne)
  BY <1>1, AfterTranscriptKnows
<1>3. /\ driver' = [driver EXCEPT ![p] = d] /\ artifact' = Transcript /\ bundle' = bundle
      /\ roundOne' = roundOne /\ turns' = turns /\ window' = window
  BY <1>1 DEF IngestTranscript
<1>4. bundle # NoTranscript => bundle = Transcript
  BY DEF DebateInv, TranscriptsAreOfTheEnd
<1>5. TranscriptsAreOfTheEnd' /\ artifact' \in Transcripts /\ bundle' \in Transcripts
  BY <1>1, <1>3, <1>4 DEF TranscriptsAreOfTheEnd, Transcript, DebateInv, Typed
<1> HIDE DEF d
<1> QED BY <1>1, <1>2, <1>3, <1>5, OneProcessMoves

\* The root takes the hash of the transcript that is in the database.
LEMMA FreezeTranscriptSafe ==
    ASSUME DebateInv, NEW p \in Processes, FreezeTranscript(p)
    PROVE  DebateInv'
<1>1. /\ driver' = [driver EXCEPT ![p] = Idle] /\ artifact' = artifact
      /\ bundle' \in {artifact, bundle} /\ roundOne' = roundOne /\ turns' = turns
      /\ window' = window /\ faults' \in 0 .. MaxFaults
  BY InvFields DEF FreezeTranscript
<1>2. TranscriptsAreOfTheEnd' /\ artifact' \in Transcripts /\ bundle' \in Transcripts
  BY <1>1 DEF TranscriptsAreOfTheEnd, Transcript, DebateInv, Typed
<1> QED BY <1>1, <1>2, IdleKnows, OneProcessMoves

-----------------------------------------------------------------------------
(* A turn is stored                                                        *)

\* The conversation with a planned turn whose number nobody took.
LEMMA StoredTurnExtends ==
    ASSUME NEW T, NEW stances, Conversation(T, stances), NEW turn \in Turns,
           Planned(T, stances, turn), Earlier(T, turn) = T
    PROVE  /\ Conversation(T \cup {turn}, stances)
           /\ \A u \in T : u.ordinal < turn.ordinal /\ Earlier(T \cup {turn}, u) = Earlier(T, u)
           /\ Earlier(T \cup {turn}, turn) = T
           /\ ~ExchangeOver(T, turn.exchange)
<1>1. Follows(turn, T, stances) /\ ~ExchangeOver(T, turn.exchange)
  BY DEF Planned
<1> QED BY <1>1, NextTurnExtends DEF Follows

\* Whoever planned a turn from the same predecessors planned that turn; the number of any
\* other was taken before.
LEMMA PlannedStays ==
    ASSUME NEW T, NEW stances, Conversation(T, stances),
           NEW turn \in Turns, Planned(T, stances, turn), Earlier(T, turn) = T,
           NEW other \in Turns, Planned(T, stances, other)
    PROVE  Planned(T \cup {turn}, stances, other)
<1> DEFINE U == T \cup {turn}
<1>1. /\ \A u \in T : Earlier(U, u) = Earlier(T, u)
      /\ Earlier(U, turn) = T /\ ~ExchangeOver(T, turn.exchange)
  BY StoredTurnExtends
<1>2. CASE Earlier(T, other) = T
  <2>1. /\ Follows(turn, T, stances) /\ Follows(other, T, stances)
        /\ ~ExchangeOver(T, other.exchange)
    BY <1>2 DEF Planned
  <2>2. turn.exchange \in {1, 2, 3} /\ other.exchange \in {1, 2, 3}
    BY TurnFields
  <2>3. other.exchange = turn.exchange
    BY <1>1, <2>1, <2>2 DEF Follows
  <2>4. other.ordinal = turn.ordinal
    BY <2>1, <2>3 DEF Follows
  <2>5. Earlier(U, other) = T
    BY <1>1, <2>4 DEF Earlier
  <2> QED BY <2>1, <2>4, <2>5 DEF Planned
<1>3. CASE \E t \in T : t.ordinal = other.ordinal
  <2>1. PICK t \in T : t.ordinal = other.ordinal
    BY <1>3
  <2>2. Earlier(U, other) = Earlier(U, t) /\ Earlier(T, other) = Earlier(T, t)
    BY <2>1 DEF Earlier
  <2>3. Earlier(U, other) = Earlier(T, other)
    BY <1>1, <2>1, <2>2
  <2> QED BY <2>1, <2>3 DEF Planned
<1> QED BY <1>2, <1>3 DEF Planned

\* A stored turn undoes no exchange.
LEMMA ReachedStays ==
    ASSUME NEW T, T \subseteq Turns, NEW stances, NEW turn \in Turns,
           ~ExchangeOver(T, turn.exchange), NEW e \in Exchanges, Reached(T, stances, e)
    PROVE  Reached(T \cup {turn}, stances, e)
<1> DEFINE U == T \cup {turn}
<1> SUFFICES ASSUME NEW d \in 1 .. e - 1
             PROVE  ExchangeOver(U, d) /\ ExchangeMoved(U, stances, d)
  BY DEF Reached
<1>1. ExchangeOver(T, d) /\ ExchangeMoved(T, stances, d)
  BY DEF Reached
<1>2. U \subseteq Turns /\ T \subseteq U /\ turn.exchange \in {1, 2, 3} /\ d \in Exchanges
  BY TurnFields DEF Exchanges
<1>3. d <= turn.exchange
  <2> SUFFICES ASSUME turn.exchange < d PROVE FALSE
    BY <1>2 DEF Exchanges
  <2>1. turn.exchange \in 1 .. e - 1
    BY <1>2 DEF Exchanges
  <2> QED BY <2>1 DEF Reached
<1> QED BY <1>1, <1>2, <1>3, OverStaysOver, MovedStays

\* A debate that is over has no next turn.
LEMMA NoTurnAfterTheEnd ==
    ASSUME NEW T, NEW stances, NEW turn \in Turns, ~ExchangeOver(T, turn.exchange),
           Reached(T, stances, turn.exchange)
    PROVE  ~Over(T, stances)
<1> SUFFICES ASSUME NEW e \in Exchanges, \A d \in 1 .. e : ExchangeOver(T, d),
                    e = 3 \/ ConvergedAfterExchange(T, stances) = e
             PROVE  FALSE
  BY DEF Over
<1>1. turn.exchange \in {1, 2, 3} /\ e \in {1, 2, 3}
  BY TurnFields DEF Exchanges
<1>2. e < turn.exchange
  BY <1>1
<1>3. ~ExchangeMoved(T, stances, e)
  BY <1>1, <1>2, ConvergesWhereNobodyMoves
<1> QED BY <1>1, <1>2, <1>3 DEF Reached

\* A turn is stored in its place, whoever else was about to store it; a number that is taken
\* changes nothing.
LEMMA PersistTurnSafe ==
    ASSUME DebateInv, NEW p \in Processes, PersistTurn(p)
    PROVE  DebateInv'
<1> DEFINE d == [driver[p] EXCEPT !.pc = "PLAN", !.draft = NoDraft]
<1>1. PICK turn \in Turns : turn = driver[p].draft
  BY InvFields
<1>2. /\ driver[p] \in Drivers /\ driver[p].exchange = turn.exchange
      /\ turn.exchange \in Exchanges /\ turns \subseteq Turns /\ Conversation(turns, roundOne)
      /\ Reached(turns, roundOne, turn.exchange) /\ Planned(turns, roundOne, turn)
      /\ faults' \in 0 .. MaxFaults
  BY <1>1, InvFields DEF PersistTurn, Knows
<1>3. d \in Drivers /\ d.pc = "PLAN" /\ d.exchange = turn.exchange
  BY <1>2, DraftTyped DEF Drivers, Stages
<1>4. driver' = [driver EXCEPT ![p] = d]
  BY DEF PersistTurn
<1> HIDE DEF d
<1>5. /\ roundOne' = roundOne /\ artifact' = artifact /\ bundle' = bundle
      /\ window' = window /\ faults' = faults
      /\ turns' = IF \E t \in turns : t.ordinal = turn.ordinal THEN turns ELSE turns \cup {turn}
  BY <1>1 DEF PersistTurn, Inserted
<1>6. CASE \E t \in turns : t.ordinal = turn.ordinal
  <2>1. Knows(d, turns, roundOne)
    BY <1>2, <1>3 DEF Knows
  <2> QED BY <1>2, <1>3, <1>4, <1>5, <1>6, <2>1, OneProcessMovesOn
<1>7. CASE ~\E t \in turns : t.ordinal = turn.ordinal
  <2> DEFINE U == turns \cup {turn}
  <2>1. turns' = U
    BY <1>5, <1>7
  <2>2. Earlier(turns, turn) = turns
    BY <1>2, <1>7 DEF Planned
  <2>3. Conversation(U, roundOne) /\ ~ExchangeOver(turns, turn.exchange)
    BY <1>2, <2>2, StoredTurnExtends
  <2>4. \A e \in Exchanges : Reached(turns, roundOne, e) => Reached(U, roundOne, e)
    BY <1>2, <2>3, ReachedStays
  <2>5. ~Over(turns, roundOne)
    BY <1>2, <2>3, NoTurnAfterTheEnd
  <2>6. Orderly(U, roundOne)
    <3>1. \A t \in turns : t.exchange \in Exchanges /\ Reached(turns, roundOne, t.exchange)
      BY InvFields, TurnFields DEF Exchanges
    <3> QED BY <1>2, <2>3, <2>4, <3>1 DEF Orderly
  <2>7. \A q \in Processes : driver'[q] = IF q = p THEN d ELSE driver[q]
    BY <1>4 DEF DebateInv, Typed
  <2>8. ASSUME NEW q \in Processes, q # p
        PROVE  Knows(driver[q], U, roundOne)
    <3> DEFINE other == driver[q].draft
    <3>1. /\ driver[q].exchange \in Exchanges /\ other \in Turns
          /\ Knows(driver[q], turns, roundOne)
      BY InvFields
    <3>2. driver[q].pc \notin {"ENSURE", "INGEST", "FREEZE"}
      BY <2>5, <3>1 DEF Knows
    <3>3. Planned(turns, roundOne, other) => Planned(U, roundOne, other)
      BY <1>2, <2>2, <3>1, PlannedStays
    <3> HIDE DEF U
    <3> QED BY <2>4, <3>1, <3>2, <3>3 DEF Knows
  <2>9. Knows(d, U, roundOne)
    <3> HIDE DEF U
    <3> QED BY <1>2, <1>3, <2>4 DEF Knows
  <2>10. Typed'
    BY <1>2, <1>3, <1>4, <1>5, <2>1 DEF DebateInv, Typed
  <2>11. artifact = NoTranscript /\ bundle = NoTranscript
    BY <2>5 DEF DebateInv, TranscriptsAreOfTheEnd
  <2>12. TranscriptsAreOfTheEnd'
    BY <1>5, <2>11 DEF TranscriptsAreOfTheEnd
  <2>13. \A q \in Processes : Knows(driver'[q], U, roundOne)
    BY <2>7, <2>8, <2>9
  <2> HIDE DEF U
  <2> QED BY <1>5, <2>1, <2>6, <2>10, <2>12, <2>13 DEF DebateInv
<1> QED BY <1>6, <1>7

-----------------------------------------------------------------------------
(* The theorems                                                            *)

\* Every step keeps the invariant.
LEMMA DebateNext == DebateInv /\ [Next]_vars => DebateInv'
<1> SUFFICES ASSUME DebateInv, [Next]_vars PROVE DebateInv'
  OBVIOUS
<1>1. ASSUME NEW p \in Processes, Drive(p) PROVE DebateInv'
  BY <1>1, StartSafe, PlanTurnSafe, CompleteTurnSafe, PersistTurnSafe, EndExchangeSafe,
     FindTranscriptSafe, ReadTranscriptSafe, IngestTranscriptSafe, FreezeTranscriptSafe
     DEF Drive
<1>2. ASSUME NEW p \in Processes, Crash(p) PROVE DebateInv'
  BY <1>2, CrashSafe
<1>3. CASE Tick
  BY <1>3, TickSafe
<1>4. CASE UNCHANGED vars
  BY <1>4 DEF vars, DebateInv, Typed, TranscriptsAreOfTheEnd, Transcript
<1> QED BY <1>1, <1>2, <1>3, <1>4 DEF Next

\* So it always holds.
LEMMA DebateInvariant == Spec => []DebateInv
BY DebateInit, DebateNext, PTL DEF Spec

\* Every stored turn has its place in one of the three exchanges, and a driver is in one of
\* its steps.
THEOREM DebateTypes == Spec => []TypeOK
<1>1. DebateInv => TypeOK
  <2> SUFFICES ASSUME DebateInv PROVE TypeOK
    OBVIOUS
  <2>1. \A t \in Transcripts : t = NoTranscript \/ (t.turns \subseteq Turns /\ t.converged \in 0 .. 3)
    BY DEF Transcripts
  <2>2. \A p \in Processes :
          /\ driver[p].pc \in Stages /\ driver[p].freezing \in BOOLEAN
          /\ driver[p].exchange \in Exchanges /\ driver[p].draft \in Turns
    BY InvFields
  <2> QED BY <2>1, <2>2 DEF DebateInv, Typed, TypeOK, Stages
<1> QED BY <1>1, DebateInvariant, PTL

\* The stored debate can be rebuilt turn by turn.
THEOREM DebateReplays == Spec => []DebateIsReplayable
<1>1. DebateInv => DebateIsReplayable
  BY DEF DebateInv, Orderly, Conversation, DebateIsReplayable, Before, Earlier, Follows
<1> QED BY <1>1, DebateInvariant, PTL

\* No turn follows a transcript, and the root commits to the one that is stored.
THEOREM TranscriptStands == Spec => []TranscriptIsFinal
<1>1. DebateInv => TranscriptIsFinal
  BY DEF DebateInv, TranscriptsAreOfTheEnd, TranscriptIsFinal
<1> QED BY <1>1, DebateInvariant, PTL

\* The debate ends after the first exchange that changed nobody's mind, or the third.
THEOREM DebateStops == Spec => []StopsWhenNobodyMoves
<1>1. DebateInv => StopsWhenNobodyMoves
  <2> SUFFICES ASSUME DebateInv, artifact # NoTranscript PROVE StopsWhenNobodyMoves
    BY DEF StopsWhenNobodyMoves
  <2> DEFINE last == Latest(turns).exchange
             kept(e) == \A s \in Seats : StanceAfter(s, e) = StanceAfter(s, e - 1)
  <2>1. turns \subseteq Turns /\ Conversation(turns, roundOne)
        /\ \A t \in turns : Reached(turns, roundOne, t.exchange)
    BY DEF DebateInv, Typed, Orderly
  <2>2. PICK e \in Exchanges :
          /\ \A d \in 1 .. e : ExchangeOver(turns, d)
          /\ e = 3 \/ ConvergedAfterExchange(turns, roundOne) = e
    BY DEF DebateInv, TranscriptsAreOfTheEnd, Over
  <2>3. ASSUME NEW d \in Exchanges, ExchangeOver(turns, d)
        PROVE  kept(d) <=> ~ExchangeMoved(turns, roundOne, d)
    <3>1. d + 1 - 1 = d /\ d - 1 + 1 = d
      BY DEF Exchanges
    <3> QED BY <2>1, <2>3, <3>1, MovedMeansChanged DEF StanceAfter
  <2>4. ExchangeOver(turns, e)
    BY <2>2 DEF Exchanges
  <2>5. PICK t \in turns : t.exchange = e
    BY <2>4, Sizes DEF ExchangeOver, SpokenIn, InExchange
  <2>6. Latest(turns) \in turns /\ \A u \in turns : u.ordinal <= Latest(turns).ordinal
    BY <2>1, <2>5, LatestExists
  <2>7. last \in Exchanges /\ Latest(turns).ordinal \in Nat /\ t.ordinal \in Nat
    BY <2>1, <2>5, <2>6, TurnFields DEF Exchanges
  <2>8. ~(last < e)
    <3> SUFFICES ASSUME last < e PROVE FALSE
      OBVIOUS
    <3>1. Latest(turns).ordinal < t.ordinal
      BY <2>1, <2>5, <2>6, ExchangesFollow
    <3> QED BY <2>5, <2>6, <2>7, <3>1
  <2>9. Reached(turns, roundOne, last)
    BY <2>1, <2>6
  <2> HIDE DEF last
  <2>10. ~(e < last)
    <3> SUFFICES ASSUME e < last PROVE FALSE
      OBVIOUS
    <3>1. ExchangeMoved(turns, roundOne, e)
      BY <2>7, <2>9 DEF Reached, Exchanges
    <3>2. ConvergedAfterExchange(turns, roundOne) = e
      BY <2>2, <2>7 DEF Exchanges
    <3> QED BY <3>1, <3>2, ConvergesWhereNobodyMoves
  <2>11. last = e
    BY <2>7, <2>8, <2>10 DEF Exchanges
  <2>12. last = 3 \/ kept(last)
    <3>1. e # 3 => ~ExchangeMoved(turns, roundOne, e)
      BY <2>2, ConvergesWhereNobodyMoves
    <3> HIDE DEF kept
    <3> QED BY <2>3, <2>4, <2>11, <3>1
  <2>13. ASSUME NEW d \in 1 .. last - 1 PROVE ~kept(d)
    <3>1. d \in Exchanges /\ ExchangeOver(turns, d) /\ ExchangeMoved(turns, roundOne, d)
      BY <2>7, <2>9 DEF Reached, Exchanges
    <3> HIDE DEF kept
    <3> QED BY <2>3, <3>1
  <2> QED BY <2>4, <2>11, <2>12, <2>13 DEF StopsWhenNobodyMoves, last
<1> QED BY <1>1, DebateInvariant, PTL
=============================================================================
