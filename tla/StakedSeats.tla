------------------------------ MODULE StakedSeats ------------------------------
(***************************************************************************)
(* How a seat joins the roster (lib/engine/engine.ts, prepareStake,        *)
(* confirmStake and the free registration): the engine lends one of its    *)
(* signing slots for a while, the staker's wallet posts the stake on chain *)
(* whenever it likes, and a confirmation copies the seat into the agent    *)
(* mirror, from which the next admission is judged.                        *)
(*                                                                         *)
(* Preparations and free registrations queue behind one lock of the web    *)
(* process; confirmations and the mirror sync of the resolution worker do  *)
(* not.  A manifest hash stands for what the document says: slot, staker,  *)
(* model and role.  Amounts, the gas float and the signer's bindings are   *)
(* left out, and the draw rule holds still.                                *)
(*                                                                         *)
(* The specification is SeatSpec, so that a module may extend this one     *)
(* together with AgentRegistry, the registry as the chain keeps it.        *)
(***************************************************************************)
EXTENDS Integers, SequencesExt

CONSTANTS
    Slots,          \* the operational signing slots, in order
    Stakers,
    Models,         \* the models a seat may run
    Seeds,          \* the rosters to start from: sequences of [model, role]
    Wishes,         \* the <<model, role>> a staker may ask for, role NoRole: any
    NoRole, Roles,  \* ZKLOGIN_AGENT_ROLES in tie-break order
    Skeptic, Source,
    CommitteeSize, ReserveCount, MaxPerRole,
    Rule,           \* [required, perModel]: the registry's draw rule
    HoldTime,       \* STAKE_RESERVATION_TTL_MS, in ticks of the clock
    Calls,          \* concurrent confirmations
    MaxSeats,       \* a bound for TLC on preparations and free registrations
    MaxTime,        \* a bound for TLC on the clock
    MaxFaults,      \* a bound for TLC on deaths of the web process
    MaxLeavers      \* a bound for TLC on stakers who leave again

ASSUME SizesAssumption ==
    /\ Slots \subseteq Nat
    /\ CommitteeSize \in Nat \ {0} /\ MaxPerRole \in Nat \ {0}
    /\ Rule.required \in Nat /\ Rule.perModel \in Nat \ {0}
    /\ HoldTime \in Nat \ {0} /\ MaxSeats \in Nat /\ MaxTime \in Nat
    /\ MaxFaults \in Nat /\ MaxLeavers \in Nat
\* The reserves are a skeptic and a source (draw-feasibility.ts:155).
ASSUME ReservesAssumption == ReserveCount = 2
ASSUME NamesAssumption ==
    /\ Roles \in Seq(ToSet(Roles)) /\ {Skeptic, Source} \subseteq ToSet(Roles)
    /\ NoRole \notin ToSet(Roles)
    /\ Wishes \subseteq Models \X (ToSet(Roles) \cup {NoRole})
    /\ Seeds \subseteq Seq([model : Models, role : ToSet(Roles)])

VARIABLES
    now,
    registry,   \* the eligibility records on chain, by profile
    mirror,     \* the agent_manifests rows
    holds,      \* the stake reservations, in the order they were made
    posted,     \* the reservations whose transaction the staker has sent
    desk,       \* the registration that has the lock
    call,       \* the confirmations under way
    sync,       \* the profiles the mirror sync has read, or those of no read
    free,       \* how many free registrations were tried
    faults,
    admitted,   \* history: the profiles admitted when the roster could already draw
    overtime    \* history: the profiles recorded by a confirmation that outlived its hold

seatVars == <<now, registry, mirror, holds, posted, desk, call, sync, free, faults,
              admitted, overtime>>

Seed(seats) ==
    [i \in DOMAIN seats |-> [owner |-> i, model |-> seats[i].model, role |-> seats[i].role,
                             staker |-> "OPERATOR", active |-> TRUE]]

\* saveAgentManifest: the row of a profile, active.
Row(p, seat) ==
    [profile |-> p, owner |-> seat.owner, model |-> seat.model, role |-> seat.role,
     staker |-> seat.staker, active |-> TRUE]
WithRow(row) == {r \in mirror : r.profile # row.profile} \cup {row}

NobodyAtDesk == [stage |-> "IDLE"]
IdleCall == [pc |-> "IDLE"]
NotSyncing == {0}

SeatInit ==
    /\ now = 0
    /\ \E seats \in Seeds :
          /\ registry = Seed(seats)
          /\ mirror = {Row(i, Seed(seats)[i]) : i \in DOMAIN seats}
    /\ holds = <<>> /\ posted = {}
    /\ desk = NobodyAtDesk /\ call = [c \in Calls |-> IdleCall] /\ sync = NotSyncing
    /\ free = 0 /\ faults = 0
    /\ admitted = {} /\ overtime = {}

-----------------------------------------------------------------------------
(* Draw feasibility (lib/engine/draw-feasibility.ts)                       *)

CountOf(seats, P(_)) == Cardinality({s \in seats : P(s)})

\* Mutant: the cap of a model is off by one.
CanAddSeatTooMany(chosen, seat) ==
    /\ seat.owner \notin {s.owner : s \in chosen}
    /\ CountOf(chosen, LAMBDA s : s.model = seat.model) <= Rule.perModel
    /\ CountOf(chosen, LAMBDA s : s.role = seat.role) < MaxPerRole

\* One seat per key, and the caps per model and per role.
CanAddSeat(chosen, seat) ==
    /\ seat.owner \notin {s.owner : s \in chosen}
    /\ CountOf(chosen, LAMBDA s : s.model = seat.model) < Rule.perModel
    /\ CountOf(chosen, LAMBDA s : s.role = seat.role) < MaxPerRole

IsDiverse(five) ==
    /\ Cardinality({s.model : s \in five}) >= Rule.required
    /\ {Skeptic, Source} \subseteq {s.role : s \in five}

ReservesExist(seats, five) ==
    LET others == {s \in seats : s.owner \notin {t.owner : t \in five}}
    IN  \E skeptic, source \in others :
            skeptic.role = Skeptic /\ source.role = Source /\ skeptic.owner # source.owner

\* Depth first in the order of the roster: seats are tried after those already chosen.
Search(seats, start) ==
    LET search[chosen \in SUBSET seats] ==
            IF Cardinality(chosen) = CommitteeSize
            THEN IsDiverse(chosen) /\ ReservesExist(seats, chosen)
            ELSE \E s \in seats :
                    /\ \A t \in chosen : t.profile < s.profile
                    /\ CanAddSeat(chosen, s)
                    /\ search[chosen \cup {s}]
    IN  search[start]

RosterAdmitsDraw(seats) ==
    Cardinality(seats) >= CommitteeSize + ReserveCount /\ Search(seats, {})

\* The candidate, who has no profile yet, is tried first.
RosterCanSeat(seats, seat) ==
    Search({s \in seats : s.owner # seat.owner} \cup {seat}, {seat})

-----------------------------------------------------------------------------
(* Preparation, under the registration lock                                *)

ActiveRows == {r \in mirror : r.active}
Live(h) == holds[h].status = "PENDING" /\ holds[h].expires > now

\* Mutant: only recorded seats hold their slot.
TakenByRows == {r.owner : r \in mirror}
TakenSlots == {r.owner : r \in mirror} \cup {holds[h].slot : h \in {g \in DOMAIN holds : Live(g)}}

FreeSlots == Slots \ TakenSlots
AllocatedSlot == CHOOSE s \in FreeSlots : \A t \in FreeSlots : s <= t

Candidate(staker, model, role) == Row(0, [owner |-> AllocatedSlot, model |-> model,
                                          role |-> role, staker |-> staker])

\* The roles of a model, least represented among its active seats first.
RanksBefore(i, j, model) ==
    LET held(k) == CountOf(ActiveRows, LAMBDA r : r.model = model /\ r.role = Roles[k])
    IN  held(i) < held(j) \/ (held(i) = held(j) /\ i <= j)
FirstOf(indices, model) == Roles[CHOOSE i \in indices : \A j \in indices : RanksBefore(i, j, model)]

AssignSeatRole(staker, model) ==
    LET fits == {i \in DOMAIN Roles :
                   RosterCanSeat(ActiveRows, Candidate(staker, model, Roles[i]))}
    IN  IF ~RosterAdmitsDraw(ActiveRows) \/ fits = {}
        THEN FirstOf(DOMAIN Roles, model) ELSE FirstOf(fits, model)

SeatIsDrawable(candidate) ==
    RosterAdmitsDraw(ActiveRows) => RosterCanSeat(ActiveRows, candidate)

\* Up to the upload of the manifest document, which the lock outlasts.
BeginRegistration(kind, staker, model, wish) ==
    /\ desk = NobodyAtDesk
    /\ FreeSlots # {}
    /\ LET role == IF wish = NoRole THEN AssignSeatRole(staker, model) ELSE wish
           candidate == Candidate(staker, model, role)
       IN  /\ kind = "STAKE" => SeatIsDrawable(candidate)
           /\ desk' = [stage |-> "PUBLISHING", kind |-> kind, seat |-> candidate, profile |-> 0,
                       checked |-> kind = "STAKE" /\ RosterAdmitsDraw(ActiveRows)]
    /\ UNCHANGED <<now, registry, mirror, holds, posted, call, sync, faults, admitted, overtime>>

PrepareStake(staker, model, wish) ==
    /\ Len(holds) + free < MaxSeats
    /\ BeginRegistration("STAKE", staker, model, wish)
    /\ UNCHANGED free

\* The upload or the transaction failed.
AbandonRegistration ==
    /\ desk.stage = "PUBLISHING"
    /\ desk' = NobodyAtDesk
    /\ UNCHANGED <<now, registry, mirror, holds, posted, call, sync, free, faults, admitted, overtime>>

SaveStakeReservation ==
    /\ desk.stage = "PUBLISHING" /\ desk.kind = "STAKE"
    /\ holds' = Append(holds, [staker |-> desk.seat.staker, slot |-> desk.seat.owner,
                               model |-> desk.seat.model, role |-> desk.seat.role,
                               checked |-> desk.checked, status |-> "PENDING",
                               expires |-> now + HoldTime, profile |-> 0])
    /\ desk' = NobodyAtDesk
    /\ UNCHANGED <<now, registry, mirror, posted, call, sync, free, faults, admitted, overtime>>

\* The signed-message registration: the engine itself registers the seat.
RegisterZkBackedAgent(model, wish) ==
    /\ Len(holds) + free < MaxSeats
    /\ free' = free + 1
    /\ BeginRegistration("FREE", "OPERATOR", model, wish)

RegisterOnChain ==
    /\ desk.stage = "PUBLISHING" /\ desk.kind = "FREE"
    /\ registry' = Append(registry, [owner |-> desk.seat.owner, model |-> desk.seat.model,
                                     role |-> desk.seat.role, staker |-> desk.seat.staker,
                                     active |-> TRUE])
    /\ desk' = [desk EXCEPT !.stage = "REGISTERED", !.profile = Len(registry) + 1]
    /\ UNCHANGED <<now, mirror, holds, posted, call, sync, free, faults, admitted, overtime>>

SaveFreeSeat ==
    /\ desk.stage = "REGISTERED"
    /\ mirror' = WithRow(Row(desk.profile, desk.seat))
    /\ desk' = NobodyAtDesk
    /\ UNCHANGED <<now, registry, holds, posted, call, sync, free, faults, admitted, overtime>>

-----------------------------------------------------------------------------
(* The wallet and the chain                                                *)

\* register_staked_agent, with the arguments of the reservation, however old it is.
PostStake(h) ==
    /\ h \in DOMAIN holds \ posted
    /\ posted' = posted \cup {h}
    /\ registry' = Append(registry, [owner |-> holds[h].slot, model |-> holds[h].model,
                                     role |-> holds[h].role, staker |-> holds[h].staker,
                                     active |-> TRUE])
    /\ UNCHANGED <<now, mirror, holds, desk, call, sync, free, faults, admitted, overtime>>

\* request_unstake: the mirror is not told.
StakerLeaves(p) ==
    /\ Cardinality({q \in DOMAIN registry : ~registry[q].active}) < MaxLeavers
    /\ registry[p].active /\ registry[p].staker \in Stakers
    /\ registry' = [registry EXCEPT ![p].active = FALSE]
    /\ UNCHANGED <<now, mirror, holds, posted, desk, call, sync, free, faults, admitted, overtime>>

ClockTicks ==
    /\ now < MaxTime
    /\ now' = now + 1
    /\ UNCHANGED <<registry, mirror, holds, posted, desk, call, sync, free, faults, admitted, overtime>>

-----------------------------------------------------------------------------
(* Confirmation                                                            *)

\* The reservation is read.
StartConfirmation(c, h) ==
    /\ call[c] = IdleCall
    /\ holds[h].status = "PENDING"
    /\ call' = [call EXCEPT ![c] = [pc |-> IF Live(h) THEN "CHECK" ELSE "EXPIRE", hold |-> h]]
    /\ UNCHANGED <<now, registry, mirror, holds, posted, desk, sync, free, faults, admitted, overtime>>

ExpireHold(c) ==
    /\ call[c].pc = "EXPIRE"
    /\ holds' = [holds EXCEPT ![call[c].hold].status = "EXPIRED"]
    /\ call' = [call EXCEPT ![c] = IdleCall]
    /\ UNCHANGED <<now, registry, mirror, posted, desk, sync, free, faults, admitted, overtime>>

\* Mutant: the manifest hash is not compared.
MatchesOwner(h, p) ==
    /\ registry[p].staker = holds[h].staker
    /\ registry[p].owner = holds[h].slot

\* The transaction is that of the reservation: sender, owner and manifest hash, which
\* also covers model and role.
Matches(h, p) ==
    /\ registry[p].staker = holds[h].staker
    /\ registry[p].owner = holds[h].slot
    /\ registry[p].model = holds[h].model /\ registry[p].role = holds[h].role

\* The request's digest is that of some settled stake, read from the chain only now.
RefuseTransaction(c, p) ==
    /\ call[c].pc = "CHECK"
    /\ registry[p].staker \in Stakers /\ ~Matches(call[c].hold, p)
    /\ call' = [call EXCEPT ![c] = IdleCall]
    /\ UNCHANGED <<now, registry, mirror, holds, posted, desk, sync, free, faults, admitted, overtime>>

\* The row is made of the transaction's owner and staker and the reservation's model and role.
SaveStakedSeat(c, p) ==
    /\ call[c].pc = "CHECK"
    /\ registry[p].staker \in Stakers /\ Matches(call[c].hold, p)
    /\ LET h == call[c].hold
       IN  /\ mirror' = WithRow(Row(p, [owner |-> registry[p].owner, staker |-> registry[p].staker,
                                        model |-> holds[h].model, role |-> holds[h].role]))
           /\ admitted' = IF holds[h].checked THEN admitted \cup {p} ELSE admitted
           /\ overtime' = IF holds[h].expires <= now THEN overtime \cup {p} ELSE overtime
           /\ call' = [call EXCEPT ![c] = [pc |-> "RECORDED", hold |-> h, profile |-> p]]
    /\ UNCHANGED <<now, registry, holds, posted, desk, sync, free, faults>>

\* The reservation is written whole, from the copy that was read.
CloseHold(c) ==
    /\ call[c].pc = "RECORDED"
    /\ holds' = [holds EXCEPT ![call[c].hold].status = "CONFIRMED",
                              ![call[c].hold].profile = call[c].profile]
    /\ call' = [call EXCEPT ![c] = IdleCall]
    /\ UNCHANGED <<now, registry, mirror, posted, desk, sync, free, faults, admitted, overtime>>

Crash ==
    /\ faults < MaxFaults
    /\ faults' = faults + 1
    /\ desk' = NobodyAtDesk
    /\ call' = [c \in Calls |-> IdleCall]
    /\ UNCHANGED <<now, registry, mirror, holds, posted, sync, free, admitted, overtime>>

-----------------------------------------------------------------------------
(* The mirror sync of the weather tick                                     *)

ReadRegistry ==
    /\ sync = NotSyncing
    /\ sync' = DOMAIN registry
    /\ UNCHANGED <<now, registry, mirror, holds, posted, desk, call, free, faults, admitted, overtime>>

DeactivateOutsideRegistry ==
    /\ sync # NotSyncing
    /\ mirror' = {[r EXCEPT !.active = @ /\ r.profile \in sync] : r \in mirror}
    /\ sync' = NotSyncing
    /\ UNCHANGED <<now, registry, holds, posted, desk, call, free, faults, admitted, overtime>>

-----------------------------------------------------------------------------

SeatNext ==
    \/ \E s \in Stakers, w \in Wishes : PrepareStake(s, w[1], w[2])
    \/ \E w \in Wishes : RegisterZkBackedAgent(w[1], w[2])
    \/ AbandonRegistration \/ SaveStakeReservation \/ RegisterOnChain \/ SaveFreeSeat
    \/ \E h \in DOMAIN holds : PostStake(h)
    \/ \E p \in DOMAIN registry : StakerLeaves(p)
    \/ \E c \in Calls, h \in DOMAIN holds : StartConfirmation(c, h)
    \/ \E c \in Calls : ExpireHold(c) \/ CloseHold(c)
    \/ \E c \in Calls, p \in DOMAIN registry : RefuseTransaction(c, p) \/ SaveStakedSeat(c, p)
    \/ ReadRegistry \/ DeactivateOutsideRegistry
    \/ ClockTicks \/ Crash

SeatSpec == SeatInit /\ [][SeatNext]_seatVars

-----------------------------------------------------------------------------
(* Properties                                                              *)

Owned == [owner : Nat, model : Models, role : ToSet(Roles), staker : Stakers \cup {"OPERATOR"},
          active : BOOLEAN]
Rows == [profile : Nat, owner : Nat, model : Models, role : ToSet(Roles),
         staker : Stakers \cup {"OPERATOR"}, active : BOOLEAN]
Reservations == [staker : Stakers, slot : Slots, model : Models, role : ToSet(Roles),
                 checked : BOOLEAN, status : {"PENDING", "CONFIRMED", "EXPIRED"},
                 expires : Nat, profile : Nat]

RegistrationTypeOK ==
    /\ \/ desk = NobodyAtDesk
       \/ desk \in [stage : {"PUBLISHING"}, kind : {"STAKE", "FREE"}, seat : Rows,
                    profile : {0}, checked : BOOLEAN]
       \/ desk \in [stage : {"REGISTERED"}, kind : {"FREE"}, seat : Rows,
                    profile : DOMAIN registry, checked : BOOLEAN]
    /\ desk # NobodyAtDesk =>
          desk.seat.owner \in Slots /\ (desk.kind = "STAKE" => desk.seat.staker \in Stakers)

ConfirmationsTypeOK ==
    /\ DOMAIN call = Calls
    /\ \A c \in Calls :
          \/ call[c] = IdleCall
          \/ call[c] \in [pc : {"CHECK", "EXPIRE"}, hold : DOMAIN holds]
          \/ call[c] \in [pc : {"RECORDED"}, hold : DOMAIN holds, profile : DOMAIN registry]

\* Every variable keeps its type: a registration under way is a seat on a slot of the
\* engine, a confirmation is about some reservation.
SeatTypeOK ==
    /\ now \in Nat /\ free \in Nat /\ faults \in Nat
    /\ registry \in Seq(Owned)
    /\ mirror \in SUBSET Rows /\ IsFiniteSet(mirror)
    /\ holds \in Seq(Reservations) /\ posted \subseteq DOMAIN holds
    /\ RegistrationTypeOK /\ ConfirmationsTypeOK
    /\ sync \subseteq Nat
    /\ admitted \subseteq DOMAIN registry /\ overtime \subseteq DOMAIN registry

\* What the mirror and the reservations say of a seat is what the chain says: every row
\* copies the record of its profile, and a confirmed reservation names a recorded seat of
\* its own staker on its own slot (engine.ts:4741, "a mismatch means this digest belongs
\* to some other transaction").
MirrorRepeatsTheChain ==
    /\ \A r \in mirror :
          /\ r.profile \in DOMAIN registry
          /\ r = [Row(r.profile, registry[r.profile]) EXCEPT !.active = r.active]
    /\ \A h \in DOMAIN holds : holds[h].status = "CONFIRMED" =>
          \E r \in mirror : /\ r.profile = holds[h].profile
                            /\ r.staker = holds[h].staker /\ r.owner = holds[h].slot

\* No two recorded seats of different stakers sign with one key, and a slot that is lent
\* is nobody else's, unless a confirmation that started in time was recorded after its
\* reservation had run out.
SlotsAreSharedOnlyByStragglers ==
    LET punctual == {r \in mirror : r.profile \notin overtime}
    IN  /\ \A r, s \in punctual :
              r.owner = s.owner => r.profile = s.profile \/ (r.staker = s.staker /\ r.staker \in Stakers)
        /\ \A h \in DOMAIN holds : Live(h) =>
              /\ \A r \in punctual : r.owner = holds[h].slot => r.staker = holds[h].staker
              /\ \A g \in DOMAIN holds : Live(g) /\ holds[g].slot = holds[h].slot => g = h

\* Whether some panel and reserves of the chain's draw (CommitteeDraw) seat the profile.
PanelSeats(p) ==
    LET models(five) == {registry[q].model : q \in five}
        roles(five) == {registry[q].role : q \in five}
        owners(all) == {registry[q].owner : q \in all}
    IN  \E others \in kSubset(CommitteeSize - 1, DOMAIN registry \ {p}) :
            LET five == others \cup {p}
            IN  /\ Cardinality(models(five)) >= Rule.required
                /\ {Skeptic, Source} \subseteq roles(five)
                /\ \A m \in models(five) :
                       Cardinality({q \in five : registry[q].model = m}) <= Rule.perModel
                /\ \A o \in roles(five) :
                       Cardinality({q \in five : registry[q].role = o}) <= MaxPerRole
                /\ \E k, l \in DOMAIN registry \ five :
                       /\ registry[k].role = Skeptic /\ registry[l].role = Source
                       /\ Cardinality(owners(five \cup {k, l})) = CommitteeSize + ReserveCount

\* A stake that was admitted while the roster could already draw a jury buys a seat that
\* some jury can hold, whatever joined in between, as long as nobody left (engine.ts:4552,
\* "or the staker pays for a seat that never votes").
AdmittedSeatCanBeDrawn ==
    (\A p \in DOMAIN registry : registry[p].active) => \A p \in admitted : PanelSeats(p)
=============================================================================
