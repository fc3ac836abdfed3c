----------------------------- MODULE CommitteeDraw -----------------------------
(***************************************************************************)
(* The draw of a committee from the eligibility records (jury.move,        *)
(* select_committee) and the replacement of a seat that declines.          *)
(*                                                                         *)
(* The draw is one transaction, so the registry holds still while it       *)
(* runs; its tickets are steps here, because a ticket may pick any active  *)
(* record and the draw never goes back on one it accepted.  An aborted     *)
(* transaction has no effect but can be sent again.  Between the draw and  *)
(* a replacement the registry may change in any way.  Deadlines, seat      *)
(* acceptance and the lock are modelled in Claim.                          *)
(***************************************************************************)
EXTENDS Integers, SequencesExt

CONSTANTS
    Profiles,           \* the registered profiles
    Owner,              \* the operational owner of each profile, fixed at registration
    Payout,             \* where its jury reward goes: its staker or else its owner
    Rosters,            \* the rosters a claim may meet: profile -> [model, role, active]
    Parties,            \* the owners of the claim's creator, proposer and challenger
    ManifestChanges,    \* the <<profile, model, role>> an operator may switch to
    DiversityRules,     \* the <<required, perModel>> the admin may try to set
    Leavers,            \* the profiles that may be deactivated
    CommitteeSize, ReserveCount, MaxDraws, RestartAfterStalls, MaxPerRole,
    MinRecords,         \* COMMITTEE_SIZE + RESERVE_COUNT
    MaxChanges,         \* a bound for TLC on registry changes
    MaxDeclines,        \* a bound for TLC on declined seats
    Skeptic, Source     \* the two roles every committee needs

ASSUME SizesAssumption ==
    /\ CommitteeSize \in Nat \ {0} /\ ReserveCount \in Nat
    /\ MaxDraws \in Nat /\ RestartAfterStalls \in Nat \ {0}
    /\ MaxPerRole \in Nat /\ MinRecords \in Nat /\ MaxChanges \in Nat /\ MaxDeclines \in Nat
ASSUME ProfilesAssumption == IsFiniteSet(Profiles) /\ Leavers \subseteq Profiles
\* A roster gives every profile a model, a role and whether it may be drawn.
ASSUME RostersAssumption ==
    /\ \A r \in Rosters :
          r \in [Profiles -> [model : {r[p].model : p \in Profiles},
                             role : {r[p].role : p \in Profiles}, active : BOOLEAN]]
    /\ \A c \in ManifestChanges : c[1] \in Profiles
\* One reserve for each of the two duties.
ASSUME DutiesAssumption == ReserveCount = 2 /\ Skeptic # Source

VARIABLES
    roster,      \* Registry.eligible_agents
    rule,        \* the registry's JuryDiversity
    draw,        \* the locals of a select_committee transaction
    committee,   \* Committee, CommitteePolicy and CommitteePayouts, as parallel vectors
    declined,    \* the seats that were declined and wait for a reserve
    changes, declines

vars == <<roster, rule, draw, committee, declined, changes, declines>>

DefaultDiversity == [required |-> 3, perModel |-> 2]

NoDraw == [stage |-> "NONE", selected |-> <<>>, reserves |-> <<>>, attempts |-> 0, stalls |-> 0]

NoCommittee ==
    [profiles |-> <<>>, owners |-> <<>>, models |-> <<>>, roles |-> <<>>, payouts |-> <<>>,
     reserveProfiles |-> <<>>, reserveOwners |-> <<>>, reserveModels |-> <<>>,
     reserveRoles |-> <<>>, reservePayouts |-> <<>>, diversity |-> DefaultDiversity]

Init ==
    /\ roster \in Rosters
    /\ rule = DefaultDiversity
    /\ draw = NoDraw
    /\ committee = NoCommittee
    /\ declined = {}
    /\ changes = 0 /\ declines = 0

-----------------------------------------------------------------------------
(* The registry, between transactions                                      *)

Resting == draw.stage \in {"NONE", "ABORTED"}

Change ==
    /\ Resting
    /\ changes < MaxChanges
    /\ changes' = changes + 1
    /\ UNCHANGED <<draw, committee, declined, declines>>

\* The required families times the cap must fit five seats: (2, 2) does not.
SetJuryDiversity(required, perModel) ==
    /\ required \in {2, 3} /\ perModel \in {2, 3}
    /\ required * perModel >= CommitteeSize
    /\ Change
    /\ rule' = [required |-> required, perModel |-> perModel]
    /\ UNCHANGED roster

UpdateAgentManifest(p, model, role) ==
    /\ Change
    /\ roster' = [roster EXCEPT ![p].model = model, ![p].role = role]
    /\ UNCHANGED rule

DeprecateAgent(p) ==
    /\ Change
    /\ roster' = [roster EXCEPT ![p].active = FALSE]
    /\ UNCHANGED rule

-----------------------------------------------------------------------------
(* The draw                                                                *)

ValuesOf(s, f(_)) == {f(s[i]) : i \in DOMAIN s}
ModelNow(p) == roster[p].model
RoleNow(p) == roster[p].role
OwnerNow(p) == Owner[p]
CountModel(s, model) == Cardinality({i \in DOMAIN s : ModelNow(s[i]) = model})
CountRole(s, role) == Cardinality({i \in DOMAIN s : RoleNow(s[i]) = role})

AgentConflictsWithClaim(p) == Owner[p] \in Parties

\* Mutant: two seats of one signing key may sit together.
CanAddSharedOwner(selected, p) ==
    /\ roster[p].active
    /\ p \notin ToSet(selected)
    /\ CountModel(selected, ModelNow(p)) < rule.perModel
    /\ CountRole(selected, RoleNow(p)) < MaxPerRole

CanAddSelected(selected, p) ==
    /\ roster[p].active
    /\ p \notin ToSet(selected)
    /\ Owner[p] \notin ValuesOf(selected, OwnerNow)
    /\ CountModel(selected, ModelNow(p)) < rule.perModel
    /\ CountRole(selected, RoleNow(p)) < MaxPerRole

CanAddReserve(selected, reserves, p) ==
    /\ roster[p].active
    /\ p \notin ToSet(selected \o reserves)
    /\ Owner[p] \notin ValuesOf(selected \o reserves, OwnerNow)
    /\ RoleNow(p) \in {Skeptic, Source}
    /\ CountRole(reserves, RoleNow(p)) = 0

\* Mutant: one model more than required.
MoreModelsThanRequired(selected) ==
    /\ Len(selected) = CommitteeSize
    /\ Cardinality(ValuesOf(selected, ModelNow)) > rule.required
    /\ {Skeptic, Source} \subseteq ValuesOf(selected, RoleNow)

SelectedDiversityValid(selected) ==
    /\ Len(selected) = CommitteeSize
    /\ Cardinality(ValuesOf(selected, ModelNow)) >= rule.required
    /\ {Skeptic, Source} \subseteq ValuesOf(selected, RoleNow)

StartDraw ==
    /\ Resting
    /\ committee = NoCommittee
    /\ Cardinality(Profiles) >= MinRecords
    /\ \E p \in Profiles : roster[p].active
    /\ draw' = [NoDraw EXCEPT !.stage = "SEATS"]
    /\ UNCHANGED <<roster, rule, committee, declined, changes, declines>>

\* One more rejected ticket; the last in a row drops the partial pick (field of draw).
Stalled(field) ==
    IF draw.stalls + 1 = RestartAfterStalls
    THEN [draw EXCEPT ![field] = <<>>, !.stalls = 0, !.attempts = @ + 1]
    ELSE [draw EXCEPT !.stalls = @ + 1, !.attempts = @ + 1]

Accepted(field, p) ==
    [draw EXCEPT ![field] = Append(@, p), !.stalls = 0, !.attempts = @ + 1]

\* A ticket lands on any active record: the weights decide only how often.
DrawSeat(p) ==
    /\ draw.stage = "SEATS"
    /\ Len(draw.selected) < CommitteeSize /\ draw.attempts < MaxDraws
    /\ roster[p].active
    /\ draw' = IF ~AgentConflictsWithClaim(p) /\ CanAddSelected(draw.selected, p)
               THEN Accepted("selected", p) ELSE Stalled("selected")
    /\ UNCHANGED <<roster, rule, committee, declined, changes, declines>>

Abort == draw' = [draw EXCEPT !.stage = "ABORTED"]

CloseSeats ==
    /\ draw.stage = "SEATS"
    /\ Len(draw.selected) = CommitteeSize \/ draw.attempts = MaxDraws
    /\ \/ /\ SelectedDiversityValid(draw.selected)
          /\ draw' = [draw EXCEPT !.stage = "RESERVES", !.stalls = 0]
       \/ ~SelectedDiversityValid(draw.selected) /\ Abort
    /\ UNCHANGED <<roster, rule, committee, declined, changes, declines>>

DrawReserve(p) ==
    /\ draw.stage = "RESERVES"
    /\ Len(draw.reserves) < ReserveCount /\ draw.attempts < MaxDraws
    /\ roster[p].active
    /\ draw' = IF ~AgentConflictsWithClaim(p) /\ CanAddReserve(draw.selected, draw.reserves, p)
               THEN Accepted("reserves", p) ELSE Stalled("reserves")
    /\ UNCHANGED <<roster, rule, committee, declined, changes, declines>>

Each(s, f(_)) == [i \in DOMAIN s |-> f(s[i])]
PayoutNow(p) == Payout[p]

CreateFirstRound(selected, reserves) ==
    [profiles |-> selected, owners |-> Each(selected, OwnerNow),
     models |-> Each(selected, ModelNow), roles |-> Each(selected, RoleNow),
     payouts |-> Each(selected, PayoutNow),
     reserveProfiles |-> reserves, reserveOwners |-> Each(reserves, OwnerNow),
     reserveModels |-> Each(reserves, ModelNow), reserveRoles |-> Each(reserves, RoleNow),
     reservePayouts |-> Each(reserves, PayoutNow), diversity |-> rule]

CloseReserves ==
    /\ draw.stage = "RESERVES"
    /\ Len(draw.reserves) = ReserveCount \/ draw.attempts = MaxDraws
    /\ \/ /\ Len(draw.reserves) = ReserveCount
          /\ committee' = CreateFirstRound(draw.selected, draw.reserves)
          /\ draw' = NoDraw
       \/ Len(draw.reserves) < ReserveCount /\ Abort /\ UNCHANGED committee
    /\ UNCHANGED <<roster, rule, declined, changes, declines>>

-----------------------------------------------------------------------------
(* Replacement                                                             *)

DeclineJurySeat(i) ==
    /\ i \in DOMAIN committee.profiles \ declined
    /\ declines < MaxDeclines
    /\ declined' = declined \cup {i}
    /\ declines' = declines + 1
    /\ UNCHANGED <<roster, rule, draw, committee, changes>>

\* Mutant: the replacement is judged by the numbers the registry holds by then.
PreservesUnderNewRule(i, j) ==
    LET models == [committee.models EXCEPT ![i] = committee.reserveModels[j]]
        roles == [committee.roles EXCEPT ![i] = committee.reserveRoles[j]]
    IN  /\ \A m \in ToSet(models) :
               Cardinality({k \in DOMAIN models : models[k] = m}) <= rule.perModel
        /\ Cardinality(ToSet(models)) >= rule.required
        /\ {Skeptic, Source} \subseteq ToSet(roles)

ReplacementPreservesDiversity(i, j) ==
    LET models == [committee.models EXCEPT ![i] = committee.reserveModels[j]]
        roles == [committee.roles EXCEPT ![i] = committee.reserveRoles[j]]
    IN  /\ \A m \in ToSet(models) :
               Cardinality({k \in DOMAIN models : models[k] = m}) <= committee.diversity.perModel
        /\ Cardinality(ToSet(models)) >= committee.diversity.required
        /\ {Skeptic, Source} \subseteq ToSet(roles)

\* Mutant: the seat keeps paying the juror who declined.
TakenWithoutPayout(i, j) ==
    [committee EXCEPT
        !.profiles[i] = committee.reserveProfiles[j], !.owners[i] = committee.reserveOwners[j],
        !.models[i] = committee.reserveModels[j], !.roles[i] = committee.reserveRoles[j],
        !.reserveProfiles = RemoveAt(@, j), !.reserveOwners = RemoveAt(@, j),
        !.reserveModels = RemoveAt(@, j), !.reserveRoles = RemoveAt(@, j),
        !.reservePayouts = RemoveAt(@, j)]

TakenByReserve(i, j) ==
    [committee EXCEPT
        !.profiles[i] = committee.reserveProfiles[j], !.owners[i] = committee.reserveOwners[j],
        !.models[i] = committee.reserveModels[j], !.roles[i] = committee.reserveRoles[j],
        !.payouts[i] = committee.reservePayouts[j],
        !.reserveProfiles = RemoveAt(@, j), !.reserveOwners = RemoveAt(@, j),
        !.reserveModels = RemoveAt(@, j), !.reserveRoles = RemoveAt(@, j),
        !.reservePayouts = RemoveAt(@, j)]

ReplaceDeclinedSeat(i, j) ==
    /\ i \in declined
    /\ j \in DOMAIN committee.reserveProfiles
    /\ ReplacementPreservesDiversity(i, j)
    /\ committee' = TakenByReserve(i, j)
    /\ declined' = declined \ {i}
    /\ UNCHANGED <<roster, rule, draw, changes, declines>>

-----------------------------------------------------------------------------

Next ==
    \/ \E d \in DiversityRules : SetJuryDiversity(d[1], d[2])
    \/ \E c \in ManifestChanges : UpdateAgentManifest(c[1], c[2], c[3])
    \/ \E p \in Leavers : DeprecateAgent(p)
    \/ \E p \in Profiles : DrawSeat(p) \/ DrawReserve(p)
    \/ StartDraw \/ CloseSeats \/ CloseReserves
    \/ \E i \in 1 .. CommitteeSize : DeclineJurySeat(i)
    \/ \E i \in 1 .. CommitteeSize, j \in 1 .. ReserveCount : ReplaceDeclinedSeat(i, j)

Spec == Init /\ [][Next]_vars

-----------------------------------------------------------------------------
(* Properties                                                              *)

MemberNow(p) ==
    [profile |-> p, owner |-> Owner[p], model |-> ModelNow(p), role |-> RoleNow(p),
     payout |-> Payout[p]]

SeatedMembers ==
    [i \in DOMAIN committee.profiles |->
        [profile |-> committee.profiles[i], owner |-> committee.owners[i],
         model |-> committee.models[i], role |-> committee.roles[i],
         payout |-> committee.payouts[i]]]

WaitingMembers ==
    [j \in DOMAIN committee.reserveProfiles |->
        [profile |-> committee.reserveProfiles[j], owner |-> committee.reserveOwners[j],
         model |-> committee.reserveModels[j], role |-> committee.reserveRoles[j],
         payout |-> committee.reservePayouts[j]]]

Panel == INSTANCE JuryPanel WITH
    Size <- CommitteeSize,
    ReserveSize <- ReserveCount,
    candidates <- {MemberNow(p) : p \in {q \in Profiles : roster[q].active
                                                          /\ ~AgentConflictsWithClaim(q)}},
    seated <- SeatedMembers,
    waiting <- WaitingMembers,
    agreed <- committee.diversity

\* The parallel vectors of Committee, CommitteePolicy and CommitteePayouts always stand
\* for whole members: the draw seats a varied panel of the candidates of that moment, and
\* a replacement moves one whole reserve into the declined seat, judged by the rule of
\* its own draw whatever the registry's rule and manifests have become since.
SeatsAVariedPanel == Panel!PanelSpec

\* Every vector has the length its committee has, seats and reserves apart.
TypeOK ==
    /\ roster \in [Profiles -> [model : {roster[p].model : p \in Profiles},
                                role : {roster[p].role : p \in Profiles}, active : BOOLEAN]]
    /\ rule \in [required : {2, 3}, perModel : {2, 3}]
    /\ draw.stage \in {"NONE", "SEATS", "RESERVES", "ABORTED"}
    /\ draw.selected \in Seq(Profiles) /\ draw.reserves \in Seq(Profiles)
    /\ draw.attempts \in 0 .. MaxDraws /\ draw.stalls \in 0 .. RestartAfterStalls - 1
    /\ committee.profiles \in Seq(Profiles) /\ committee.reserveProfiles \in Seq(Profiles)
    /\ Len(committee.profiles) \in {0, CommitteeSize}
    /\ {Len(committee.owners), Len(committee.models), Len(committee.roles),
        Len(committee.payouts)} = {Len(committee.profiles)}
    /\ {Len(committee.reserveOwners), Len(committee.reserveModels), Len(committee.reserveRoles),
        Len(committee.reservePayouts)} = {Len(committee.reserveProfiles)}
    /\ declined \subseteq DOMAIN committee.profiles
    /\ changes \in 0 .. MaxChanges /\ declines \in 0 .. MaxDeclines

\* Whether five seats that keep the caps must have the models and duties the rule requires:
\* fewer models than required cannot hold five, nor can one of the two duties alone.
CapsForceVariety ==
    /\ rule.perModel * (rule.required - 1) < CommitteeSize
    /\ MaxPerRole < CommitteeSize
    /\ \A p \in Profiles :
          roster[p].active /\ ~AgentConflictsWithClaim(p) => RoleNow(p) \in {Skeptic, Source}

\* Where the caps force variety, the draw gives up only when its tickets have run out: any
\* five seats it has accepted are valid, and a stalled pick is dropped and drawn again
\* (jury.move: "The caps admit a valid committee whenever the roster does, so resampling
\* finds one").  Where they do not, five accepted seats may miss a model or a duty, and
\* the call aborts with tickets left.
DrawKeepsTrying ==
    [][draw.stage # "ABORTED" /\ draw'.stage = "ABORTED" /\ CapsForceVariety
         => draw.attempts = MaxDraws]_vars
=============================================================================
