------------------------------- MODULE JuryPanel -------------------------------
(***************************************************************************)
(* What the draw of a jury promises: a panel of whole members taken from   *)
(* the candidates of the moment, varied by the rule in force when it was   *)
(* drawn, and varied by that same rule whenever a reserve steps in.        *)
(***************************************************************************)
EXTENDS Naturals, SequencesExt

CONSTANTS Size, ReserveSize, Skeptic, Source

VARIABLES
    candidates,   \* the members that may be drawn: the environment's
    seated,       \* the members that sit, <<>> before the draw
    waiting,      \* the reserves, in the order they were drawn
    agreed        \* [required |-> models, perModel |-> seats]: the rule of the draw

panelVars == <<candidates, seated, waiting, agreed>>

Values(members, f(_)) == {f(members[i]) : i \in DOMAIN members}
ModelOf(m) == m.model
RoleOf(m) == m.role
OwnerOf(m) == m.owner

\* One seat per signing key, the rule's cap and minimum of models, both duties held.
Varied(members, rule) ==
    /\ Cardinality(Values(members, OwnerOf)) = Len(members)
    /\ \A i \in DOMAIN members :
           Cardinality({j \in DOMAIN members : members[j].model = members[i].model})
               <= rule.perModel
    /\ Cardinality(Values(members, ModelOf)) >= rule.required
    /\ {Skeptic, Source} \subseteq Values(members, RoleOf)

PanelInit == seated = <<>> /\ waiting = <<>>

Draw ==
    /\ seated = <<>>
    /\ Len(seated') = Size /\ Len(waiting') = ReserveSize
    /\ ToSet(seated') \cup ToSet(waiting') \subseteq candidates
    /\ Varied(seated', agreed')
    /\ Values(waiting', RoleOf) = {Skeptic, Source}
    /\ Cardinality(Values(seated' \o waiting', OwnerOf)) = Size + ReserveSize

StepIn(i, j) ==
    /\ seated' = [seated EXCEPT ![i] = waiting[j]]
    /\ waiting' = RemoveAt(waiting, j)
    /\ agreed' = agreed
    /\ Varied(seated', agreed)

PanelNext ==
    \/ Draw
    \/ \E i \in DOMAIN seated, j \in DOMAIN waiting : StepIn(i, j)

PanelSpec == PanelInit /\ [][PanelNext]_<<seated, waiting, agreed>>
=============================================================================
