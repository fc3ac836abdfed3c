----------------------------- MODULE MCStakedSeats -----------------------------
(* Small instances of StakedSeats for TLC.                                 *)
EXTENDS StakedSeats

Seat(model, role) == [model |-> model, role |-> role]

\* draw-feasibility.test.ts: three sources on one model, two skeptics on each of two;
\* and the same before the third model joined, which cannot draw yet.
DemoSeven == <<Seat("deepseek", "SOURCE"), Seat("deepseek", "SOURCE"), Seat("deepseek", "SOURCE"),
               Seat("minimax", "SKEPTIC"), Seat("minimax", "SKEPTIC"),
               Seat("kimi", "SKEPTIC"), Seat("kimi", "SKEPTIC")>>
TwoModels == [i \in 1 .. 7 |-> IF i > 5 THEN Seat("minimax", "INVESTIGATOR") ELSE DemoSeven[i]]
MCSeeds == {DemoSeven, TwoModels}
MCSlots == 1 .. 9
MCModels == {"deepseek", "minimax", "kimi"}
MCRoles == <<"INVESTIGATOR", "SKEPTIC", "SOURCE">>
\* The stake of the testnet incident, and one whose role the engine chooses.
MCWishes == {<<"deepseek", "SKEPTIC">>, <<"kimi", "ANY">>}
Symmetry == Permutations(Stakers) \cup Permutations(Calls)
MCRule == [required |-> 3, perModel |-> 2]
=============================================================================
