---------------------------- MODULE MCCommitteeDraw ----------------------------
(* Small instances of CommitteeDraw for TLC.                               *)
EXTENDS CommitteeDraw

Seat(model, role) == [model |-> model, role |-> role, active |-> TRUE]

\* Each profile has a key of its own, but for the seventh and the eighth.
MCProfiles == 1 .. 9
MCOwner == [p \in 1 .. 9 |-> IF p = 8 THEN 7 ELSE p]
\* The third and the fourth seat are staked.
MCPayout == [p \in 1 .. 9 |-> IF p \in {3, 4} THEN 10 ELSE p]

\* draw-feasibility.test.ts: three sources on one model, two skeptics on each of two.
DemoSeven == <<Seat("deepseek", "SOURCE"), Seat("deepseek", "SOURCE"), Seat("deepseek", "SOURCE"),
               Seat("minimax", "SKEPTIC"), Seat("minimax", "SKEPTIC"),
               Seat("kimi", "SKEPTIC"), Seat("kimi", "SKEPTIC")>>
\* With the skeptic staked on deepseek that stranded the draw on testnet, and a source on
\* a fourth model.
Incident == DemoSeven \o <<Seat("deepseek", "SKEPTIC"), Seat("qwen", "SOURCE")>>
\* Two of the sources hold a role that is neither duty, so five seats may have no source.
WithInvestigators ==
    [p \in 1 .. 9 |-> IF p \in {1, 2} THEN Seat("deepseek", "INVESTIGATOR") ELSE Incident[p]]
MCRosters == {Incident, WithInvestigators}
\* The ninth profile is the creator's own.
MCParties == {9}
\* Degraded mode, a pair that cannot seat five, and one whose caps do not force a third model.
MCRules == {<<2, 3>>, <<2, 2>>, <<3, 3>>}
MCLeavers == {8}
MCManifestChanges == {<<1, "kimi", "SKEPTIC">>}
=============================================================================
