-------------------------------- MODULE MCDebate --------------------------------
(* A small instance of Debate for TLC: three debaters, one of them a       *)
(* skeptic, who split two to one in round one.                              *)
EXTENDS Debate

MCRoundOnes == {[s \in Seats |-> IF s = 2 THEN "NO" ELSE "YES"]}
=============================================================================
