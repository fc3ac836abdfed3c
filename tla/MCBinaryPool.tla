----------------------------- MODULE MCBinaryPool -----------------------------
(* A small instance of BinaryPool for TLC.                                 *)
EXTENDS BinaryPool

\* 2, 3 and 5 divide each other's sums badly.
MCAmounts == {2, 3, 5}
=============================================================================
