------------------------------ MODULE MCPanel -------------------------------
(* Instances of Panel for TLC.                                             *)
EXTENDS Panel, TLC

CONSTANTS w1, w2, forward, stop

Symmetry == Permutations(Workers)

=============================================================================
