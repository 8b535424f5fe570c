------------------------------ MODULE MCCamera ------------------------------
(* Instances of Camera for TLC.                                            *)
EXTENDS Camera, TLC

CONSTANTS w1, w2, w3

Symmetry == Permutations(Workers)

=============================================================================
