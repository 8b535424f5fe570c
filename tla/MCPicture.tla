------------------------------ MODULE MCPicture -----------------------------
(* Instances of Picture for TLC.                                            *)
EXTENDS Picture, TLC

CONSTANTS w1, w2, w3

Symmetry == Permutations(Workers)

=============================================================================
