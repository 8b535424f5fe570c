------------------------------ MODULE MCTimers -------------------------------
(* Instances of Timers for TLC.                                            *)
EXTENDS Timers, TLC

CONSTANTS lvgl, camera

Symmetry == Permutations(Callers)

=============================================================================
