---------------------------- MODULE MCCarControl ----------------------------
(* Instances of CarControl for TLC.                                        *)
EXTENDS CarControl, TLC

CONSTANTS w1, w2, forward, stop

=============================================================================
