------------------------------ MODULE MCVoice -------------------------------
(* Instances of Voice for TLC.                                             *)
EXTENDS Voice, TLC

CONSTANTS w1, forward, stop

=============================================================================
