----------------------------- MODULE DeviceBoard -----------------------------
(***************************************************************************)
(* What the device list promises, seen from outside: a board on which each *)
(* scan publishes the devices it found, all at once and each of them once, *)
(* and only after the list of the scan before was taken down; and a        *)
(* picture that is redrawn at once from the board as it stands.  Nothing   *)
(* is promised once the mutex of the list was cleared while it was held.   *)
(* Bluetooth implements this module.                                       *)
(***************************************************************************)
EXTENDS Naturals, Sequences, Functions

CONSTANTS
  Devices,  \* the devices that can be found
  MaxShow   \* the rows of the picture

VARIABLES
  board,    \* the devices published, newest first
  picture,  \* the devices shown, one to a row
  intact    \* the mutex of the list was never cleared held

vars == <<board, picture, intact>>

Init == board = <<>> /\ picture = <<>> /\ intact = TRUE

Clear ==
  /\ board' = <<>>
  /\ UNCHANGED picture

Publish ==
  /\ board = <<>>
  /\ board' \in Seq(Devices) /\ IsInjective(board')
  /\ UNCHANGED picture

Draw ==
  /\ picture' = [i \in 1 .. (IF Len(board) < MaxShow THEN Len(board) ELSE MaxShow) |-> board[i]]
  /\ UNCHANGED board

Hold    == intact = TRUE /\ UNCHANGED intact
Damaged == intact' = FALSE

Next == (Hold /\ (Clear \/ Publish \/ Draw)) \/ Damaged

Spec == Init /\ [][Next]_vars

=============================================================================
