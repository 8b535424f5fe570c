---------------------------- MODULE MCBluetooth ----------------------------
(* Instances of Bluetooth for TLC.                                         *)
EXTENDS Bluetooth, TLC

CONSTANTS w1, w2, d1, d2

MCNodes     == 1 .. 4
OpenOnly    == {"BLUETOOTH_OPEN"}
OpenClose   == {"BLUETOOTH_OPEN", "BLUETOOTH_CLOSE"}
OpenConnect == {"BLUETOOTH_OPEN", "BLUETOOTH_CONNECT"}

Symmetry == Permutations(Workers) \cup Permutations(Devices)

\* The search goes no further once the claims about the list say nothing more:
\* the message mutex was torn, or the process has ended.
ListTrusted == tears["message"] = 0 /\ crash = "none"

\* The same for the liveness claims.
Undamaged == Intact /\ crash = "none"

=============================================================================
