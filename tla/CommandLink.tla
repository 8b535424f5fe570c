----------------------------- MODULE CommandLink -----------------------------
(***************************************************************************)
(* What car control promises of the commands it is given: each is sent to  *)
(* the car at most once or given up, in any order among those that are     *)
(* under way together, and never before one that was settled earlier.      *)
(* CarControl implements this module.                                      *)
(***************************************************************************)
EXTENDS Naturals, Sequences

VARIABLES
  count,    \* commands given so far: command i is the i-th
  pending,  \* commands under way
  sent      \* commands the car has received, in order

vars == <<count, pending, sent>>

Init == count = 0 /\ pending = {} /\ sent = <<>>

Give ==
  /\ count' = count + 1
  /\ pending' = pending \cup {count + 1}
  /\ UNCHANGED sent

Deliver(i) ==
  /\ i \in pending
  /\ pending' = pending \ {i}
  /\ sent' = Append(sent, i)
  /\ UNCHANGED count

GiveUp(i) ==
  /\ i \in pending
  /\ pending' = pending \ {i}
  /\ UNCHANGED <<count, sent>>

Next == Give \/ \E i \in pending : Deliver(i) \/ GiveUp(i)

Spec == Init /\ [][Next]_vars

=============================================================================
