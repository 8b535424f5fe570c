---------------------------- MODULE CameraSession ----------------------------
(* What the camera promises: a session begins only while the user wants it,  *)
(* there is one at a time, and one that is not wanted any more comes to an   *)
(* end, good or bad.  camera_thread (src/src/user/usb_camera.c) is checked   *)
(* against it.                                                               *)

VARIABLES
  on,     \* the user has opened the camera and not closed it
  phase   \* no session, a session, or a camera that a failed session kept

avars == <<on, phase>>

Init == on = FALSE /\ phase = "idle"

Switch == on' \in BOOLEAN /\ UNCHANGED phase

Begin == phase = "idle" /\ on /\ phase' = "live" /\ UNCHANGED on

End == phase = "live" /\ phase' = "idle" /\ UNCHANGED on

Lose == phase = "live" /\ phase' = "stuck" /\ UNCHANGED on

Next == Switch \/ Begin \/ End \/ Lose

Spec == Init /\ [][Next]_avars

LiveSpec == Spec /\ WF_avars(~on /\ (End \/ Lose))

=============================================================================
