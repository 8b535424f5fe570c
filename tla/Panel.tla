-------------------------------- MODULE Panel --------------------------------
(***************************************************************************)
(* The panel: every screen, the buttons that switch between them, and the  *)
(* handler threads they start (btn_switch_ui_event in                      *)
(* src/src/user/ui_lvgl.c, message_handler_thread in src/main.c), composed *)
(* with car control.                                                       *)
(*                                                                         *)
(* A handler is the sequence of statements of its case in the switch;      *)
(* between two of them any other thread may run.  camera_thread is a call  *)
(* that comes back when it likes, if at all (module Camera); connecting is *)
(* left to module Bluetooth, as it writes none of the state here.          *)
(***************************************************************************)
EXTENDS CarControl

VARIABLES
  shared,   \* the loaded screen, present_screen, camera_using, bluetooth_scan_using
  touch,    \* the button under the finger, or "none"
  rest,     \* per handler: what is left of its case
  early,    \* history: a handler was at work when the finger went down
  alone,    \* history, per handler: no other was at work beside it, nor when
            \* the button that started it was touched
  overlap   \* history: whether handlers were at work together: "never",
            \* "earlier", or the "last" one to finish was not alone

history == <<early, alone, overlap>>
panel   == <<shared, touch, rest, history>>
pvars   == <<vars, panel>>

Screens == {"MENU_SCREEN", "BULETOOTH_SCREEN", "CAMERA_SCREEN", "CAR_CTR_SCREEN"}

Set(v, x)  == <<v, x>>
Call(f)    == <<f, "call">>
Show(s)    == Set("loaded", s)
Present(s) == Set("present_screen", s)

\* Mutant: the flag of the screen that is closed stays set.
BackKeeps(flag) == <<Show("MENU_SCREEN"), Present("MENU_SCREEN")>>

Back(flag) == <<Set(flag, FALSE), Show("MENU_SCREEN"), Present("MENU_SCREEN")>>

\* The switch of message_handler_thread.
Script == [
  CAMERA_CLOSE    |-> Back("camera_using"),
  CAMERA_START    |-> <<Set("camera_using", TRUE), Show("CAMERA_SCREEN"),
                        Call("camera_thread"), Present("CAMERA_SCREEN")>>,
  BLUETOOTH_OPEN  |-> <<Show("BULETOOTH_SCREEN"), Set("bluetooth_scan_using", TRUE),
                        Present("BULETOOTH_SCREEN"), Call("bluetooth_scan_thread")>>,
  BLUETOOTH_CLOSE |-> Back("bluetooth_scan_using"),
  CAR_CTR_OPEN    |-> <<Show("CAR_CTR_SCREEN"), Present("CAR_CTR_SCREEN")>>,
  CAR_CTR_CLOSE   |-> <<Show("MENU_SCREEN"), Present("MENU_SCREEN")>>]

\* Mutant: a button raises an event without a case of its own.
ButtonsDisconnect == [
  MENU_SCREEN      |-> {"CAMERA_START", "BLUETOOTH_OPEN", "CAR_CTR_OPEN"},
  CAMERA_SCREEN    |-> {"CAMERA_CLOSE"},
  BULETOOTH_SCREEN |-> {"BLUETOOTH_DISCONNECT"},
  CAR_CTR_SCREEN   |-> {"CAR_CTR_CLOSE"}]

\* The buttons of each screen that switch to another.
Buttons == [
  MENU_SCREEN      |-> {"CAMERA_START", "BLUETOOTH_OPEN", "CAR_CTR_OPEN"},
  CAMERA_SCREEN    |-> {"CAMERA_CLOSE"},
  BULETOOTH_SCREEN |-> {"BLUETOOTH_CLOSE"},
  CAR_CTR_SCREEN   |-> {"CAR_CTR_CLOSE"}]

PanelPcs == {"case", "camera"}

\* The handlers that have statements of their case before them.
AtWork == {w \in Workers : pc[w] \in PanelPcs}

-----------------------------------------------------------------------------
(* message_handler_thread                                                   *)

StartHandler(w, e) ==
  /\ Goto(w, "idle", "case")
  /\ rest' = [rest EXCEPT ![w] = Script[e]]
  /\ alone' = [v \in Workers |-> IF v = w THEN AtWork = {} /\ ~early
                                 ELSE alone[v] /\ v \notin AtWork]
  /\ UNCHANGED <<locks, bus, orders, result, crash, shared, early, overlap>>

Write1(w) ==
  /\ pc[w] = "case" /\ rest[w] # <<>>
  /\ Head(rest[w])[1] \in DOMAIN shared
  /\ shared' = [shared EXCEPT ![Head(rest[w])[1]] = Head(rest[w])[2]]
  /\ rest' = [rest EXCEPT ![w] = Tail(@)]
  /\ UNCHANGED <<vars, touch, history>>

CallCamera(w) ==
  /\ rest[w] # <<>> /\ Head(rest[w]) = Call("camera_thread")
  /\ Goto(w, "case", "camera")
  /\ UNCHANGED <<locks, bus, orders, result, crash, panel>>

\* The session is over, or it never began.
CameraReturns(w) ==
  /\ Goto(w, "camera", "case")
  /\ rest' = [rest EXCEPT ![w] = Tail(@)]
  /\ UNCHANGED <<locks, bus, orders, result, crash, shared, touch, history>>

\* The last statement that matters here is done.
Finish(w) ==
  /\ rest' = [rest EXCEPT ![w] = <<>>]
  /\ overlap' = IF ~alone[w] THEN "last" ELSE IF overlap = "last" THEN "earlier" ELSE overlap
  /\ UNCHANGED <<locks, bus, orders, result, crash, shared, touch, early, alone>>

CallScan(w) ==
  /\ rest[w] # <<>> /\ Head(rest[w]) = Call("bluetooth_scan_thread")
  /\ Goto(w, "case", "scan_lock")
  /\ Finish(w)

HandlerDone(w) == rest[w] = <<>> /\ Goto(w, "case", "idle") /\ Finish(w)

-----------------------------------------------------------------------------
(* The finger, on the screen that is loaded                                 *)

TouchSwitch ==
  /\ touch = "none"
  /\ touch' \in Buttons[shared["loaded"]]
  /\ early' = (AtWork # {})
  /\ UNCHANGED <<vars, shared, rest, alone, overlap>>

TouchDrive(w) ==
  /\ touch = "none" /\ shared["loaded"] = "CAR_CTR_SCREEN"
  /\ touch' = "drive"
  /\ Press(w)
  /\ UNCHANGED <<shared, rest, history>>

\* The button keeps the finger until it is lifted, whatever screen is loaded.
LiftSwitch(w) ==
  /\ touch \in DOMAIN Script
  /\ touch' = "none"
  /\ StartHandler(w, touch)

\* Mutant: the release of a drive button counts only on its own screen.
LiftOnScreen(w) ==
  /\ touch = "drive"
  /\ touch' = "none"
  /\ IF shared["loaded"] = "CAR_CTR_SCREEN" THEN Release(w)
     ELSE finger' = FALSE /\ UNCHANGED <<pc, locks, bus, given, cmd, result, crash>>
  /\ UNCHANGED <<shared, rest, history>>

LiftDrive(w) ==
  /\ touch = "drive"
  /\ touch' = "none"
  /\ Release(w)
  /\ UNCHANGED <<shared, rest, history>>

-----------------------------------------------------------------------------

\* while(bluetooth_scan_using) of bluetooth_scan_thread has come to an end.
ScanOver(w) == ~shared["bluetooth_scan_using"] /\ ScanEnds(w) /\ UNCHANGED panel

BluetoothStep(w) ==
  /\ ScanLock(w) \/ InitCheck(w) \/ InitMutexes(w) \/ InitDone(w) \/ InitFail(w) \/ SendStep(w)
  /\ UNCHANGED panel

PanelInit ==
  /\ Init
  /\ shared = [loaded |-> "MENU_SCREEN", present_screen |-> "MENU_SCREEN",
               camera_using |-> FALSE, bluetooth_scan_using |-> FALSE]
  /\ touch = "none" /\ rest = [w \in Workers |-> <<>>]
  /\ early = FALSE /\ alone = [w \in Workers |-> TRUE] /\ overlap = "never"

HandlerStep(w) == Write1(w) \/ CallCamera(w) \/ CameraReturns(w) \/ CallScan(w) \/ HandlerDone(w)
FingerStep(w)  == TouchSwitch \/ TouchDrive(w) \/ LiftSwitch(w) \/ LiftDrive(w)

PanelNext ==
  Running /\ \E w \in Workers : HandlerStep(w) \/ FingerStep(w) \/ ScanOver(w) \/ BluetoothStep(w)

PanelSpec == PanelInit /\ [][PanelNext]_pvars

-----------------------------------------------------------------------------
(* Properties                                                               *)

PanelTypeOK ==
  /\ pc \in [Workers -> WorkerPcs \cup PanelPcs]
  /\ DOMAIN shared = {"loaded", "present_screen", "camera_using", "bluetooth_scan_using"}
  /\ shared["loaded"] \in Screens /\ shared["present_screen"] \in Screens
  /\ shared["camera_using"] \in BOOLEAN /\ shared["bluetooth_scan_using"] \in BOOLEAN
  /\ touch \in {"none", "drive"} \cup DOMAIN Script /\ (touch = "drive" <=> finger)
  /\ \A w \in Workers : rest[w] # <<>> => pc[w] \in PanelPcs
  /\ early \in BOOLEAN /\ alone \in [Workers -> BOOLEAN] /\ overlap \in {"never", "earlier", "last"}

\* When no handler is at work, and the last to finish worked alone after a touch
\* made when all was quiet, refresh_ui redraws the screen that is loaded, and the
\* scan or the camera of the loaded screen is wanted.  If that is so of every
\* handler until now, nothing is wanted that has no screen.  Otherwise neither is
\* certain: a session that ends after its close leaves present_screen at
\* CAMERA_SCREEN under whatever is loaded, a button that was held while the screen
\* changed under it leaves a scan or camera behind.
ScreensAgree ==
  AtWork = {} =>
    /\ overlap # "last" =>
         /\ shared["present_screen"] = shared["loaded"]
         /\ shared["loaded"] = "BULETOOTH_SCREEN" => shared["bluetooth_scan_using"]
         /\ shared["loaded"] = "CAMERA_SCREEN" => shared["camera_using"]
    /\ overlap = "never" =>
         /\ shared["bluetooth_scan_using"] => shared["loaded"] = "BULETOOTH_SCREEN"
         /\ shared["camera_using"] => shared["loaded"] = "CAMERA_SCREEN"

\* With screens and scans around it car control is what module CarControl says:
\* a handler that is at its writes is an idle thread there, and every release
\* of a drive button gives its Stop, whichever screen is loaded by then.
CarView == INSTANCE CarControl
  WITH pc <- [w \in Workers |-> IF pc[w] \in PanelPcs THEN "idle" ELSE pc[w]]
CarSpec == CarView!Spec

=============================================================================
