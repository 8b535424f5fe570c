------------------------------- MODULE Picture -------------------------------
(* LVGL between lvgl_thread, which draws the screens and the camera's picture *)
(* under lvgl_mutex (src/src/user/ui_lvgl.c), and the camera's handlers, which *)
(* load screens (src/main.c), decode into the picture, set it and run LVGL's   *)
(* timers (src/src/user/usb_camera.c) without it.                              *)
EXTENDS Camera

VARIABLE drawing   \* lvgl_thread is in lv_timer_handler

pvars == <<vars, drawing>>

\* lvgl_thread takes lvgl_mutex, which no handler takes, and calls
\* lv_timer_handler; already_running may turn it away, or not.
Draw == ~drawing /\ drawing' = TRUE /\ UNCHANGED vars

DrawDone == drawing /\ drawing' = FALSE /\ UNCHANGED vars

PictureInit == Init /\ drawing = FALSE
PictureNext == Draw \/ DrawDone \/ (Next /\ UNCHANGED drawing)
PictureSpec == PictureInit /\ [][PictureNext]_pvars

-----------------------------------------------------------------------------

\* LVGL's docs/porting/os.md wants code that works on its objects under the mutex
\* of lv_timer_handler: while lvgl_thread draws, no handler loads a screen,
\* decodes into the picture, sets it or runs the timers.
LvglCallsSerialised ==
  [][drawing => \A w \in Workers :
       ~(StartLoad(w) \/ CloseLoad(w) \/ Decode(w) \/ DecodeDone(w) \/ Timer(w) \/ SetSource(w))]_pvars

=============================================================================
