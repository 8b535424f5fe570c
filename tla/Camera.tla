-------------------------------- MODULE Camera --------------------------------
(***************************************************************************)
(* The camera session: camera_thread (src/src/user/usb_camera.c), which a  *)
(* handler thread runs for CAMERA_START (src/main.c), the handler for      *)
(* CAMERA_CLOSE, and the buttons that start both.                          *)
(*                                                                         *)
(* camera_mutex is a futex word, as the mutexes of module Bluetooth are:   *)
(* init_camera clears it, and two first openings can race there.  "tears"  *)
(* counts how often a held word was cleared, "kept" how many error returns *)
(* left camera_mutex locked.                                               *)
(*                                                                         *)
(* External: V4L2.  A queue of buffers belongs to the file descriptor that *)
(* requested it; the driver fills queued buffers while streaming; any call *)
(* may fail, and calls on a queue that belongs to another descriptor do.   *)
(***************************************************************************)
EXTENDS Naturals, Sequences, FiniteSets, SequencesExt

CONSTANTS
  Workers,     \* detached threads that may run message_handler_thread at a time
  NumBuffers,  \* reqbuf.count, as the driver grants it
  FileLimit,   \* the 5 of "if(cnt > 5) cnt = 0"
  MaxFaults,   \* bound: system calls that fail in a behaviour
  NoWorker

Buffers == 1 .. NumBuffers
Screens == {"MENU_SCREEN", "CAMERA_SCREEN"}

ASSUME WorkersAssumption ==
  Workers # {} /\ IsFiniteSet(Workers) /\ NoWorker \notin Workers
ASSUME NumbersAssumption ==
  NumBuffers \in Nat \ {0} /\ FileLimit \in Nat /\ MaxFaults \in Nat

VARIABLES
  pc,         \* where each handler thread is
  word,       \* camera_mutex
  tears,      \* how often init_camera cleared it held
  kept,       \* error returns that left it locked
  initFlag,   \* init_flag of usb_camera.c
  using,      \* camera_using
  fds,        \* the sessions whose descriptor of the camera is open
  owner,      \* the session whose descriptor owns the queue
  queued,     \* buffers the driver may fill
  done,       \* filled buffers, in order
  streaming,  \* between STREAMON and STREAMOFF
  maps,       \* buffer mappings the process holds
  frame,      \* per session: the buffer it has dequeued, 0 for none
  cnt,        \* cnt, the number of the next picture file
  loaded, present,  \* the screen LVGL shows; present_screen
  pressed,    \* the button under the finger
  faults      \* calls that failed so far (see MaxFaults)

mutex  == <<word, tears, kept, initFlag>>
device == <<fds, owner, queued, done, streaming, maps>>
work   == <<frame, cnt>>
ui     == <<loaded, present, pressed>>
vars   == <<pc, mutex, using, device, work, ui, faults>>

-----------------------------------------------------------------------------

SetupPcs == {"open", "request", "map"}
FramePcs == {"test", "dequeue", "file", "write", "decode", "decoding", "requeue", "count",
             "timer", "source"}
EndPcs   == {"unmap", "stop", "close_fd"}
LivePcs  == SetupPcs \cup FramePcs \cup EndPcs \cup {"unlock"}
Section  == LivePcs \cup {"check", "bail"}

WorkerPcs == {"idle", "start", "start_load", "init_check", "init", "init_flag", "lock",
              "start_present", "close", "close_load", "close_present"} \cup Section

Inside == {w \in Workers : pc[w] \in Section}

Goto(t, from, to) == pc[t] = from /\ pc' = [pc EXCEPT ![t] = to]

\* A call that fails costs one of MaxFaults.
Fail == faults < MaxFaults /\ faults' = faults + 1

-----------------------------------------------------------------------------
(* message_handler_thread, case CAMERA_START, up to camera_thread           *)

StartUsing(w) ==
  /\ Goto(w, "start", "start_load")
  /\ using' = TRUE
  /\ UNCHANGED <<mutex, device, work, ui, faults>>

StartLoad(w) ==
  /\ Goto(w, "start_load", "init_check")
  /\ loaded' = "CAMERA_SCREEN"
  /\ UNCHANGED <<mutex, using, device, work, present, pressed, faults>>

InitCheck(w) ==
  /\ Goto(w, "init_check", IF initFlag THEN "lock" ELSE "init")
  /\ UNCHANGED <<mutex, using, device, work, ui, faults>>

InitMutex(w) ==
  /\ Goto(w, "init", "init_flag")
  /\ word' = 0 /\ tears' = tears + word
  /\ UNCHANGED <<kept, initFlag, using, device, work, ui, faults>>

InitFlag(w) ==
  /\ Goto(w, "init_flag", "lock")
  /\ initFlag' = TRUE
  /\ UNCHANGED <<word, tears, kept, using, device, work, ui, faults>>

-----------------------------------------------------------------------------
(* camera_thread: the lock and the set-up                                   *)

LockCamera(w) ==
  /\ Goto(w, "lock", "check")
  /\ word = 0 /\ word' = 1
  /\ UNCHANGED <<tears, kept, initFlag, using, device, work, ui, faults>>

\* Mutant: the flag is not read again under the mutex.
CheckNothing(w) ==
  /\ Goto(w, "check", "open")
  /\ UNCHANGED <<mutex, using, device, work, ui, faults>>

Check(w) ==
  /\ Goto(w, "check", IF using THEN "open" ELSE "bail")
  /\ UNCHANGED <<mutex, using, device, work, ui, faults>>

\* Mutant: the early return without the unlock.
BailLocked(w) ==
  /\ Goto(w, "bail", "start_present")
  /\ UNCHANGED <<mutex, using, device, work, ui, faults>>

Bail(w) ==
  /\ Goto(w, "bail", "start_present")
  /\ word' = 0
  /\ UNCHANGED <<tears, kept, initFlag, using, device, work, ui, faults>>

\* An error return of camera_thread: the handler goes on, the mutex stays locked.
Return(w, from) == Goto(w, from, "start_present") /\ kept' = kept + 1

Open(w) ==
  /\ Goto(w, "open", "request")
  /\ fds' = fds \cup {w}
  /\ UNCHANGED <<mutex, using, owner, queued, done, streaming, maps, work, ui, faults>>

OpenFails(w) ==
  /\ Return(w, "open")
  /\ Fail
  /\ UNCHANGED <<word, tears, initFlag, using, device, work, ui>>

\* REQBUFS fails if the queue is another descriptor's; a failure is not acted on.
Request(w) ==
  /\ Goto(w, "request", "map")
  /\ owner' = IF owner = NoWorker THEN w ELSE owner
  /\ UNCHANGED <<mutex, using, fds, queued, done, streaming, maps, work, ui, faults>>

RequestFails(w) ==
  /\ Goto(w, "request", "map")
  /\ Fail
  /\ UNCHANGED <<mutex, using, device, work, ui>>

\* The buffers session w has put into the queue during its set-up.
Granted(w) == IF owner = w THEN queued ELSE {}

\* One round of the loop over reqbuf.count: query, map, queue.
MapBuffer(w) ==
  /\ Goto(w, "map", "map")
  /\ owner = w /\ Granted(w) # Buffers
  /\ queued' = queued \cup {Cardinality(Granted(w)) + 1}
  /\ maps' = maps + 1
  /\ UNCHANGED <<mutex, using, fds, owner, done, streaming, work, ui, faults>>

\* Contrast, STREAMON.
StreamOn(w) ==
  /\ Goto(w, "map", "test")
  /\ owner = w /\ Granted(w) = Buffers
  /\ streaming' = TRUE
  /\ UNCHANGED <<mutex, using, fds, owner, queued, done, maps, work, ui, faults>>

\* Closing the descriptor that owns the queue ends the queue.
CloseFd(w) ==
  /\ fds' = fds \ {w}
  /\ owner' = IF owner = w THEN NoWorker ELSE owner
  /\ queued' = IF owner = w THEN {} ELSE queued
  /\ done' = IF owner = w THEN <<>> ELSE done
  /\ streaming' = (streaming /\ owner # w)

\* Mutant: the error return leaves the descriptor open.
SetupFailsOpen(w) ==
  /\ Return(w, "map")
  /\ \/ Fail
     \/ owner # w /\ UNCHANGED faults
  /\ UNCHANGED <<word, tears, initFlag, using, device, work, ui>>

\* One of the calls of the set-up fails, or there is no queue to call.  The
\* mappings made so far stay, that of the buffer at hand too if QBUF failed.
SetupFails(w) ==
  /\ Return(w, "map")
  /\ \/ Fail
     \/ owner # w /\ UNCHANGED faults
  /\ CloseFd(w)
  /\ maps' \in {maps} \cup (IF Granted(w) # Buffers THEN {maps + 1} ELSE {})
  /\ UNCHANGED <<word, tears, initFlag, using, work, ui>>

-----------------------------------------------------------------------------
(* camera_thread: one frame                                                 *)

\* Mutant: the loop does not look at camera_using.
TestNothing(w) ==
  /\ Goto(w, "test", "dequeue")
  /\ UNCHANGED <<mutex, using, device, work, ui, faults>>

Test(w) ==
  /\ Goto(w, "test", IF using THEN "dequeue" ELSE "unmap")
  /\ UNCHANGED <<mutex, using, device, work, ui, faults>>

\* poll without a limit, DQBUF.
Dequeue(w) ==
  /\ Goto(w, "dequeue", "file")
  /\ done # <<>>
  /\ frame' = [frame EXCEPT ![w] = Head(done)]
  /\ done' = Tail(done)
  /\ UNCHANGED <<mutex, using, fds, owner, queued, streaming, maps, cnt, ui, faults>>

\* Mutant: cnt is never reset.
PictureFileOn(w) ==
  /\ Goto(w, "file", "write")
  /\ UNCHANGED <<mutex, using, device, work, ui, faults>>

\* The file is named after cnt, then cnt is reset, then the file is opened.
PictureFile(w) ==
  /\ Goto(w, "file", "write")
  /\ cnt' = IF cnt > FileLimit THEN 0 ELSE cnt
  /\ UNCHANGED <<mutex, using, device, frame, ui, faults>>

WritePicture(w) ==
  /\ Goto(w, "write", "decode")
  /\ UNCHANGED <<mutex, using, device, work, ui, faults>>

\* decode_jpg2 overwrites the picture from here to DecodeDone.
Decode(w) ==
  /\ Goto(w, "decode", "decoding")
  /\ UNCHANGED <<mutex, using, device, work, ui, faults>>

\* Mutant: the buffer is not queued again after the decoding.
DecodeDoneKeeps(w) ==
  /\ Goto(w, "decoding", "count")
  /\ frame' = [frame EXCEPT ![w] = 0]
  /\ UNCHANGED <<mutex, using, device, cnt, ui, faults>>

DecodeDone(w) ==
  /\ Goto(w, "decoding", "requeue")
  /\ UNCHANGED <<mutex, using, device, work, ui, faults>>

Requeue(w) ==
  /\ Goto(w, "requeue", "count")
  /\ queued' = queued \cup {frame[w]}
  /\ frame' = [frame EXCEPT ![w] = 0]
  /\ UNCHANGED <<mutex, using, fds, owner, done, streaming, maps, cnt, ui, faults>>

\* cnt is an unsigned char.
Count(w) ==
  /\ Goto(w, "count", "timer")
  /\ cnt' = (cnt + 1) % 256
  /\ UNCHANGED <<mutex, using, device, frame, ui, faults>>

\* lv_timer_handler and lv_img_set_src.
Timer(w) ==
  /\ Goto(w, "timer", "source")
  /\ UNCHANGED <<mutex, using, device, work, ui, faults>>

SetSource(w) ==
  /\ Goto(w, "source", "test")
  /\ UNCHANGED <<mutex, using, device, work, ui, faults>>

\* DQBUF, the file, the write or QBUF fails: break.
Break(w) ==
  /\ \E from \in {"dequeue", "file", "write", "requeue"} :
       /\ Goto(w, from, "unmap")
       /\ cnt' = IF from = "file" /\ cnt > FileLimit THEN 0 ELSE cnt
  /\ Fail
  /\ UNCHANGED <<mutex, using, device, frame, ui>>

-----------------------------------------------------------------------------
(* camera_thread: the end                                                   *)

\* Mutant: the first buffer stays mapped.
UnmapAllButOne(w) ==
  /\ Goto(w, "unmap", "stop")
  /\ maps' = maps - (NumBuffers - 1)
  /\ frame' = [frame EXCEPT ![w] = 0]
  /\ UNCHANGED <<mutex, using, fds, owner, queued, done, streaming, cnt, ui, faults>>

Unmap(w) ==
  /\ Goto(w, "unmap", "stop")
  /\ maps' = maps - NumBuffers
  /\ frame' = [frame EXCEPT ![w] = 0]
  /\ UNCHANGED <<mutex, using, fds, owner, queued, done, streaming, cnt, ui, faults>>

\* STREAMOFF takes every buffer out of the queue.
StreamOff(w) ==
  /\ Goto(w, "stop", "close_fd")
  /\ streaming' = FALSE /\ queued' = {} /\ done' = <<>>
  /\ UNCHANGED <<mutex, using, fds, owner, maps, work, ui, faults>>

StreamOffFails(w) ==
  /\ Return(w, "stop")
  /\ Fail
  /\ CloseFd(w)
  /\ UNCHANGED <<word, tears, initFlag, using, maps, work, ui>>

CloseCamera(w) ==
  /\ Goto(w, "close_fd", "unlock")
  /\ CloseFd(w)
  /\ UNCHANGED <<mutex, using, maps, work, ui, faults>>

\* Mutant: the session ends without the unlock.
UnlockForgotten(w) ==
  /\ Goto(w, "unlock", "start_present")
  /\ UNCHANGED <<mutex, using, device, work, ui, faults>>

UnlockCamera(w) ==
  /\ Goto(w, "unlock", "start_present")
  /\ word' = 0
  /\ UNCHANGED <<tears, kept, initFlag, using, device, work, ui, faults>>

\* The handler notes the screen once the session is over.
StartPresent(w) ==
  /\ Goto(w, "start_present", "idle")
  /\ present' = "CAMERA_SCREEN"
  /\ UNCHANGED <<mutex, using, device, work, loaded, pressed, faults>>

-----------------------------------------------------------------------------
(* message_handler_thread, case CAMERA_CLOSE                                *)

CloseUsing(w) ==
  /\ Goto(w, "close", "close_load")
  /\ using' = FALSE
  /\ UNCHANGED <<mutex, device, work, ui, faults>>

CloseLoad(w) ==
  /\ Goto(w, "close_load", "close_present")
  /\ loaded' = "MENU_SCREEN"
  /\ UNCHANGED <<mutex, using, device, work, present, pressed, faults>>

ClosePresent(w) ==
  /\ Goto(w, "close_present", "idle")
  /\ present' = "MENU_SCREEN"
  /\ UNCHANGED <<mutex, using, device, work, loaded, pressed, faults>>

-----------------------------------------------------------------------------
(* The driver and the user                                                  *)

Fill ==
  /\ streaming
  /\ \E b \in queued : queued' = queued \ {b} /\ done' = Append(done, b)
  /\ UNCHANGED <<pc, mutex, using, fds, owner, streaming, maps, work, ui, faults>>

Press ==
  /\ pressed = "none"
  /\ pressed' = IF loaded = "MENU_SCREEN" THEN "start" ELSE "close"
  /\ UNCHANGED <<pc, mutex, using, device, work, loaded, present, faults>>

Release(w) ==
  /\ pressed # "none"
  /\ Goto(w, "idle", pressed)
  /\ pressed' = "none"
  /\ UNCHANGED <<mutex, using, device, work, loaded, present, faults>>

-----------------------------------------------------------------------------

Init ==
  /\ pc = [w \in Workers |-> "idle"]
  /\ word = 0 /\ tears = 0 /\ kept = 0 /\ initFlag = FALSE /\ using = FALSE
  /\ fds = {} /\ owner = NoWorker /\ queued = {} /\ done = <<>> /\ streaming = FALSE /\ maps = 0
  /\ frame = [w \in Workers |-> 0] /\ cnt = 0
  /\ loaded = "MENU_SCREEN" /\ present = "MENU_SCREEN" /\ pressed = "none"
  /\ faults = 0

BeginStep(w) == StartUsing(w) \/ StartLoad(w) \/ InitCheck(w) \/ InitMutex(w) \/ InitFlag(w)
SetupStep(w) == \/ LockCamera(w) \/ Check(w) \/ Bail(w) \/ Open(w) \/ OpenFails(w)
                \/ Request(w) \/ RequestFails(w) \/ MapBuffer(w) \/ StreamOn(w) \/ SetupFails(w)
FrameStep(w) == \/ Test(w) \/ Dequeue(w) \/ PictureFile(w) \/ WritePicture(w) \/ Decode(w)
                \/ DecodeDone(w) \/ Requeue(w) \/ Count(w) \/ Timer(w) \/ SetSource(w) \/ Break(w)
EndStep(w)   == \/ Unmap(w) \/ StreamOff(w) \/ StreamOffFails(w) \/ CloseCamera(w)
                \/ UnlockCamera(w) \/ StartPresent(w)
CloseStep(w) == CloseUsing(w) \/ CloseLoad(w) \/ ClosePresent(w)
HandlerStep(w) == BeginStep(w) \/ SetupStep(w) \/ FrameStep(w) \/ EndStep(w) \/ CloseStep(w)

Next == (\E w \in Workers : HandlerStep(w) \/ Release(w)) \/ Fill \/ Press

Spec == Init /\ [][Next]_vars

(* Every handler is scheduled and takes camera_mutex if it is free again and *)
(* again, unless it may be asleep on a word that was cleared.  The camera    *)
(* delivers frames while it streams: poll waits for them without a limit.    *)
Fairness ==
  /\ \A w \in Workers : SF_vars(~(pc[w] = "lock" /\ tears > 0) /\ HandlerStep(w))
  /\ WF_vars(Fill)

FairSpec == Spec /\ Fairness

-----------------------------------------------------------------------------
(* Properties                                                               *)

\* Types; the file number stays below FileLimit + 2 (files 0 to 6 in the code).
TypeOK ==
  /\ pc \in [Workers -> WorkerPcs]
  /\ word \in 0 .. 1 /\ tears \in Nat /\ kept \in Nat /\ initFlag \in BOOLEAN /\ using \in BOOLEAN
  /\ fds \subseteq Workers /\ owner \in Workers \cup {NoWorker} /\ streaming \in BOOLEAN
  /\ queued \subseteq Buffers /\ done \in Seq(Buffers) /\ maps \in Nat
  /\ frame \in [Workers -> {0} \cup Buffers] /\ cnt \in 0 .. FileLimit + 1
  /\ loaded \in Screens /\ present \in Screens /\ pressed \in {"none", "start", "close"}
  /\ faults \in 0 .. MaxFaults

\* Unless init_camera cleared the mutex under an owner, it is held exactly by the
\* one live session or by the one error return that kept it: no second session,
\* no lock lost on any other path.
MutexAccounted == tears = 0 => Cardinality(Inside) + kept = word

\* A descriptor of the camera is open exactly while its session lives, whichever
\* way the session ends, and a queue belongs to an open descriptor.
DescriptorsClosed ==
  /\ fds = {w \in Workers : pc[w] \in {"request", "map"} \cup FramePcs \cup EndPcs}
  /\ owner \in fds \cup {NoWorker}

\* While frames are taken every buffer is in one place: with the driver, filled,
\* or in the hands of the session, which therefore reads a buffer that the driver
\* does not write; and no buffer is ever lost, so that poll cannot starve.
BuffersAccounted ==
  \A w \in Workers : pc[w] \in FramePcs =>
    /\ owner = w /\ streaming
    /\ IsInjective(done) /\ queued \cap ToSet(done) = {}
    /\ frame[w] \notin queued \cup ToSet(done)
    /\ queued \cup ToSet(done) \cup {frame[w]} = Buffers \cup {frame[w]}
    /\ pc[w] \in {"file", "write", "decode", "decoding", "requeue"} <=> frame[w] # 0

\* Mappings are left behind by error returns only.
MappingsAccounted ==
  maps <= NumBuffers * (Cardinality({w \in Workers : pc[w] \in LivePcs}) + kept)

\* A held camera mutex was kept by an error return, or has a session that can go on:
\* if it polls for a frame there is one, or a buffer the driver may fill.
SessionGoesOn ==
  word = 1 /\ kept = 0 =>
    \E w \in Inside : pc[w] = "dequeue" => done # <<>> \/ (streaming /\ queued # {})

phase == IF kept > 0 THEN "stuck"
         ELSE IF \E w \in Workers : pc[w] \in LivePcs THEN "live" ELSE "idle"

Session == INSTANCE CameraSession WITH on <- using

\* camera_thread implements the session: it begins only while camera_using is set.
SessionSpec == Session!Spec

\* ... and a session nobody wants any more ends, or keeps the camera for good.
SessionLive == Session!LiveSpec

\* As long as no call fails and the first openings do not race, a camera that
\* stays open shows: no start is lost between a close and the next session.
StartServed == [](faults = 0 /\ tears = 0) /\ <>[]using => <>[](phase = "live")

=============================================================================
