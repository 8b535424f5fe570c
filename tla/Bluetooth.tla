------------------------------ MODULE Bluetooth ------------------------------
(***************************************************************************)
(* The Bluetooth part of the panel: the scan thread and the connect thread *)
(* (src/src/user/blue_tooth.c), the refresh_ui thread that redraws the     *)
(* device list and the lvgl_thread that turns touches into handler threads *)
(* (src/src/user/ui_lvgl.c), and the handler itself (src/main.c).          *)
(*                                                                         *)
(* Every pthread mutex is the word of a glibc normal mutex: it has no      *)
(* owner, unlock clears it whoever calls, and pthread_mutex_init clears it *)
(* even while it is held.  The latter matters: bluetooth_scan_thread calls *)
(* init_bluetooth, which initialises four mutexes, after it has locked one *)
(* of them.  "tears" counts, per mutex, how often a held word was cleared  *)
(* that way; the guarantees below say what survives a given count.         *)
(*                                                                         *)
(* A node's next is written once, before the node is published, so a chain *)
(* is the sequence of its blocks.  That picture is exact as long as the    *)
(* message mutex was never torn, the condition of every claim on the list. *)
(*                                                                         *)
(* External, modelled from how the code uses it: BlueZ over D-Bus (which   *)
(* devices it knows, whether a call succeeds), pthread mutexes, malloc and *)
(* the LVGL widgets.                                                       *)
(***************************************************************************)
EXTENDS Naturals, Sequences, FiniteSets, SequencesExt

CONSTANTS
  Workers,      \* detached threads that may run message_handler_thread at a time
  Devices,      \* device paths BlueZ can report with a name and an RSSI
  Nodes,        \* blocks malloc can return for struct Bluetooth_Message
  MaxShow,      \* MAX_SHOW_BLUETOOTH_DEVICE
  MaxFailures,  \* bound: how often init_bluetooth may fail in a behaviour
  Events,       \* the events the user raises in this instance
  NoDevice, Garbled  \* an empty slot or free block; a path read while rewritten

Refresh == "refresh_ui"
Lvgl    == "lvgl_thread"
Threads == Workers \cup {Refresh, Lvgl}

Locks     == {"scan", "message", "accepting", "send", "lvgl"}
AllEvents == {"BLUETOOTH_OPEN", "BLUETOOTH_CLOSE", "BLUETOOTH_CONNECT"}
Screens   == {"MENU_SCREEN", "BULETOOTH_SCREEN"}
Paths     == Devices \cup {NoDevice, Garbled}
Crashes   == {"none", "double free", "freed node", "freed adapter"}

ASSUME ThreadsAssumption ==
  Workers # {} /\ IsFiniteSet(Workers) /\ Workers \cap {Refresh, Lvgl} = {}
ASSUME DevicesAssumption == NoDevice \notin Devices /\ Garbled \notin Devices \cup {NoDevice}
ASSUME BoundsAssumption  ==
  MaxShow \in Nat \ {0} /\ MaxFailures \in Nat /\ IsFiniteSet(Nodes) /\ Events \subseteq AllEvents

VARIABLES
  pc,           \* where each thread is
  word, tears,  \* per mutex: the futex word, and how often init cleared it held
  using,        \* bluetooth_scan_using
  initFlag,     \* init_flag of blue_tooth.c
  adapter,      \* what adapter_proxy points to
  failures,     \* init_bluetooth calls that returned 1 (see MaxFailures)
  discovering,  \* BlueZ is discovering on behalf of this process
  refused,      \* history: BlueZ refused the last StopDiscovery it was sent
  heap,         \* the device in each block, NoDevice when the block is free
  head,         \* bluetooth_message_head: the chain of blocks it leads to
  tmp, todo,    \* per scanner: the node being linked, the objects still to visit
  crash,        \* the undefined behaviour that ended the process, if any
  loaded,       \* the screen LVGL shows (lv_scr_load)
  present,      \* present_screen
  buttons,      \* the devices the list widget shows, in order
  slots,        \* refresh_ui's static bluetooth_device_path[][]
  cur,          \* refresh_ui's cursor: the rest of the chain
  pressed,      \* the button under the finger
  arg,          \* per handler: the slot its param points to
  wanted,       \* history, per handler: the device its button showed
  target        \* per handler: the device of device_proxy

locks == <<word, tears>>
scan  == <<using, initFlag, adapter, failures, discovering, refused>>
list  == <<heap, head, tmp, todo>>
ui    == <<loaded, present, buttons, slots, cur, pressed>>
conn  == <<arg, wanted, target>>
data  == <<scan, list, crash, ui, conn>>
vars  == <<pc, locks, data>>

Live       == {n \in Nodes : heap[n] # NoDevice}
NoButton   == [event |-> "NONE", slot |-> 0]
Button     == [event : AllEvents, slot : 0 .. MaxShow]

-----------------------------------------------------------------------------
(* Program counters.  Section[m] is where a thread is between its lock and  *)
(* its unlock of mutex m.                                                   *)

LoopPcs == {"test", "loop_accepting", "loop_message", "loop_clean", "loop_unaccepting",
            "loop_reset", "update", "link", "loop_unmessage"}
EndPcs  == {"stop", "end_accepting", "end_message", "end_clean", "end_unaccepting",
            "end_unmessage", "end_unscan"}
AcceptPcs == {"proxy", "connect", "conn_unlock"}

Section ==
  [scan      |-> {"init", "mutexes", "bus", "start"} \cup LoopPcs \cup EndPcs,
   accepting |-> {"loop_message", "loop_clean", "loop_unaccepting", "end_message",
                  "end_clean", "end_unaccepting"} \cup AcceptPcs,
   message   |-> {"loop_clean", "loop_unaccepting", "loop_reset", "update", "link",
                  "loop_unmessage", "end_clean", "end_unaccepting", "end_unmessage",
                  "list_lvgl", "rebuild", "walk", "row", "list_unlvgl", "list_unmessage"},
   lvgl      |-> {"label", "rebuild", "walk", "row", "list_unlvgl", "handler"},
   send      |-> {}]

\* Where a thread waits for mutex m, and the mutexes that are locked after m.
Waits ==
  [scan |-> {"scan_lock"}, accepting |-> {"loop_accepting", "end_accepting", "conn_lock"},
   message |-> {"loop_message", "end_message", "list_message"},
   lvgl |-> {"sleep", "list_lvgl", "loop"}, send |-> {}]

Behind ==
  [scan |-> {"accepting", "message", "lvgl"}, accepting |-> {"message", "lvgl"},
   message |-> {"lvgl"}, lvgl |-> {}, send |-> {}]

WorkerPcs  == {"idle", "open", "open_using", "open_present", "scan_lock", "close", "close_load",
               "close_present", "conn_lock"} \cup Section["scan"] \cup AcceptPcs
WalkPcs    == {"walk", "row"}
RefreshPcs == {"sleep", "label", "switch", "list_message", "list_lvgl", "rebuild", "list_unlvgl",
               "list_unmessage"} \cup WalkPcs
LvglPcs    == {"loop", "handler"}

Inside(m)  == {t \in Threads : pc[t] \in Section[m]}
Blocked(t) == \E m \in Locks : pc[t] \in Waits[m] /\ word[m] = 1

Goto(t, from, to) == pc[t] = from /\ pc' = [pc EXCEPT ![t] = to]

\* pthread_mutex_lock and pthread_mutex_unlock.
Lock(t, m, from, to) ==
  /\ Goto(t, from, to)
  /\ word[m] = 0
  /\ word' = [word EXCEPT ![m] = 1]
  /\ UNCHANGED tears

Unlock(t, m, from, to) ==
  /\ Goto(t, from, to)
  /\ word' = [word EXCEPT ![m] = 0]
  /\ UNCHANGED tears

-----------------------------------------------------------------------------
(* message_handler_thread, case BLUETOOTH_OPEN, up to bluetooth_scan_thread *)

OpenLoad(w) ==
  /\ Goto(w, "open", "open_using")
  /\ loaded' = "BULETOOTH_SCREEN"
  /\ UNCHANGED <<locks, scan, list, crash, present, buttons, slots, cur, pressed, conn>>

OpenUsing(w) ==
  /\ Goto(w, "open_using", "open_present")
  /\ using' = TRUE
  /\ UNCHANGED <<locks, initFlag, adapter, failures, discovering, refused, list, crash, ui, conn>>

OpenPresent(w) ==
  /\ Goto(w, "open_present", "scan_lock")
  /\ present' = "BULETOOTH_SCREEN"
  /\ UNCHANGED <<locks, scan, list, crash, loaded, buttons, slots, cur, pressed, conn>>

ScanLock(w) == Lock(w, "scan", "scan_lock", "init") /\ UNCHANGED data

-----------------------------------------------------------------------------
(* init_bluetooth.  Its result is ignored: a failed call goes on to scan.   *)

\* Mutant: the mutexes are initialised by every opening.
InitAlways(w) == Goto(w, "init", "mutexes") /\ UNCHANGED <<locks, data>>

InitCheck(w) ==
  Goto(w, "init", IF initFlag THEN "start" ELSE "mutexes") /\ UNCHANGED <<locks, data>>

InitMutexes(w) ==
  LET inits == Locks \ {"lvgl"}
  IN /\ Goto(w, "mutexes", "bus")
     /\ word'  = [m \in Locks |-> IF m \in inits THEN 0 ELSE word[m]]
     /\ tears' = [m \in Locks |-> IF m \in inits THEN tears[m] + word[m] ELSE tears[m]]
     /\ UNCHANGED data

InitDone(w) ==
  /\ Goto(w, "bus", "start")
  /\ initFlag' = TRUE
  /\ adapter' = "valid"
  /\ UNCHANGED <<locks, using, failures, discovering, refused, list, crash, ui, conn>>

\* The bus fails (adapter_proxy keeps its value), the adapter's proxy fails, or
\* the object manager fails, after which adapter_proxy points to a freed proxy.
InitFail(w) ==
  /\ failures < MaxFailures
  /\ Goto(w, "bus", "start")
  /\ failures' = failures + 1
  /\ adapter' \in {adapter, "null", "freed"}
  /\ UNCHANGED <<locks, using, initFlag, discovering, refused, list, crash, ui, conn>>

-----------------------------------------------------------------------------
(* The loop of bluetooth_scan_thread and what follows it                    *)

\* scan_devices and unscan_devices call through adapter_proxy: a call through
\* NULL does nothing, one through a freed proxy does nothing or ends the process.
Start(w) ==
  /\ Goto(w, "start", "test")
  /\ discovering' \in (IF adapter = "valid" THEN {TRUE, discovering} ELSE {discovering})
  /\ crash' \in (IF adapter = "freed" THEN {"none", "freed adapter"} ELSE {"none"})
  /\ UNCHANGED <<locks, using, initFlag, adapter, failures, refused, list, ui, conn>>

Test(w) ==
  Goto(w, "test", IF using THEN "loop_accepting" ELSE "stop") /\ UNCHANGED <<locks, data>>

\* Mutant: the loop cleans without taking the accepting mutex.
LoopSkipsAccepting(w) ==
  Goto(w, "loop_accepting", "loop_message") /\ UNCHANGED <<locks, data>>

LoopAccepting(w) == Lock(w, "accepting", "loop_accepting", "loop_message") /\ UNCHANGED data

LoopMessage(w) == Lock(w, "message", "loop_message", "loop_clean") /\ UNCHANGED data

\* clean_bluetooth_message(bluetooth_message_head); head keeps its old value.
Clean ==
  /\ heap' = [n \in Nodes |-> IF n \in ToSet(head) THEN NoDevice ELSE heap[n]]
  /\ crash' = IF ToSet(head) \subseteq Live THEN "none" ELSE "double free"

LoopClean(w) ==
  /\ Goto(w, "loop_clean", "loop_unaccepting")
  /\ Clean
  /\ UNCHANGED <<locks, scan, head, tmp, todo, ui, conn>>

\* Mutant: the two unlocks of the loop are exchanged.
LoopUnlocksMessage(w) ==
  Unlock(w, "message", "loop_unaccepting", "loop_reset") /\ UNCHANGED data

LoopUnaccepting(w) ==
  /\ Unlock(w, "accepting", "loop_unaccepting", "loop_reset")
  /\ UNCHANGED data

\* head = NULL, sleep(3), and the objects the manager reports from then on.
LoopReset(w) ==
  /\ Goto(w, "loop_reset", "update")
  /\ head' = <<>>
  /\ todo' = [todo EXCEPT ![w] = IF initFlag THEN Devices ELSE {}]
  /\ UNCHANGED <<locks, scan, heap, tmp, crash, ui, conn>>

\* malloc: which of the free blocks it returns makes no difference.
FreeNode == CHOOSE n \in Nodes : heap[n] = NoDevice

\* Mutant: tmp->next is left NULL.
AddUnlinked(w) ==
  /\ Goto(w, "update", "link")
  /\ Live # Nodes
  /\ \E d \in todo[w] :
       /\ heap' = [heap EXCEPT ![FreeNode] = d]
       /\ tmp'  = [tmp EXCEPT ![w] = <<FreeNode>>]
       /\ todo' = [todo EXCEPT ![w] = @ \ {d}]
  /\ UNCHANGED <<locks, scan, head, crash, ui, conn>>

\* updata_bluetooth_scandevices visits an object that has an RSSI and a name;
\* add_bluetooth_message fills a node and points its next at the head ...
Add(w) ==
  /\ Goto(w, "update", "link")
  /\ Live # Nodes
  /\ \E d \in todo[w] :
       /\ heap' = [heap EXCEPT ![FreeNode] = d]
       /\ tmp'  = [tmp EXCEPT ![w] = <<FreeNode>> \o head]
       /\ todo' = [todo EXCEPT ![w] = @ \ {d}]
  /\ UNCHANGED <<locks, scan, head, crash, ui, conn>>

\* ... then publishes it.
Link(w) ==
  /\ Goto(w, "link", "update")
  /\ head' = tmp[w]
  /\ tmp' = [tmp EXCEPT ![w] = <<>>]
  /\ UNCHANGED <<locks, scan, heap, todo, crash, ui, conn>>

\* The objects left have no RSSI or no name, or a proxy failed: return.
UpdateDone(w) ==
  /\ Goto(w, "update", "loop_unmessage")
  /\ todo' = [todo EXCEPT ![w] = {}]
  /\ UNCHANGED <<locks, scan, heap, head, tmp, crash, ui, conn>>

\* Mutant: the loop goes round with the message mutex still locked.
LoopKeepsMessage(w) ==
  Goto(w, "loop_unmessage", "test") /\ UNCHANGED <<locks, data>>

LoopUnmessage(w) ==
  /\ Unlock(w, "message", "loop_unmessage", "test")
  /\ UNCHANGED data

\* Mutant: the thread leaves without unscan_devices.
StopForgotten(w) ==
  Goto(w, "stop", "end_accepting") /\ UNCHANGED <<locks, data>>

\* unscan_devices: the error of a StopDiscovery that fails is printed, and the scan
\* ends with BlueZ still discovering.
Stop(w) ==
  /\ Goto(w, "stop", "end_accepting")
  /\ discovering' \in (IF adapter = "valid" THEN {FALSE, discovering} ELSE {discovering})
  /\ refused' = IF adapter = "valid" THEN discovering' ELSE refused
  /\ crash' \in (IF adapter = "freed" THEN {"none", "freed adapter"} ELSE {"none"})
  /\ UNCHANGED <<locks, using, initFlag, adapter, failures, list, ui, conn>>

\* Mutant: the message mutex is taken twice at the end of a scan.
EndLocksMessage(w) == Lock(w, "message", "end_accepting", "end_message") /\ UNCHANGED data

EndAccepting(w) == Lock(w, "accepting", "end_accepting", "end_message") /\ UNCHANGED data

EndMessage(w) == Lock(w, "message", "end_message", "end_clean") /\ UNCHANGED data

\* Mutants: the head survives the free; the nodes survive the reset.
EndCleanKeepsHead(w) ==
  /\ Goto(w, "end_clean", "end_unaccepting")
  /\ Clean
  /\ UNCHANGED <<locks, scan, head, tmp, todo, ui, conn>>

EndCleanSkipped(w) ==
  /\ Goto(w, "end_clean", "end_unaccepting")
  /\ head' = <<>>
  /\ UNCHANGED <<locks, scan, heap, tmp, todo, crash, ui, conn>>

EndClean(w) ==
  /\ Goto(w, "end_clean", "end_unaccepting")
  /\ Clean
  /\ head' = <<>>
  /\ UNCHANGED <<locks, scan, tmp, todo, ui, conn>>

EndUnaccepting(w) ==
  /\ Unlock(w, "accepting", "end_unaccepting", "end_unmessage")
  /\ UNCHANGED data

\* Mutant: the last unlock of the message mutex is missing.
EndKeepsMessage(w) ==
  Goto(w, "end_unmessage", "end_unscan") /\ UNCHANGED <<locks, data>>

EndUnmessage(w) ==
  /\ Unlock(w, "message", "end_unmessage", "end_unscan")
  /\ UNCHANGED data

EndUnscan(w) ==
  /\ Unlock(w, "scan", "end_unscan", "idle")
  /\ UNCHANGED data

-----------------------------------------------------------------------------
(* message_handler_thread, cases BLUETOOTH_CLOSE and BLUETOOTH_CONNECT      *)

CloseUsing(w) ==
  /\ Goto(w, "close", "close_load")
  /\ using' = FALSE
  /\ UNCHANGED <<locks, initFlag, adapter, failures, discovering, refused, list, crash, ui, conn>>

CloseLoad(w) ==
  /\ Goto(w, "close_load", "close_present")
  /\ loaded' = "MENU_SCREEN"
  /\ UNCHANGED <<locks, scan, list, crash, present, buttons, slots, cur, pressed, conn>>

ClosePresent(w) ==
  /\ Goto(w, "close_present", "idle")
  /\ present' = "MENU_SCREEN"
  /\ UNCHANGED <<locks, scan, list, crash, loaded, buttons, slots, cur, pressed, conn>>

ConnLock(w) == Lock(w, "accepting", "conn_lock", "proxy") /\ UNCHANGED data

\* device_proxy is made from the slot as it reads now; refresh_ui may be copying
\* another path into it at the same time.
Rewriting(s) == pc[Refresh] = "walk" /\ cur # <<>> /\ Len(buttons) + 1 = s

Proxy(w) ==
  /\ Goto(w, "proxy", "connect")
  /\ \E d \in {slots[arg[w]]} \cup (IF Rewriting(arg[w]) THEN {Garbled} ELSE {}) :
       target' = [target EXCEPT ![w] = d]
  /\ UNCHANGED <<locks, scan, list, crash, ui, arg, wanted>>

\* Pair, Connect and the note of the connected device, which only
\* disaccept_bluetooth reads.
Connect(w) ==
  Goto(w, "connect", "conn_unlock") /\ UNCHANGED <<locks, data>>

\* Mutant: an error path that returns without the unlock.
ConnReturnsLocked(w) ==
  /\ Goto(w, "conn_unlock", "idle")
  /\ arg'    = [arg EXCEPT ![w] = 0]
  /\ wanted' = [wanted EXCEPT ![w] = NoDevice]
  /\ target' = [target EXCEPT ![w] = NoDevice]
  /\ UNCHANGED <<locks, scan, list, crash, ui>>

ConnUnlock(w) ==
  /\ Unlock(w, "accepting", "conn_unlock", "idle")
  /\ arg'    = [arg EXCEPT ![w] = 0]
  /\ wanted' = [wanted EXCEPT ![w] = NoDevice]
  /\ target' = [target EXCEPT ![w] = NoDevice]
  /\ UNCHANGED <<scan, list, crash, ui>>

-----------------------------------------------------------------------------
(* refresh_ui                                                               *)

LabelLock == Lock(Refresh, "lvgl", "sleep", "label") /\ UNCHANGED data

LabelUnlock ==
  /\ Unlock(Refresh, "lvgl", "label", "switch")
  /\ UNCHANGED data

Switch ==
  /\ Goto(Refresh, "switch", IF present = "BULETOOTH_SCREEN" THEN "list_message" ELSE "sleep")
  /\ UNCHANGED <<locks, data>>

\* Mutant: the list is walked without the message mutex.
ListMessageUnlocked ==
  Goto(Refresh, "list_message", "list_lvgl") /\ UNCHANGED <<locks, data>>

ListMessage == Lock(Refresh, "message", "list_message", "list_lvgl") /\ UNCHANGED data

ListLvgl == Lock(Refresh, "lvgl", "list_lvgl", "rebuild") /\ UNCHANGED data

\* lv_obj_clean deletes the buttons; a finger on one of them loses its press.
Rebuild ==
  /\ Goto(Refresh, "rebuild", "walk")
  /\ buttons' = <<>>
  /\ cur' = head
  /\ pressed' = IF pressed.event = "BLUETOOTH_CONNECT" THEN NoButton ELSE pressed
  /\ UNCHANGED <<locks, scan, list, crash, loaded, present, slots, conn>>

\* Mutants: one row too many, one too few.
RowLimitPassed == Len(buttons) <= MaxShow
RowLimitEarly  == Len(buttons) + 1 < MaxShow

\* if(j >= 20) break;
RoomForRow == Len(buttons) < MaxShow

\* A read of a node.  One that was freed ends the process or gives garbage.
Read(n) == IF heap[n] = NoDevice THEN Garbled ELSE heap[n]
Fault(n) ==
  crash' \in (IF heap[n] = NoDevice THEN {"none", "freed node"} ELSE {"none"})

\* The path is copied into the slot of the row ...
Walk ==
  /\ Goto(Refresh, "walk", "row")
  /\ cur # <<>> /\ RoomForRow
  /\ slots' = [slots EXCEPT ![Len(buttons) + 1] = Read(Head(cur))]
  /\ Fault(Head(cur))
  /\ UNCHANGED <<locks, scan, list, loaded, present, buttons, cur, pressed, conn>>

\* ... then name and address are read for its button, and next for the next row.
Row ==
  /\ Goto(Refresh, "row", "walk")
  /\ buttons' = Append(buttons, Read(Head(cur)))
  /\ cur' = Tail(cur)
  /\ Fault(Head(cur))
  /\ UNCHANGED <<locks, scan, list, loaded, present, slots, pressed, conn>>

WalkDone ==
  /\ Goto(Refresh, "walk", "list_unlvgl")
  /\ cur = <<>> \/ ~RoomForRow
  /\ cur' = <<>>
  /\ UNCHANGED <<locks, scan, list, crash, loaded, present, buttons, slots, pressed, conn>>

ListUnlvgl ==
  /\ Unlock(Refresh, "lvgl", "list_unlvgl", "list_unmessage")
  /\ UNCHANGED data

ListUnmessage ==
  /\ Unlock(Refresh, "message", "list_unmessage", "sleep")
  /\ UNCHANGED data

-----------------------------------------------------------------------------
(* lvgl_thread: lv_timer_handler reads the touch panel and calls the events *)

LvglLock == Lock(Lvgl, "lvgl", "loop", "handler") /\ UNCHANGED data

LvglUnlock ==
  /\ Unlock(Lvgl, "lvgl", "handler", "loop")
  /\ UNCHANGED data

ButtonsOn(screen) ==
  IF screen = "MENU_SCREEN"
    THEN {[event |-> "BLUETOOTH_OPEN", slot |-> 0]}
    ELSE {[event |-> "BLUETOOTH_CLOSE", slot |-> 0]} \cup
         {[event |-> "BLUETOOTH_CONNECT", slot |-> i] : i \in 1 .. Len(buttons)}

Press ==
  /\ pc[Lvgl] = "handler"
  /\ pressed = NoButton
  /\ \E b \in ButtonsOn(loaded) : b.event \in Events /\ pressed' = b
  /\ UNCHANGED <<pc, locks, scan, list, crash, loaded, present, buttons, slots, cur, conn>>

FirstPc == [e \in AllEvents |->
  CASE e = "BLUETOOTH_OPEN"    -> "open"
    [] e = "BLUETOOTH_CLOSE"   -> "close"
    [] e = "BLUETOOTH_CONNECT" -> "conn_lock"]

\* LV_EVENT_RELEASED: a detached thread runs message_handler_thread.
Release(w) ==
  /\ pc[Lvgl] = "handler"
  /\ pressed # NoButton
  /\ Goto(w, "idle", FirstPc[pressed.event])
  /\ pressed' = NoButton
  /\ arg' = [arg EXCEPT ![w] = pressed.slot]
  /\ wanted' = [wanted EXCEPT ![w] = IF pressed.slot = 0 THEN NoDevice ELSE buttons[pressed.slot]]
  /\ UNCHANGED <<locks, scan, list, crash, loaded, present, buttons, slots, cur, target>>

-----------------------------------------------------------------------------

Init ==
  /\ pc = [t \in Threads |-> IF t = Refresh THEN "sleep" ELSE IF t = Lvgl THEN "loop" ELSE "idle"]
  /\ word = [m \in Locks |-> 0] /\ tears = [m \in Locks |-> 0]
  /\ using = FALSE /\ initFlag = FALSE /\ adapter = "null" /\ failures = 0
  /\ discovering = FALSE /\ refused = FALSE
  /\ heap = [n \in Nodes |-> NoDevice] /\ head = <<>>
  /\ tmp = [w \in Workers |-> <<>>] /\ todo = [w \in Workers |-> {}]
  /\ crash = "none"
  /\ loaded = "MENU_SCREEN" /\ present = "MENU_SCREEN" /\ buttons = <<>>
  /\ slots = [i \in 1 .. MaxShow |-> NoDevice] /\ cur = <<>> /\ pressed = NoButton
  /\ arg = [w \in Workers |-> 0]
  /\ wanted = [w \in Workers |-> NoDevice] /\ target = [w \in Workers |-> NoDevice]

OpenStep(w)    == OpenLoad(w) \/ OpenUsing(w) \/ OpenPresent(w) \/ ScanLock(w)
InitStep(w)    == InitCheck(w) \/ InitMutexes(w) \/ InitDone(w) \/ InitFail(w)
UpdateStep(w)  == Add(w) \/ Link(w) \/ UpdateDone(w)
LoopStep(w)    == \/ Start(w) \/ Test(w) \/ LoopAccepting(w) \/ LoopMessage(w) \/ LoopClean(w)
                  \/ LoopUnaccepting(w) \/ LoopReset(w) \/ UpdateStep(w) \/ LoopUnmessage(w)
EndStep(w)     == \/ Stop(w) \/ EndAccepting(w) \/ EndMessage(w) \/ EndClean(w)
                  \/ EndUnaccepting(w) \/ EndUnmessage(w) \/ EndUnscan(w)
CloseStep(w)   == CloseUsing(w) \/ CloseLoad(w) \/ ClosePresent(w)
ConnectStep(w) == ConnLock(w) \/ Proxy(w) \/ Connect(w) \/ ConnUnlock(w)
HandlerStep(w) == \/ OpenStep(w) \/ InitStep(w) \/ LoopStep(w) \/ EndStep(w)
                  \/ CloseStep(w) \/ ConnectStep(w)
RefreshStep    == \/ LabelLock \/ LabelUnlock \/ Switch \/ ListMessage \/ ListLvgl \/ Rebuild
                  \/ Walk \/ Row \/ WalkDone \/ ListUnlvgl \/ ListUnmessage
LvglStep       == LvglLock \/ LvglUnlock
UserStep       == Press \/ \E w \in Workers : Release(w)

Running == crash = "none"

Next == Running /\ ((\E w \in Workers : HandlerStep(w)) \/ RefreshStep \/ LvglStep \/ UserStep)

Spec == Init /\ [][Next]_vars

(* Every thread is scheduled, and one that waits for a mutex which is free   *)
(* again and again gets it.  Three exceptions.  The user owes nothing.  Of   *)
(* lvgl_thread no more is needed than that lv_timer_handler returns.  And a  *)
(* thread asleep on the scan mutex when init_bluetooth clears the word is    *)
(* not woken by the later unlock, so entering that mutex is never promised.  *)
Fairness ==
  /\ \A w \in Workers : SF_vars(Running /\ pc[w] # "scan_lock" /\ HandlerStep(w))
  /\ SF_vars(Running /\ RefreshStep)
  /\ WF_vars(Running /\ LvglUnlock)

FairSpec == Spec /\ Fairness

-----------------------------------------------------------------------------
(* Properties                                                               *)

PcOK ==
  /\ pc \in [Threads -> WorkerPcs \cup RefreshPcs \cup LvglPcs]
  /\ \A w \in Workers : pc[w] \in WorkerPcs
  /\ pc[Refresh] \in RefreshPcs /\ pc[Lvgl] \in LvglPcs

LocksOK == word \in [Locks -> 0 .. 1] /\ tears \in [Locks -> Nat]

ScanOK ==
  /\ using \in BOOLEAN /\ initFlag \in BOOLEAN /\ discovering \in BOOLEAN /\ refused \in BOOLEAN
  /\ adapter \in {"null", "valid", "freed"} /\ failures \in 0 .. MaxFailures

ListOK ==
  /\ heap \in [Nodes -> Devices \cup {NoDevice}] /\ head \in Seq(Nodes)
  /\ tmp \in [Workers -> Seq(Nodes)] /\ todo \in [Workers -> SUBSET Devices]
  /\ crash \in Crashes

UiOK ==
  /\ loaded \in Screens /\ present \in Screens
  /\ buttons \in Seq(Paths) /\ Len(buttons) <= MaxShow
  /\ slots \in [1 .. MaxShow -> Paths] /\ cur \in Seq(Nodes)
  /\ pressed \in Button \cup {NoButton} /\ pressed.slot <= Len(buttons)
  /\ pressed.event = "BLUETOOTH_CONNECT" <=> pressed.slot # 0

ConnOK ==
  /\ arg \in [Workers -> 0 .. MaxShow]
  /\ wanted \in [Workers -> Paths] /\ target \in [Workers -> Paths]
  /\ \A w \in Workers : pc[w] \in {"conn_lock"} \cup AcceptPcs => arg[w] # 0

RowOK == pc[Refresh] = "row" => cur # <<>> /\ RoomForRow

\* Types, the bound MAX_SHOW_BLUETOOTH_DEVICE on the rows refresh_ui fills, a press
\* of a list button being a press of one that exists, and a connect having a slot.
TypeOK == PcOK /\ LocksOK /\ ScanOK /\ ListOK /\ UiOK /\ ConnOK /\ RowOK

\* At most one thread is between lock and unlock of a mutex, plus one for each
\* time the mutex was initialised while held; a mutex that reads free hides as
\* many owners as it was torn.  For lvgl_mutex, which init_bluetooth leaves
\* alone, this is mutual exclusion.
LockDebt == \A m \in Locks : Cardinality(Inside(m)) <= word[m] + tears[m]

\* Threads never wait for each other in a circle, and no mutex is left locked: a
\* held one has a thread in its section, and of the threads in that section or in
\* those of the mutexes locked after it one can go on.  Tears change nothing here.
NoDeadlock ==
  \A m \in Locks : word[m] = 1 =>
    /\ Inside(m) # {}
    /\ \E k \in {m} \cup Behind[m] : \E t \in Inside(k) : ~Blocked(t)

\* Once init_bluetooth has succeeded and no opening is about to clear the words,
\* none ever will be, and a mutex whose surplus owners have left excludes again for
\* good: the damage of the first openings passes.
Settled == initFlag /\ \A w \in Workers : pc[w] # "mutexes"
Sound(m) == Cardinality(Inside(m)) <= word[m]

MutexesHeal ==
  [][\A m \in Locks : Settled /\ Sound(m) => (Settled /\ Sound(m))']_vars

\* While the message mutex has never been torn, refresh_ui walks allocated nodes
\* only: no scanner frees the list under its cursor.
WalkIsLive == tears["message"] = 0 /\ pc[Refresh] \in WalkPcs => ToSet(cur) \subseteq Live

\* ... no node is freed twice, across the loop's clean, the clean at the end of
\* a scan and the scans of later openings,
NoDoubleFree == tears["message"] = 0 => crash \notin {"double free", "freed node"}

\* ... whenever the mutex is free the list is exactly the allocated nodes, each
\* once: nothing leaked, nothing lost, nothing dangling,
ListComplete ==
  tears["message"] = 0 /\ word["message"] = 0 =>
    Live = ToSet(head) /\ IsInjective(head)

Rows(s) == [i \in 1 .. (IF Len(s) < MaxShow THEN Len(s) ELSE MaxShow) |-> heap[s[i]]]

\* ... and what refresh_ui has drawn when it lets go is the list of that moment,
\* cut at MAX_SHOW_BLUETOOTH_DEVICE rows, not a mixture of two scans.
DisplayIsSnapshot ==
  tears["message"] = 0 /\ pc[Refresh] \in {"list_unlvgl", "list_unmessage"} =>
    buttons = Rows(head)

\* ... nodes exist only while some scan thread is still going to clean them,
ListOwned ==
  tears["message"] = 0 /\ Live # {} =>
    \E w \in Workers : pc[w] \in LoopPcs \cup {"stop", "end_accepting", "end_message", "end_clean"}

\* ... the slot behind each button names the device the button shows, though path and
\* name are read one after the other: what a press hands over is right when it is
\* handed over,
ButtonsNameSlots ==
  tears["message"] = 0 => \A i \in 1 .. Len(buttons) : slots[i] = buttons[i]

\* The list and its picture implement DeviceBoard: the board is empty from a clean
\* until the scan lets go of the message mutex, and the picture is drawn at once
\* when refresh_ui begins its walk.
Updating ==
  \E w \in Workers : pc[w] \in {"loop_unaccepting", "loop_reset", "update", "link", "loop_unmessage"}

Board == INSTANCE DeviceBoard WITH
  board   <- IF Updating THEN <<>> ELSE [i \in 1 .. Len(head) |-> heap[head[i]]],
  picture <- IF pc[Refresh] \in WalkPcs THEN Rows(head) ELSE buttons,
  intact  <- tears["message"] = 0

BoardSpec == Board!Spec

\* Discovery outlives the scans only if BlueZ refused the last StopDiscovery, or if a
\* failed initialisation took adapter_proxy away under a scan: no overlap of openings
\* and closings loses a stop, and a refused one is made good by the next that succeeds.
Lost == failures > 0 /\ adapter # "valid"

DiscoveryOwned ==
  discovering =>
    refused \/ Lost \/ \E w \in Workers : pc[w] \in {"start", "stop"} \cup LoopPcs

\* A step never frees a list node while a connect is under way, unless the
\* accepting mutex was torn.
CleanWaitsForAccept ==
  [][tears["accepting"] = 0 /\ (\E w \in Workers : pc[w] \in AcceptPcs) =>
       Live \subseteq Live']_vars

Intact == tears["message"] = 0 /\ tears["accepting"] = 0

\* refresh_ui always comes round again, however the scans hold the list.
RefreshProgress == []Intact => []<>(pc[Refresh] = "sleep")

\* Once Bluetooth stays closed, every scan ends, failed initialisations or not, and
\* discovery with it, but for the two ways in which its stop can fail.
QuietAfterClose ==
  [](Intact /\ Running) /\ <>[]~using =>
    <>[](Inside("scan") = {} /\ (discovering => refused \/ Lost))

\* A connect that was asked for is carried out, however scans clean the list.
ConnectAnswered == \A w \in Workers : []Intact => (pc[w] = "conn_lock" ~> pc[w] = "idle")

\* blue_tooth.c:9 says bluetooth_mutex_scan prevents Bluetooth from being opened
\* several times: at most one thread is in the scan section.
OneScanner == Cardinality(Inside("scan")) <= 1

\* blue_tooth.c:253 "Connect to the device": the device connected to is the one
\* whose button was released.
ConnectsToPressedDevice ==
  \A w \in Workers : pc[w] = "connect" /\ target[w] \in Devices => target[w] = wanted[w]

=============================================================================
