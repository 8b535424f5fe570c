# linux_slab in TLA+

Specifications, model checks and proofs for the touch-panel program in this
repository: `main.c`, `src/user/*.c` and `src/decode_jpg.c`, an application for
an STM32MP157 board that shows an LVGL interface and drives a USB camera, a
Bluetooth toy car, a serial voice module and a OneNET publisher, each from
threads of its own. Paths below are relative to the root of the repository.

## 1. The system

| part | code | state it keeps | operations |
|---|---|---|---|
| dispatch | `main.c:44-101` | `present_screen`, the two `*_using` flags | `message_handler_thread`: one detached thread per event, with a `switch` over nine events |
| UI | `src/user/ui_lvgl.c` | `lvgl_mutex`, widgets, the rows of the device list and their static path slots | `lvgl_thread` (sets up, then runs `lv_timer_handler` for ever), `refresh_ui` (redraws the list), three event callbacks that start handlers |
| Bluetooth | `src/user/blue_tooth.c` | four mutexes, `init_flag`, BlueZ proxies, the linked list of devices found | `bluetooth_scan_thread`, `accept_bluetooth`, `bluetooth_send`, `disaccept_bluetooth` |
| car control | `ui_lvgl.c:104-149, 372-412` | none of its own | a press sends a command character, the release sends `p` |
| camera | `src/user/usb_camera.c` | `camera_mutex`, `camera_using`, ten mapped V4L2 buffers, the file counter | `camera_thread`: open, map, stream, decode and show, close |
| decoder | `src/decode_jpg.c` | the static RGB565 picture | `decode_jpg2` |
| voice control | `src/user/voice_control.c` | none | reads "open camera" / "close camera" from the UART and starts handlers |
| tick | `main.c:131-147` | the first reading of the clock | `custom_tick_get`, LVGL's millisecond clock |
| publisher | `src/user/onenet_mqtt.c` | none | connect until it succeeds, publish every four seconds |

**Interaction.** A touch is handled inside `lv_timer_handler`, under
`lvgl_mutex`; the callback only starts a detached handler thread. Handlers are
not ordered among each other, and one of them *is* the scan (or the camera
session) for as long as it lasts. Threads share memory only: flags without
locks, the device list under `bluetooth_message_mutex`, connects and cleans
under `bluetooth_accepting`, scans under `bluetooth_mutex_scan`, LVGL under
`lvgl_mutex` (with exceptions), the camera under `camera_mutex`.

**What is hard.** The order of handler threads; the device list, which one
thread frees while another walks it and a third was started from a row of it;
nested locks held over sleeps and D-Bus calls; mutexes that are initialised by
a thread that already holds them; static buffers that outlive what they were
filled with; error returns that keep a lock. `PROJECT.json` lists each hazard
at its line.

**What makes each part correct.** Bluetooth: the list is exactly the allocated
nodes, freed once, never walked freed, never freed under a connect; one scan at
a time; discovery ends with the scans unless its stop fails; a connect reaches
the device whose button was pressed; nobody waits for ever. UI: one thread in LVGL at a time,
rows that are one scan's list, at most twenty of them. Dispatch: the screen
loaded, the screen `refresh_ui` redraws and the two flags agree. Camera: one session at a
time that ends after the close and can be opened again; each buffer is owned by
the driver or the program. Car control: every command is sent once, and a car nobody drives
stands still. Voice control: a handler gets a parameter. Tick and timers: no
timer is held up, none runs before its time.

## 2. Modules

| module | what it is |
|---|---|
| `Bluetooth` | the scan threads, the connect threads, `refresh_ui`, `lvgl_thread` and the Bluetooth events of the handler, with the user's finger; its properties; the mutated operators used to test those properties |
| `DeviceBoard` | what the device list promises, abstractly; `Bluetooth` is shown to implement it |
| `BluetoothProofs` | type correctness, the bound on the owners of a mutex, freedom from deadlock and the healing of torn mutexes, proved |
| `BluetoothListProofs` | the safety of the device list, of connects and of the slots behind the buttons, proved |
| `BluetoothScanProofs` | that the list ends with the scans, when discovery does not, and that `Bluetooth` implements `DeviceBoard`, proved |
| `CarControl` | the drive buttons, the handlers they start, `bluetooth_send` and the part of `init_bluetooth` it depends on |
| `CommandLink` | what car control promises, abstractly; `CarControl` is shown to implement it |
| `CarControlProofs` | the mutexes, the fate of commands, the order of stops and the refinement, proved |
| `Panel` | extends `CarControl` with every screen, its buttons and `message_handler_thread`; shown to implement `CarControl` |
| `PanelProofs` | that refinement, what it carries over from `CarControlProofs` (through an instance of it), and the agreement of screens and flags, proved |
| `Voice` | extends `Panel` with the UART thread |
| `Tick` | the arithmetic of `custom_tick_get` and `lv_tick_elaps`, as operators |
| `Timers` | extends `Tick`: one LVGL timer and the two threads that call `lv_timer_handler` |
| `TimersProofs` | that timers are neither late nor early, proved for any widths |
| `Camera` | `camera_thread` and the handlers of `CAMERA_START` and `CAMERA_CLOSE`, with the V4L2 driver and the finger; its properties and mutated operators |
| `CameraSession` | what the camera promises, abstractly; `Camera` is shown to implement it |
| `CameraProofs` | types, ownership of the buffers and mappings of `Camera`, proved |
| `CameraSessionProofs` | its mutex, that a session holding it can go on, its descriptors, and that it implements `CameraSession`, proved |
| `Picture` | extends `Camera` with LVGL in `lvgl_thread` |
| `MCBluetooth`, `MCCarControl`, `MCPanel`, `MCVoice`, `MCTimers`, `MCCamera`, `MCPicture` | instances for TLC: values, symmetry, state constraints |

### Bluetooth

One step of the model is one access to shared state: a lock, an unlock, a write
of a flag, a screen load, one node added to the list. A row of the display is two
steps, as the code reads the node twice: the path is copied into the slot
(`Walk`), then name and address are read for the button (`Row`). A program
counter per thread names the statement it is about to execute;
`HandlerStep(w)` is `message_handler_thread` with everything it calls. The
operators carry the names of the functions, and `map` in `PROJECT.json` gives
each one its lines.

| code | model |
|---|---|
| the futex word of a `pthread_mutex_t` | `word[m]`; `Lock` waits for 0, `Unlock` writes 0 whoever calls, `InitMutexes` writes 0 whoever holds it |
| handler threads | `Workers`: a fixed set of threads that are started by `Release` and return to `idle` |
| `bluetooth_message_head` and the `next` chain | `head`: the sequence of blocks the chain leads to. A node's `next` is written once, before the node is published. After `clean_bluetooth_message` the sequence still names the freed blocks, as the C pointer does |
| `malloc`, `free` | `heap`: the device a block holds, `NoDevice` when it is free |
| `tmp` in `add_bluetooth_message` | `tmp[w]`, between the filling of a node and its publication |
| undefined behaviour | a double free ends the process (`crash`, as glibc aborts); a read of a freed node or a call through a freed proxy either ends it or goes on with a garbled value |
| `bluetooth_device_path[20][40]` | `slots`; a handler's `arg` is an index into it, as the C parameter is a pointer into it |
| `adapter_proxy` | `adapter`: null, valid or freed |
| a finger on a button | `pressed`, cleared when `lv_obj_clean` deletes the button |
| what the button showed when it was released | `wanted`, a history variable only the properties read |
| a `StopDiscovery` whose error was printed | `discovering` stays; `refused`, history, says that the last one sent was refused |

`tears[m]` counts how often a *held* mutex was reinitialised. It is not in the
code: the properties use it to say under which condition a guarantee holds, and
`bt_one_scanner` shows that the condition can fail.

Abstracted: names, addresses and printing; `memset` of an array nobody reads;
`sleep`, which only widens the windows that interleaving already opens; the
content of D-Bus calls (each succeeds or fails, `StartDiscovery` and
`StopDiscovery` included, whose errors the code prints and ignores; a scan sees any
subset of `Devices`, in any order); the four `pthread_mutex_init` calls, which are one
step; `conn`, which is valid whenever a scan or a connect uses it, because the
bus is a shared singleton that a failed initialisation does not close while
others hold it (`CarControl`, where it can be NULL, has it);
`now_accept_device_proxy` and `now_accept_device_path`, which are written by a
connect and read only by `disaccept_bluetooth`; the latter runs on
`BLUETOOTH_DISCONNECT`, which no button raises. An `exit(1)` ends the process
and is a behaviour that stops.

`DeviceBoard` knows a board of devices, a picture of it and whether the promise
still holds. The board is published at once, each device once, and only onto a
cleared board; the picture is drawn at once from the board as it stands. In the
code both take many steps: `Bluetooth` maps `board` to nothing from the clean of a
scan's loop until the scan lets go of `bluetooth_message_mutex`, and to the list
otherwise; `picture` to the rows the walk will draw while `refresh_ui` walks, and to
the buttons otherwise; `intact` to a message mutex that was never torn.

`Waits` says where a thread waits for a mutex and `Behind` which mutexes are locked
after it (scan, accepting, message, lvgl); both serve `NoDeadlock`.

External: pthread mutexes, `malloc`, BlueZ and LVGL. LVGL appears as what its
user can do: press a button of the loaded screen, release it.

### Camera

`pc[w]` names the next statement of a handler: `start*` and `close*` are in
`message_handler_thread`, `init*` in `init_camera`, the rest in
`camera_thread`, in program order.

| code | model |
|---|---|
| `camera_mutex` | `word`, a futex word as above; `tears` counts the times `init_camera` cleared it held, `kept` the error returns that left it locked |
| `camera_using`, `init_flag`, `cnt` | `using`, `initFlag`, `cnt` (modulo 256, it is an `unsigned char`) |
| `fd` | `w \in fds`: a session opens one descriptor |
| the driver's buffer queue | `owner` (the descriptor that requested it), `queued` (the driver may fill), `done` (filled, in order), `streaming`; closing the owner ends the queue |
| `buffer` of the loop | `frame[w]` |
| mappings | `maps`, a count: error returns leave theirs behind |
| a call that fails | an action of its own (`OpenFails`, `SetupFails`, `Break`, `StreamOffFails`) that costs one of `MaxFaults` |
| `lv_timer_handler` of `lvgl_thread` | `drawing` in `Picture`. LVGL means to refuse a second call while one runs, but tests and sets `already_running` in two steps, so the session's own call need not be excluded (`Timers` has that race) |

In `Picture` the decoding is a span from `Decode` to `DecodeDone`, in which the
picture's memory is reallocated and overwritten.

`CameraSession` knows whether the user wants the camera (`on`) and a `phase`:
no session, a session, or a camera kept for good by a failed one. A session
begins only while it is wanted, one at a time, and one that is not wanted any
more ends or is lost. `Camera` maps `phase` from where the handlers are and
from `kept`.

Abstracted: the format negotiation (a failure is printed and ignored), a
picture file's content and its descriptor, what the frame shows. The driver
grants `NumBuffers`; the ten of the code are a request.

### CarControl, Panel and Voice

A press gives the command of its button and the release gives Stop; each is
carried to the car by a detached handler of its own, and the handlers race for
`bluetooth_send_message`. The model gives a command an identity, its position in
`given`, so that "sent twice", "vanished" and "overtaken" can be told apart.

| code | model |
|---|---|
| `bluetooth_send_message`, `bluetooth_mutex_scan` | `word`, `tears`, as in `Bluetooth`; the other two mutexes do not touch the commands |
| `conn` | null (no initialisation has reached the bus, or one failed there), valid, freed (an initialisation failed later and dropped the last reference) |
| `data`, the handler's parameter | `cmd[w]`, a position in `given` |
| `g_dbus_proxy_new_sync` | `ProxyNull` (no connection: a NULL proxy and no error), `ProxyMade`, `ProxyFails` (jumps over the initialisations to the cleanup) |
| `g_dbus_proxy_call_sync` | `Write`, `WriteFails`; `WriteNull` through a NULL proxy, which returns at once and leaves the error unset |
| the cleanup's releases | `Cleanup`: of what was never set, or, after a call that consumed the floating `ans`, of what is already released; that ends the process or goes unnoticed |
| `car_ctr_event` | `Press`, `Release`, with at most `MaxGiven` commands |

`Panel` adds the screens. `Script[e]` is the list of statements of case *e* in
`message_handler_thread`, `rest[w]` what a handler has left of it, `shared` the
four variables they write. `Buttons[s]` are the events that the buttons of
screen *s* raise. A button keeps the finger until it is lifted, as in LVGL, where
`lv_scr_load` does not reset the input device: `touch` remembers the button, and
`LiftSwitch` and `LiftDrive` raise its event whatever is loaded by then.
`camera_thread` is a call that comes back when it likes (module `Camera` says
when); a connect writes none of this state. `alone`, `early` and `overlap` are
history: the properties use them to say when handlers got in each other's way.

`Voice` adds the serial line as pieces of commands, a `read` that returns any
number of them up to its limit, and the handler that is given an event number
for a pointer.

### Tick and Timers

`tv_sec * 1000000 + tv_usec` is computed in a 32-bit `long` on this target, so
all that is left of the time of day is its phase in a lap of 2^32 microseconds
(71 minutes), read as a signed number; the division by 1000 then rounds towards
zero. `TickAt` is what `custom_tick_get` returns at a phase, `Elapsed` what
`lv_tick_elaps` makes of two ticks. The lap, the millisecond and the width of a
tick are parameters: TLC goes round a lap of 24, the proofs hold for any.

In `Timers` time passes between any two steps, the clock may be set, and two
callers go through `lv_timer_handler`: `already_running` is tested in `Enter`
and set in `Claim`. `start_ms` is set again by every call while it is 0, which is
also a reading (`Start`); the reads for the idle statistics (`lv_timer.c:87`,
`125-139`) decide nothing but can move it too (`Glance`). One timer stands for all: they share nothing but the
tick, and a callback that runs long is a delay between `Run` and `Leave`.
`since` and `steady` are histories of the time that really passed, against which
the properties hold the decision of `lv_timer_exec`; `disturbed`, `lapped` and
`raced` record what may excuse it.


## 3. Runs

Deadlock is not checked (`CHECK_DEADLOCK FALSE`) except in `timers`: a double
free ends the process, and a state with `crash` set has no successor; after an
error return of `camera_thread` every handler of the model can end up asleep on
the mutex it left locked.

| run | instance | properties |
|---|---|---|
| `bt_list` | 2 handlers, 2 devices, 1 row, open, close and connect; stops at a torn message mutex | `TypeOK`, `LockDebt`, `DisplayIsSnapshot`, `WalkIsLive`, `NoDoubleFree`, `ListComplete`, `ListOwned`, `NoDeadlock`, `ButtonsNameSlots`, `CleanWaitsForAccept`, `MutexesHeal`, `BoardSpec` |
| `bt_live` | 2 handlers, no devices, 1 failed initialisation, open and close, fairness | `DiscoveryOwned`, `QuietAfterClose` |
| `bt_connect_live` | 2 handlers, 1 device, open and connect, fairness | `RefreshProgress`, `ConnectAnswered` |
| `bt_one_scanner` | expected violation | `OneScanner` |
| `bt_target` | expected violation | `ConnectsToPressedDevice` |
| `car_send` | 2 handlers, 2 presses and releases, 1 failed initialisation, fairness | `TypeOK`, `SendDebt`, `HeldHasOwner`, `CommandsAccounted`, `StopsUnlessOvertaken`, `LinkSpec`, `CommandsSettled` |
| `panel` | 2 handlers, all screens, 1 press and release | `PanelTypeOK`, `ScreensAgree`, `StopsUnlessOvertaken`, `CarSpec` |
| `voice` | expected violation | `HandlersGetParameters` |
| `timers` | 2 callers, a lap of 24 microseconds, 2 to the millisecond, a period of 2, the clock set once | `TypeOK`, `NeverLate`, `EarlyWhenDisturbed` |
| `cam_session` | 3 handlers, 1 buffer, 1 failing call | `TypeOK`, `MutexAccounted`, `DescriptorsClosed`, `MappingsAccounted`, `SessionGoesOn`, `SessionSpec` |
| `cam_live` | 2 handlers, 2 buffers, 1 failing call, fairness | `BuffersAccounted`, `SessionLive`, `StartServed` |
| `cam_picture` | expected violation | `LvglCallsSerialised` |

What they show:

- While the message mutex was not reinitialised held, the device list is safe:
  refresh_ui walks live nodes (`WalkIsLive`), nothing is freed twice
  (`NoDoubleFree`), the list is exactly what is allocated whenever the mutex is
  free (`ListComplete`), a drawn list is one scan's list cut at the row limit
  (`DisplayIsSnapshot`), and nodes never outlive the scans (`ListOwned`). Seen from
  outside the list is a board that is published at once and a picture drawn at
  once (`BoardSpec`).
- The condition is not idle: the same run without it reaches a torn mutex, and
  `bt_one_scanner` needs no failed initialisation at all.
- `LockDebt` and `SendDebt` say what survives a tear: a mutex that was cleared
  while held *k* times has at most *k* surplus owners. `MutexesHeal` says that the
  damage passes: once `init_bluetooth` has succeeded and no opening is about to
  clear the words, a mutex whose surplus owners have left excludes for good.
- Threads never wait for each other in a circle and no mutex is left locked
  (`NoDeadlock`, `HeldHasOwner` for `bluetooth_send`), torn mutexes included. This is
  the safety half of the liveness properties below, and needs no fairness.
- A connect never has list nodes freed under it (`CleanWaitsForAccept`), yet
  the path it uses comes from a slot that can change under it (`bt_target`). While
  the message mutex was not torn the slot is right when it is handed over, although
  path and name are read from the node one after the other (`ButtonsNameSlots`):
  the wait is to blame. With a torn mutex the node can change between the two.
- Discovery outlives the scans in two ways only: BlueZ refused the last
  `StopDiscovery`, which the code prints and forgets, or a failed initialisation took
  the adapter's proxy away (`DiscoveryOwned`). No overlap of openings and closings
  loses a stop, and a later stop that succeeds makes up for a refused one.
- With fair mutexes nobody waits for ever while a scan goes on (`RefreshProgress`,
  `ConnectAnswered`), and closing Bluetooth for good ends every scan, failed
  initialisation or not, and the discovery but for these two ways
  (`QuietAfterClose`).
- Commands: however handlers race, and even with a torn mutex, each is sent once
  or given up (`CommandsAccounted`, and `LinkSpec` against the abstract link,
  which also keeps a command behind those settled before it was given). The code
  does *not* keep the order of a press and its release; `StopsUnlessOvertaken`
  says how far that goes: a car left driving means that a Stop was given after
  the last command received and was overtaken or lost. No command waits for ever
  while the mutex is not cleared under a sender (`CommandsSettled`).
- Screens: `ScreensAgree` gives a sufficient condition for the loaded screen, the
  screen that is redrawn and the flags to agree: no handler overlapped another or
  came from a button held while the screen changed. It shows that nothing else
  brings a mix about, and promises nothing in these two cases, which are in the run.
  Two handlers at work together can end in any mix; so can one that works alone, if its button was held while the screen changed
  under the finger: a scan can be started under a screen that has no button to
  end it. A `CAMERA_START` counts as at work until its session is over, as it
  writes `present_screen` only then (`main.c:64`). `CarSpec`: with all this around
  it car control is still what `CarControl` says, so every release of a drive
  button gives its Stop, and a car nobody drives stands still here too
  (`StopsUnlessOvertaken`): a Stop that depended on the screen would be missed.
- Timers: the tick jumps back at the end of a lap and rounds the other way below
  zero, yet no timer is held up by more than a millisecond (`NeverLate`), and a
  timer is early only after the clock was set, `start_ms` moved, a lap ended or
  two callers met (`EarlyWhenDisturbed`). The clock, the lap and the meeting do
  make a timer early: without any one of them among the excuses TLC refutes the
  property. `start_ms` moving only holds a timer up, while ticks stand still.
- However starts, closes and one failing call fall, the camera's descriptor is
  open exactly while a session lives (`DescriptorsClosed`), its mutex is held
  by that session or was kept by an error return (`MutexAccounted`), and only
  error returns leave mappings behind (`MappingsAccounted`). Two first openings
  may race in `init_camera`; the model contains that, and `MutexAccounted` is
  stated for behaviours in which no held mutex was cleared.
- `camera_thread` implements the abstract session, failures and torn mutex
  included (`SessionSpec`): `phase` does not see a second session beside a
  first, which is what `MutexAccounted` and its condition are about.
- While frames are taken, each buffer is in exactly one place, so `poll` cannot
  starve for want of queued buffers (`BuffersAccounted`): unless an error return kept
  the mutex, whoever holds it can go on (`SessionGoesOn`); an unwanted session
  ends (`SessionLive`), and a start that follows a close at once, while the old
  session still runs, is not lost (`StartServed`).

**Bounds.** Bluetooth: `Workers` = 2: every hazard here is between two handlers, or a
handler and `refresh_ui` or `lvgl_thread`, which are always present. A third
opening while two are running only waits for the scan mutex, or enters by a
second tear. `Devices` = 2 tells an order of rows from another and a list that
is longer than the rows (1) from one that fits (2). `Nodes` = 4 blocks hold two
lists of two; `Add` waits when they are used up, which never happens while the
list is whole. `MaxFailures` = 1 failed initialisation (`bt_live`, `car_send`) is what
reinitialises the mutexes on a later opening, and what can lose the adapter's
proxy; without one (`bt_list`) the openings that race reinitialise. In
`bt_connect_live` nothing closes, so a scan never ends: a second opening could
only wait for it, and a failure would never meet a connect. `Devices = {}` in the runs about locks alone:
the list is empty and all locking stays.

Car control: two handlers are a press and its release in flight, the shortest
race; `MaxGiven` = 4 lets a second press follow, so that an old Stop can be
overtaken by a new command. A third sender only waits for the mutex. Panel: two
handlers are what it takes to overlap; `MaxGiven` = 2 is one drive and its Stop,
for the refinement; no initialisation fails here, `car_send` has that. Timers: a
lap of 24 at two microseconds to the millisecond and a period of 2 satisfies
`TimersAssumption`, three periods and a bit to a lap, with room to tell "nearly a
lap" from "overdue"; setting the clock once reaches every phase from every other.

Camera: three handlers are a running session, a close and the next start, or
two starts and a close; two suffice where buffers matter, because only one
session has any. One buffer tells mapped from not mapped and queued from taken;
two tell a lost buffer from a stalled camera. `FileLimit` = 0 stands for the 5
of the code: files 0 and 1 for files 0 to 6. `MaxFaults` = 1: after an error
return the mutex is kept and no later session reaches a call; two faults differ
from one only where a `break` is followed by a failing `STREAMOFF`, or in a
later session.

**Constraints.** `ListTrusted` stops the search where the message mutex was torn
or the process ended, because the claims there are void or the chain picture is
no longer exact. `Undamaged` is the same for liveness, whose properties carry
`[]Intact` themselves. The constraint cuts states that no counterexample of
these properties can pass through: the conditions are never undone (`TearsGrow`
is proved).

**Fairness.** `SF` for each handler and `refresh_ui`; of `lvgl_thread` only that
`lv_timer_handler` returns (`WF` of `LvglUnlock`). The kernel runs every runnable thread; that
is weak fairness. Strong fairness is needed for mutexes: a glibc mutex is not
fair, and `lvgl_thread` retakes `lvgl_mutex` as soon as it has released it, so
the claim is the weaker one that a thread which finds a mutex free again and
again eventually takes it. Liveness therefore says that no *order of locks or
missing unlock* blocks a thread, not that the code avoids starvation in real
time. Entering `bluetooth_mutex_scan` is never promised: a thread asleep on a
mutex whose word is reinitialised is not woken. The user owes nothing: presses,
closes and releases may never come. The camera's handlers get the same `SF`,
withdrawn from one that is at the lock after a tear; so do the senders of
`CarControl`. `Panel`, `Voice` and `Timers` claim nothing that needs fairness.
`WF` of `Fill` says that a
streaming camera delivers frames: `poll` waits for them without a limit, and
without that assumption a closed session may wait for ever.

## 4. Findings

- **A second scan.** `blue_tooth.c:568-569`: the scan mutex is locked and then
  initialised, by its owner. Opening Bluetooth again before the first
  initialisation is through starts a second scan beside the first, against the
  comment at `blue_tooth.c:9`. From there the message mutex can be torn too.
- **The wrong device.** `ui_lvgl.c:77-85`: a button hands its handler a pointer
  to a slot that the next redraw rewrites. If the handler has to wait for
  `bluetooth_accepting` it connects to whatever the slot holds then.
- **LVGL outside its mutex.** `main.c:56-95`, `usb_camera.c:177-191`: handlers
  load screens, decode into the picture that is drawn, set it and run the timers
  without `lvgl_mutex`; LVGL's porting guide wants every call under it. Shown for
  the camera's handlers (`cam_picture`); the others load screens the same way.
- **A voice command ends the process.** `voice_control.c:94, 99`: the thread's
  argument is the event number; `message_handler_thread` reads a parameter
  through it (`main.c:45-48`), at address 0 or 1 (`voice`).

Seen while modelling and not runs of their own: a command sent without a
connection is reported as written (`blue_tooth.c:165`); `ans` is released twice
after every command (`:170`); `auto_stop` has no terminator and `strlen` reads
past it (`:137`); a `StopDiscovery` that fails is printed and ignored, and BlueZ
goes on discovering after the close (`:395`); `decode_jpg2` never destroys its TurboJPEG instance, whatever
the comment at `decode_jpg.c:405` says; `already_running` is not the exclusion
its comment claims (`lv_timer.c:71`); LVGL's timers all run at once each time the
32-bit microseconds wrap, every 71 minutes.

## 5. Proofs

**Bluetooth.** The theorems of the three Bluetooth modules hold for every set of
handler threads, devices and blocks, every row limit and every number of failed
initialisations. The assumptions are those `Bluetooth` states:
`ThreadsAssumption` (handlers exist, are finitely many and are not the two UI
threads), `DevicesAssumption` (the markers are not devices) and
`BoundsAssumption` (at least one row, finitely many blocks).

| theorem | statement |
|---|---|
| `TypeCorrect` | `Spec => []TypeOK` |
| `DebtBounded` | `Spec => []LockDebt` |
| `DeadlockFree` | `Spec => []NoDeadlock` |
| `HealSafe` | `Spec => MutexesHeal` |
| `WalkSafe` | `Spec => []WalkIsLive` |
| `FreeSafe` | `Spec => []NoDoubleFree` |
| `ListSafe` | `Spec => []ListComplete` |
| `DisplaySafe` | `Spec => []DisplayIsSnapshot` |
| `AcceptSafe` | `Spec => CleanWaitsForAccept` |
| `SlotsSafe` | `Spec => []ButtonsNameSlots` |
| `OwnedSafe` | `Spec => []ListOwned` |
| `DiscoverySafe` | `Spec => []DiscoveryOwned` |
| `BoardImplements` | `Spec => BoardSpec` |

*Argument.* `TypeOK` is inductive: it carries, beyond types, that a pressed row
exists, that a connecting handler has a slot and that a row begun has a node and
room (`RowOK`). `LockDebt` is inductive with
it: a `Lock` step moves one thread into one section and needs a word that was 0,
an `Unlock` step moves one out, any other step stays inside its sections
(`StayInside`), and `InitMutexes` turns the word it clears into a tear. Where
`tears[m] = 0` this is mutual exclusion (`AtMostOne`, `Alone`). What a step can
do to a mutex is one lemma (`NextMutexes`: it is entered, left, cleared or
untouched), on which the next two rest as well.

`NoDeadlock` speaks of the whole chain of waits and is not inductive.
`HeldIsOwned` is: a word that is set has a thread in the section, because every
way out clears it. By `LockOrder` a thread in the section of *m* waits only for
mutexes behind *m*, so following the waits from a held mutex ends at a thread
that can go on (`SomeoneGoesOn`, an induction over the four levels, spelled
out). `MutexesHeal`: `Settled` is kept because only an opening that finds no
initialisation done gets to `InitMutexes` (`SettledStays`), and without that
step the owners of a mutex stay within its word (`SoundStays`). The proofs say
this of behaviours in which the message mutex is torn as well, where `bt_list`
stops.

None of the list properties is inductive: they speak of moments when nobody is
in the middle of a scan's loop. `ListInv` says what the list is *in* the
section: whole (`ListWhole`) except between a clean and the reset, when nothing
is allocated (`FreedEmpty`), and while a node waits to be linked, when the whole
list is the node's chain (`LinkWhole`). What `refresh_ui` has copied is the
front of the list and what it still has to visit is the rest (`Walked`,
`Displayed`). A step of a scan thread is safe because `Alone` puts everyone else
outside the section (`ScannerStep`, `ScannerKeeps`); a step of `refresh_ui`
because no scan thread is between two lists (`RefreshSeesWhole`); every other
step is `Quiet`. `TearsGrow` carries the condition `tears["message"] = 0` back
over a step. For `ListOwned` the invariant is that nodes exist only while some
scan has its final clean before it (`Owned`). `DiscoveryOwned` is inductive with
`Ready`: without a failed initialisation every scan has a valid adapter, so the
stop of the last scan is sent, and either succeeds or is refused. For
`ButtonsNameSlots` the invariant adds `RowCopied`: between the two reads of a row
its slot names the device of the node under the cursor, which nothing frees or
fills meanwhile (`HeapStays`).

For `BoardImplements` one more invariant is needed, `FreshInv`: while the
message mutex was never torn no two nodes hold the same device (`OneNodeEach`),
nor does a node hold one that the scan has still to visit (`Unvisited`). So what
is published at the unlock is a list of different devices (`Publishable`), and
the steps before it are not seen. The steps of the walk are not seen because the
list stands still under it, and `DisplayIsSnapshot` makes the buttons at its end
the rows that were drawn at its start. `NextSeen` puts the handlers,
`refresh_ui` and the user together; a step that tears the message mutex is
`Damaged`.

**Car control.** For every set of handlers and of commands, any number of
commands and of failed initialisations, from `WorkersAssumption` (handlers exist
and are finitely many), `CommandsAssumption` (Stop is no drive) and
`BoundsAssumption`.

| theorem | statement |
|---|---|
| `TypeCorrect` | `Spec => []TypeOK` |
| `DebtBounded` | `Spec => []SendDebt` |
| `OwnersSafe` | `Spec => []HeldHasOwner` |
| `Accounted` | `Spec => []CommandsAccounted` |
| `StopSafe` | `Spec => []StopsUnlessOvertaken` |
| `Implements` | `Spec => LinkSpec` |

*Argument.* `HeldHasOwner` is inductive with `TypeOK`: of the steps that stay in
a section, lock or unlock, each keeps it. `CommandsAccounted` is inductive with
`TypeOK`: a step gives a command to a handler that carried none, settles the one
it carries, or moves no command at all (`NextMoves`). `StopsUnlessOvertaken` is
not: it speaks of quiet moments. It follows (`StopOvertaken`) from
`StopGivenLast`, that with the finger up the last command given is a Stop, and
from the account: that Stop was sent before the last one received, or lost. For
`Implements`, `HandMoves` says what each kind of step does to the commands in
hand.

**Panel.** From the same assumptions.

| theorem | statement |
|---|---|
| `PanelTypeCorrect` | `PanelSpec => []PanelTypeOK` |
| `PanelImplementsCar` | `PanelSpec => CarSpec` |
| `PanelAccounted` | `PanelSpec => []CommandsAccounted` |
| `PanelStopSafe` | `PanelSpec => []StopsUnlessOvertaken` |
| `PanelImplementsLink` | `PanelSpec => LinkSpec` |
| `ScreensSafe` | `PanelSpec => []ScreensAgree` |

*Argument.* `PanelInv` adds to the types that what a handler has left is the end
of one of the scripts (`RestOK`). For the refinement each step of the panel is a
step of car control seen through `Seen`, or changes none of its variables
(`NextSeen`). The three theorems after it are proved by composition, not again:
`CarFacts` is `CarControlProofs` instantiated with `Seen` for `pc`, a behaviour
of the panel satisfies its specification (`SeenBehaves`), and a handler carries
a command in the panel exactly when it does in that view (`SeenCarries`).
`ScreensAgree` needs to look ahead: `AloneAgrees` says of a handler that is the
only one at work, and was alone, that the state its remaining statements lead to
agrees, computed statement by statement (`OutcomeOfNone` to `OutcomeOfFour`);
`TouchQuiet` says that a button touched when all was quiet is still a button of
the loaded screen.

**Timers.** For any lap, millisecond and tick width, any period and any number of
callers, from `WidthsAssumption` (an even lap that the tick can count) and
`TimersAssumption` (three periods and three milliseconds fit into a lap). The
real values are instances: 2^32, 1000 and 2^32.

| theorem | statement |
|---|---|
| `TypeCorrect` | `Spec => []TypeOK` |
| `EarlySafe` | `Spec => EarlyWhenDisturbed` |
| `LateSafe` | `Spec => NeverLate` |

*Argument.* Two arithmetical lemmas carry it. *d* microseconds are more than
*d* / `Milli` - 2 and less than *d* / `Milli` + 1 milliseconds, as the division
rounds towards zero from both sides (`TruncatedDifference`); and if a tick moves
by *D*, the time elapsed moves by *D* modulo `Wide` (`ElapsedMoves`).
`EarlyArithmetic` and `LateArithmetic` combine them, the second for a step across
the end of a lap too. The invariants are `Alone` (without a meeting there is one
caller inside, and `already_running` tells), `Dated` (undisturbed, `last_run` is
the tick of a moment in this lap, and `since` is how long ago it was),
`DueInTime` (who found the timer due found it so in time) and `WasNotDue` (until
it is found due, there was a moment `steady` ago at which it was not).

**Camera.** For every set of handlers, any number of buffers, any file limit and
any number of failing calls, from `WorkersAssumption` (handlers exist and are
finitely many) and `NumbersAssumption` (at least one buffer).

| theorem | statement |
|---|---|
| `TypeCorrect` | `Spec => []TypeOK` |
| `BuffersSafe` | `Spec => []BuffersAccounted` |
| `MappingsSafe` | `Spec => []MappingsAccounted` |
| `MutexSafe` | `Spec => []MutexAccounted` |
| `GoesOnSafe` | `Spec => []SessionGoesOn` |
| `DescriptorsSafe` | `Spec => []DescriptorsClosed` |
| `Implements` | `Spec => SessionSpec` |

*Argument.* `TypeOK` is not inductive: the file number stays in range only
because one session at a time takes frames, the buffer that is queued again is a
buffer only because the session holds one, and the count of mappings is a
natural number only because a session unmaps what it mapped. `IInv` adds why:
`OwnerOK` (a session in its loop owns the driver's queue, so there is one, torn
mutex or not), `MapOK` (the queue of a set-up holds buffers 1 to *k*, and *k*
are mapped), `QueueOK`, `WorkOK` and `BuffersAccounted` itself. Steps that only
move a program counter between places that mean the same to the buffers
(`Alike`) go through `QuietMove`; the others are taken one by one. `MappingsInv`
is the account `maps <= NumBuffers * kept + InUse`, which each step keeps in
`Balance`. `MutexAccounted` and `DescriptorsClosed` are inductive with `TypeOK`.
`SessionGoesOn` follows from `HeldInside` (a held mutex that was not kept has a
session inside it) and, by `PollIsFed`, from `IInv`: at the poll no buffer is in
the program's hands, so one is queued or filled. For `Implements` each step is
shown to keep `phase`, or to begin, end or lose a session (`SamePhase`,
`ReturnLoses`).

*Only model-checked:* the liveness properties (`RefreshProgress`,
`ConnectAnswered`, `QuietAfterClose`, `CommandsSettled`, `SessionLive`,
`StartServed`), which the prover does not handle. Of what they rest on, the part
that is safety is proved: nobody waits in a circle (`DeadlockFree`), no mutex is
left locked (`OwnersSafe`), the camera's session can go on (`GoesOnSafe`). Every
invariant and action property of the passing runs is proved, and every
refinement.

## 6. Plan

The order in which the modules were written is the order of the risks: the device
list and its locks (`Bluetooth`), the camera (`Camera`), the commands to the car
(`CarControl`), the handlers of all screens together (`Panel`), the tick under
LVGL (`Timers`). What could follow:

1. `Panel` with the handlers of `Camera` in place of a call that comes back when
   it likes, for liveness across screens.
2. The sinking and releasing of D-Bus values as reference counts, if the double
   release in `bluetooth_send` is repaired and the repair is to be checked.

## 7. Not modelled

Nearly all lines of the repository are third-party: LVGL with its fonts, mbedtls,
mqttclient, TurboJPEG and cJSON are some 320,000 lines; the program itself is
about 2,000, and most of those that change state or decide something are mapped.
The specifications are of the program; of LVGL only the timers are modelled,
because the program hands them a clock of its own making and calls them from two
threads.

`onenet_mqtt.c` (a retry loop and a publish loop around a client library of
which only headers are here, sharing no state with the rest), `cJSON.c` (used to
print one constant object), the widgets' layout and animations, and the
decompression and colour conversion of a frame are left out. So are a picture
file whose write failed, a driver that grants more than ten buffers, and the
bytes `strlen` may find behind `auto_stop`. `deinit_camera`, `deinit_bluetooth`
and `decode_jpg` are never called; `disaccept_bluetooth` runs on
`BLUETOOTH_DISCONNECT`, which no button raises; `query_bluetooth_connect_state`
always returns 1, which `refresh_ui` takes for "not connected", so its branch for
a connected device is dead.
