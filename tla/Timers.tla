------------------------------- MODULE Timers --------------------------------
(***************************************************************************)
(* LVGL's timers (src/include/lvgl/src/misc/lv_timer.c) driven by the      *)
(* program's tick, from both threads that call lv_timer_handler:           *)
(* lvgl_thread under lvgl_mutex, camera_thread without it.                 *)
(*                                                                         *)
(* External: time, which passes between any two steps, and the clock,      *)
(* which is set now and then (the board has no battery for it).            *)
(***************************************************************************)
EXTENDS Tick

CONSTANTS
  Callers,   \* threads that call lv_timer_handler
  Period,    \* period of the timer, in milliseconds
  MaxSets    \* bound: how often the clock is set

ASSUME TimersAssumption ==
  /\ Period \in Nat \ {0} /\ 3 * (Period + 1) * Milli < Lap
  /\ MaxSets \in Nat

VARIABLES
  now,       \* the phase of gettimeofday
  startMs,   \* start_ms of custom_tick_get: 0 also stands for "not set yet"
  lastRun,   \* last_run of the timer
  pc,        \* per caller, where it is in lv_timer_handler
  running,   \* already_running
  sets,      \* how often the clock was set (see MaxSets)
  since,     \* history: microseconds since last_run was read, up to a period
  steady,    \* history: the same since last_run was read or, if the clock was set or
             \* start_ms changed, since the timer was then first looked at; -1 before
  disturbed, \* history: since last_run was read the clock was set or start_ms changed
  lapped,    \* history: since last_run was read the phase passed its end
  raced      \* history: two callers have been in lv_timer_handler, and one still is

clock   == <<now, startMs>>
history == <<since, steady, disturbed, lapped, raced>>
vars    == <<clock, lastRun, pc, running, sets, history>>

Inside == {c \in Callers : pc[c] \notin {"out", "enter"}}

Goto(c, from, to) == pc[c] = from /\ pc' = [pc EXCEPT ![c] = to]

-----------------------------------------------------------------------------
(* Time                                                                     *)

\* How long the handler may be away.
Away == Lap - (Period + 1) * Milli

Capped(t, limit) == IF t < limit THEN t ELSE limit

\* A microsecond passes.
Pass ==
  /\ now' = (now + 1) % Lap
  /\ since' = Capped(since + 1, Period * Milli)
  /\ steady' = IF steady < 0 THEN -1 ELSE Capped(steady + 1, Away)
  /\ lapped' = (lapped \/ now' = Lap \div 2)
  /\ UNCHANGED <<startMs, lastRun, pc, running, sets, disturbed, raced>>

\* settimeofday, by hand or by NTP.
SetClock ==
  /\ sets < MaxSets
  /\ sets' = sets + 1
  /\ now' \in Phases
  /\ steady' = -1 /\ disturbed' = TRUE
  /\ UNCHANGED <<startMs, lastRun, pc, running, since, lapped, raced>>

-----------------------------------------------------------------------------
(* custom_tick_get                                                          *)

\* start_ms is set by the first call, and by every call while it is 0.
Start == IF startMs = 0 THEN Millis(now) ELSE startMs

Tick == TickAt(now, Start)

GetTick == startMs' = Start

-----------------------------------------------------------------------------
(* lv_timer_handler                                                         *)

Enter(c) ==
  /\ Goto(c, "out", "enter")
  /\ ~running
  /\ UNCHANGED <<clock, lastRun, running, sets, history>>

\* already_running is set after it was tested, not with it.
Claim(c) ==
  /\ Goto(c, "enter", "exec")
  /\ running' = TRUE
  /\ raced' = (raced \/ running)
  /\ UNCHANGED <<clock, lastRun, sets, since, steady, disturbed, lapped>>

\* lv_timer_exec: lv_timer_time_remaining decides.
Exec(c) ==
  /\ Goto(c, "exec", IF Elapsed(Tick, lastRun) >= Period THEN "run" ELSE "leave")
  /\ GetTick
  /\ steady' = IF Start # startMs \/ steady < 0 THEN 0 ELSE steady
  /\ disturbed' = (disturbed \/ Start # startMs)
  /\ UNCHANGED <<now, lastRun, running, sets, since, lapped, raced>>

\* Mutant: last_run is not brought up to date.
RunKeeps(c) ==
  /\ Goto(c, "run", "leave")
  /\ GetTick
  /\ since' = 0 /\ steady' = 0 /\ disturbed' = FALSE /\ lapped' = FALSE
  /\ UNCHANGED <<now, lastRun, running, sets, raced>>

\* last_run is read anew and the callback called.
Run(c) ==
  /\ Goto(c, "run", "leave")
  /\ GetTick /\ lastRun' = Tick
  /\ since' = 0 /\ steady' = 0 /\ disturbed' = FALSE /\ lapped' = FALSE
  /\ UNCHANGED <<now, running, sets, raced>>

\* The tick is read at the start of a round and after the timers too, for the idle
\* time; all that such a read can change is start_ms.
Glance(c) ==
  /\ pc[c] \in {"exec", "leave"}
  /\ GetTick
  /\ steady' = IF Start # startMs THEN -1 ELSE steady
  /\ disturbed' = (disturbed \/ Start # startMs)
  /\ UNCHANGED <<now, lastRun, pc, running, sets, since, lapped, raced>>

Leave(c) ==
  /\ Goto(c, "leave", "out")
  /\ running' = FALSE
  /\ raced' = (raced /\ Inside # {c})
  /\ UNCHANGED <<clock, lastRun, sets, since, steady, disturbed, lapped>>

-----------------------------------------------------------------------------

\* lv_disp_drv_register and its like create the timer at the first tick.
Init ==
  /\ now \in Phases /\ startMs = Millis(now) /\ lastRun = 0
  /\ pc = [c \in Callers |-> "out"] /\ running = FALSE /\ sets = 0
  /\ since = 0 /\ steady = 0 /\ disturbed = FALSE /\ lapped = FALSE /\ raced = FALSE

HandlerStep(c) == Enter(c) \/ Claim(c) \/ Exec(c) \/ Run(c) \/ Glance(c) \/ Leave(c)

Next == Pass \/ SetClock \/ \E c \in Callers : HandlerStep(c)

Spec == Init /\ [][Next]_vars

-----------------------------------------------------------------------------
(* Properties                                                               *)

TypeOK ==
  /\ now \in Phases /\ startMs \in - Lap .. Lap /\ lastRun \in Ticks
  /\ pc \in [Callers -> {"out", "enter", "exec", "run", "leave"}]
  /\ running \in BOOLEAN /\ sets \in 0 .. MaxSets
  /\ since \in 0 .. Period * Milli /\ steady \in -1 .. Away
  /\ disturbed \in BOOLEAN /\ lapped \in BOOLEAN /\ raced \in BOOLEAN

\* A timer is not held up: lv_timer_exec runs it when a period and a millisecond
\* have gone by since it last ran, or was first looked at after time was disturbed,
\* across the end of a lap too, unless lv_timer_handler is not called for nearly a lap (71 minutes), or
\* by two threads at once.
NeverLate ==
  [][\A c \in Callers :
       /\ Exec(c) /\ startMs' = startMs /\ ~raced
       /\ steady >= (Period + 1) * Milli /\ steady < Away
       => pc'[c] = "run"]_vars

\* A timer runs early, by a millisecond or more, only after the clock was set,
\* start_ms moved or a lap ended, or when two threads got into lv_timer_handler.
EarlyWhenDisturbed ==
  [][\A c \in Callers :
       Run(c) /\ since <= (Period - 1) * Milli => disturbed \/ lapped \/ raced]_vars

=============================================================================
