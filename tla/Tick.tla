-------------------------------- MODULE Tick ---------------------------------
(***************************************************************************)
(* The arithmetic of time: custom_tick_get (src/main.c) and lv_tick_elaps  *)
(* (src/include/lvgl/src/hal/lv_hal_tick.c).                               *)
(*                                                                         *)
(* tv_sec * 1000000 + tv_usec is computed in a 32-bit long, which wraps on *)
(* the target: what is left of the time of day is its phase in a lap of    *)
(* 2^32 us, read as a signed number.  The widths are parameters, so that   *)
(* TLC can go round a lap.                                                 *)
(***************************************************************************)
EXTENDS Integers

CONSTANTS
  Lap,    \* microseconds in a lap, 2^32: the phase of the time is in 0 .. Lap - 1
  Milli,  \* microseconds in a millisecond, 1000
  Wide    \* values of a uint32_t tick, 2^32

ASSUME WidthsAssumption ==
  /\ Lap \in Nat \ {0} /\ Lap % 2 = 0
  /\ Milli \in Nat \ {0}
  /\ Wide \in Nat /\ Wide >= Lap

Phases == 0 .. Lap - 1
Ticks  == 0 .. Wide - 1

\* The phase as a signed number.
Signed(u) == IF u < Lap \div 2 THEN u ELSE u - Lap

\* Division in C rounds towards zero.
Truncated(v) == IF v >= 0 THEN v \div Milli ELSE -((-v) \div Milli)

Millis(u) == Truncated(Signed(u))

\* Mutant: the difference is not brought back into uint32_t.
TickSigned(u, s) == Millis(u) - s

\* custom_tick_get at phase u, with start_ms already set to s.
TickAt(u, s) == (Millis(u) - s) % Wide

\* Mutant: a tick behind the previous one counts as no time.
ElapsedStuck(act, prev) == IF act >= prev THEN act - prev ELSE 0

\* lv_tick_elaps: one subtraction in uint32_t, or the detour over UINT32_MAX.
Elapsed(act, prev) == IF act >= prev THEN act - prev ELSE ((Wide - 1) - prev + 1) + act

=============================================================================
