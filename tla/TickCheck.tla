----------------------------- MODULE TickCheck -----------------------------
(***************************************************************************)
(* The clock's self-check at boot, flight/core/main.c: check_tick_counter  *)
(* and measure_instr_per_tick over whichever reader the image was linked   *)
(* with.                                                                   *)
(*                                                                         *)
(* The first takes TickReads readings and refuses one that goes back or    *)
(* that is Delta or more past the one before it.  The second reads until   *)
(* BaseTicks have gone by, in 32-bit arithmetic, and compares the          *)
(* instructions retired with them; here only whether the ratio is inside   *)
(* its tolerance.  The lines printed between the two are Report's.         *)
(***************************************************************************)
EXTENDS Mtime

CONSTANTS
  TickReads,  (* TICK_CHECK_READS                                          *)
  Delta,      (* TICK_DELTA_MAX                                            *)
  BaseTicks,  (* TIMEBASE_CHECK_TICKS                                      *)
  BaseReads   (* the guard of measure_instr_per_tick                       *)

ASSUME TickCheckAssumption ==
  /\ TickReads \in Nat \ {0} /\ BaseReads \in Nat \ {0}
  /\ Delta \in 1 .. Words - 1 /\ BaseTicks \in 1 .. Words - 1

VARIABLES
  phase,      \* "first", "tick": check_tick_counter; "t0", "base": the other
  count,      \* i, then guard
  previous,   \* previous, then t0
  called,     \* inside obc_mtime_read, or holding what it returned
  verdict,    \* tick_st; "none" until the check is over
  since,      \* history: the timer when the call before this one was entered
  late,       \* history: a whole high word went by between two readings
  torn,       \* history: the tick check took a reading that was never the time
  tornBase,   \* history: the other check did
  began       \* history: the timer when the reading of t0 was entered

checkVars == <<phase, count, previous, called, verdict, since, late, torn, tornBase,
               began>>
allVars == <<vars, checkVars>>

CheckInit ==
  /\ Init
  /\ phase = "first" /\ count = 0 /\ previous = out /\ called = FALSE
  /\ verdict = "none"
  /\ since = timer /\ late = FALSE /\ torn = FALSE /\ tornBase = FALSE /\ began = timer

Ticks(t) == t.hi * Words + t.lo     \* the 64-bit value

Call ==
  /\ verdict = "none" /\ ~called
  /\ Enter \/ RefuseForGood
  /\ called' = TRUE /\ since' = entered
  /\ UNCHANGED <<phase, count, previous, verdict, late, torn, tornBase, began>>

Read == obc_mtime_read /\ UNCHANGED checkVars
Passes == Advance /\ UNCHANGED checkVars

Returned(s) == verdict = "none" /\ called /\ pc = "idle" /\ status = s

(* Both functions hand back what the reader refuses with.                  *)
Refused ==
  /\ Returned("UNSTABLE")
  /\ verdict' = "UNSTABLE" /\ called' = FALSE
  /\ UNCHANGED <<vars, phase, count, previous, since, late, torn, tornBase, began>>

Observe ==
  /\ late' = (late \/ Ticks(timer) - Ticks(since) >= Words)
  /\ torn' = (torn \/ ~IsAnInstant)

FirstReading ==
  /\ Returned("OK") /\ phase = "first"
  /\ phase' = "tick" /\ previous' = out /\ called' = FALSE
  /\ Observe
  /\ UNCHANGED <<vars, count, verdict, since, tornBase, began>>

(* Mistakes to tell apart: only a reading that goes back is refused, the   *)
(* test main.c 32 calls fooled; the bound is taken on the wrong side.      *)
ImplausibleBackwardsOnly(now) == IF ~(previous \preceq now) THEN "INVALID" ELSE "none"

ImplausibleEitherWay(now) ==
  IF ~(previous \preceq now) THEN "INVALID"
  ELSE IF Ticks(now) - Ticks(previous) > 0 THEN "UNSTABLE" ELSE "none"

Implausible(now) ==
  IF ~(previous \preceq now) THEN "INVALID"
  ELSE IF Ticks(now) - Ticks(previous) >= Delta THEN "UNSTABLE" ELSE "none"

TickReading ==
  /\ Returned("OK") /\ phase = "tick"
  /\ called' = FALSE /\ verdict' = Implausible(out)
  /\ IF verdict' = "none"
     THEN previous' = out /\ count' = (count + 1) % TickReads
     ELSE UNCHANGED <<previous, count>>
  /\ phase' = IF verdict' = "none" /\ count + 1 = TickReads THEN "t0" ELSE "tick"
  /\ Observe
  /\ UNCHANGED <<vars, since, tornBase, began>>

ObserveBase == tornBase' = (tornBase \/ ~IsAnInstant)

BaseBegins ==
  /\ Returned("OK") /\ phase = "t0"
  /\ phase' = "base" /\ previous' = out /\ called' = FALSE
  /\ began' = entered
  /\ ObserveBase
  /\ UNCHANGED <<vars, count, verdict, since, late, torn>>

Elapsed == (Ticks(out) - Ticks(previous)) % Words     \* (uint32_t)(now - t0)

(* A mistake to tell apart: the loop has no guard.                         *)
BaseReadingUnguarded ==
  /\ Returned("OK") /\ phase = "base"
  /\ called' = FALSE
  /\ IF Elapsed >= BaseTicks THEN verdict' \in {"OK", "INVALID"} ELSE UNCHANGED verdict
  /\ ObserveBase
  /\ UNCHANGED <<vars, phase, count, previous, since, late, torn, began>>

(* The ratio is inside the tolerance or not; a clock that does not get     *)
(* there within the guard is a timeout.                                    *)
BaseReading ==
  /\ Returned("OK") /\ phase = "base"
  /\ called' = FALSE /\ count' = (count + 1) % BaseReads
  /\ IF Elapsed >= BaseTicks THEN verdict' \in {"OK", "INVALID"}
     ELSE verdict' = IF count + 1 = BaseReads THEN "TIMEOUT" ELSE "none"
  /\ ObserveBase
  /\ UNCHANGED <<vars, phase, previous, since, late, torn, began>>

SelfCheck ==
  \/ Call \/ Read \/ Refused
  \/ FirstReading \/ TickReading \/ BaseBegins \/ BaseReading

Over == verdict # "none" /\ UNCHANGED allVars

CheckNext == Passes \/ SelfCheck \/ Over

(* The boot runs alone on its hart, so it keeps going.  Nothing is asked   *)
(* of the timer: it may stand still.                                       *)
CheckSpec == CheckInit /\ [][CheckNext]_allVars /\ WF_allVars(SelfCheck)

-----------------------------------------------------------------------------
(* main.c 32: a clock that passed gave check_tick_counter no reading that  *)
(* was wrong by a high word, whichever reader took it, unless 2^32 ticks   *)
(* went by unread between two readings, 36 hours at 32768 Hz.  The other   *)
(* check refuses no such reading: the naive reader alone gives it one, and *)
(* the 32-bit difference comes out right all the same, so a clock that     *)
(* passed has advanced.  One that stands still never goes back and never   *)
(* jumps: it is this second check that refuses it, not the tick check,     *)
(* whose comment (main.c 268) says it verifies that the counter advances.  *)
PassedClockWasSound ==
  verdict = "OK" => /\ torn => late
                    /\ tornBase => reader = "naive"
                    /\ Ticks(timer) - Ticks(began) >= BaseTicks

(* The other direction, mtime.h: a sound clock is not accused.  "Went      *)
(* backwards" needs a reading that was never the time; "implausible jump"  *)
(* needs one too, or a boot that was held up for Delta ticks.              *)
AlarmIsReal ==
  phase = "tick" /\ status = "OK" =>
    /\ verdict = "INVALID" => torn
    /\ verdict = "UNSTABLE" => torn \/ Ticks(timer) - Ticks(since) >= Delta

(* main.c 141: the self-check ends whatever the timer does, so a boot      *)
(* reaches its verdict.                                                    *)
SelfCheckEnds == <>(verdict # "none")
=============================================================================
