----------------------------- MODULE Executive -----------------------------
(***************************************************************************)
(* The cyclic executive of OBC-Zero over one window of minor frames:       *)
(* flight/core/sched.c, with the escalation ladder of recover.c, the mode  *)
(* decision of mode.c and the AON hardware watchdog underneath.            *)
(*                                                                         *)
(* One step is one of: a table row examined, a task returning, the feed,   *)
(* a clock reading, the frame boundary.  The operating mode is read        *)
(* through the voter as Critical says it answers when nothing is corrupted *)
(* while it runs: the last value set, or nothing at all once fewer than    *)
(* two copies are intact.  Here a corruption falls between two votes.      *)
(***************************************************************************)
EXTENDS Integers, Sequences, FiniteSets

CONSTANTS
  TaskCount,      (* obc_task_count                                        *)
  Table,          (* row -> [period, essential, resettable]                *)
  WindowFrames,   (* frames given to obc_sched_run                         *)
  FrameTicks,     (* OBC_FRAME_TICKS                                       *)
  WdogTicks,      (* WDOG_TIMEOUT_TICKS                                    *)
  TraceCapacity,  (* OBC_TRACE_CAPACITY                                    *)
  LogCapacity,    (* OBC_SUSPEND_LOG_LEN                                   *)
  ShortBootLimit, (* OBC_SHORT_BOOT_LIMIT                                  *)
  BootModes,      (* modes obc_mode_restore may have left                  *)
  BootStreaks,    (* counts obc_recover_boot_begins may have left          *)
  Faults,         (* what may go wrong: a subset of FaultKinds             *)
  MaxCost,        (* bound: ticks one dispatch takes, unless it hangs      *)
  MaxLag,         (* bound: ticks the executive runs behind its deadline   *)
  MaxOverruns,    (* bound: budget overruns of a window                    *)
  MaxStrikes      (* bound: mode copies corrupted in a window              *)

FaultKinds == {"hang", "clock unstable", "clock stopped", "late overrun"}
Tasks == 0 .. TaskCount - 1

ASSUME ExecutiveAssumption ==
  /\ TaskCount \in Nat \ {0}
  /\ Table \in [Tasks -> [period : Nat \ {0}, essential : BOOLEAN,
                          resettable : BOOLEAN]]
  /\ WindowFrames \in Nat \ {0}
  /\ FrameTicks \in Nat \ {0} /\ WdogTicks \in Nat \ {0}
  /\ TraceCapacity \in Nat /\ LogCapacity \in Nat
  /\ ShortBootLimit \in Nat
  /\ BootModes \subseteq {"nominal", "safe"}
  /\ BootStreaks \subseteq Nat
  /\ Faults \subseteq FaultKinds
  /\ MaxCost \in Nat /\ MaxLag \in Nat
  /\ MaxOverruns \in Nat /\ MaxStrikes \in Nat

NONE == -1            \* OBC_SAFE_ENTRY_NONE, and no task or frame

VARIABLES
  pc,               \* where obc_sched_run is
  frame,            \* the loop counter of run_window
  cursor,           \* the table row it examines
  due, ran,         \* tasks due and dispatched in this frame
  now,              \* mtime, in ticks since the first frame started
  armed, fed_at,    \* the AON watchdog: running, and when last fed
  mode, damaged,    \* the mode last set; how many of its copies are not intact
  announced,        \* s_announced
  safe_reason,      \* obc_safe_reason
  safe_entry_frame, \* obc_safe_entry_frame
  overruns,         \* obc_task_state[].overruns
  overruns_seen,    \* history: their sum
  suspended,        \* s_suspended_task, s_suspended_frame
  log, log_overflow,     \* obc_suspensions and obc_suspension_overflow
  trace, trace_overflow, \* obc_trace and obc_trace_overflow
  frames_run, frame_overruns,
  result,           \* the status obc_sched_run returned
  reset_by,         \* what reset the machine, if anything did
  short_boots,      \* the count in the boot record
  strikes           \* history: copies corrupted so far

modeVars == <<mode, damaged, announced, safe_reason>>
ladderVars == <<overruns, overruns_seen, suspended, log, log_overflow>>
traceVars == <<trace, trace_overflow>>
frameVars == <<frame, frames_run, frame_overruns>>
rowVars == <<cursor, due, ran>>
wdogVars == <<armed, fed_at>>
envVars == <<short_boots, strikes>>
endVars == <<result, reset_by>>
vars == <<pc, now, safe_entry_frame, modeVars, ladderVars, traceVars, frameVars,
          rowVars, wdogVars, envVars, endVars>>

-----------------------------------------------------------------------------
deadline == (frame + 1) * FrameTicks   \* frame_start + OBC_FRAME_TICKS

IsDue(t, f) == f % Table[t].period = 0

(* obc_mode_is_safe: one vote.  It answers "safe" when it cannot resolve,  *)
(* and repairs the copies when it can.                                     *)
VoteFails == damaged >= 2
IsSafeGuessingNominal == ~VoteFails /\ mode = "safe"   \* a mistake to tell apart
IsSafe == VoteFails \/ mode = "safe"
AfterVote == IF VoteFails THEN damaged ELSE 0

obc_recover_is_suspended(t, f) == suspended = [task |-> t, frame |-> f]

(* obc_suspended_this_frame counts without looking at the mode.            *)
SuspendedThisFrame ==
  Cardinality({t \in Tasks : IsDue(t, frame) /\ obc_recover_is_suspended(t, frame)})

(* A mistake to tell apart: entering safe mode without the latch.          *)
EnterSafeUnlatched(reason, d) ==
  mode' = "safe" /\ damaged' = 0 /\ announced' = TRUE /\ safe_reason' = reason

(* obc_mode_enter_safe: latched by s_announced, so the first reason stays. *)
(* It writes all three copies; d is their damage if it writes none.        *)
obc_mode_enter_safe(reason, d) ==
  IF announced
  THEN damaged' = d /\ UNCHANGED <<mode, announced, safe_reason>>
  ELSE /\ mode' = "safe" /\ damaged' = 0
       /\ announced' = TRUE /\ safe_reason' = reason

(* A mistake to tell apart: degrading without dating it.                   *)
DegradeUndated(reason) ==
  /\ UNCHANGED safe_entry_frame
  /\ IF IsSafe
     THEN damaged' = AfterVote /\ UNCHANGED <<mode, announced, safe_reason>>
     ELSE obc_mode_enter_safe(reason, AfterVote)

(* sched_now, clock entry and frame overrun: enter safe mode unless the    *)
(* vote already says safe.                                                 *)
Degrade(reason) ==
  IF IsSafe
  THEN damaged' = AfterVote /\ UNCHANGED <<mode, announced, safe_reason, safe_entry_frame>>
  ELSE safe_entry_frame' = frame /\ obc_mode_enter_safe(reason, AfterVote)

Vote == damaged' = AfterVote /\ UNCHANGED <<mode, announced, safe_reason>>

WdogExpired == armed /\ now - fed_at >= WdogTicks

(* A mistake to tell apart: the first version, which left it armed.        *)
ReturnArmed(status) ==
  /\ pc' = "returned" /\ result' = status
  /\ UNCHANGED <<armed, fed_at, reset_by>>

(* Every exit of run_window goes through obc_recover_disarm_hardware.      *)
Return(status) ==
  /\ pc' = "returned" /\ result' = status
  /\ armed' = FALSE
  /\ UNCHANGED <<fed_at, reset_by>>

Init ==
  /\ pc = "start" /\ frame = 0 /\ cursor = 0 /\ due = 0 /\ ran = 0
  /\ now = 0 /\ armed = FALSE /\ fed_at = 0
  /\ mode \in BootModes /\ damaged = 0
  /\ announced = (mode = "safe")
  /\ safe_reason = (IF mode = "safe" THEN "RESTORED" ELSE "NONE")
  /\ safe_entry_frame = NONE
  /\ overruns = [t \in Tasks |-> 0] /\ overruns_seen = 0
  /\ suspended = [task |-> NONE, frame |-> NONE]
  /\ log = <<>> /\ log_overflow = 0
  /\ trace = <<>> /\ trace_overflow = 0
  /\ frames_run = 0 /\ frame_overruns = 0
  /\ result = "none" /\ reset_by = "none"
  /\ short_boots \in BootStreaks
  /\ short_boots >= ShortBootLimit => mode = "safe"  \* Boot: a full streak boots safe
  /\ strikes = 0

-----------------------------------------------------------------------------
(* A mistake to tell apart: a window nobody watches.                       *)
StartUnarmed ==
  /\ pc = "start"
  /\ pc' = "row"
  /\ UNCHANGED wdogVars
  /\ Vote
  /\ safe_entry_frame' = IF IsSafe THEN 0 ELSE NONE
  /\ UNCHANGED <<now, ladderVars, traceVars, frameVars, rowVars, envVars, endVars>>

(* obc_sched_run arms the watchdog, then run_window takes its first clock  *)
(* reading; a boot that is already degraded dates its entry to frame 0.    *)
StartWindow ==
  /\ pc = "start"
  /\ pc' = "row"
  /\ armed' = TRUE /\ fed_at' = now
  /\ Vote
  /\ safe_entry_frame' = IF IsSafe THEN 0 ELSE NONE
  /\ UNCHANGED <<now, ladderVars, traceVars, frameVars, rowVars, envVars, endVars>>

StartOnBadClock ==
  /\ pc = "start" /\ "clock unstable" \in Faults
  /\ Degrade("CLOCK")
  /\ Return("UNSTABLE")
  /\ UNCHANGED <<now, ladderVars, traceVars, frameVars, rowVars, envVars>>

(* A row that is not dispatched: not essential while degraded, not due, or *)
(* due and suspended for this frame.                                       *)
SkipRow ==
  /\ pc = "row" /\ cursor < TaskCount /\ ~WdogExpired
  /\ Vote
  /\ cursor' = cursor + 1
  /\ \/ IsSafe /\ ~Table[cursor].essential /\ UNCHANGED due
     \/ /\ ~IsSafe \/ Table[cursor].essential
        /\ ~IsDue(cursor, frame) /\ UNCHANGED due
     \/ /\ ~IsSafe \/ Table[cursor].essential
        /\ IsDue(cursor, frame) /\ obc_recover_is_suspended(cursor, frame)
        /\ due' = due + 1
  /\ UNCHANGED <<pc, ran, now, safe_entry_frame, ladderVars, traceVars, frameVars,
                 wdogVars, envVars, endVars>>

(* A mistake to tell apart: an entry for the call and one for the return.  *)
PushTwice ==
  IF Len(trace) + 1 < TraceCapacity
  THEN trace' = trace \o <<cursor, cursor>> /\ UNCHANGED trace_overflow
  ELSE trace_overflow' = trace_overflow + 1 /\ UNCHANGED trace

(* dispatch, up to the call: trace_push, then the task runs for c ticks.   *)
trace_push ==
  IF Len(trace) < TraceCapacity
  THEN trace' = Append(trace, cursor) /\ UNCHANGED trace_overflow
  ELSE trace_overflow' = trace_overflow + 1 /\ UNCHANGED trace

Dispatch ==
  /\ pc = "row" /\ cursor < TaskCount /\ ~WdogExpired
  /\ ~IsSafe \/ Table[cursor].essential
  /\ IsDue(cursor, frame) /\ ~obc_recover_is_suspended(cursor, frame)
  /\ Vote
  /\ due' = due + 1
  /\ trace_push
  /\ \/ /\ pc' = "running"
        /\ \E c \in 0 .. MaxCost : now + c <= deadline + MaxLag /\ now' = now + c
     \/ /\ "hang" \in Faults
        /\ pc' = "hung" /\ UNCHANGED now
  /\ UNCHANGED <<cursor, ran, safe_entry_frame, ladderVars, frameVars, wdogVars,
                 envVars, endVars>>

(* The task returns within its instruction budget.                         *)
TaskReturns ==
  /\ pc = "running" /\ ~WdogExpired
  /\ pc' = "row" /\ cursor' = cursor + 1 /\ ran' = ran + 1
  /\ UNCHANGED <<now, due, safe_entry_frame, modeVars, ladderVars, traceVars,
                 frameVars, wdogVars, envVars, endVars>>

(* obc_recover_escalate.  log_suspension counts what it cannot hold.       *)
log_suspension(t, f, rung) ==
  IF Len(log) < LogCapacity
  THEN log' = Append(log, [task |-> t, frame |-> f, rung |-> rung]) /\ UNCHANGED log_overflow
  ELSE log_overflow' = log_overflow + 1 /\ UNCHANGED log

NextFrameOnly(t) == frame + 1   \* a mistake to tell apart: the first version
NextDue(t) == frame + Table[t].period

SuspendTask(t) ==
  /\ suspended' = [task |-> t, frame |-> NextDue(t)]
  /\ log_suspension(t, NextDue(t), 1)
  /\ pc' = "row" /\ UNCHANGED <<modeVars, reset_by>>

ResetSubsystem(t) ==
  /\ log_suspension(t, frame, 2)
  /\ pc' = "row" /\ UNCHANGED <<suspended, modeVars, reset_by>>

ResetMachine ==
  /\ UNCHANGED <<suspended, log, log_overflow>>
  /\ IF short_boots >= ShortBootLimit
     THEN obc_mode_enter_safe("RESET_LOOP", damaged) /\ pc' = "row" /\ UNCHANGED reset_by
     ELSE pc' = "reset" /\ reset_by' = "ladder" /\ UNCHANGED modeVars

(* A mistake to tell apart: every overrun starts the ladder again.         *)
ClimbNoFurther(t, n) == SuspendTask(t)

(* The rung dispatch() selects for the n-th overrun of task t.             *)
Climb(t, n) ==
  \/ n = 1 /\ SuspendTask(t)
  \/ n = 2 /\ Table[t].resettable /\ ResetSubsystem(t)
  \/ n >= 2 /\ ~(n = 2 /\ Table[t].resettable) /\ ResetMachine

TaskOverruns ==
  /\ pc = "running" /\ ~WdogExpired
  /\ overruns_seen < MaxOverruns
  /\ "late overrun" \in Faults \/ overruns[cursor] > 0 \/ NextDue(cursor) < WindowFrames
  /\ overruns_seen' = overruns_seen + 1
  /\ overruns' = [overruns EXCEPT ![cursor] = @ + 1]
  /\ Climb(cursor, overruns[cursor] + 1)
  /\ cursor' = cursor + 1 /\ ran' = ran + 1
  /\ UNCHANGED <<now, due, safe_entry_frame, traceVars, frameVars, wdogVars,
                 result, short_boots, strikes>>

(* Fed only if every task due and not suspended ran.                       *)
Feed ==
  /\ pc = "row" /\ cursor = TaskCount /\ ~WdogExpired
  /\ pc' = "clock"
  /\ fed_at' = IF ran + SuspendedThisFrame = due THEN now ELSE fed_at
  /\ UNCHANGED <<now, armed, safe_entry_frame, modeVars, ladderVars, traceVars,
                 frameVars, rowVars, envVars, endVars>>

(* The clock reading after the dispatches: unstable, late, or in time.     *)
ClockUnstable ==
  /\ pc \in {"clock", "idle"} /\ ~WdogExpired /\ "clock unstable" \in Faults
  /\ Degrade("CLOCK")
  /\ Return("UNSTABLE")
  /\ UNCHANGED <<now, ladderVars, traceVars, frameVars, rowVars, envVars>>

FrameOverruns ==
  /\ pc = "clock" /\ ~WdogExpired /\ now >= deadline
  /\ pc' = "idle"
  /\ frame_overruns' = frame_overruns + 1
  /\ Degrade("FRAME_OVERRUN")
  /\ UNCHANGED <<now, frame, frames_run, ladderVars, traceVars, rowVars, wdogVars,
                 envVars, endVars>>

FrameInTime ==
  /\ pc = "clock" /\ ~WdogExpired /\ now < deadline
  /\ pc' = "idle"
  /\ UNCHANGED <<now, safe_entry_frame, modeVars, ladderVars, traceVars, frameVars,
                 rowVars, wdogVars, envVars, endVars>>

(* Idle to the boundary: the clock is read until it reaches the deadline.  *)
IdleToBoundary ==
  /\ pc = "idle" /\ ~WdogExpired
  /\ pc' = "boundary"
  /\ now' = IF now < deadline THEN deadline ELSE now
  /\ UNCHANGED <<safe_entry_frame, modeVars, ladderVars, traceVars, frameVars,
                 rowVars, wdogVars, envVars, endVars>>

(* mtime stands still short of the deadline: the guard of the idle loop    *)
(* runs out, unless the AON watchdog, on its own clock, bites before.      *)
ClockStops ==
  /\ pc = "idle" /\ ~WdogExpired /\ "clock stopped" \in Faults /\ now < deadline
  /\ \/ Return("TIMEOUT")
     \/ pc' = "hung" /\ UNCHANGED <<wdogVars, endVars>>
  /\ UNCHANGED <<now, safe_entry_frame, modeVars, ladderVars, traceVars, frameVars,
                 rowVars, envVars>>

(* A mistake to tell apart: one frame too many.                            *)
NextFrameInclusive ==
  /\ pc = "boundary" /\ ~WdogExpired
  /\ frame' = frame + 1 /\ frames_run' = frames_run + 1
  /\ cursor' = 0 /\ due' = 0 /\ ran' = 0
  /\ IF frame + 1 <= WindowFrames
     THEN pc' = "row" /\ UNCHANGED <<wdogVars, endVars>>
     ELSE Return("OK")
  /\ UNCHANGED <<now, safe_entry_frame, frame_overruns, modeVars, ladderVars,
                 traceVars, envVars>>

(* The next frame starts where this one was due to end, whatever now says. *)
NextFrame ==
  /\ pc = "boundary" /\ ~WdogExpired
  /\ frame' = frame + 1 /\ frames_run' = frames_run + 1
  /\ cursor' = 0 /\ due' = 0 /\ ran' = 0
  /\ IF frame + 1 < WindowFrames
     THEN pc' = "row" /\ UNCHANGED <<wdogVars, endVars>>
     ELSE Return("OK")
  /\ UNCHANGED <<now, safe_entry_frame, frame_overruns, modeVars, ladderVars,
                 traceVars, envVars>>

(* The watchdog resets the machine WdogTicks after the last feed, whatever *)
(* the core is doing: working, hung, or parked after obc_sched_run.        *)
WatchdogBites ==
  /\ armed /\ pc # "reset"
  /\ WdogExpired \/ pc \in {"hung", "returned"}
  /\ pc' = "reset" /\ reset_by' = "watchdog"
  /\ UNCHANGED <<now, safe_entry_frame, modeVars, ladderVars, traceVars, frameVars,
                 rowVars, wdogVars, envVars, result>>

(* Copies of the mode stop being intact, one or several at a time.         *)
Strike ==
  /\ pc \notin {"returned", "reset"}
  /\ \E n \in 1 .. 3 - damaged :
       /\ strikes + n <= MaxStrikes
       /\ damaged' = damaged + n /\ strikes' = strikes + n
  /\ UNCHANGED <<pc, now, safe_entry_frame, mode, announced, safe_reason, ladderVars,
                 traceVars, frameVars, rowVars, wdogVars, short_boots, endVars>>

Software ==
  \/ StartWindow \/ StartOnBadClock
  \/ SkipRow \/ Dispatch \/ TaskReturns \/ TaskOverruns
  \/ Feed \/ ClockUnstable \/ FrameOverruns \/ FrameInTime
  \/ IdleToBoundary \/ ClockStops \/ NextFrame

(* Parked after the window, or reset: obc_main owns what happens next.     *)
Ended == pc \in {"returned", "reset"} /\ UNCHANGED vars

Next == Software \/ WatchdogBites \/ Strike \/ Ended

Spec == Init /\ [][Next]_vars

(* One hart runs straight through run_window, and the AON counter counts.  *)
FairSpec == Spec /\ WF_vars(Software) /\ WF_vars(WatchdogBites)

-----------------------------------------------------------------------------
Terminal == pc \in {"returned", "reset"}

TypeOK ==
  /\ pc \in {"start", "row", "running", "hung", "clock", "idle", "boundary",
             "returned", "reset"}
  /\ frame \in 0 .. WindowFrames /\ cursor \in 0 .. TaskCount
  /\ due \in Nat /\ ran \in Nat /\ now \in Nat
  /\ armed \in BOOLEAN /\ fed_at \in Nat
  /\ mode \in {"nominal", "safe"} /\ damaged \in 0 .. 3 /\ announced \in BOOLEAN
  /\ safe_reason \in {"NONE", "RESTORED", "CLOCK", "FRAME_OVERRUN", "RESET_LOOP"}
  /\ safe_entry_frame \in {NONE} \cup 0 .. WindowFrames
  /\ overruns \in [Tasks -> Nat] /\ overruns_seen \in Nat
  /\ suspended \in [task : {NONE} \cup Tasks, frame : {NONE} \cup Nat]
  /\ log \in Seq([task : Tasks, frame : Nat, rung : {1, 2}]) /\ log_overflow \in Nat
  /\ trace \in Seq(Tasks) /\ trace_overflow \in Nat
  /\ frames_run \in Nat /\ frame_overruns \in Nat
  /\ result \in {"none", "OK", "UNSTABLE", "TIMEOUT"}
  /\ reset_by \in {"none", "ladder", "watchdog"}
  /\ short_boots \in Nat /\ strikes \in Nat

(* The frame of entry tells the host from where to hold the trace to the   *)
(* essential subset (sched.h 151): once it is written, no task outside the *)
(* subset is dispatched, whatever is corrupted and however late it is; and *)
(* none is withheld for the mode before it is, unless the vote is broken.  *)
SafeEntryIsHonest ==
  [][pc = "row" /\ cursor < TaskCount /\ ~Table[cursor].essential =>
       /\ traceVars' # traceVars => safe_entry_frame = NONE
       /\ /\ cursor' # cursor /\ IsDue(cursor, frame)
          /\ ~obc_recover_is_suspended(cursor, frame)
          => safe_entry_frame # NONE \/ VoteFails]_vars

(* The ladder logs at most two entries per task, so the sixteen entries of *)
(* obc_suspensions are enough for OBC_MAX_TASKS and the host never meets a *)
(* withheld dispatch it was not told of.                                   *)
LogNeverOverflows == LogCapacity >= 2 * TaskCount => log_overflow = 0

(* Every dispatch of the window is recorded.                               *)
TraceNeverOverflows ==
  TraceCapacity >= TaskCount * WindowFrames => trace_overflow = 0

(* The hardware watchdog resets only a machine that stopped: no sequence   *)
(* of suspensions, degradations or late frames withholds the feed until it *)
(* bites, and nothing is left armed when the window is over.               *)
NoSpuriousReset == [][reset_by' = "watchdog" => pc = "hung"]_reset_by

(* A missed frame boundary degrades the system for the rest of the window, *)
(* whatever happens to the copies of the mode; and it leaves it announced  *)
(* and dated, unless the vote is broken at that moment.  Then sched.c 264  *)
(* hears "safe" and does neither, which is what mode.c 22 set out to avoid *)
(* with a latch of its own: the announcement a broken vote suppresses.     *)
MissedBoundaryIsAnnounced ==
  [][/\ frame_overruns' > 0 => IsSafe'
     /\ frame_overruns' # frame_overruns =>
          VoteFails \/ (announced' /\ safe_entry_frame' # NONE)]_vars

(* The first reason explains the others: once announced it never changes,  *)
(* nor does the frame of entry a later overrun could overwrite.            *)
FirstReasonStays ==
  [][announced => safe_reason' = safe_reason /\ announced'
       /\ (pc # "start" => safe_entry_frame' = safe_entry_frame)]_vars

(* Every window ends: obc_sched_run returns or the machine is reset, even  *)
(* when a task hangs or the clock stops.                                   *)
WindowEnds == <>Terminal
=============================================================================
