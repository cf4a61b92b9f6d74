----------------------------- MODULE SchedSkip -----------------------------
(***************************************************************************)
(* The host's trace checker over two executives: flight/core/sched.c, and  *)
(* harness/broken/sched_skip.c, which drops one dispatch, once.            *)
(*                                                                         *)
(* The broken one is a copy made before the ladder: it neither arms nor    *)
(* feeds the watchdog, and an overrun is counted and nothing more.  Its    *)
(* header says everything else is identical; the actions it shares with    *)
(* the flight executive are the ones it takes from Executive.              *)
(***************************************************************************)
EXTENDS TraceCheck

CONSTANTS
  Builds,     (* the executives linked: a subset of {"flight", "skip"}     *)
  SkipFrame,  (* BROKEN_SKIP_FRAME                                         *)
  SkipTask    (* BROKEN_SKIP_TASK                                          *)

ASSUME SchedSkipAssumption ==
  /\ Builds \subseteq {"flight", "skip"}
  /\ SkipFrame \in 0 .. WindowFrames - 1 /\ SkipTask \in Tasks

VARIABLE build   \* SCHED_SRC, the executive the image was linked with

-----------------------------------------------------------------------------
(* obc_sched_run up to its first frame: nobody watches it.                 *)
StartUnwatched ==
  /\ pc = "start"
  /\ pc' = "row"
  /\ Vote
  /\ safe_entry_frame' = IF IsSafe THEN 0 ELSE NONE
  /\ UNCHANGED <<now, ladderVars, traceVars, frameVars, rowVars, wdogVars, envVars, endVars>>

Defect == pc = "row" /\ frame = SkipFrame /\ cursor = SkipTask

(* The row is passed over before the mode is even read.                    *)
DropDispatch ==
  /\ Defect
  /\ cursor' = cursor + 1
  /\ UNCHANGED <<pc, due, ran, now, safe_entry_frame, modeVars, ladderVars, traceVars,
                 frameVars, wdogVars, envVars, endVars>>

(* dispatch after the call: the overrun is counted, no ladder climbs.      *)
OverrunIsCounted ==
  /\ pc = "running" /\ overruns_seen < MaxOverruns
  /\ overruns_seen' = overruns_seen + 1
  /\ overruns' = [overruns EXCEPT ![cursor] = @ + 1]
  /\ pc' = "row" /\ cursor' = cursor + 1 /\ ran' = ran + 1
  /\ UNCHANGED <<now, due, suspended, log, log_overflow, safe_entry_frame, modeVars,
                 traceVars, frameVars, wdogVars, envVars, endVars>>

RowsEnd ==
  /\ pc = "row" /\ cursor = TaskCount
  /\ pc' = "clock"
  /\ UNCHANGED <<now, safe_entry_frame, modeVars, ladderVars, traceVars, frameVars, rowVars,
                 wdogVars, envVars, endVars>>

SkipSoftware ==
  \/ StartUnwatched \/ StartOnBadClock
  \/ DropDispatch \/ (~Defect /\ SkipRow) \/ (~Defect /\ Dispatch)
  \/ TaskReturns \/ OverrunIsCounted \/ RowsEnd
  \/ ClockUnstable \/ FrameOverruns \/ FrameInTime \/ IdleToBoundary \/ ClockStops \/ NextFrame

BuildInit == Init /\ build \in Builds

BuildNext ==
  /\ UNCHANGED build
  /\ \/ build = "flight" /\ Software
     \/ build = "skip" /\ SkipSoftware
     \/ WatchdogBites \/ Strike \/ Ended

BuildSpec == BuildInit /\ [][BuildNext]_<<vars, build>>

-----------------------------------------------------------------------------
(* A window that ran to its end is one the host accepts exactly when no    *)
(* dispatch was dropped: the trace is what the table, the announced        *)
(* suspensions and the frame of entry dictate, position by position, and   *)
(* neither a degradation nor an overrun that falls around the defect hides *)
(* it (Makefile, test-sched-broken).                                       *)
Conformance == result = "OK" => (HostAccepts <=> build = "flight")
=============================================================================
