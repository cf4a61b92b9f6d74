----------------------------- MODULE TraceCheck -----------------------------
(***************************************************************************)
(* The host's judgement of a finished window: harness/runner/trace_check.py*)
(* over the variables the executive leaves behind.                         *)
(***************************************************************************)
EXTENDS Executive

(* dump_trace.gdb prints the task and frame of each entry, not the rung.   *)
Withheld == {<<log[k].frame, log[k].task>> : k \in DOMAIN log}

(* Every (frame, row) of the window, and the order the table dictates.     *)
Slots == (0 .. WindowFrames - 1) \X Tasks

NoLater(s, slot) == s[1] < slot[1] \/ (s[1] = slot[1] /\ s[2] <= slot[2])

Expected(slot) ==
  LET f == slot[1]
      t == slot[2]
      degraded == safe_entry_frame # NONE /\ f > safe_entry_frame
  IN  /\ degraded => Table[t].essential
      /\ IsDue(t, f)
      /\ slot \notin Withheld

expected_trace == {slot \in Slots : Expected(slot)}

(* Where a slot of the expected trace stands in it.                        *)
Position(slot, expected) == Cardinality({s \in expected : NoLater(s, slot)})

(* check_suspensions: no entry outside the window, none where the task was *)
(* not due, none lost.                                                     *)
check_suspensions ==
  /\ log_overflow = 0
  /\ \A k \in DOMAIN log : log[k].frame < WindowFrames /\ IsDue(log[k].task, log[k].frame)

(* check_conformance and check_order: every dispatch, in its position.     *)
InPosition(expected) ==
  /\ Len(trace) = Cardinality(expected)
  /\ \A slot \in expected : trace[Position(slot, expected)] = slot[2]

check_trace ==
  /\ trace_overflow = 0 /\ frames_run = WindowFrames
  /\ InPosition(expected_trace)

HostAccepts == check_trace /\ check_suspensions

-----------------------------------------------------------------------------
(* What the repository says of the trace and the log, and the code does    *)
(* not always do.                                                          *)

(* recover.h 56: every entry has a matching gap.  A dispatch announced as  *)
(* withheld does not happen.                                               *)
NoDispatchWhereWithheld == [][trace' # trace => <<frame, cursor>> \notin Withheld]_trace
=============================================================================
