-------------------------- MODULE Executive_proof --------------------------
(***************************************************************************)
(* Proofs about the executive for every table, window, timing, fault set   *)
(* and number of overruns and corruptions.                                 *)
(***************************************************************************)
EXTENDS Executive, SequenceTheorems, FiniteSetTheorems, TLAPS

(* Where the loop counters stand when the program is inside run_window.    *)
InWindow ==
  /\ pc \notin {"returned", "reset"} => frame < WindowFrames
  /\ pc = "running" => cursor < TaskCount

Modes == {"nominal", "safe"}
Reasons == {"NONE", "RESTORED", "CLOCK", "FRAME_OVERRUN", "RESET_LOOP"}

LEMMA ProductInNat ==
  ASSUME NEW a \in Nat, NEW b \in Nat
  PROVE  a * b \in Nat
OBVIOUS

LEMMA NoneIsNoFrame == NONE \in Int /\ \A n \in Nat : NONE # n
BY DEF NONE

(* Entering safe mode, or leaving the mode to the vote, keeps the types.   *)
LEMMA EnterSafeType ==
  ASSUME TypeOK, NEW r \in Reasons, NEW d \in 0 .. 3, obc_mode_enter_safe(r, d)
  PROVE  /\ mode' \in Modes /\ damaged' \in 0 .. 3
         /\ announced' \in BOOLEAN /\ safe_reason' \in Reasons
<1>1. mode \in Modes /\ announced \in BOOLEAN /\ safe_reason \in Reasons
  BY DEF TypeOK, Modes, Reasons
<1>2. CASE announced
  BY <1>1, <1>2 DEF obc_mode_enter_safe
<1>3. CASE ~announced
  <2>1. mode' = "safe" /\ damaged' = 0 /\ announced' = TRUE /\ safe_reason' = r
    BY <1>3 DEF obc_mode_enter_safe
  <2> QED
    BY <2>1 DEF Modes
<1> QED
  BY <1>2, <1>3

LEMMA AfterVoteType ==
  ASSUME TypeOK
  PROVE  AfterVote \in 0 .. 3
BY DEF TypeOK, AfterVote, VoteFails

LEMMA VoteType ==
  ASSUME TypeOK, Vote
  PROVE  /\ mode' \in Modes /\ damaged' \in 0 .. 3
         /\ announced' \in BOOLEAN /\ safe_reason' \in Reasons
BY AfterVoteType DEF TypeOK, Vote, Modes, Reasons

LEMMA DegradeType ==
  ASSUME TypeOK, NEW r \in Reasons, Degrade(r)
  PROVE  /\ mode' \in Modes /\ damaged' \in 0 .. 3
         /\ announced' \in BOOLEAN /\ safe_reason' \in Reasons
         /\ safe_entry_frame' \in {NONE} \cup 0 .. WindowFrames
<1>1. CASE IsSafe
  BY <1>1, AfterVoteType DEF TypeOK, Degrade, Modes, Reasons
<1>2. CASE ~IsSafe
  <2>1. safe_entry_frame' = frame /\ obc_mode_enter_safe(r, AfterVote)
    BY <1>2 DEF Degrade
  <2> QED
    BY <2>1, AfterVoteType, EnterSafeType DEF TypeOK
<1> QED
  BY <1>1, <1>2

(* The ladder: what one overrun may do to its state.                       *)
LEMMA LogType ==
  ASSUME TypeOK, NEW t \in Tasks, NEW f \in Nat, NEW g \in {1, 2},
         log_suspension(t, f, g)
  PROVE  /\ log' \in Seq([task : Tasks, frame : Nat, rung : {1, 2}])
         /\ log_overflow' \in Nat
<1>1. [task |-> t, frame |-> f, rung |-> g] \in [task : Tasks, frame : Nat, rung : {1, 2}]
  OBVIOUS
<1>2. /\ log \in Seq([task : Tasks, frame : Nat, rung : {1, 2}])
      /\ log_overflow \in Nat
  BY DEF TypeOK
<1>3. Append(log, [task |-> t, frame |-> f, rung |-> g])
        \in Seq([task : Tasks, frame : Nat, rung : {1, 2}])
  BY <1>1, <1>2, AppendProperties
<1>4. CASE Len(log) < LogCapacity
  BY <1>2, <1>3, <1>4, Zenon DEF log_suspension
<1>5. CASE ~(Len(log) < LogCapacity)
  <2>1. log' = log /\ log_overflow' = log_overflow + 1
    BY <1>5, Zenon DEF log_suspension
  <2> QED
    BY <1>2, <2>1
<1> QED
  BY <1>4, <1>5

LEMMA NextDueType ==
  ASSUME TypeOK, NEW t \in Tasks
  PROVE  NextDue(t) \in Nat /\ NextDue(t) > frame
<1>1. Table[t].period \in Nat \ {0}
  BY ExecutiveAssumption
<1> QED
  BY <1>1 DEF TypeOK, NextDue

LEMMA ClimbType ==
  ASSUME TypeOK, NEW t \in Tasks, NEW n \in Nat \ {0}, Climb(t, n), pc = "running",
         UNCHANGED result
  PROVE  /\ pc' \in {"row", "reset"} /\ reset_by' \in {"none", "ladder", "watchdog"}
         /\ suspended' \in [task : {NONE} \cup Tasks, frame : {NONE} \cup Nat]
         /\ log' \in Seq([task : Tasks, frame : Nat, rung : {1, 2}])
         /\ log_overflow' \in Nat
         /\ mode' \in Modes /\ damaged' \in 0 .. 3
         /\ announced' \in BOOLEAN /\ safe_reason' \in Reasons
<1>1. CASE SuspendTask(t)
  <2>1. NextDue(t) \in Nat
    BY NextDueType
  <2>2. suspended' \in [task : {NONE} \cup Tasks, frame : {NONE} \cup Nat]
    BY <1>1, <2>1 DEF SuspendTask
  <2>3. log_suspension(t, NextDue(t), 1)
    BY <1>1 DEF SuspendTask
  <2>4. log' \in Seq([task : Tasks, frame : Nat, rung : {1, 2}]) /\ log_overflow' \in Nat
    BY <2>1, <2>3, LogType
  <2> QED
    BY <1>1, <2>2, <2>4 DEF SuspendTask, TypeOK, modeVars, Modes, Reasons
<1>2. CASE ResetSubsystem(t)
  <2>1. frame \in Nat /\ log_suspension(t, frame, 2)
    BY <1>2 DEF TypeOK, ResetSubsystem
  <2>2. log' \in Seq([task : Tasks, frame : Nat, rung : {1, 2}]) /\ log_overflow' \in Nat
    BY <2>1, LogType
  <2> QED
    BY <1>2, <2>2 DEF ResetSubsystem, TypeOK, modeVars, Modes, Reasons
<1>3. CASE ResetMachine
  <2>1. CASE short_boots >= ShortBootLimit
    <3>1. obc_mode_enter_safe("RESET_LOOP", damaged) /\ damaged \in 0 .. 3
      BY <1>3, <2>1 DEF ResetMachine, TypeOK
    <3>2. "RESET_LOOP" \in Reasons
      BY DEF Reasons
    <3>3. /\ mode' \in Modes /\ damaged' \in 0 .. 3
          /\ announced' \in BOOLEAN /\ safe_reason' \in Reasons
      BY <3>1, <3>2, EnterSafeType
    <3> QED
      BY <1>3, <2>1, <3>3 DEF ResetMachine, TypeOK
  <2>2. CASE ~(short_boots >= ShortBootLimit)
    BY <1>3, <2>2 DEF ResetMachine, TypeOK, modeVars, Modes, Reasons
  <2> QED
    BY <2>1, <2>2
<1> QED
  BY <1>1, <1>2, <1>3 DEF Climb

-----------------------------------------------------------------------------
LEMMA TypeInit == Init => TypeOK /\ InWindow
<1> SUFFICES ASSUME Init PROVE TypeOK /\ InWindow
  OBVIOUS
<1>1. mode \in {"nominal", "safe"} /\ short_boots \in Nat
  BY ExecutiveAssumption DEF Init
<1>2. /\ overruns \in [Tasks -> Nat]
      /\ suspended \in [task : {NONE} \cup Tasks, frame : {NONE} \cup Nat]
  BY DEF Init
<1>3. log \in Seq([task : Tasks, frame : Nat, rung : {1, 2}]) /\ trace \in Seq(Tasks)
  BY DEF Init
<1>4. announced \in BOOLEAN
  BY DEF Init
<1>5. safe_reason \in {"NONE", "RESTORED", "CLOCK", "FRAME_OVERRUN", "RESET_LOOP"}
  BY DEF Init
<1>6. frame \in 0 .. WindowFrames /\ cursor \in 0 .. TaskCount /\ frame < WindowFrames
  BY ExecutiveAssumption DEF Init
<1> QED
  <2>1. /\ pc = "start" /\ due = 0 /\ ran = 0 /\ now = 0 /\ armed = FALSE /\ fed_at = 0
        /\ damaged = 0 /\ safe_entry_frame = NONE /\ overruns_seen = 0
        /\ log_overflow = 0 /\ trace_overflow = 0 /\ frames_run = 0
        /\ frame_overruns = 0 /\ result = "none" /\ reset_by = "none" /\ strikes = 0
    BY DEF Init
  <2>2. /\ due \in Nat /\ ran \in Nat /\ now \in Nat /\ fed_at \in Nat
        /\ damaged \in 0 .. 3 /\ overruns_seen \in Nat /\ log_overflow \in Nat
        /\ trace_overflow \in Nat /\ frames_run \in Nat /\ frame_overruns \in Nat
        /\ strikes \in Nat
    BY <2>1
  <2>3. /\ armed \in BOOLEAN /\ safe_entry_frame \in {NONE} \cup 0 .. WindowFrames
        /\ pc \in {"start", "row", "running", "hung", "clock", "idle", "boundary",
                  "returned", "reset"}
        /\ result \in {"none", "OK", "UNSTABLE", "TIMEOUT"}
        /\ reset_by \in {"none", "ladder", "watchdog"}
    BY <2>1
  <2>4. pc # "running"
    BY <2>1
  <2> QED
    BY <1>1, <1>2, <1>3, <1>4, <1>5, <1>6, <2>2, <2>3, <2>4, Zenon DEF TypeOK, InWindow

LEMMA TypeStep ==
  ASSUME TypeOK, InWindow, [Next]_vars
  PROVE  TypeOK' /\ InWindow'
<1> USE DEF InWindow
<1>0. /\ TaskCount \in Nat \ {0} /\ WindowFrames \in Nat \ {0}
      /\ FrameTicks \in Nat \ {0} /\ MaxCost \in Nat /\ MaxLag \in Nat
  BY ExecutiveAssumption
<1>d. deadline \in Nat
  BY <1>0, ProductInNat DEF TypeOK, deadline
<1>1. CASE StartWindow
  <2>1. Vote
    BY <1>1 DEF StartWindow
  <2> QED
    BY <1>0, <1>1, <2>1, VoteType
    DEF StartWindow, TypeOK, Modes, Reasons, ladderVars, traceVars, frameVars, rowVars,
        envVars, endVars
<1>2. CASE StartOnBadClock
  <2>1. Degrade("CLOCK") /\ "CLOCK" \in Reasons
    BY <1>2 DEF StartOnBadClock, Reasons
  <2> QED
    BY <1>0, <1>2, <2>1, DegradeType
    DEF StartOnBadClock, Return, TypeOK, Modes, Reasons, ladderVars, traceVars, frameVars,
        rowVars, envVars
<1>3. CASE SkipRow
  <2>1. Vote
    BY <1>3 DEF SkipRow
  <2>2. due' \in Nat /\ cursor' \in 0 .. TaskCount
    BY <1>0, <1>3 DEF SkipRow, TypeOK
  <2> QED
    BY <1>0, <1>3, <2>1, <2>2, VoteType
    DEF SkipRow, TypeOK, Modes, Reasons, ladderVars, traceVars, frameVars, wdogVars,
        envVars, endVars
<1>4. CASE Dispatch
  <2>1. Vote /\ cursor \in Tasks
    BY <1>0, <1>4 DEF Dispatch, TypeOK, Tasks
  <2>2. trace' \in Seq(Tasks) /\ trace_overflow' \in Nat
    <3>1. Append(trace, cursor) \in Seq(Tasks)
      BY <2>1, AppendProperties DEF TypeOK
    <3>2. trace_push
      BY <1>4 DEF Dispatch
    <3>3. trace \in Seq(Tasks) /\ trace_overflow \in Nat
      BY DEF TypeOK
    <3>4. CASE Len(trace) < TraceCapacity
      BY <3>1, <3>2, <3>3, <3>4, Zenon DEF trace_push
    <3>5. CASE ~(Len(trace) < TraceCapacity)
      <4>1. trace' = trace /\ trace_overflow' = trace_overflow + 1
        BY <3>2, <3>5, Zenon DEF trace_push
      <4> QED
        BY <3>3, <4>1
    <3> QED
      BY <3>4, <3>5
  <2>3. now' \in Nat /\ pc' \in {"running", "hung"}
    BY <1>0, <1>4 DEF Dispatch, TypeOK
  <2> QED
    BY <1>0, <1>4, <2>1, <2>2, <2>3, VoteType
    DEF Dispatch, TypeOK, Modes, Reasons, ladderVars, frameVars, wdogVars, envVars, endVars
<1>5. CASE TaskReturns
  BY <1>0, <1>5
  DEF TaskReturns, TypeOK, modeVars, ladderVars, traceVars, frameVars, wdogVars, envVars,
      endVars
<1>6. CASE TaskOverruns
  <2>1. cursor \in Tasks
    <3>1. pc = "running"
      BY <1>6 DEF TaskOverruns
    <3> QED
      BY <1>0, <3>1 DEF TypeOK, Tasks
  <2>2. overruns[cursor] + 1 \in Nat \ {0}
    BY <2>1 DEF TypeOK
  <2>3. Climb(cursor, overruns[cursor] + 1) /\ pc = "running" /\ UNCHANGED result
    BY <1>6 DEF TaskOverruns
  <2>4. overruns' \in [Tasks -> Nat] /\ overruns_seen' \in Nat
    <3>1. /\ overruns_seen' = overruns_seen + 1
          /\ overruns' = [overruns EXCEPT ![cursor] = @ + 1]
      BY <1>6 DEF TaskOverruns
    <3> QED
      BY <2>1, <3>1 DEF TypeOK
  <2>5. /\ pc' \in {"row", "reset"} /\ reset_by' \in {"none", "ladder", "watchdog"}
        /\ suspended' \in [task : {NONE} \cup Tasks, frame : {NONE} \cup Nat]
        /\ log' \in Seq([task : Tasks, frame : Nat, rung : {1, 2}])
        /\ log_overflow' \in Nat
        /\ mode' \in Modes /\ damaged' \in 0 .. 3
        /\ announced' \in BOOLEAN /\ safe_reason' \in Reasons
    BY <2>1, <2>2, <2>3, ClimbType
  <2>6. /\ cursor' = cursor + 1 /\ ran' = ran + 1 /\ pc = "running"
        /\ UNCHANGED <<now, due, safe_entry_frame, trace, trace_overflow, frame,
                       frames_run, frame_overruns, armed, fed_at, result, short_boots,
                       strikes>>
    BY <1>6 DEF TaskOverruns, traceVars, frameVars, wdogVars
  <2> QED
    BY <1>0, <2>4, <2>5, <2>6 DEF TypeOK, Modes, Reasons
<1>7. CASE Feed
  <2>1. fed_at' \in Nat
    BY <1>7 DEF Feed, TypeOK
  <2> QED
    BY <1>0, <1>7, <2>1
    DEF Feed, TypeOK, modeVars, ladderVars, traceVars, frameVars, rowVars, envVars, endVars
<1>8. CASE ClockUnstable
  <2>1. Degrade("CLOCK") /\ "CLOCK" \in Reasons
    BY <1>8 DEF ClockUnstable, Reasons
  <2> QED
    BY <1>0, <1>8, <2>1, DegradeType
    DEF ClockUnstable, Return, TypeOK, Modes, Reasons, ladderVars, traceVars, frameVars,
        rowVars, envVars
<1>9. CASE FrameOverruns
  <2>1. Degrade("FRAME_OVERRUN") /\ "FRAME_OVERRUN" \in Reasons
    BY <1>9 DEF FrameOverruns, Reasons
  <2> QED
    BY <1>0, <1>9, <2>1, DegradeType
    DEF FrameOverruns, TypeOK, Modes, Reasons, ladderVars, traceVars, rowVars, wdogVars,
        envVars, endVars
<1>10. CASE FrameInTime
  BY <1>0, <1>10
  DEF FrameInTime, TypeOK, modeVars, ladderVars, traceVars, frameVars, rowVars, wdogVars,
      envVars, endVars
<1>11. CASE IdleToBoundary
  BY <1>0, <1>d, <1>11
  DEF IdleToBoundary, TypeOK, modeVars, ladderVars, traceVars, frameVars, rowVars, wdogVars,
      envVars, endVars
<1>12. CASE ClockStops
  <2>1. /\ pc' \in {"returned", "hung"} /\ result' \in {"none", "OK", "UNSTABLE", "TIMEOUT"}
        /\ armed' \in BOOLEAN /\ UNCHANGED <<fed_at, reset_by>>
    BY <1>12 DEF ClockStops, Return, TypeOK, wdogVars, endVars
  <2> QED
    BY <1>0, <1>12, <2>1
    DEF ClockStops, TypeOK, modeVars, ladderVars, traceVars, frameVars, rowVars, envVars
<1>13. CASE NextFrame
  <2>1. /\ pc' \in {"row", "returned"} /\ (pc' = "row" => frame + 1 < WindowFrames)
        /\ result' \in {"none", "OK", "UNSTABLE", "TIMEOUT"}
        /\ armed' \in BOOLEAN /\ UNCHANGED <<fed_at, reset_by>>
    BY <1>13 DEF NextFrame, Return, TypeOK, wdogVars, endVars
  <2>2. frame < WindowFrames
    BY <1>13 DEF NextFrame
  <2> QED
    BY <1>0, <1>13, <2>1, <2>2
    DEF NextFrame, TypeOK, modeVars, ladderVars, traceVars, envVars
<1>14. CASE WatchdogBites
  BY <1>0, <1>14
  DEF WatchdogBites, TypeOK, modeVars, ladderVars, traceVars, frameVars, rowVars, wdogVars,
      envVars
<1>15. CASE Strike
  BY <1>0, <1>15
  DEF Strike, TypeOK, ladderVars, traceVars, frameVars, rowVars, wdogVars, endVars
<1>16. CASE Ended \/ UNCHANGED vars
  <2>1. UNCHANGED vars
    BY <1>16 DEF Ended
  <2> QED
    BY <2>1
  DEF TypeOK, vars, modeVars, ladderVars, traceVars, frameVars, rowVars, wdogVars,
      envVars, endVars
<1> QED
  BY <1>1, <1>2, <1>3, <1>4, <1>5, <1>6, <1>7, <1>8, <1>9, <1>10, <1>11, <1>12, <1>13,
     <1>14, <1>15, <1>16 DEF Next, Software

(* Every variable keeps its type, and the loop counters stay inside the    *)
(* window and the table: sched.c never indexes past either.                *)
THEOREM TypeCorrect == Spec => [](TypeOK /\ InWindow)
BY TypeInit, TypeStep, PTL DEF Spec

-----------------------------------------------------------------------------
(* The mode.  What is announced is what was set, a full streak was already *)
(* announced at boot, a degraded window has its frame of entry, and copies *)
(* are damaged only by corruptions.                                        *)
ModeInv ==
  /\ announced <=> mode = "safe"
  /\ short_boots >= ShortBootLimit => announced
  /\ announced /\ pc \notin {"start", "returned", "reset"} => safe_entry_frame # NONE
  /\ damaged <= strikes /\ strikes <= MaxStrikes
  /\ pc = "start" => frame_overruns = 0
  /\ frame_overruns > 0 \/ safe_entry_frame # NONE => announced \/ damaged >= 2

(* A vote changes nothing but the damage, which it never increases, and    *)
(* repairs none of it once it is broken.                                   *)
LEMMA VoteMode ==
  ASSUME TypeOK, Vote
  PROVE  /\ damaged' \in Nat /\ damaged' <= damaged
         /\ damaged >= 2 => damaged' = damaged
         /\ UNCHANGED <<mode, announced, safe_reason>>
BY DEF TypeOK, Vote, AfterVote, VoteFails

(* Degrading what is announced does nothing more; degrading a nominal      *)
(* system announces it and dates it, unless the vote is already broken.    *)
LEMMA DegradeMode ==
  ASSUME TypeOK, ModeInv, NEW r, Degrade(r)
  PROVE  /\ damaged' \in Nat /\ damaged' <= damaged
         /\ announced' <=> mode' = "safe"
         /\ announced => announced' /\ UNCHANGED <<safe_reason, safe_entry_frame>>
         /\ announced' /\ ~announced => safe_entry_frame' # NONE
         /\ announced' \/ (damaged >= 2 /\ damaged' = damaged)
         /\ safe_entry_frame' # NONE => safe_entry_frame # NONE \/ announced'
<1>1. damaged \in Nat /\ frame \in Nat
  BY DEF TypeOK
<1>2. CASE IsSafe
  <2>1. damaged' = AfterVote /\ UNCHANGED <<mode, announced, safe_reason, safe_entry_frame>>
    BY <1>2 DEF Degrade
  <2>2. AfterVote \in Nat /\ AfterVote <= damaged
    BY <1>1 DEF AfterVote, VoteFails
  <2>3. damaged < 2 => mode = "safe"
    BY <1>1, <1>2 DEF IsSafe, VoteFails
  <2>4. damaged >= 2 => AfterVote = damaged
    BY DEF AfterVote, VoteFails
  <2> QED
    BY <1>1, <2>1, <2>2, <2>3, <2>4 DEF ModeInv
<1>3. CASE ~IsSafe
  <2>1. mode # "safe" /\ ~announced
    BY <1>3 DEF IsSafe, ModeInv
  <2>2. safe_entry_frame' = frame /\ obc_mode_enter_safe(r, AfterVote)
    BY <1>3 DEF Degrade
  <2>3. mode' = "safe" /\ damaged' = 0 /\ announced' = TRUE
    BY <2>1, <2>2 DEF obc_mode_enter_safe
  <2> QED
    BY <1>1, <2>1, <2>2, <2>3, NoneIsNoFrame
<1> QED
  BY <1>2, <1>3

(* No rung changes an announced mode, and only a full streak, which was    *)
(* announced at boot, would announce one.                                  *)
LEMMA ClimbMode ==
  ASSUME TypeOK, ModeInv, NEW t, NEW n, Climb(t, n)
  PROVE  /\ UNCHANGED <<mode, announced, safe_reason, damaged>>
         /\ pc' \in {"row", "reset"}
<1>1. CASE SuspendTask(t)
  BY <1>1 DEF SuspendTask, modeVars
<1>2. CASE ResetSubsystem(t)
  BY <1>2 DEF ResetSubsystem, modeVars
<1>3. CASE ResetMachine
  <2>1. CASE short_boots >= ShortBootLimit
    <3>1. announced
      BY <2>1 DEF ModeInv
    <3>2. obc_mode_enter_safe("RESET_LOOP", damaged) /\ pc' = "row"
      BY <1>3, <2>1 DEF ResetMachine
    <3> QED
      BY <3>1, <3>2 DEF obc_mode_enter_safe
  <2>2. CASE ~(short_boots >= ShortBootLimit)
    BY <1>3, <2>2 DEF ResetMachine, modeVars
  <2> QED
    BY <2>1, <2>2
<1> QED
  BY <1>1, <1>2, <1>3 DEF Climb

LEMMA ModeInvInit == Init => ModeInv
<1> SUFFICES ASSUME Init PROVE ModeInv
  OBVIOUS
<1>1. announced <=> mode = "safe"
  BY DEF Init
<1>2. short_boots >= ShortBootLimit => announced
  BY <1>1 DEF Init
<1>3. pc = "start" /\ damaged = 0 /\ strikes = 0 /\ frame_overruns = 0
  BY DEF Init
<1> QED
  BY <1>1, <1>2, <1>3, ExecutiveAssumption DEF ModeInv, Init

LEMMA ModeInvStep ==
  ASSUME TypeOK, ModeInv, [Next]_vars
  PROVE  ModeInv'
<1>0. /\ damaged \in Nat /\ strikes \in Nat /\ frame_overruns \in Nat /\ frame \in Nat
      /\ MaxStrikes \in Nat
  BY ExecutiveAssumption DEF TypeOK
<1>1. CASE StartWindow
  <2>1. Vote /\ pc = "start" /\ safe_entry_frame' = IF IsSafe THEN 0 ELSE NONE
    BY <1>1 DEF StartWindow
  <2>2. UNCHANGED <<frame_overruns, short_boots, strikes>>
    BY <1>1 DEF StartWindow, frameVars, envVars
  <2>3. announced => safe_entry_frame' # NONE
    BY <2>1, NoneIsNoFrame DEF ModeInv, IsSafe
  <2>4. safe_entry_frame' # NONE => announced \/ damaged >= 2
    BY <2>1 DEF ModeInv, IsSafe, VoteFails
  <2>5. /\ UNCHANGED <<mode, announced>> /\ damaged' \in Nat /\ damaged' <= damaged
        /\ damaged >= 2 => damaged' = damaged
    BY <2>1, VoteMode
  <2>6. frame_overruns' > 0 \/ safe_entry_frame' # NONE => announced' \/ damaged' >= 2
    BY <1>0, <2>1, <2>2, <2>4, <2>5 DEF ModeInv
  <2> QED
    BY <1>0, <2>1, <2>2, <2>3, <2>5, <2>6 DEF ModeInv
<1>2. CASE StartOnBadClock
  <2>1. Degrade("CLOCK") /\ pc = "start" /\ pc' = "returned"
    BY <1>2 DEF StartOnBadClock, Return
  <2>2. UNCHANGED <<frame_overruns, short_boots, strikes>>
    BY <1>2 DEF StartOnBadClock, frameVars, envVars
  <2> QED
    BY <1>0, <2>1, <2>2, DegradeMode DEF ModeInv
<1>3. CASE SkipRow
  <2>1. Vote /\ pc = "row" /\ UNCHANGED <<pc, safe_entry_frame>>
    BY <1>3 DEF SkipRow
  <2>2. UNCHANGED <<frame_overruns, short_boots, strikes>>
    BY <1>3 DEF SkipRow, frameVars, envVars
  <2> QED
    BY <1>0, <2>1, <2>2, VoteMode DEF ModeInv
<1>4. CASE Dispatch
  <2>1. Vote /\ pc = "row" /\ pc' \in {"running", "hung"} /\ UNCHANGED safe_entry_frame
    BY <1>4 DEF Dispatch
  <2>2. UNCHANGED <<frame_overruns, short_boots, strikes>>
    BY <1>4 DEF Dispatch, frameVars, envVars
  <2> QED
    BY <1>0, <2>1, <2>2, VoteMode DEF ModeInv
<1>5. CASE TaskReturns
  BY <1>0, <1>5 DEF TaskReturns, ModeInv, modeVars, frameVars, envVars
<1>6. CASE TaskOverruns
  <2>1. Climb(cursor, overruns[cursor] + 1) /\ pc = "running"
    BY <1>6 DEF TaskOverruns
  <2>2. UNCHANGED <<safe_entry_frame, frame_overruns, short_boots, strikes>>
    BY <1>6 DEF TaskOverruns, frameVars
  <2> QED
    BY <1>0, <2>1, <2>2, ClimbMode DEF ModeInv
<1>7. CASE Feed
  BY <1>0, <1>7 DEF Feed, ModeInv, modeVars, frameVars, envVars
<1>8. CASE ClockUnstable
  <2>1. Degrade("CLOCK") /\ pc \in {"clock", "idle"} /\ pc' = "returned"
    BY <1>8 DEF ClockUnstable, Return
  <2>2. UNCHANGED <<frame_overruns, short_boots, strikes>>
    BY <1>8 DEF ClockUnstable, frameVars, envVars
  <2> QED
    BY <1>0, <2>1, <2>2, DegradeMode DEF ModeInv
<1>9. CASE FrameOverruns
  <2>1. Degrade("FRAME_OVERRUN") /\ pc = "clock" /\ pc' = "idle"
    BY <1>9 DEF FrameOverruns
  <2>2. UNCHANGED <<short_boots, strikes>>
    BY <1>9 DEF FrameOverruns, envVars
  <2> QED
    BY <1>0, <2>1, <2>2, DegradeMode DEF ModeInv
<1>10. CASE FrameInTime
  BY <1>0, <1>10 DEF FrameInTime, ModeInv, modeVars, frameVars, envVars
<1>11. CASE IdleToBoundary
  BY <1>0, <1>11 DEF IdleToBoundary, ModeInv, modeVars, frameVars, envVars
<1>12. CASE ClockStops
  <2>1. pc = "idle" /\ pc' \in {"returned", "hung"}
    BY <1>12 DEF ClockStops, Return
  <2> QED
    BY <1>0, <1>12, <2>1 DEF ClockStops, ModeInv, modeVars, frameVars, envVars
<1>13. CASE NextFrame
  <2>1. pc = "boundary" /\ pc' \in {"row", "returned"}
    BY <1>13 DEF NextFrame, Return
  <2> QED
    BY <1>0, <1>13, <2>1 DEF NextFrame, ModeInv, modeVars, envVars
<1>14. CASE WatchdogBites
  BY <1>0, <1>14 DEF WatchdogBites, ModeInv, modeVars, frameVars, envVars
<1>15. CASE Strike
  <2>1. PICK n \in 1 .. 3 - damaged :
          strikes + n <= MaxStrikes /\ damaged' = damaged + n /\ strikes' = strikes + n
    BY <1>15 DEF Strike
  <2>2. UNCHANGED <<pc, safe_entry_frame, mode, announced, frame_overruns, short_boots>>
    BY <1>15 DEF Strike, frameVars
  <2> QED
    BY <1>0, <2>1, <2>2 DEF ModeInv
<1>16. CASE Ended \/ UNCHANGED vars
  <2>1. UNCHANGED vars
    BY <1>16 DEF Ended
  <2> QED
    BY <2>1 DEF ModeInv, vars, modeVars, frameVars, envVars
<1> QED
  BY <1>1, <1>2, <1>3, <1>4, <1>5, <1>6, <1>7, <1>8, <1>9, <1>10, <1>11, <1>12, <1>13,
     <1>14, <1>15, <1>16 DEF Next, Software

LEMMA ModeInvHolds == Spec => [](TypeOK /\ ModeInv)
<1>1. TypeOK /\ ModeInv /\ [Next]_vars /\ TypeOK' => ModeInv'
  BY ModeInvStep
<1> QED
  BY <1>1, ModeInvInit, TypeCorrect, PTL DEF Spec

(* A window with a missed boundary stays degraded, however many copies of  *)
(* the mode are corrupted; and the boundary is announced and dated, unless *)
(* the vote asked at that moment is broken: FrameOverruns reaches          *)
(* obc_mode_enter_safe or finds it reached.                                *)
THEOREM MissedBoundaryIsAnnouncedHolds == Spec => MissedBoundaryIsAnnounced
<1> DEFINE Announced ==
      /\ frame_overruns' > 0 => IsSafe'
      /\ frame_overruns' # frame_overruns =>
           VoteFails \/ (announced' /\ safe_entry_frame' # NONE)
<1>1. TypeOK /\ ModeInv /\ ModeInv' /\ [Next]_vars => [Announced]_vars
  <2> SUFFICES ASSUME TypeOK, ModeInv, ModeInv', Next
               PROVE  Announced
    BY Zenon
  <2>1. frame_overruns' > 0 => IsSafe'
    BY DEF ModeInv, IsSafe, VoteFails
  <2>2. CASE FrameOverruns
    <3>1. Degrade("FRAME_OVERRUN") /\ pc' = "idle"
      BY <2>2 DEF FrameOverruns
    <3>2. damaged < 2 => announced'
      BY <3>1, DegradeMode DEF TypeOK
    <3>3. announced' => safe_entry_frame' # NONE
      BY <3>1 DEF ModeInv
    <3>4. damaged >= 2 => VoteFails
      BY DEF VoteFails
    <3>5. damaged < 2 \/ damaged >= 2
      BY DEF TypeOK
    <3> QED
      BY <2>1, <3>2, <3>3, <3>4, <3>5, Zenon
  <2>3. ASSUME ~FrameOverruns PROVE frame_overruns' = frame_overruns
    BY <2>3 DEF Next, Software, StartWindow, StartOnBadClock, SkipRow, Dispatch, TaskReturns,
                TaskOverruns, Feed, ClockUnstable, FrameInTime, IdleToBoundary, ClockStops,
                NextFrame, WatchdogBites, Strike, Ended, vars, frameVars
  <2> QED
    BY <2>1, <2>2, <2>3, Zenon
<1> QED
  BY <1>1, ModeInvHolds, PTL DEF Spec, MissedBoundaryIsAnnounced

(* Once announced, every step keeps the reason, and keeps the frame of     *)
(* entry a window has started with: each caller of obc_mode_enter_safe     *)
(* finds either the vote or the latch in its way.                          *)
THEOREM FirstReasonStaysHolds == Spec => FirstReasonStays
<1>1. TypeOK /\ ModeInv /\ [Next]_vars
        => [announced => safe_reason' = safe_reason /\ announced'
             /\ (pc # "start" => safe_entry_frame' = safe_entry_frame)]_vars
  <2> SUFFICES ASSUME TypeOK, ModeInv, Next, announced
               PROVE  /\ safe_reason' = safe_reason /\ announced'
                      /\ (pc # "start" => safe_entry_frame' = safe_entry_frame)
    OBVIOUS
  <2>1. CASE StartWindow
    BY <2>1, VoteMode DEF StartWindow
  <2>2. CASE StartOnBadClock \/ ClockUnstable \/ FrameOverruns
    <3>1. PICK r \in Reasons : Degrade(r)
      BY <2>2 DEF StartOnBadClock, ClockUnstable, FrameOverruns, Reasons
    <3> QED
      BY <3>1, DegradeMode
  <2>3. CASE SkipRow \/ Dispatch
    BY <2>3, VoteMode DEF SkipRow, Dispatch
  <2>4. CASE TaskOverruns
    <3>1. Climb(cursor, overruns[cursor] + 1) /\ UNCHANGED safe_entry_frame
      BY <2>4 DEF TaskOverruns
    <3> QED
      BY <3>1, ClimbMode
  <2>5. CASE \/ TaskReturns \/ Feed \/ FrameInTime \/ IdleToBoundary \/ ClockStops
             \/ NextFrame \/ WatchdogBites
    BY <2>5 DEF TaskReturns, Feed, FrameInTime, IdleToBoundary, ClockStops, NextFrame,
                WatchdogBites, modeVars
  <2>6. CASE Strike \/ Ended
    BY <2>6 DEF Strike, Ended, vars, modeVars
  <2> QED
    BY <2>1, <2>2, <2>3, <2>4, <2>5, <2>6 DEF Next, Software
<1> QED
  BY <1>1, ModeInvHolds, PTL DEF Spec, FirstReasonStays

(* Whatever the table and whatever is corrupted, a task outside the        *)
(* essential subset is dispatched only while no frame of entry is written, *)
(* and withheld for the mode only once it is or while the vote is broken:  *)
(* what the host takes from obc_safe_entry_frame is what the window did.   *)
THEOREM SafeEntryIsHonestHolds == Spec => SafeEntryIsHonest
<1> DEFINE Honest ==
      pc = "row" /\ cursor < TaskCount /\ ~Table[cursor].essential =>
        /\ traceVars' # traceVars => safe_entry_frame = NONE
        /\ /\ cursor' # cursor /\ IsDue(cursor, frame)
           /\ ~obc_recover_is_suspended(cursor, frame)
           => safe_entry_frame # NONE \/ VoteFails
<1>1. TypeOK /\ ModeInv /\ [Next]_vars => [Honest]_vars
  <2> SUFFICES ASSUME TypeOK, ModeInv, Next,
                      pc = "row", cursor < TaskCount, ~Table[cursor].essential
               PROVE  Honest
    BY Zenon
  <2>1. CASE Dispatch
    <3>1. ~IsSafe /\ cursor' = cursor
      BY <2>1 DEF Dispatch
    <3>2. ~announced /\ ~(damaged >= 2)
      BY <3>1 DEF IsSafe, VoteFails, ModeInv
    <3>3. safe_entry_frame = NONE
      BY <3>2 DEF ModeInv
    <3> QED
      BY <3>1, <3>3, Zenon
  <2>2. CASE SkipRow
    <3>1. UNCHANGED traceVars
      BY <2>2 DEF SkipRow
    <3>2. ASSUME IsDue(cursor, frame), ~obc_recover_is_suspended(cursor, frame)
          PROVE  safe_entry_frame # NONE \/ VoteFails
      <4>1. IsSafe
        BY <2>2, <3>2 DEF SkipRow
      <4>2. ~VoteFails => announced
        BY <4>1 DEF IsSafe, ModeInv
      <4> QED
        BY <4>2 DEF ModeInv
    <3> QED
      BY <3>1, <3>2, Zenon
  <2>3. CASE Feed \/ WatchdogBites \/ Strike
    <3>1. UNCHANGED <<traceVars, cursor>>
      BY <2>3 DEF Feed, WatchdogBites, Strike, rowVars
    <3> QED
      BY <3>1, Zenon
  <2> QED
    BY <2>1, <2>2, <2>3
    DEF Next, Software, StartWindow, StartOnBadClock, TaskReturns, TaskOverruns, ClockUnstable,
        FrameOverruns, FrameInTime, IdleToBoundary, ClockStops, NextFrame, Ended
<1> QED
  BY <1>1, ModeInvHolds, PTL DEF Spec, SafeEntryIsHonest

-----------------------------------------------------------------------------
(* The suspension log.  A task overruns once per entry, so its entries     *)
(* have different rungs, and two per task is all there can be.             *)
LogInv ==
  /\ log_overflow = 0
  /\ \A k \in 1 .. Len(log) : log[k].rung <= overruns[log[k].task]
  /\ \A j, k \in 1 .. Len(log) :
       log[j].task = log[k].task /\ log[j].rung = log[k].rung => j = k

LEMMA InjectionBound ==
  ASSUME NEW n \in Nat, NEW m \in Nat, NEW f \in [1 .. n -> 1 .. m],
         \A j, k \in 1 .. n : f[j] = f[k] => j = k
  PROVE  n <= m
<1>1. 1 \in Int /\ n \in Int /\ m \in Int
  OBVIOUS
<1>2. IsFiniteSet(1 .. m) /\ Cardinality(1 .. m) = IF 1 > m THEN 0 ELSE m - 1 + 1
  BY <1>1, FS_Interval, Zenon
<1>3. Cardinality(1 .. n) = IF 1 > n THEN 0 ELSE n - 1 + 1
  BY <1>1, FS_Interval, Zenon
<1>4. f \in Injection(1 .. n, 1 .. m)
  BY DEF Injection, IsInjective
<1>5. Cardinality(1 .. n) <= Cardinality(1 .. m)
  BY <1>2, <1>4, FS_Injection, Zenon
<1> QED
  BY <1>2, <1>3, <1>5

LEMMA LogEntryType ==
  ASSUME TypeOK, NEW k \in 1 .. Len(log)
  PROVE  log[k].task \in Tasks /\ log[k].rung \in {1, 2}
<1>1. log \in Seq([task : Tasks, frame : Nat, rung : {1, 2}])
  BY DEF TypeOK
<1>2. log[k] \in [task : Tasks, frame : Nat, rung : {1, 2}]
  BY <1>1, ElementOfSeq
<1> QED
  BY <1>2

(* An entry that differs from all those in the log finds room.             *)
LEMMA RoomForAnother ==
  ASSUME TypeOK, LogInv, LogCapacity >= 2 * TaskCount,
         NEW t \in Tasks, NEW g \in {1, 2},
         \A k \in 1 .. Len(log) : ~(log[k].task = t /\ log[k].rung = g)
  PROVE  Len(log) < LogCapacity
<1> DEFINE n == Len(log)
           code(k) == IF k <= n THEN 2 * log[k].task + log[k].rung ELSE 2 * t + g
           f == [k \in 1 .. n + 1 |-> code(k)]
<1>1. n \in Nat /\ TaskCount \in Nat /\ LogCapacity \in Nat
  BY ExecutiveAssumption DEF TypeOK
<1>2. \A k \in 1 .. n : log[k].task \in Tasks /\ log[k].rung \in {1, 2}
  BY LogEntryType
<1>3. \A u \in Tasks, h \in {1, 2} : 2 * u + h \in 1 .. 2 * TaskCount
  BY <1>1 DEF Tasks
<1>4. \A k \in 1 .. n + 1 : code(k) \in 1 .. 2 * TaskCount
  <2> SUFFICES ASSUME NEW k \in 1 .. n + 1 PROVE code(k) \in 1 .. 2 * TaskCount
    OBVIOUS
  <2>1. CASE k <= n
    <3>1. k \in 1 .. n
      BY <1>1, <2>1
    <3>2. 2 * log[k].task + log[k].rung \in 1 .. 2 * TaskCount
      BY <1>2, <1>3, <3>1
    <3> QED
      BY <2>1, <3>2
  <2>2. CASE ~(k <= n)
    <3>1. 2 * t + g \in 1 .. 2 * TaskCount
      BY <1>3
    <3> QED
      BY <2>2, <3>1
  <2> QED
    BY <2>1, <2>2
<1>5. f \in [1 .. n + 1 -> 1 .. 2 * TaskCount]
  BY <1>4
<1>6. \A u, v \in Tasks, h, i \in {1, 2} : 2 * u + h = 2 * v + i => u = v /\ h = i
  BY <1>1 DEF Tasks
<1>7. \A j, k \in 1 .. n + 1 : f[j] = f[k] => j = k
  <2> SUFFICES ASSUME NEW j \in 1 .. n + 1, NEW k \in 1 .. n + 1, code(j) = code(k)
               PROVE  j = k
    OBVIOUS
  <2> USE <1>1
  <2>1. CASE j <= n /\ k <= n
    BY <2>1, <1>2, <1>6 DEF LogInv
  <2>2. CASE j <= n /\ ~(k <= n)
    BY <2>2, <1>2, <1>6
  <2>3. CASE ~(j <= n) /\ k <= n
    BY <2>3, <1>2, <1>6
  <2>4. CASE ~(j <= n) /\ ~(k <= n)
    BY <2>4
  <2> QED
    BY <2>1, <2>2, <2>3, <2>4
<1>8. n + 1 \in Nat /\ 2 * TaskCount \in Nat
  BY <1>1
<1> HIDE DEF f, n
<1>9. n + 1 <= 2 * TaskCount
  BY <1>5, <1>7, <1>8, InjectionBound
<1> QED
  BY <1>1, <1>9 DEF n

(* The positions of a sequence one entry longer.                           *)
LEMMA OneMore ==
  ASSUME NEW n \in Nat, NEW m, m = n + 1, NEW i \in 1 .. m
  PROVE  i \in 1 .. n \/ i = n + 1
OBVIOUS

(* Appending an entry of a fresh rung keeps the invariant, when the task's *)
(* overruns have reached that rung.                                        *)
LEMMA LogStep ==
  ASSUME TypeOK, LogInv, LogCapacity >= 2 * TaskCount,
         NEW t \in Tasks, NEW f \in Nat, NEW g \in {1, 2},
         overruns[t] = g - 1, log_suspension(t, f, g),
         overruns' = [overruns EXCEPT ![t] = @ + 1]
  PROVE  LogInv'
<1> DEFINE e == [task |-> t, frame |-> f, rung |-> g]
<1>1. /\ log \in Seq([task : Tasks, frame : Nat, rung : {1, 2}])
      /\ e \in [task : Tasks, frame : Nat, rung : {1, 2}]
      /\ overruns \in [Tasks -> Nat] /\ Len(log) \in Nat
  BY DEF TypeOK
<1>2. \A k \in 1 .. Len(log) :
        /\ log[k].task \in Tasks /\ log[k].rung \in {1, 2}
        /\ log[k].rung <= overruns[log[k].task]
  BY LogEntryType DEF LogInv
<1>3. \A k \in 1 .. Len(log) : ~(log[k].task = t /\ log[k].rung = g)
  BY <1>1, <1>2
<1>4. Len(log) < LogCapacity
  BY <1>3, RoomForAnother
<1>5. log' = Append(log, e) /\ log_overflow' = log_overflow
  BY <1>4, Zenon DEF log_suspension
<1>6. /\ Len(log') = Len(log) + 1
      /\ \A k \in 1 .. Len(log) : log'[k] = log[k]
      /\ log'[Len(log) + 1] = e
  BY <1>1, <1>5, AppendProperties
<1>7. e.task = t /\ e.rung = g
  OBVIOUS
<1> HIDE DEF e
<1>8. /\ \A u \in Tasks : overruns'[u] >= overruns[u]
      /\ overruns'[t] = g
      /\ \A u \in Tasks : overruns[u] \in Nat /\ overruns'[u] \in Nat
  BY <1>1
<1>9. \A k \in 1 .. Len(log') : log'[k].rung <= overruns'[log'[k].task]
  <2> SUFFICES ASSUME NEW k \in 1 .. Len(log')
               PROVE  log'[k].rung <= overruns'[log'[k].task]
    OBVIOUS
  <2>1. CASE k \in 1 .. Len(log)
    <3>1. log'[k] = log[k]
      BY <1>6, <2>1
    <3> QED
      BY <1>2, <1>8, <2>1, <3>1
  <2>2. CASE k \notin 1 .. Len(log)
    <3>1. k = Len(log) + 1
      BY <1>1, <1>6, <2>2
    <3> QED
      BY <1>6, <1>7, <1>8, <3>1
  <2> QED
    BY <2>1, <2>2
<1>10. \A j, k \in 1 .. Len(log') :
         log'[j].task = log'[k].task /\ log'[j].rung = log'[k].rung => j = k
  <2> SUFFICES ASSUME NEW j \in 1 .. Len(log'), NEW k \in 1 .. Len(log'),
                      log'[j].task = log'[k].task, log'[j].rung = log'[k].rung
               PROVE  j = k
    OBVIOUS
  <2>0. \A i \in 1 .. Len(log') : i \in 1 .. Len(log) \/ i = Len(log) + 1
    BY <1>1, <1>6, OneMore
  <2>1. CASE j \in 1 .. Len(log) /\ k \in 1 .. Len(log)
    BY <1>6, <2>1 DEF LogInv
  <2>2. CASE j = Len(log) + 1 /\ k \in 1 .. Len(log)
    BY <1>3, <1>6, <1>7, <2>2
  <2>3. CASE j \in 1 .. Len(log) /\ k = Len(log) + 1
    BY <1>3, <1>6, <1>7, <2>3
  <2> QED
    BY <2>0, <2>1, <2>2, <2>3
<1> QED
  BY <1>5, <1>9, <1>10 DEF LogInv

(* A rung that logs nothing leaves the entries; the counts only grow.      *)
LEMMA LogKept ==
  ASSUME TypeOK, LogInv, UNCHANGED <<log, log_overflow>>,
         NEW t \in Tasks, overruns' = [overruns EXCEPT ![t] = @ + 1]
  PROVE  LogInv'
<1>1. \A u \in Tasks : /\ overruns[u] \in Nat /\ overruns'[u] \in Nat
                       /\ overruns'[u] >= overruns[u]
  BY DEF TypeOK
<1>2. \A k \in 1 .. Len(log) : log[k].task \in Tasks /\ log[k].rung \in {1, 2}
  BY LogEntryType
<1>3. \A k \in 1 .. Len(log) : log[k].rung <= overruns'[log[k].task]
  <2> SUFFICES ASSUME NEW k \in 1 .. Len(log)
               PROVE  log[k].rung <= overruns'[log[k].task]
    OBVIOUS
  <2>1. log[k].rung <= overruns[log[k].task]
    BY DEF LogInv
  <2>2. log[k].task \in Tasks /\ log[k].rung \in {1, 2}
    BY <1>2
  <2>3. /\ overruns[log[k].task] \in Nat /\ overruns'[log[k].task] \in Nat
        /\ overruns'[log[k].task] >= overruns[log[k].task]
    BY <1>1, <2>2
  <2> QED
    BY <2>1, <2>2, <2>3
<1> QED
  BY <1>3 DEF LogInv

LEMMA LogInvStep ==
  ASSUME TypeOK, InWindow, LogInv, LogCapacity >= 2 * TaskCount, [Next]_vars
  PROVE  LogInv'
<1>1. CASE TaskOverruns
  <2>1. /\ Climb(cursor, overruns[cursor] + 1) /\ pc = "running"
        /\ overruns' = [overruns EXCEPT ![cursor] = @ + 1]
    BY <1>1 DEF TaskOverruns
  <2>2. cursor \in Tasks /\ overruns[cursor] \in Nat
    BY <2>1, ExecutiveAssumption DEF TypeOK, InWindow, Tasks
  <2>3. CASE overruns[cursor] + 1 = 1 /\ SuspendTask(cursor)
    <3>1. log_suspension(cursor, NextDue(cursor), 1) /\ NextDue(cursor) \in Nat
      BY <2>2, <2>3, NextDueType DEF SuspendTask
    <3>2. overruns[cursor] = 1 - 1
      BY <2>2, <2>3
    <3> QED
      BY <2>1, <2>2, <3>1, <3>2, LogStep
  <2>4. CASE overruns[cursor] + 1 = 2 /\ ResetSubsystem(cursor)
    <3>1. log_suspension(cursor, frame, 2) /\ frame \in Nat
      BY <2>4 DEF ResetSubsystem, TypeOK
    <3>2. overruns[cursor] = 2 - 1
      BY <2>2, <2>4
    <3> QED
      BY <2>1, <2>2, <3>1, <3>2, LogStep
  <2>5. CASE ResetMachine
    <3>1. UNCHANGED <<log, log_overflow>>
      BY <2>5 DEF ResetMachine
    <3> QED
      BY <2>1, <2>2, <3>1, LogKept
  <2>6. \/ overruns[cursor] + 1 = 1 /\ SuspendTask(cursor)
        \/ overruns[cursor] + 1 = 2 /\ ResetSubsystem(cursor)
        \/ ResetMachine
    BY <2>1, Zenon DEF Climb
  <2> QED
    BY <2>3, <2>4, <2>5, <2>6
<1>2. CASE \/ StartWindow \/ StartOnBadClock \/ SkipRow \/ Dispatch \/ TaskReturns \/ Feed
           \/ ClockUnstable \/ FrameOverruns
  <2>1. UNCHANGED ladderVars
    BY <1>2 DEF StartWindow, StartOnBadClock, SkipRow, Dispatch, TaskReturns, Feed,
                ClockUnstable, FrameOverruns
  <2> QED
    BY <2>1 DEF LogInv, ladderVars
<1>3. CASE \/ FrameInTime \/ IdleToBoundary \/ ClockStops \/ NextFrame \/ WatchdogBites
           \/ Strike \/ Ended \/ UNCHANGED vars
  <2>1. UNCHANGED ladderVars
    BY <1>3 DEF FrameInTime, IdleToBoundary, ClockStops, NextFrame, WatchdogBites, Strike,
                Ended, vars
  <2> QED
    BY <2>1 DEF LogInv, ladderVars
<1> QED
  BY <1>1, <1>2, <1>3 DEF Next, Software

(* Two entries for each task of the table are enough: with sixteen entries *)
(* and at most eight tasks, log_suspension never counts an overflow, so    *)
(* the host learns of every dispatch the ladder withheld.                  *)
THEOREM LogNeverOverflowsHolds == Spec => []LogNeverOverflows
<1>1. CASE LogCapacity >= 2 * TaskCount
  <2>1. Init => LogInv
    BY DEF Init, LogInv
  <2>2. TypeOK /\ InWindow /\ LogInv /\ [Next]_vars => LogInv'
    BY <1>1, LogInvStep
  <2>3. LogInv => LogNeverOverflows
    BY DEF LogInv, LogNeverOverflows
  <2> QED
    BY <2>1, <2>2, <2>3, TypeCorrect, PTL DEF Spec
<1>2. CASE ~(LogCapacity >= 2 * TaskCount)
  <2>1. LogNeverOverflows
    BY <1>2 DEF LogNeverOverflows
  <2> QED
    BY <2>1, PTL
<1> QED
  BY <1>1, <1>2

-----------------------------------------------------------------------------
(* The trace: at most one dispatch for each row examined so far.           *)
InDispatch == IF pc \in {"running", "hung"} THEN 1 ELSE 0

TraceInv ==
  /\ trace_overflow = 0
  /\ pc # "reset" => Len(trace) <= frame * TaskCount + cursor + InDispatch

LEMMA RoomInTrace ==
  ASSUME TypeOK, TraceInv, TraceCapacity >= TaskCount * WindowFrames,
         pc = "row", cursor < TaskCount, frame < WindowFrames
  PROVE  Len(trace) < TraceCapacity
<1>1. /\ frame \in Nat /\ TaskCount \in Nat /\ WindowFrames \in Nat /\ cursor \in Nat
      /\ TraceCapacity \in Nat /\ Len(trace) \in Nat
  BY ExecutiveAssumption DEF TypeOK
<1>2. PICK d \in Nat : WindowFrames = frame + 1 + d
  <2>1. WindowFrames - (frame + 1) \in Nat
    BY <1>1
  <2> QED
    BY <1>1, <2>1
<1>3. TaskCount * WindowFrames = frame * TaskCount + TaskCount + d * TaskCount
  BY <1>1, <1>2
<1>4. d * TaskCount \in Nat /\ frame * TaskCount \in Nat
  BY <1>1, <1>2, ProductInNat
<1>5. Len(trace) <= frame * TaskCount + cursor
  BY <1>1, <1>4 DEF TraceInv, InDispatch
<1> QED
  BY <1>1, <1>3, <1>4, <1>5

LEMMA TraceInvStep ==
  ASSUME TypeOK, InWindow, TraceInv, TraceCapacity >= TaskCount * WindowFrames, [Next]_vars
  PROVE  TraceInv'
<1>1. /\ frame \in Nat /\ TaskCount \in Nat /\ cursor \in Nat /\ cursor <= TaskCount
      /\ frame * TaskCount \in Nat /\ trace \in Seq(Tasks) /\ Len(trace) \in Nat
      /\ (frame + 1) * TaskCount = frame * TaskCount + TaskCount
  BY ExecutiveAssumption, ProductInNat DEF TypeOK
<1>2. CASE Dispatch
  <2>1. /\ pc = "row" /\ cursor < TaskCount /\ frame < WindowFrames /\ trace_push
        /\ pc' \in {"running", "hung"} /\ UNCHANGED <<cursor, frame>>
    BY <1>2 DEF Dispatch, InWindow, frameVars
  <2>2. cursor \in Tasks
    BY <1>1, <2>1 DEF Tasks
  <2>3. Len(trace) < TraceCapacity
    BY <2>1, RoomInTrace
  <2>4. trace' = Append(trace, cursor) /\ trace_overflow' = trace_overflow
    BY <2>1, <2>3, Zenon DEF trace_push
  <2>5. Len(trace') = Len(trace) + 1
    BY <1>1, <2>2, <2>4, AppendProperties
  <2> QED
    BY <1>1, <2>1, <2>4, <2>5 DEF TraceInv, InDispatch
<1>3. CASE SkipRow \/ TaskReturns \/ TaskOverruns
  <2>1. /\ UNCHANGED <<trace, trace_overflow, frame>> /\ cursor' = cursor + 1
        /\ pc \in {"row", "running"}
    BY <1>3 DEF SkipRow, TaskReturns, TaskOverruns, traceVars, frameVars
  <2>2. pc = "row" => pc' = "row"
    BY <1>3 DEF SkipRow, TaskReturns, TaskOverruns
  <2> QED
    BY <1>1, <2>1, <2>2 DEF TraceInv, InDispatch
<1>4. CASE NextFrame
  <2>1. /\ UNCHANGED <<trace, trace_overflow>> /\ frame' = frame + 1 /\ cursor' = 0
        /\ pc = "boundary"
    BY <1>4 DEF NextFrame, traceVars
  <2> QED
    BY <1>1, <2>1 DEF TraceInv, InDispatch
<1>5. CASE WatchdogBites
  BY <1>5 DEF WatchdogBites, TraceInv, traceVars
<1>6. CASE StartWindow \/ StartOnBadClock \/ Feed \/ ClockUnstable \/ FrameOverruns
  <2>1. UNCHANGED <<trace, trace_overflow, frame, cursor>> /\ pc \notin {"running", "hung", "reset"}
    BY <1>6 DEF StartWindow, StartOnBadClock, Feed, ClockUnstable, FrameOverruns, traceVars,
                frameVars, rowVars
  <2> QED
    BY <1>1, <2>1 DEF TraceInv, InDispatch
<1>7. CASE FrameInTime \/ IdleToBoundary \/ ClockStops
  <2>1. UNCHANGED <<trace, trace_overflow, frame, cursor>> /\ pc \notin {"running", "hung", "reset"}
    BY <1>7 DEF FrameInTime, IdleToBoundary, ClockStops, traceVars, frameVars, rowVars
  <2> QED
    BY <1>1, <2>1 DEF TraceInv, InDispatch
<1>8. CASE Strike \/ Ended \/ UNCHANGED vars
  <2>1. UNCHANGED <<trace, trace_overflow, frame, cursor, pc>>
    BY <1>8 DEF Strike, Ended, vars, traceVars, frameVars, rowVars
  <2> QED
    BY <2>1 DEF TraceInv, InDispatch
<1> QED
  BY <1>2, <1>3, <1>4, <1>5, <1>6, <1>7, <1>8 DEF Next, Software

(* The trace of a window fits: trace_push never drops a dispatch when the  *)
(* capacity is the product the static assertion of tasks.c demands.        *)
THEOREM TraceNeverOverflowsHolds == Spec => []TraceNeverOverflows
<1>1. CASE TraceCapacity >= TaskCount * WindowFrames
  <2>1. Init => TraceInv
    <3> SUFFICES ASSUME Init PROVE TraceInv
      OBVIOUS
    <3>1. trace = <<>> /\ trace_overflow = 0 /\ frame = 0 /\ cursor = 0 /\ pc = "start"
      BY DEF Init
    <3> QED
      BY <3>1, ExecutiveAssumption DEF TraceInv, InDispatch
  <2>2. TypeOK /\ InWindow /\ TraceInv /\ [Next]_vars => TraceInv'
    BY <1>1, TraceInvStep
  <2>3. TraceInv => TraceNeverOverflows
    BY DEF TraceInv, TraceNeverOverflows
  <2> QED
    BY <2>1, <2>2, <2>3, TypeCorrect, PTL DEF Spec
<1>2. CASE ~(TraceCapacity >= TaskCount * WindowFrames)
  <2>1. TraceNeverOverflows
    BY <1>2 DEF TraceNeverOverflows
  <2> QED
    BY <2>1, PTL
<1> QED
  BY <1>1, <1>2
-----------------------------------------------------------------------------
(* The feed.  The watchdog is fed in a frame unless a suspension moved     *)
(* under its count: s_suspended_frame is one variable, so a task suspended *)
(* after another was skipped hides that one, and a row outside the         *)
(* essential subset may be suspended and shed.  Neither repeats at once    *)
(* when the rows that are due in every frame, the first apart, are the     *)
(* last row, and it is essential; and three frames without a feed is less  *)
(* than the watchdog waits.                                                *)
TableFeeds ==
  \A t \in Tasks \ {0} :
    Table[t].period = 1 => t = TaskCount - 1 /\ Table[t].essential

WatchdogOutlasts == 3 * FrameTicks + MaxLag < WdogTicks

Dispatching == pc \in {"row", "running"}
Waiting == pc \in {"clock", "idle", "boundary"}

(* Rows due in this frame and passed without running.                      *)
Skipped == due - ran - (IF pc = "running" THEN 1 ELSE 0)

LastAndEssential(t) == t = TaskCount - 1 /\ Table[t].essential

(* The frame under way will be fed; the frame that follows would be.       *)
WillFeed ==
  /\ suspended.frame = frame => LastAndEssential(suspended.task)
  /\ Skipped = 1 => suspended.frame = frame
NextWillFeed == suspended.frame = frame + 1 => LastAndEssential(suspended.task)

(* What is suspended is due in the frame it is suspended for.              *)
SuspensionOK ==
  /\ suspended.task # NONE => IsDue(suspended.task, suspended.frame)
  /\ suspended.task = NONE <=> suspended.frame = NONE
  /\ pc = "running" =>
       IsDue(cursor, frame) /\ ~(suspended.task = cursor /\ suspended.frame = frame)

(* At most one due row is skipped in a frame: the suspended one, or one    *)
(* that was suspended until a later row took its place.                    *)
AccountOK ==
  Dispatching =>
    /\ Skipped = 0 \/ Skipped = 1
    /\ suspended.frame = frame /\ suspended.task < cursor /\ Table[suspended.task].essential
         => Skipped = 1
    /\ Skipped = 1 => cursor > 0
    /\ Skipped = 1 /\ suspended.frame = frame => suspended.task < cursor
    /\ Skipped = 1 /\ suspended.frame # frame =>
         suspended.task > 0 /\ suspended.frame = NextDue(suspended.task)

ClockOK ==
  /\ pc \in {"start", "returned"} => ~armed
  /\ pc = "start" => /\ frame = 0 /\ cursor = 0 /\ due = 0 /\ ran = 0 /\ now = 0
                     /\ suspended.frame = NONE
  /\ Dispatching \/ Waiting =>
       frame * FrameTicks <= now /\ now <= frame * FrameTicks + FrameTicks + MaxLag
  /\ pc = "boundary" => now >= frame * FrameTicks + FrameTicks

(* How long ago the watchdog was fed.                                      *)
FedOK ==
  /\ Dispatching => \/ fed_at + FrameTicks >= frame * FrameTicks
                    \/ fed_at + 2 * FrameTicks >= frame * FrameTicks /\ WillFeed
  /\ Waiting => \/ fed_at >= frame * FrameTicks
                \/ fed_at + FrameTicks >= frame * FrameTicks /\ NextWillFeed

FeedInv == SuspensionOK /\ AccountOK /\ ClockOK /\ FedOK

LEMMA DueAgain ==
  ASSUME NEW a \in Nat, NEW p \in Nat \ {0}, a % p = 0
  PROVE  (a + p) % p = 0
<1>1. a = (a \div p) * p + (a % p) /\ a \div p \in Int
  OBVIOUS
<1>2. a + p = ((a + p) \div p) * p + ((a + p) % p) /\ (a + p) \div p \in Int
  OBVIOUS
<1>3. (a + p) % p \in 0 .. p - 1
  OBVIOUS
<1> DEFINE q == a \div p
           m == (a + p) \div p
           r == (a + p) % p
<1> HIDE DEF q, m, r
<1>4. q \in Int /\ m \in Int /\ r \in 0 .. p - 1 /\ q * p + p = m * p + r
  BY <1>1, <1>2, <1>3 DEF q, m, r
<1>5. r = (q + 1 - m) * p
  BY <1>4
<1>6. \A d \in Int : d * p >= 0 /\ d * p < p => d = 0
  OBVIOUS
<1>7. q + 1 - m = 0
  BY <1>4, <1>5, <1>6
<1> QED
  BY <1>5, <1>7 DEF r

LEMMA Numbers ==
  ASSUME TypeOK
  PROVE  /\ frame \in Nat /\ cursor \in Nat /\ cursor <= TaskCount /\ TaskCount \in Nat
         /\ due \in Nat /\ ran \in Nat /\ now \in Nat /\ fed_at \in Nat
         /\ FrameTicks \in Nat /\ FrameTicks > 0 /\ MaxLag \in Nat /\ WdogTicks \in Nat
         /\ frame * FrameTicks \in Nat
         /\ (frame + 1) * FrameTicks = frame * FrameTicks + FrameTicks
         /\ deadline = frame * FrameTicks + FrameTicks
         /\ suspended.task = NONE \/ suspended.task \in Tasks
         /\ suspended.task \in Int
         /\ suspended.frame = NONE \/ suspended.frame \in Nat
         /\ \A t \in Tasks : Table[t].period \in Nat \ {0} /\ Table[t].essential \in BOOLEAN
<1>1. /\ frame \in Nat /\ cursor \in Nat /\ cursor <= TaskCount /\ TaskCount \in Nat
      /\ due \in Nat /\ ran \in Nat /\ now \in Nat /\ fed_at \in Nat
      /\ FrameTicks \in Nat /\ FrameTicks > 0 /\ MaxLag \in Nat /\ WdogTicks \in Nat
  BY ExecutiveAssumption DEF TypeOK
<1>2. (frame + 1) * FrameTicks = frame * FrameTicks + FrameTicks
  BY <1>1
<1>3. suspended \in [task : {NONE} \cup Tasks, frame : {NONE} \cup Nat]
  BY DEF TypeOK
<1>4. \A t \in Tasks : Table[t].period \in Nat \ {0} /\ Table[t].essential \in BOOLEAN
  BY ExecutiveAssumption
<1>5. suspended.task \in Int
  BY <1>1, <1>3, NoneIsNoFrame DEF Tasks
<1> QED
  BY <1>1, <1>2, <1>3, <1>4, <1>5, ProductInNat DEF deadline

LEMMA SuspendedIs ==
  ASSUME TypeOK, NEW t, NEW f
  PROVE  obc_recover_is_suspended(t, f) <=> suspended.task = t /\ suspended.frame = f
<1>1. suspended \in [task : {NONE} \cup Tasks, frame : {NONE} \cup Nat]
  BY DEF TypeOK
<1> QED
  BY <1>1 DEF obc_recover_is_suspended

(* There is one suspension, so the count is one or none.                   *)
LEMMA SuspendedCount ==
  ASSUME TypeOK, SuspensionOK
  PROVE  SuspendedThisFrame = IF suspended.frame = frame THEN 1 ELSE 0
<1> DEFINE S == {t \in Tasks : IsDue(t, frame) /\ obc_recover_is_suspended(t, frame)}
<1>1. CASE suspended.frame = frame
  <2>1. suspended.task \in Tasks /\ IsDue(suspended.task, frame)
    BY <1>1, Numbers, NoneIsNoFrame DEF SuspensionOK
  <2>2. S = {suspended.task}
    BY <1>1, <2>1, SuspendedIs
  <2>3. Cardinality({suspended.task}) = 1
    BY FS_Singleton
  <2> QED
    BY <1>1, <2>2, <2>3 DEF SuspendedThisFrame
<1>2. CASE suspended.frame # frame
  <2>1. S = {}
    BY <1>2, SuspendedIs
  <2>2. Cardinality({}) = 0
    BY FS_EmptySet
  <2> QED
    BY <1>2, <2>1, <2>2 DEF SuspendedThisFrame
<1> QED
  BY <1>1, <1>2

LEMMA FeedInvInit == Init => FeedInv
<1> SUFFICES ASSUME Init PROVE FeedInv
  OBVIOUS
<1>1. /\ pc = "start" /\ frame = 0 /\ cursor = 0 /\ due = 0 /\ ran = 0 /\ now = 0
      /\ armed = FALSE /\ suspended = [task |-> NONE, frame |-> NONE]
  BY DEF Init
<1>2. suspended.task = NONE /\ suspended.frame = NONE
  BY <1>1
<1> QED
  BY <1>1, <1>2
  DEF FeedInv, SuspensionOK, AccountOK, ClockOK, FedOK, Dispatching, Waiting

(* When the count is right the feed happens; when it is not, what stands   *)
(* suspended cannot spoil the next frame.                                  *)
LEMMA FeedIsWithheldOnce ==
  ASSUME TypeOK, FeedInv, TableFeeds, pc = "row", cursor = TaskCount
  PROVE  /\ WillFeed => ran + SuspendedThisFrame = due
         /\ ran + SuspendedThisFrame # due => NextWillFeed
<1> USE Numbers, NoneIsNoFrame
<1>1. /\ Skipped = due - ran /\ Skipped \in {0, 1}
      /\ SuspendedThisFrame = IF suspended.frame = frame THEN 1 ELSE 0
  BY SuspendedCount DEF FeedInv, AccountOK, Dispatching, Skipped
<1>2. suspended.frame = frame => suspended.task \in Tasks /\ suspended.task < cursor
  BY ExecutiveAssumption DEF FeedInv, SuspensionOK, Tasks
<1>3. ASSUME WillFeed PROVE ran + SuspendedThisFrame = due
  <2>1. CASE suspended.frame = frame
    BY <1>1, <1>2, <1>3, <2>1
    DEF WillFeed, LastAndEssential, FeedInv, AccountOK, Dispatching
  <2>2. CASE suspended.frame # frame
    BY <1>1, <1>3, <2>2 DEF WillFeed
  <2> QED
    BY <2>1, <2>2
<1>4. ASSUME ran + SuspendedThisFrame # due, suspended.frame = frame + 1
      PROVE  LastAndEssential(suspended.task)
  <2>1. suspended.frame # frame /\ Skipped = 1
    BY <1>1, <1>4
  <2>2. suspended.task > 0 /\ suspended.frame = NextDue(suspended.task)
    BY <2>1 DEF FeedInv, AccountOK, Dispatching
  <2>3. suspended.task \in Tasks \ {0}
    <3>1. frame + 1 \in Nat
      OBVIOUS
    <3>2. suspended.frame # NONE
      BY <1>4, <3>1
    <3>3. suspended.task \in Tasks
      BY <3>2 DEF FeedInv, SuspensionOK
    <3> QED
      BY <2>2, <3>3
  <2>4. Table[suspended.task].period = 1
    BY <1>4, <2>2, <2>3 DEF NextDue
  <2> QED
    BY <2>3, <2>4 DEF TableFeeds, LastAndEssential
<1> QED
  BY <1>3, <1>4 DEF NextWillFeed

LEMMA OneFurther ==
  ASSUME NEW x \in Int, NEW c \in Nat
  PROVE  /\ x < c + 1 => x < c \/ x = c
         /\ x < c => x < c + 1
         /\ c + 1 > 0
OBVIOUS

LEMMA FeedInvSkips ==
  ASSUME TypeOK, FeedInv, SkipRow
  PROVE  FeedInv'
<1> USE Numbers, NoneIsNoFrame
<1>1. /\ pc = "row" /\ pc' = "row" /\ cursor < TaskCount /\ cursor' = cursor + 1
      /\ UNCHANGED <<frame, now, fed_at, ran, armed, suspended>>
  BY DEF SkipRow, ladderVars, frameVars, wdogVars
<1>2. /\ Skipped = due - ran /\ Skipped' = due' - ran
      /\ Skipped = 0 \/ Skipped = 1
  <2>1. due' = due \/ due' = due + 1
    BY DEF SkipRow
  <2>2. Skipped = due - ran /\ Skipped' = due' - ran
    BY <1>1, <2>1 DEF Skipped
  <2> QED
    BY <1>1, <2>2 DEF FeedInv, AccountOK, Dispatching
<1>3. SuspensionOK'
  BY <1>1 DEF FeedInv, SuspensionOK, IsDue
<1>4. ClockOK'
  BY <1>1 DEF FeedInv, ClockOK, Dispatching, Waiting
<1>5. CASE due' = due + 1 /\ obc_recover_is_suspended(cursor, frame)
  <2>1. suspended.task = cursor /\ suspended.frame = frame
    BY <1>5, SuspendedIs
  <2>2. Skipped = 0 /\ Skipped' = 1
    BY <1>1, <1>2, <1>5, <2>1 DEF FeedInv, AccountOK, Dispatching
  <2>3. AccountOK'
    BY <1>1, <2>1, <2>2 DEF AccountOK
  <2>4. WillFeed => WillFeed'
    BY <1>1, <2>1 DEF WillFeed, LastAndEssential
  <2> QED
    BY <1>1, <1>3, <1>4, <2>3, <2>4 DEF FeedInv, FedOK, Dispatching, Waiting
<1>6. CASE due' = due /\ (~Table[cursor].essential \/ ~IsDue(cursor, frame))
  <2>1. Skipped' = Skipped
    BY <1>2, <1>6
  <2>2. ~(suspended.frame = frame /\ suspended.task = cursor /\ Table[suspended.task].essential)
    BY <1>1, <1>6 DEF FeedInv, SuspensionOK
  <2>3. AccountOK'
    <3>1. /\ Skipped = 1 => cursor > 0
          /\ Skipped = 1 /\ suspended.frame = frame => suspended.task < cursor
          /\ Skipped = 1 /\ suspended.frame # frame =>
               suspended.task > 0 /\ suspended.frame = NextDue(suspended.task)
          /\ suspended.frame = frame /\ suspended.task < cursor
               /\ Table[suspended.task].essential => Skipped = 1
      BY <1>1 DEF FeedInv, AccountOK, Dispatching
    <3>2. /\ suspended.task < cursor + 1 => suspended.task < cursor \/ suspended.task = cursor
          /\ suspended.task < cursor => suspended.task < cursor + 1
          /\ cursor + 1 > 0
      BY OneFurther
    <3> QED
      BY <1>1, <1>2, <2>1, <2>2, <3>1, <3>2 DEF AccountOK, NextDue
  <2>4. WillFeed => WillFeed'
    BY <1>1, <2>1 DEF WillFeed, LastAndEssential
  <2> QED
    BY <1>1, <1>3, <1>4, <2>3, <2>4 DEF FeedInv, FedOK, Dispatching, Waiting
<1> QED
  BY <1>5, <1>6 DEF SkipRow

LEMMA FeedInvDispatches ==
  ASSUME TypeOK, FeedInv, Dispatch
  PROVE  FeedInv'
<1> USE Numbers, NoneIsNoFrame
<1>1. /\ pc = "row" /\ cursor < TaskCount /\ due' = due + 1
      /\ IsDue(cursor, frame) /\ ~obc_recover_is_suspended(cursor, frame)
      /\ UNCHANGED <<frame, cursor, fed_at, ran, armed, suspended>>
  BY DEF Dispatch, ladderVars, frameVars, wdogVars
<1>2. \/ /\ pc' = "running"
         /\ \E c \in 0 .. MaxCost : now + c <= deadline + MaxLag /\ now' = now + c
      \/ pc' = "hung"
  BY DEF Dispatch
<1>3. CASE pc' = "hung"
  BY <1>1, <1>3
  DEF FeedInv, SuspensionOK, AccountOK, ClockOK, FedOK, Dispatching, Waiting, IsDue
<1>4. CASE pc' = "running"
  <2>1. PICK c \in 0 .. MaxCost : now + c <= deadline + MaxLag /\ now' = now + c
    BY <1>2, <1>4
  <2>2. frame * FrameTicks <= now' /\ now' <= frame * FrameTicks + FrameTicks + MaxLag
    BY <1>1, <2>1, ExecutiveAssumption DEF FeedInv, ClockOK, Dispatching
  <2>3. Skipped' = Skipped
    BY <1>1, <1>4 DEF Skipped
  <2>4. SuspensionOK'
    BY <1>1, <1>4, SuspendedIs DEF FeedInv, SuspensionOK, IsDue
  <2>5. AccountOK'
    BY <1>1, <1>4, <2>3 DEF FeedInv, AccountOK, Dispatching, NextDue
  <2>6. ClockOK'
    BY <1>1, <1>4, <2>2 DEF ClockOK
  <2>7. FedOK'
    BY <1>1, <1>4, <2>3 DEF FeedInv, FedOK, Dispatching, Waiting, WillFeed, LastAndEssential
  <2> QED
    BY <2>4, <2>5, <2>6, <2>7 DEF FeedInv
<1> QED
  BY <1>2, <1>3, <1>4

(* A task that returned, suspended by the ladder or not.                   *)
LEMMA FeedInvTaskDone ==
  ASSUME TypeOK, InWindow, FeedInv, pc = "running", pc' = "row",
         cursor' = cursor + 1, ran' = ran + 1,
         UNCHANGED <<frame, now, due, fed_at, armed>>,
         \/ UNCHANGED suspended
         \/ suspended' = [task |-> cursor, frame |-> NextDue(cursor)]
  PROVE  FeedInv'
<1> USE Numbers, NoneIsNoFrame
<1>1. /\ Skipped = due - ran - 1 /\ Skipped' = due - (ran + 1) /\ Skipped' = Skipped
      /\ Skipped = 0 \/ Skipped = 1
  <2>1. /\ Skipped = due - ran - 1 /\ Skipped' = due - (ran + 1) /\ Skipped' = Skipped
    BY DEF Skipped
  <2> QED
    BY <2>1 DEF FeedInv, AccountOK, Dispatching
<1>2. cursor \in Tasks /\ cursor < TaskCount /\ IsDue(cursor, frame)
  BY DEF InWindow, Tasks, FeedInv, SuspensionOK
<1>3. /\ Skipped = 1 => cursor > 0
      /\ Skipped = 1 /\ suspended.frame = frame => suspended.task < cursor
      /\ Skipped = 1 /\ suspended.frame # frame =>
           suspended.task > 0 /\ suspended.frame = NextDue(suspended.task)
      /\ suspended.frame = frame /\ suspended.task < cursor
           /\ Table[suspended.task].essential => Skipped = 1
      /\ ~(suspended.task = cursor /\ suspended.frame = frame)
  BY DEF FeedInv, AccountOK, Dispatching, SuspensionOK
<1>4. ClockOK'
  BY DEF FeedInv, ClockOK, Dispatching, Waiting
<1>5. CASE UNCHANGED suspended
  <2>1. SuspensionOK'
    BY <1>5 DEF FeedInv, SuspensionOK, IsDue
  <2>2. /\ suspended.task < cursor + 1 => suspended.task < cursor \/ suspended.task = cursor
        /\ suspended.task < cursor => suspended.task < cursor + 1
        /\ cursor + 1 > 0
    BY OneFurther
  <2>3. AccountOK'
    BY <1>1, <1>3, <1>5, <2>2 DEF AccountOK, NextDue
  <2>4. WillFeed => WillFeed'
    BY <1>1, <1>5 DEF WillFeed, LastAndEssential
  <2> QED
    BY <1>4, <2>1, <2>3, <2>4 DEF FeedInv, FedOK, Dispatching, Waiting
<1>6. CASE suspended' = [task |-> cursor, frame |-> NextDue(cursor)]
  <2>1. suspended'.task = cursor /\ suspended'.frame = NextDue(cursor)
    BY <1>6
  <2>2. NextDue(cursor) = frame + Table[cursor].period /\ Table[cursor].period \in Nat \ {0}
    BY <1>2 DEF NextDue
  <2>3. NextDue(cursor) \in Nat /\ NextDue(cursor) > frame
    BY <2>2
  <2>4. IsDue(cursor, NextDue(cursor))
    BY <1>2, <2>2, DueAgain DEF IsDue
  <2>5. SuspensionOK'
    BY <1>2, <2>1, <2>3, <2>4 DEF SuspensionOK, IsDue, Tasks
  <2>6. AccountOK'
    BY <1>1, <1>3, <2>1, <2>3 DEF AccountOK, NextDue
  <2>7. ASSUME WillFeed PROVE WillFeed'
    <3>1. ~(Skipped = 1)
      <4> SUFFICES ASSUME Skipped = 1 PROVE FALSE
        OBVIOUS
      <4>1. suspended.frame = frame /\ suspended.task = TaskCount - 1
        BY <2>7 DEF WillFeed, LastAndEssential
      <4> QED
        BY <1>2, <1>3, <4>1
    <3> QED
      BY <1>1, <2>1, <2>3, <3>1 DEF WillFeed
  <2> QED
    BY <1>4, <2>5, <2>6, <2>7 DEF FeedInv, FedOK, Dispatching, Waiting
<1> QED
  BY <1>5, <1>6

(* Once the machine has stopped, only the suspension is still spoken of.   *)
LEMMA FeedInvStops ==
  ASSUME FeedInv, pc' \in {"hung", "returned", "reset"},
         pc' = "returned" => ~armed',
         UNCHANGED suspended
  PROVE  FeedInv'
BY DEF FeedInv, SuspensionOK, AccountOK, ClockOK, FedOK, Dispatching, Waiting, IsDue

LEMMA FeedInvReturns ==
  ASSUME TypeOK, InWindow, FeedInv, TaskReturns \/ TaskOverruns
  PROVE  FeedInv'
<1>1. /\ pc = "running" /\ cursor' = cursor + 1 /\ ran' = ran + 1
      /\ UNCHANGED <<frame, now, due, fed_at, armed>>
  BY DEF TaskReturns, TaskOverruns, frameVars, wdogVars
<1>2. CASE TaskReturns
  BY <1>1, <1>2, FeedInvTaskDone DEF TaskReturns, ladderVars
<1>3. CASE TaskOverruns
  <2>1. \/ SuspendTask(cursor)
        \/ ResetSubsystem(cursor)
        \/ ResetMachine
    BY <1>3, Zenon DEF TaskOverruns, Climb
  <2>2. CASE SuspendTask(cursor)
    BY <1>1, <2>2, FeedInvTaskDone DEF SuspendTask
  <2>3. CASE ResetSubsystem(cursor)
    BY <1>1, <2>3, FeedInvTaskDone DEF ResetSubsystem
  <2>4. CASE ResetMachine
    <3>1. UNCHANGED suspended /\ (pc' = "row" \/ pc' = "reset")
      BY <2>4 DEF ResetMachine
    <3> QED
      BY <1>1, <3>1, FeedInvTaskDone, FeedInvStops
  <2> QED
    BY <2>1, <2>2, <2>3, <2>4
<1> QED
  BY <1>2, <1>3

LEMMA FeedInvFeeds ==
  ASSUME TypeOK, FeedInv, TableFeeds, Feed
  PROVE  FeedInv'
<1> USE Numbers
<1>1. /\ pc = "row" /\ pc' = "clock" /\ cursor = TaskCount
      /\ UNCHANGED <<now, armed, frame, suspended>>
      /\ fed_at' = IF ran + SuspendedThisFrame = due THEN now ELSE fed_at
  BY DEF Feed, ladderVars, frameVars
<1>2. SuspensionOK' /\ AccountOK' /\ ClockOK'
  BY <1>1 DEF FeedInv, SuspensionOK, AccountOK, ClockOK, Dispatching, Waiting, IsDue
<1>3. \/ fed_at' >= frame * FrameTicks
      \/ fed_at' + FrameTicks >= frame * FrameTicks /\ NextWillFeed
  <2>1. CASE ran + SuspendedThisFrame = due
    BY <1>1, <2>1 DEF FeedInv, ClockOK, Dispatching
  <2>2. CASE ran + SuspendedThisFrame # due
    BY <1>1, <2>2, FeedIsWithheldOnce DEF FeedInv, FedOK, Dispatching
  <2> QED
    BY <2>1, <2>2
<1> QED
  BY <1>1, <1>2, <1>3 DEF FeedInv, FedOK, Dispatching, Waiting, NextWillFeed, LastAndEssential

LEMMA FeedInvNextFrame ==
  ASSUME TypeOK, FeedInv, NextFrame
  PROVE  FeedInv'
<1> USE Numbers, NoneIsNoFrame
<1>1. /\ pc = "boundary" /\ frame' = frame + 1 /\ cursor' = 0 /\ due' = 0 /\ ran' = 0
      /\ UNCHANGED <<now, suspended>>
      /\ \/ pc' = "row" /\ UNCHANGED <<armed, fed_at>>
         \/ pc' = "returned" /\ armed' = FALSE
  BY DEF NextFrame, Return, ladderVars, wdogVars
<1>2. CASE pc' = "returned"
  BY <1>1, <1>2, FeedInvStops
<1>3. CASE pc' = "row"
  <2>1. fed_at' = fed_at /\ Skipped' = 0
    BY <1>1, <1>3 DEF Skipped
  <2>2. SuspensionOK'
    BY <1>1, <1>3 DEF FeedInv, SuspensionOK, IsDue
  <2>3. AccountOK'
    <3>1. ~(suspended.frame = frame + 1 /\ suspended.task < 0)
      <4>1. frame + 1 \in Nat
        OBVIOUS
      <4>2. \A t \in Tasks : ~(t < 0)
        BY DEF Tasks
      <4> QED
        BY <4>1, <4>2 DEF FeedInv, SuspensionOK
    <3> QED
      BY <1>1, <2>1, <3>1 DEF AccountOK
  <2>4. ClockOK'
    BY <1>1, <1>3 DEF FeedInv, ClockOK, Waiting
  <2>5. NextWillFeed => WillFeed'
    BY <1>1, <2>1 DEF NextWillFeed, WillFeed, LastAndEssential
  <2>6. FedOK'
    BY <1>1, <1>3, <2>1, <2>5 DEF FeedInv, FedOK, Dispatching, Waiting
  <2> QED
    BY <2>2, <2>3, <2>4, <2>6 DEF FeedInv
<1> QED
  BY <1>1, <1>2, <1>3

LEMMA FeedInvWaits ==
  ASSUME TypeOK, FeedInv, FrameOverruns \/ FrameInTime \/ IdleToBoundary
  PROVE  FeedInv'
<1> USE Numbers
<1>1. /\ pc \in {"clock", "idle"} /\ pc' \in {"idle", "boundary"}
      /\ UNCHANGED <<frame, fed_at, armed, suspended>>
  BY DEF FrameOverruns, FrameInTime, IdleToBoundary, frameVars, wdogVars, ladderVars
<1>2. /\ now' = now \/ (now' = deadline /\ now < deadline)
      /\ pc' = "boundary" => now' >= deadline
  BY DEF FrameOverruns, FrameInTime, IdleToBoundary
<1>3. ClockOK'
  BY <1>1, <1>2 DEF FeedInv, ClockOK, Waiting, Dispatching
<1>4. FedOK'
  BY <1>1 DEF FeedInv, FedOK, Waiting, Dispatching, NextWillFeed, LastAndEssential
<1> QED
  BY <1>1, <1>3, <1>4 DEF FeedInv, SuspensionOK, AccountOK, Dispatching, IsDue

LEMMA FeedInvStarts ==
  ASSUME TypeOK, FeedInv, StartWindow
  PROVE  FeedInv'
<1> USE Numbers, NoneIsNoFrame
<1>1. /\ pc = "start" /\ pc' = "row" /\ fed_at' = now
      /\ UNCHANGED <<now, frame, cursor, due, ran, suspended>>
  BY DEF StartWindow, ladderVars, frameVars, rowVars
<1>2. frame = 0 /\ cursor = 0 /\ due = 0 /\ ran = 0 /\ now = 0 /\ suspended.frame = NONE
  BY <1>1 DEF FeedInv, ClockOK
<1>3. Skipped' = 0 /\ suspended'.frame # frame'
  BY <1>1, <1>2 DEF Skipped
<1>4. SuspensionOK'
  BY <1>1 DEF FeedInv, SuspensionOK, IsDue
<1>5. AccountOK'
  BY <1>3 DEF AccountOK
<1>6. ClockOK' /\ FedOK'
  BY <1>1, <1>2 DEF ClockOK, FedOK, Waiting
<1> QED
  BY <1>4, <1>5, <1>6 DEF FeedInv

LEMMA FeedInvStep ==
  ASSUME TypeOK, InWindow, FeedInv, TableFeeds, [Next]_vars
  PROVE  FeedInv'
<1>1. CASE StartOnBadClock \/ ClockUnstable
  <2>1. pc' = "returned" /\ ~armed' /\ UNCHANGED suspended
    BY <1>1 DEF StartOnBadClock, ClockUnstable, Return, ladderVars
  <2> QED
    BY <2>1, FeedInvStops
<1>2. CASE ClockStops
  <2>1. /\ (pc' = "returned" /\ ~armed') \/ pc' = "hung"
        /\ UNCHANGED suspended
    BY <1>2 DEF ClockStops, Return, ladderVars
  <2> QED
    BY <2>1, FeedInvStops
<1>3. CASE WatchdogBites
  <2>1. pc' = "reset" /\ UNCHANGED suspended
    BY <1>3 DEF WatchdogBites, ladderVars
  <2> QED
    BY <2>1, FeedInvStops
<1>4. CASE Strike \/ Ended \/ UNCHANGED vars
  <2>1. UNCHANGED <<pc, frame, cursor, due, ran, now, armed, fed_at, suspended>>
    BY <1>4 DEF Strike, Ended, vars, ladderVars, frameVars, rowVars, wdogVars
  <2> QED
    BY <2>1
    DEF FeedInv, SuspensionOK, AccountOK, ClockOK, FedOK, Dispatching, Waiting, Skipped,
        WillFeed, NextWillFeed, LastAndEssential, IsDue, NextDue
<1>5. CASE SkipRow \/ Dispatch \/ TaskReturns \/ TaskOverruns
  BY <1>5, FeedInvSkips, FeedInvDispatches, FeedInvReturns
<1>6. CASE StartWindow \/ Feed \/ NextFrame
  BY <1>6, FeedInvStarts, FeedInvFeeds, FeedInvNextFrame
<1>7. CASE FrameOverruns \/ FrameInTime \/ IdleToBoundary
  BY <1>7, FeedInvWaits
<1> QED
  BY <1>1, <1>2, <1>3, <1>4, <1>5, <1>6, <1>7 DEF Next, Software

(* Between two feeds the program that still runs is less than three frames *)
(* and its lag apart, so the hardware waits longer.                        *)
LEMMA RunningIsFed ==
  ASSUME TypeOK, FeedInv, WatchdogOutlasts, pc \notin {"hung", "reset"}
  PROVE  ~WdogExpired /\ (pc = "returned" => ~armed)
<1> USE Numbers
<1>1. pc \in {"start", "returned"} \/ Dispatching \/ Waiting
  BY DEF TypeOK, Dispatching, Waiting
<1>2. CASE pc \in {"start", "returned"}
  BY <1>2 DEF FeedInv, ClockOK, WdogExpired
<1>3. CASE Dispatching \/ Waiting
  <2>1. now <= frame * FrameTicks + FrameTicks + MaxLag
    BY <1>3 DEF FeedInv, ClockOK
  <2>2. fed_at + 2 * FrameTicks >= frame * FrameTicks
    BY <1>3 DEF FeedInv, FedOK
  <2>3. now - fed_at <= 3 * FrameTicks + MaxLag
    BY <2>1, <2>2
  <2> QED
    BY <1>3, <2>3 DEF WdogExpired, WatchdogOutlasts, Dispatching, Waiting
<1> QED
  BY <1>1, <1>2, <1>3

(* The watchdog resets only a machine that stopped: whatever is suspended, *)
(* shed or late, sched.c withholds the feed of one frame at most in a row, *)
(* and every return disarms.                                               *)
THEOREM NoSpuriousResetHolds ==
  ASSUME TableFeeds, WatchdogOutlasts
  PROVE  Spec => NoSpuriousReset
<1>1. Init => FeedInv
  BY FeedInvInit
<1>2. TypeOK /\ InWindow /\ FeedInv /\ [Next]_vars => FeedInv'
  BY FeedInvStep
<1>3. TypeOK /\ FeedInv /\ [Next]_vars => [reset_by' = "watchdog" => pc = "hung"]_reset_by
  <2> SUFFICES ASSUME TypeOK, FeedInv, [Next]_vars, reset_by' # reset_by,
                      reset_by' = "watchdog"
               PROVE  pc = "hung"
    OBVIOUS
  <2>1. CASE WatchdogBites
    BY <2>1, RunningIsFed DEF WatchdogBites
  <2>2. CASE TaskOverruns
    <3>1. SuspendTask(cursor) \/ ResetSubsystem(cursor) \/ ResetMachine
      BY <2>2, Zenon DEF TaskOverruns, Climb
    <3> QED
      BY <3>1 DEF SuspendTask, ResetSubsystem, ResetMachine
  <2>3. CASE \/ StartWindow \/ StartOnBadClock \/ SkipRow \/ Dispatch \/ TaskReturns \/ Feed
             \/ ClockUnstable \/ FrameOverruns
    BY <2>3 DEF StartWindow, StartOnBadClock, SkipRow, Dispatch, TaskReturns, Feed,
                ClockUnstable, FrameOverruns, Return, endVars
  <2>4. CASE \/ FrameInTime \/ IdleToBoundary \/ ClockStops \/ NextFrame \/ Strike \/ Ended
             \/ UNCHANGED vars
    BY <2>4 DEF FrameInTime, IdleToBoundary, ClockStops, NextFrame, Strike, Ended, vars,
                Return, endVars
  <2> QED
    BY <2>1, <2>2, <2>3, <2>4 DEF Next, Software
<1> QED
  BY <1>1, <1>2, <1>3, TypeCorrect, PTL DEF Spec, NoSpuriousReset
=============================================================================
