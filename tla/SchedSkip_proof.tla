-------------------------- MODULE SchedSkip_proof --------------------------
(***************************************************************************)
(* What the host's trace checker says of the two executives, for every     *)
(* table, window and timing, as long as one task overruns at most, and not *)
(* late, and one copy of the mode is corrupted at most.                    *)
(***************************************************************************)
EXTENDS SchedSkip, Executive_proof

(* The bounds of a campaign in which the log can be believed: the second   *)
(* overrun may replace a suspension that was announced, a late one may     *)
(* announce it outside the window, and two copies break the vote.          *)
OneOfEach ==
  /\ MaxOverruns < 2 /\ "late overrun" \notin Faults
  /\ MaxStrikes < 2
  /\ BootModes \subseteq {"nominal"}

TheBuffersAreLargeEnough ==
  LogCapacity > 0 /\ TraceCapacity >= TaskCount * WindowFrames

(* The dispatch the broken executive drops is one the table asks for, also *)
(* of a degraded system.                                                   *)
TheDropIsDue == Table[SkipTask].essential /\ IsDue(SkipTask, SkipFrame)

-----------------------------------------------------------------------------
(* The frame of entry, as the host reads it: before the frame under way,   *)
(* until the boundary of that frame is missed.                             *)
EntryOK ==
  /\ pc = "start" => ~announced
  /\ ~announced => safe_entry_frame = NONE
  /\ safe_entry_frame # NONE => safe_entry_frame <= frame
  /\ pc \in {"start", "row", "running", "clock"} /\ safe_entry_frame # NONE
       => safe_entry_frame < frame

(* The log: empty, or one entry, which is what stands suspended.           *)
OneEntry ==
  /\ build = "flight" /\ overruns_seen > 0
  /\ Len(log) = 1
  /\ log[1].task = suspended.task /\ log[1].frame = suspended.frame
  /\ suspended.task \in Tasks /\ suspended.frame \in 0 .. WindowFrames - 1
  /\ IsDue(suspended.task, suspended.frame)

NoEntry == log = <<>> /\ suspended.task = NONE /\ suspended.frame = NONE

WithheldOK ==
  /\ log_overflow = 0
  /\ NoEntry \/ OneEntry
  /\ overruns_seen = 0 => \A t \in Tasks : overruns[t] = 0
  /\ pc = "running" => IsDue(cursor, frame)

(* What the linked executive will have dispatched when the window ends, as *)
(* far as is known now, and how far it has come.                           *)
TheDrop == <<SkipFrame, SkipTask>>
Wanted == expected_trace \ (IF build = "skip" THEN {TheDrop} ELSE {})
Reached == IF pc = "running" THEN cursor + 1 ELSE cursor
Examined(s) == s[1] < frame \/ (s[1] = frame /\ s[2] < Reached)
Done == {s \in Wanted : Examined(s)}

TraceMatches ==
  pc \notin {"hung", "reset"} =>
    /\ Len(trace) = Cardinality(Done)
    /\ \A s \in Done : trace[Position(s, Wanted)] = s[2]

EndOK ==
  /\ frames_run = frame
  /\ pc \in {"clock", "idle", "boundary"} => cursor = TaskCount
  /\ pc = "returned" => ~armed
  /\ result = "OK" => pc = "returned" /\ frame = WindowFrames

Sound == TypeOK /\ InWindow /\ TraceInv /\ ModeInv
ConformInv == Sound /\ build \in {"flight", "skip"}
                /\ EntryOK /\ WithheldOK /\ EndOK /\ TraceMatches
-----------------------------------------------------------------------------
(* The steps of the two executives: what the broken one takes from the     *)
(* flight one, and the four steps of its own.                              *)
SharedStep ==
  \/ StartOnBadClock \/ SkipRow \/ TaskReturns
  \/ Dispatch /\ ~(build = "skip" /\ Defect)
  \/ ClockUnstable \/ FrameOverruns \/ FrameInTime \/ IdleToBoundary \/ ClockStops \/ NextFrame
  \/ WatchdogBites \/ Strike \/ Ended \/ UNCHANGED vars
FlightStep == build = "flight" /\ (StartWindow \/ TaskOverruns \/ Feed)
BrokenStep ==
  build = "skip" /\ (StartUnwatched \/ DropDispatch \/ OverrunIsCounted \/ RowsEnd)

LEMMA StepKinds ==
  ASSUME [BuildNext]_<<vars, build>>
  PROVE  build' = build /\ (SharedStep \/ FlightStep \/ BrokenStep)
<1>1. CASE UNCHANGED <<vars, build>>
  BY <1>1 DEF SharedStep
<1>2. CASE BuildNext
  <2>1. build' = build
    BY <1>2 DEF BuildNext
  <2>2. CASE build = "flight" /\ Software
    BY <2>1, <2>2 DEF Software, SharedStep, FlightStep
  <2>3. CASE build = "skip" /\ SkipSoftware
    BY <2>1, <2>3 DEF SkipSoftware, SharedStep, BrokenStep
  <2>4. CASE WatchdogBites \/ Strike \/ Ended
    BY <2>1, <2>4 DEF SharedStep
  <2> QED
    BY <1>2, <2>2, <2>3, <2>4 DEF BuildNext
<1> QED
  BY <1>1, <1>2

LEMMA SharedIsNext == SharedStep \/ FlightStep => [Next]_vars
BY DEF SharedStep, FlightStep, Next, Software

LEMMA SoundInit == TraceCapacity >= TaskCount * WindowFrames /\ BuildInit => Sound
<1> SUFFICES ASSUME BuildInit PROVE Sound
  OBVIOUS
<1>1. TraceInv
  BY ExecutiveAssumption DEF BuildInit, Init, TraceInv, InDispatch
<1> QED
  BY <1>1, TypeInit, ModeInvInit DEF BuildInit, Sound

LEMMA BrokenIsSound ==
  ASSUME Sound, BrokenStep
  PROVE  Sound'
<1>0. /\ TypeOK /\ InWindow /\ TraceInv /\ ModeInv
      /\ TaskCount \in Nat \ {0} /\ cursor \in Nat /\ cursor <= TaskCount
      /\ overruns \in [Tasks -> Nat] /\ overruns_seen \in Nat /\ ran \in Nat
      /\ frame \in 0 .. WindowFrames
  BY ExecutiveAssumption DEF Sound, TypeOK
<1>1. CASE StartUnwatched
  <2>1. /\ Vote /\ pc = "start" /\ pc' = "row"
        /\ safe_entry_frame' = IF IsSafe THEN 0 ELSE NONE
        /\ UNCHANGED <<now, ladderVars, traceVars, frameVars, rowVars, wdogVars, envVars,
                       endVars>>
    BY <1>1 DEF StartUnwatched
  <2>2. TypeOK'
    <3>1. /\ mode' \in Modes /\ damaged' \in 0 .. 3
          /\ announced' \in BOOLEAN /\ safe_reason' \in Reasons
      BY <1>0, <2>1, VoteType
    <3>2. safe_entry_frame' \in {NONE} \cup 0 .. WindowFrames
      BY <2>1, ExecutiveAssumption
    <3> QED
      BY <1>0, <2>1, <3>1, <3>2
      DEF TypeOK, Modes, Reasons, ladderVars, traceVars, frameVars, rowVars, wdogVars, envVars,
          endVars
  <2>3. InWindow' /\ TraceInv'
    BY <1>0, <2>1 DEF InWindow, TraceInv, InDispatch, frameVars, rowVars, traceVars
  <2>4. announced => safe_entry_frame' # NONE
    BY <1>0, <2>1, NoneIsNoFrame DEF ModeInv, IsSafe
  <2>5. ModeInv'
    <3>1. safe_entry_frame' # NONE => announced \/ damaged >= 2
      BY <1>0, <2>1 DEF ModeInv, IsSafe, VoteFails
    <3>2. /\ UNCHANGED <<mode, announced>> /\ damaged' \in Nat /\ damaged' <= damaged
          /\ damaged >= 2 => damaged' = damaged
      BY <1>0, <2>1, VoteMode
    <3>3. UNCHANGED <<frame_overruns, short_boots, strikes>> /\ frame_overruns \in Nat
          /\ damaged \in Nat /\ strikes \in Nat /\ MaxStrikes \in Nat
      BY <1>0, <2>1, ExecutiveAssumption DEF TypeOK, frameVars, envVars
    <3>4. frame_overruns' > 0 \/ safe_entry_frame' # NONE => announced' \/ damaged' >= 2
      BY <1>0, <2>1, <3>1, <3>2, <3>3 DEF ModeInv
    <3> QED
      BY <1>0, <2>1, <2>4, <3>2, <3>3, <3>4 DEF ModeInv
  <2> QED
    BY <2>2, <2>3, <2>5 DEF Sound
<1>2. CASE DropDispatch
  <2>1. /\ pc = "row" /\ cursor = SkipTask /\ cursor' = cursor + 1
        /\ UNCHANGED <<pc, due, ran, now, safe_entry_frame, modeVars, ladderVars, traceVars,
                       frameVars, wdogVars, envVars, endVars>>
    BY <1>2 DEF DropDispatch, Defect
  <2>2. cursor' \in 0 .. TaskCount
    BY <1>0, <2>1, SchedSkipAssumption DEF Tasks
  <2>3. TypeOK'
    BY <1>0, <2>1, <2>2
    DEF TypeOK, modeVars, ladderVars, traceVars, frameVars, wdogVars, envVars, endVars
  <2>4. InWindow' /\ TraceInv'
    <3>1. frame * TaskCount \in Nat /\ Len(trace) \in Nat
      BY <1>0, ProductInNat DEF TypeOK
    <3> QED
      BY <1>0, <2>1, <3>1 DEF InWindow, TraceInv, InDispatch, frameVars, traceVars
  <2>5. ModeInv'
    BY <1>0, <2>1 DEF ModeInv, modeVars, frameVars, envVars
  <2> QED
    BY <2>3, <2>4, <2>5 DEF Sound
<1>3. CASE OverrunIsCounted
  <2>1. /\ pc = "running" /\ pc' = "row" /\ cursor' = cursor + 1 /\ ran' = ran + 1
        /\ overruns_seen' = overruns_seen + 1
        /\ overruns' = [overruns EXCEPT ![cursor] = @ + 1]
        /\ UNCHANGED <<now, due, suspended, log, log_overflow, safe_entry_frame, modeVars,
                       traceVars, frameVars, wdogVars, envVars, endVars>>
    BY <1>3 DEF OverrunIsCounted
  <2>2. /\ overruns' \in [Tasks -> Nat] /\ overruns_seen' \in Nat /\ ran' \in Nat
        /\ cursor' \in 0 .. TaskCount
    <3>1. cursor \in Tasks /\ cursor < TaskCount
      BY <1>0, <2>1 DEF InWindow, Tasks
    <3>2. overruns' \in [Tasks -> Nat]
      BY <1>0, <2>1, <3>1
    <3> QED
      BY <1>0, <2>1, <3>1, <3>2
  <2>3. TypeOK'
    BY <1>0, <2>1, <2>2
    DEF TypeOK, modeVars, traceVars, frameVars, wdogVars, envVars, endVars
  <2>4. InWindow' /\ TraceInv'
    <3>1. frame * TaskCount \in Nat /\ Len(trace) \in Nat
      BY <1>0, ProductInNat DEF TypeOK
    <3> QED
      BY <1>0, <2>1, <3>1 DEF InWindow, TraceInv, InDispatch, frameVars, traceVars
  <2>5. ModeInv'
    BY <1>0, <2>1 DEF ModeInv, modeVars, frameVars, envVars
  <2> QED
    BY <2>3, <2>4, <2>5 DEF Sound
<1>4. CASE RowsEnd
  <2>1. /\ pc = "row" /\ pc' = "clock"
        /\ UNCHANGED <<now, safe_entry_frame, modeVars, ladderVars, traceVars, frameVars,
                       rowVars, wdogVars, envVars, endVars>>
    BY <1>4 DEF RowsEnd
  <2>2. TypeOK'
    BY <1>0, <2>1
    DEF TypeOK, modeVars, ladderVars, traceVars, frameVars, rowVars, wdogVars, envVars, endVars
  <2>3. InWindow' /\ TraceInv' /\ ModeInv'
    BY <1>0, <2>1
    DEF InWindow, TraceInv, InDispatch, ModeInv, modeVars, frameVars,
        rowVars, traceVars, envVars
  <2> QED
    BY <2>2, <2>3 DEF Sound
<1> QED
  BY <1>1, <1>2, <1>3, <1>4 DEF BrokenStep

LEMMA SoundStep ==
  ASSUME Sound, TraceCapacity >= TaskCount * WindowFrames, [BuildNext]_<<vars, build>>
  PROVE  Sound'
<1>1. CASE [Next]_vars
  BY <1>1, TypeStep, TraceInvStep, ModeInvStep DEF Sound
<1>2. CASE BrokenStep
  BY <1>2, BrokenIsSound
<1> QED
  BY <1>1, <1>2, StepKinds, SharedIsNext
-----------------------------------------------------------------------------
(* With one corrupted copy at most every vote answers what was set, so the *)
(* system is degraded exactly once it is announced.                        *)
LEMMA VoteWorks ==
  ASSUME Sound, MaxStrikes < 2
  PROVE  ~VoteFails /\ (IsSafe <=> announced)
<1>1. damaged \in Nat /\ strikes \in Nat /\ MaxStrikes \in Nat
  BY ExecutiveAssumption DEF Sound, TypeOK
<1>2. damaged < 2
  BY <1>1 DEF Sound, ModeInv
<1> QED
  BY <1>1, <1>2 DEF VoteFails, IsSafe, Sound, ModeInv

LEMMA DegradeEntry ==
  ASSUME Sound, MaxStrikes < 2, NEW r, Degrade(r)
  PROVE  announced' /\ safe_entry_frame' = IF announced THEN safe_entry_frame ELSE frame
<1>1. CASE announced
  BY <1>1, VoteWorks DEF Degrade
<1>2. CASE ~announced
  BY <1>2, VoteWorks DEF Degrade, obc_mode_enter_safe
<1> QED
  BY <1>1, <1>2

LEMMA EntryStep ==
  ASSUME Sound, MaxStrikes < 2, EntryOK, [BuildNext]_<<vars, build>>
  PROVE  EntryOK'
<1>0. /\ TypeOK /\ ModeInv /\ frame \in Nat
      /\ safe_entry_frame = NONE \/ safe_entry_frame \in Nat
  BY DEF Sound, TypeOK
<1>1. CASE StartWindow \/ StartUnwatched
  <2>1. pc = "start" /\ Vote /\ safe_entry_frame' = IF IsSafe THEN 0 ELSE NONE
    BY <1>1 DEF StartWindow, StartUnwatched
  <2>2. ~announced' /\ safe_entry_frame' = NONE
    BY <2>1, <1>0, VoteMode, VoteWorks DEF EntryOK
  <2>3. pc' = "row"
    BY <1>1 DEF StartWindow, StartUnwatched
  <2> QED
    BY <2>2, <2>3 DEF EntryOK
<1>2. CASE StartOnBadClock \/ ClockUnstable \/ FrameOverruns
  <2>1. PICK r \in {"CLOCK", "FRAME_OVERRUN"} : Degrade(r)
    BY <1>2 DEF StartOnBadClock, ClockUnstable, FrameOverruns
  <2>2. announced' /\ safe_entry_frame' = IF announced THEN safe_entry_frame ELSE frame
    BY <2>1, DegradeEntry
  <2>3. frame' = frame /\ pc' \in {"returned", "idle"}
    BY <1>2 DEF StartOnBadClock, ClockUnstable, FrameOverruns, Return, frameVars
  <2> QED
    BY <1>0, <2>2, <2>3 DEF EntryOK
<1>3. CASE SkipRow \/ Dispatch
  <2>1. /\ pc = "row" /\ pc' \in {"row", "running", "hung"} /\ Vote
        /\ UNCHANGED <<frame, safe_entry_frame>>
    BY <1>3 DEF SkipRow, Dispatch, frameVars
  <2> QED
    BY <1>0, <2>1, VoteMode DEF EntryOK
<1>4. CASE TaskOverruns
  <2>1. /\ pc = "running" /\ UNCHANGED <<frame, safe_entry_frame>>
        /\ Climb(cursor, overruns[cursor] + 1)
    BY <1>4 DEF TaskOverruns, frameVars
  <2> QED
    BY <1>0, <2>1, ClimbMode DEF EntryOK
<1>5. CASE TaskReturns \/ OverrunIsCounted \/ DropDispatch \/ Feed \/ RowsEnd
  <2>1. /\ pc \in {"row", "running"} /\ pc' \in {"row", "clock"}
        /\ UNCHANGED <<frame, safe_entry_frame, announced>>
    BY <1>5 DEF TaskReturns, OverrunIsCounted, DropDispatch, Defect, Feed, RowsEnd, frameVars,
                modeVars
  <2> QED
    BY <1>0, <2>1 DEF EntryOK
<1>6. CASE FrameInTime \/ IdleToBoundary \/ ClockStops \/ WatchdogBites
  <2>1. /\ pc' \in {"idle", "boundary", "returned", "hung", "reset"}
        /\ UNCHANGED <<frame, safe_entry_frame, announced>>
    BY <1>6 DEF FrameInTime, IdleToBoundary, ClockStops, Return, WatchdogBites, frameVars,
                modeVars
  <2> QED
    BY <1>0, <2>1 DEF EntryOK
<1>7. CASE NextFrame
  <2>1. /\ frame' = frame + 1 /\ pc' \in {"row", "returned"}
        /\ UNCHANGED <<safe_entry_frame, announced>>
    BY <1>7 DEF NextFrame, Return, modeVars
  <2> QED
    BY <1>0, <2>1, NoneIsNoFrame DEF EntryOK
<1>8. CASE Strike \/ Ended \/ UNCHANGED vars
  <2>1. UNCHANGED <<pc, frame, safe_entry_frame, announced>>
    BY <1>8 DEF Strike, Ended, vars, frameVars, modeVars
  <2> QED
    BY <2>1 DEF EntryOK
<1> QED
  BY <1>1, <1>2, <1>3, <1>4, <1>5, <1>6, <1>7, <1>8, StepKinds
  DEF SharedStep, FlightStep, BrokenStep

-----------------------------------------------------------------------------
-----------------------------------------------------------------------------
(* The overrun, which comes once, writes one entry: a frame inside the     *)
(* window, after the one under way, in which the task is due.              *)
LEMMA OverrunIsAnnounced ==
  ASSUME Sound, OneOfEach, LogCapacity > 0, WithheldOK, TaskOverruns
  PROVE  /\ NoEntry /\ pc' = "row"
         /\ log_overflow' = 0 /\ overruns_seen' = 1
         /\ Len(log') = 1
         /\ log'[1].task = suspended'.task /\ log'[1].frame = suspended'.frame
         /\ suspended'.task \in Tasks /\ suspended'.frame \in 0 .. WindowFrames - 1
         /\ IsDue(suspended'.task, suspended'.frame)
         /\ suspended'.frame > frame
<1>0. /\ TypeOK /\ InWindow /\ overruns \in [Tasks -> Nat] /\ overruns_seen \in Nat
      /\ MaxOverruns \in Nat /\ LogCapacity \in Nat /\ frame \in Nat
  BY ExecutiveAssumption DEF Sound, TypeOK
<1>1. /\ pc = "running" /\ overruns_seen < MaxOverruns
      /\ overruns[cursor] > 0 \/ NextDue(cursor) < WindowFrames
      /\ overruns_seen' = overruns_seen + 1
      /\ Climb(cursor, overruns[cursor] + 1)
  BY DEF TaskOverruns, OneOfEach
<1>2. overruns_seen = 0
  <2>1. MaxOverruns < 2 /\ overruns_seen < MaxOverruns
    BY <1>1 DEF OneOfEach
  <2>2. \A m, n \in Nat : m < n /\ n < 2 => m = 0
    OBVIOUS
  <2> QED
    BY <1>0, <2>1, <2>2
<1>3. cursor \in Tasks
  BY <1>0, <1>1, ExecutiveAssumption DEF InWindow, TypeOK, Tasks
<1>4. overruns[cursor] = 0
  BY <1>2, <1>3 DEF WithheldOK
<1>5. SuspendTask(cursor)
  <2>1. overruns[cursor] + 1 = 1 /\ ~(overruns[cursor] + 1 = 2) /\ ~(overruns[cursor] + 1 >= 2)
    BY <1>4
  <2> QED
    BY <1>1, <2>1, Zenon DEF Climb
<1>6. NoEntry
  BY <1>0, <1>2 DEF WithheldOK, OneEntry
<1>7. NextDue(cursor) \in 0 .. WindowFrames - 1 /\ NextDue(cursor) > frame
  <2>1. NextDue(cursor) \in Nat /\ NextDue(cursor) > frame /\ NextDue(cursor) < WindowFrames
    BY <1>0, <1>1, <1>3, <1>4, NextDueType
  <2> QED
    BY <2>1, ExecutiveAssumption
<1>8. IsDue(cursor, NextDue(cursor))
  <2>1. frame % Table[cursor].period = 0 /\ Table[cursor].period \in Nat \ {0}
    BY <1>1, <1>3, ExecutiveAssumption DEF WithheldOK, IsDue
  <2> QED
    BY <1>0, <2>1, DueAgain DEF IsDue, NextDue
<1> DEFINE e == [task |-> cursor, frame |-> NextDue(cursor), rung |-> 1]
<1>9. log' = <<e>> /\ log_overflow' = 0
  <2>1. log = <<>> /\ Len(log) < LogCapacity /\ log_overflow = 0
    BY <1>6 DEF NoEntry, WithheldOK
  <2>2. log' = Append(log, e) /\ log_overflow' = log_overflow
    BY <1>5, <2>1 DEF SuspendTask, log_suspension
  <2> QED
    BY <2>1, <2>2
<1>10. pc' = "row" /\ suspended' = [task |-> cursor, frame |-> NextDue(cursor)]
  BY <1>5 DEF SuspendTask
<1> QED
  BY <1>1, <1>2, <1>3, <1>6, <1>7, <1>8, <1>9, <1>10

LEMMA WithheldStep ==
  ASSUME Sound, OneOfEach, LogCapacity > 0, WithheldOK, [BuildNext]_<<vars, build>>
  PROVE  WithheldOK'
<1>0. /\ overruns_seen \in Nat /\ build' = build
  BY StepKinds DEF Sound, TypeOK
<1>1. CASE build = "flight" /\ TaskOverruns
  <2>1. OneEntry' /\ pc' = "row" /\ log_overflow' = 0 /\ overruns_seen' # 0
    BY <1>0, <1>1, OverrunIsAnnounced DEF OneEntry
  <2> QED
    BY <2>1 DEF WithheldOK
<1>2. CASE build = "skip" /\ OverrunIsCounted
  <2>1. /\ overruns_seen' = overruns_seen + 1 /\ pc' = "row"
        /\ UNCHANGED <<log, log_overflow, suspended>>
    BY <1>2 DEF OverrunIsCounted
  <2> QED
    BY <1>0, <1>2, <2>1 DEF WithheldOK, OneEntry, NoEntry
<1>3. CASE Dispatch
  <2>1. IsDue(cursor, frame) /\ UNCHANGED <<ladderVars, cursor, frame>>
    BY <1>3 DEF Dispatch, frameVars
  <2> QED
    BY <1>0, <2>1 DEF WithheldOK, OneEntry, NoEntry, ladderVars, IsDue
<1>4. CASE \/ StartWindow \/ StartUnwatched \/ StartOnBadClock \/ SkipRow \/ TaskReturns
           \/ DropDispatch \/ Feed \/ RowsEnd
  <2>1. UNCHANGED ladderVars /\ pc' # "running"
    BY <1>4 DEF StartWindow, StartUnwatched, StartOnBadClock, Return, SkipRow, TaskReturns,
                DropDispatch, Defect, Feed, RowsEnd
  <2> QED
    BY <1>0, <2>1 DEF WithheldOK, OneEntry, NoEntry, ladderVars, IsDue
<1>5. CASE \/ ClockUnstable \/ FrameOverruns \/ FrameInTime \/ IdleToBoundary \/ ClockStops
           \/ NextFrame \/ WatchdogBites
  <2>1. UNCHANGED ladderVars /\ pc' # "running"
    BY <1>5 DEF ClockUnstable, Return, FrameOverruns, FrameInTime, IdleToBoundary, ClockStops,
                NextFrame, WatchdogBites
  <2> QED
    BY <1>0, <2>1 DEF WithheldOK, OneEntry, NoEntry, ladderVars, IsDue
<1>6. CASE Strike \/ Ended \/ UNCHANGED vars
  <2>1. UNCHANGED <<ladderVars, pc, cursor, frame>>
    BY <1>6 DEF Strike, Ended, vars, frameVars, rowVars
  <2> QED
    BY <1>0, <2>1 DEF WithheldOK, OneEntry, NoEntry, ladderVars, IsDue
<1> QED
  BY <1>1, <1>2, <1>3, <1>4, <1>5, <1>6, StepKinds DEF SharedStep, FlightStep, BrokenStep

LEMMA EndStep ==
  ASSUME Sound, EndOK, [BuildNext]_<<vars, build>>
  PROVE  EndOK'
<1>0. /\ frame \in 0 .. WindowFrames /\ frames_run \in Nat /\ WindowFrames \in Nat
      /\ pc \notin {"returned", "reset"} => frame < WindowFrames
  BY ExecutiveAssumption DEF Sound, TypeOK, InWindow
<1>1. CASE \/ StartWindow \/ StartUnwatched \/ SkipRow \/ Dispatch \/ TaskReturns
           \/ OverrunIsCounted \/ DropDispatch
  <2>1. /\ pc' \in {"row", "running", "hung"} /\ UNCHANGED <<frame, frames_run, result>>
        /\ pc # "returned"
    BY <1>1 DEF StartWindow, StartUnwatched, SkipRow, Dispatch, TaskReturns, OverrunIsCounted,
                DropDispatch, Defect, frameVars, endVars
  <2> QED
    BY <1>0, <2>1 DEF EndOK
<1>2. CASE TaskOverruns
  <2>1. /\ pc = "running" /\ UNCHANGED <<frame, frames_run, result>>
        /\ Climb(cursor, overruns[cursor] + 1)
    BY <1>2 DEF TaskOverruns, frameVars
  <2>2. pc' \in {"row", "reset"}
    BY <2>1, ClimbMode DEF Sound
  <2> QED
    BY <1>0, <2>1, <2>2 DEF EndOK
<1>3. CASE Feed \/ RowsEnd
  <2>1. /\ pc = "row" /\ pc' = "clock" /\ cursor = TaskCount
        /\ UNCHANGED <<cursor, frame, frames_run, result>>
    BY <1>3 DEF Feed, RowsEnd, frameVars, rowVars, endVars
  <2> QED
    BY <1>0, <2>1 DEF EndOK
<1>4. CASE StartOnBadClock \/ ClockUnstable
  <2>1. pc' = "returned" /\ ~armed' /\ result' = "UNSTABLE" /\ UNCHANGED <<frame, frames_run>>
    BY <1>4 DEF StartOnBadClock, ClockUnstable, Return, frameVars
  <2> QED
    BY <1>0, <2>1 DEF EndOK
<1>5. CASE FrameOverruns \/ FrameInTime \/ IdleToBoundary
  <2>1. /\ pc \in {"clock", "idle"} /\ pc' \in {"idle", "boundary"}
        /\ UNCHANGED <<cursor, frame, frames_run, result>>
    BY <1>5 DEF FrameOverruns, FrameInTime, IdleToBoundary, frameVars, rowVars, endVars
  <2> QED
    BY <1>0, <2>1 DEF EndOK
<1>6. CASE ClockStops
  <2>1. /\ pc = "idle" /\ UNCHANGED <<frame, frames_run>>
        /\ \/ pc' = "returned" /\ ~armed' /\ result' = "TIMEOUT"
           \/ pc' = "hung" /\ result' = result
    BY <1>6 DEF ClockStops, Return, frameVars, endVars
  <2> QED
    BY <1>0, <2>1 DEF EndOK
<1>7. CASE NextFrame
  <2>1. /\ pc = "boundary" /\ frame' = frame + 1 /\ frames_run' = frames_run + 1
        /\ \/ pc' = "row" /\ result' = result
           \/ pc' = "returned" /\ ~armed' /\ result' = "OK" /\ ~(frame + 1 < WindowFrames)
    BY <1>7 DEF NextFrame, Return, endVars
  <2> QED
    BY <1>0, <2>1 DEF EndOK
<1>8. CASE WatchdogBites
  <2>1. armed /\ pc' = "reset" /\ UNCHANGED <<frame, frames_run, result>>
    BY <1>8 DEF WatchdogBites, frameVars
  <2> QED
    BY <1>0, <2>1 DEF EndOK
<1>9. CASE Strike \/ Ended \/ UNCHANGED vars
  <2>1. UNCHANGED <<pc, cursor, armed, frame, frames_run, result>>
    BY <1>9 DEF Strike, Ended, vars, frameVars, rowVars, wdogVars, endVars
  <2> QED
    BY <2>1 DEF EndOK
<1> QED
  BY <1>1, <1>2, <1>3, <1>4, <1>5, <1>6, <1>7, <1>8, <1>9, StepKinds
  DEF SharedStep, FlightStep, BrokenStep

-----------------------------------------------------------------------------
(* The expected trace.  What the host expects of a frame is settled when   *)
(* that frame begins: a degradation concerns the frames after it, and so   *)
(* does a suspension.                                                      *)
LEMMA SlotType ==
  ASSUME NEW s \in Slots
  PROVE  s[1] \in 0 .. WindowFrames - 1 /\ s[2] \in Tasks /\ s = <<s[1], s[2]>>
         /\ s[1] \in Nat /\ s[2] \in Nat
BY ExecutiveAssumption DEF Slots, Tasks

LEMMA SlotsAreFinite == IsFiniteSet(Slots)
<1>1. 0 \in Int /\ WindowFrames - 1 \in Int /\ TaskCount - 1 \in Int
  BY ExecutiveAssumption
<1>2. IsFiniteSet(0 .. WindowFrames - 1) /\ IsFiniteSet(Tasks)
  BY <1>1, FS_Interval DEF Tasks
<1> QED
  BY <1>2, FS_Product DEF Slots

LEMMA OneWithheld ==
  ASSUME NEW l \in Seq([task : Tasks, frame : Nat, rung : {1, 2}]), NEW u,
         \/ l = <<>> /\ u.task = NONE
         \/ Len(l) = 1 /\ l[1].task = u.task /\ l[1].frame = u.frame,
         NEW t \in Tasks, NEW f \in Nat
  PROVE  <<f, t>> \in {<<l[k].frame, l[k].task>> : k \in DOMAIN l}
           <=> u.task = t /\ u.frame = f
<1>1. CASE l = <<>> /\ u.task = NONE
  <2>1. DOMAIN l = {}
    BY <1>1
  <2>2. t # NONE
    BY NoneIsNoFrame, ExecutiveAssumption DEF Tasks
  <2> QED
    BY <1>1, <2>1, <2>2
<1>2. CASE Len(l) = 1 /\ l[1].task = u.task /\ l[1].frame = u.frame
  <2>1. DOMAIN l = {1}
    BY <1>2
  <2>2. {<<l[k].frame, l[k].task>> : k \in DOMAIN l} = {<<u.frame, u.task>>}
    BY <1>2, <2>1
  <2> QED
    BY <2>2
<1> QED
  BY <1>1, <1>2

LEMMA WithheldIs ==
  ASSUME Sound, WithheldOK, NEW t \in Tasks, NEW f \in Nat
  PROVE  <<f, t>> \in Withheld <=> suspended.task = t /\ suspended.frame = f
<1>1. log \in Seq([task : Tasks, frame : Nat, rung : {1, 2}])
  BY DEF Sound, TypeOK
<1>2. \/ log = <<>> /\ suspended.task = NONE
      \/ Len(log) = 1 /\ log[1].task = suspended.task /\ log[1].frame = suspended.frame
  BY DEF WithheldOK, NoEntry, OneEntry
<1> QED
  BY <1>1, <1>2, OneWithheld DEF Withheld

LEMMA ExpectedIs ==
  ASSUME Sound, WithheldOK, NEW s \in Slots
  PROVE  s \in expected_trace <=>
           /\ safe_entry_frame # NONE /\ s[1] > safe_entry_frame => Table[s[2]].essential
           /\ IsDue(s[2], s[1])
           /\ ~(suspended.task = s[2] /\ suspended.frame = s[1])
BY WithheldIs, SlotType DEF expected_trace, Expected

(* What a step may do to the two things the expectation is made of.        *)
LEMMA EntryMoves ==
  ASSUME Sound, OneOfEach, EntryOK, [BuildNext]_<<vars, build>>
  PROVE  \/ safe_entry_frame' = safe_entry_frame
         \/ safe_entry_frame = NONE /\ safe_entry_frame' = frame
<1>0. MaxStrikes < 2
  BY DEF OneOfEach
<1>1. CASE StartWindow \/ StartUnwatched
  <2>1. /\ pc = "start" /\ safe_entry_frame' = IF IsSafe THEN 0 ELSE NONE
    BY <1>1 DEF StartWindow, StartUnwatched
  <2> QED
    BY <1>0, <2>1, VoteWorks DEF EntryOK
<1>2. CASE StartOnBadClock \/ ClockUnstable \/ FrameOverruns
  <2>1. PICK r \in {"CLOCK", "FRAME_OVERRUN"} : Degrade(r)
    BY <1>2 DEF StartOnBadClock, ClockUnstable, FrameOverruns
  <2> QED
    BY <1>0, <2>1, DegradeEntry DEF EntryOK
<1>3. CASE \/ SkipRow \/ Dispatch \/ TaskReturns \/ TaskOverruns \/ OverrunIsCounted
           \/ DropDispatch \/ Feed \/ RowsEnd
  BY <1>3 DEF SkipRow, Dispatch, TaskReturns, TaskOverruns, OverrunIsCounted, DropDispatch,
              Feed, RowsEnd
<1>4. CASE FrameInTime \/ IdleToBoundary \/ ClockStops \/ NextFrame \/ WatchdogBites
  BY <1>4 DEF FrameInTime, IdleToBoundary, ClockStops, NextFrame, WatchdogBites
<1>5. CASE Strike \/ Ended \/ UNCHANGED vars
  BY <1>5 DEF Strike, Ended, vars
<1> QED
  BY <1>1, <1>2, <1>3, <1>4, <1>5, StepKinds DEF SharedStep, FlightStep, BrokenStep

LEMMA SuspensionMoves ==
  ASSUME Sound, OneOfEach, LogCapacity > 0, WithheldOK, [BuildNext]_<<vars, build>>
  PROVE  \/ suspended' = suspended
         \/ suspended.frame = NONE /\ suspended'.frame > frame /\ suspended'.frame \in Nat
<1>1. CASE TaskOverruns
  <2>1. NoEntry /\ suspended'.frame > frame /\ suspended'.frame \in 0 .. WindowFrames - 1
    BY <1>1, OverrunIsAnnounced
  <2> QED
    BY <2>1, ExecutiveAssumption DEF NoEntry
<1>2. CASE \/ StartWindow \/ StartUnwatched \/ StartOnBadClock \/ SkipRow \/ Dispatch
           \/ TaskReturns \/ OverrunIsCounted \/ DropDispatch \/ Feed \/ RowsEnd
  BY <1>2 DEF StartWindow, StartUnwatched, StartOnBadClock, SkipRow, Dispatch, TaskReturns,
              OverrunIsCounted, DropDispatch, Feed, RowsEnd, ladderVars
<1>3. CASE \/ ClockUnstable \/ FrameOverruns \/ FrameInTime \/ IdleToBoundary \/ ClockStops
           \/ NextFrame \/ WatchdogBites
  BY <1>3 DEF ClockUnstable, FrameOverruns, FrameInTime, IdleToBoundary, ClockStops,
              NextFrame, WatchdogBites, ladderVars
<1>4. CASE Strike \/ Ended \/ UNCHANGED vars
  BY <1>4 DEF Strike, Ended, vars, ladderVars
<1> QED
  BY <1>1, <1>2, <1>3, <1>4, StepKinds DEF SharedStep, FlightStep, BrokenStep

LEMMA WantedIsSettled ==
  ASSUME Sound, OneOfEach, LogCapacity > 0, EntryOK, WithheldOK,
         [BuildNext]_<<vars, build>>, Sound', WithheldOK',
         NEW s \in Slots, s[1] <= frame
  PROVE  s \in Wanted' <=> s \in Wanted
<1>0. /\ frame \in Nat /\ s[1] \in Nat /\ NONE \notin Nat
      /\ suspended.frame = NONE \/ suspended.frame \in Nat
  BY SlotType, NoneIsNoFrame DEF Sound, TypeOK
<1>1. (safe_entry_frame' # NONE /\ s[1] > safe_entry_frame')
        <=> (safe_entry_frame # NONE /\ s[1] > safe_entry_frame)
  BY <1>0, EntryMoves
<1>2. (suspended'.task = s[2] /\ suspended'.frame = s[1])
        <=> (suspended.task = s[2] /\ suspended.frame = s[1])
  BY <1>0, SuspensionMoves
<1>3. s \in expected_trace <=>
        /\ safe_entry_frame # NONE /\ s[1] > safe_entry_frame => Table[s[2]].essential
        /\ IsDue(s[2], s[1])
        /\ ~(suspended.task = s[2] /\ suspended.frame = s[1])
  BY ExpectedIs
<1>4. s \in expected_trace' <=>
        /\ safe_entry_frame' # NONE /\ s[1] > safe_entry_frame' => Table[s[2]].essential
        /\ IsDue(s[2], s[1])
        /\ ~(suspended'.task = s[2] /\ suspended'.frame = s[1])
  <2>1. log' \in Seq([task : Tasks, frame : Nat, rung : {1, 2}])
    BY DEF Sound, TypeOK, Tasks
  <2>2. \/ log' = <<>> /\ suspended'.task = NONE
        \/ Len(log') = 1 /\ log'[1].task = suspended'.task /\ log'[1].frame = suspended'.frame
    BY DEF WithheldOK, NoEntry, OneEntry, NONE
  <2>3. <<s[1], s[2]>> \in Withheld' <=> suspended'.task = s[2] /\ suspended'.frame = s[1]
    BY <2>1, <2>2, SlotType, OneWithheld DEF Withheld
  <2>4. s \in Slots' /\ s = <<s[1], s[2]>>
    BY SlotType DEF Slots, Tasks
  <2> QED
    BY <2>3, <2>4 DEF expected_trace, Expected, IsDue, NONE
<1>5. s \in expected_trace' <=> s \in expected_trace
  BY <1>1, <1>2, <1>3, <1>4
<1>6. build' = build
  BY StepKinds
<1> QED
  BY <1>5, <1>6 DEF Wanted

-----------------------------------------------------------------------------
(* Positions.  A slot keeps its position while what precedes it is         *)
(* settled, and the slot that follows all the others comes last.           *)
LEMMA PositionKept ==
  ASSUME NEW f \in Nat, NEW W \in SUBSET Slots, NEW V \in SUBSET Slots,
         \A s \in Slots : s[1] <= f => (s \in V <=> s \in W),
         NEW slot \in Slots, slot[1] <= f
  PROVE  Position(slot, V) = Position(slot, W)
<1>1. \A s \in Slots : NoLater(s, slot) => s[1] <= f
  BY SlotType DEF NoLater
<1>2. {s \in V : NoLater(s, slot)} = {s \in W : NoLater(s, slot)}
  BY <1>1
<1> QED
  BY <1>2 DEF Position

LEMMA PositionIn ==
  ASSUME NEW W \in SUBSET Slots, NEW D \in SUBSET W, NEW slot \in D,
         \A s \in W : NoLater(s, slot) => s \in D
  PROVE  Position(slot, W) \in 1 .. Cardinality(D) /\ Cardinality(D) \in Nat
<1> DEFINE P == {s \in W : NoLater(s, slot)}
<1>1. slot \in P /\ P \subseteq D
  <2>1. NoLater(slot, slot)
    <3>1. slot \in Slots
      OBVIOUS
    <3> QED
      BY <3>1, SlotType DEF NoLater
  <2> QED
    BY <2>1
<1>2. IsFiniteSet(D)
  BY SlotsAreFinite, FS_Subset
<1>3. IsFiniteSet(P) /\ Cardinality(P) <= Cardinality(D)
  BY <1>1, <1>2, FS_Subset
<1>4. Cardinality(P) \in Nat /\ Cardinality(D) \in Nat
  BY <1>2, <1>3, FS_CardinalityType
<1>5. Cardinality(P) # 0
  BY <1>1, <1>3, FS_EmptySet
<1> HIDE DEF P
<1>6. Cardinality(P) \in 1 .. Cardinality(D)
  BY <1>3, <1>4, <1>5
<1> QED
  BY <1>4, <1>6 DEF P, Position

(* What has been examined comes before what has not.                       *)
LEMMA ExaminedFirst ==
  ASSUME Sound, NEW s \in Slots, NEW r \in Slots, Examined(s), NoLater(r, s)
  PROVE  Examined(r)
<1>1. frame \in Nat /\ Reached \in Nat
  BY DEF Sound, TypeOK, Reached
<1> QED
  BY <1>1, SlotType DEF Examined, NoLater

LEMMA ExaminedIsEarly ==
  ASSUME Sound, NEW s \in Slots, Examined(s)
  PROVE  s[1] <= frame
<1>1. frame \in Nat
  BY DEF Sound, TypeOK
<1> QED
  BY <1>1, SlotType DEF Examined

(* A step that dispatches nothing examines no slot that is wanted.         *)
LEMMA NothingMore ==
  ASSUME Sound, TraceMatches, pc \notin {"hung", "reset"}, trace' = trace,
         \A s \in Slots : s[1] <= frame => (s \in Wanted' <=> s \in Wanted),
         \A s \in Wanted' : Examined(s)' <=> Examined(s)
  PROVE  TraceMatches'
<1>0. Wanted \in SUBSET Slots /\ Wanted' \in SUBSET Slots /\ frame \in Nat
  BY DEF Wanted, expected_trace, Slots, Tasks, Sound, TypeOK
<1>1. Done' = Done
  BY <1>0, ExaminedIsEarly DEF Done
<1>2. \A s \in Done : Position(s, Wanted') = Position(s, Wanted)
  <2> SUFFICES ASSUME NEW s \in Done PROVE Position(s, Wanted') = Position(s, Wanted)
    OBVIOUS
  <2>1. s \in Slots /\ s[1] <= frame
    BY <1>0, ExaminedIsEarly DEF Done
  <2> QED
    BY <1>0, <2>1, PositionKept
<1>3. /\ Len(trace) = Cardinality(Done)
      /\ \A s \in Done : trace[Position(s, Wanted)] = s[2]
  BY DEF TraceMatches
<1>4. /\ Len(trace') = Cardinality(Done')
      /\ \A s \in Done' : trace'[Position(s, Wanted')] = s[2]
  BY <1>1, <1>2, <1>3
<1>5. \A s : Position(s, Wanted)' = Position(s, Wanted')
  BY DEF Position, NoLater
<1> QED
  BY <1>4, <1>5 DEF TraceMatches

(* A dispatch is the slot that comes next.                                 *)
LEMMA OneMoreSlot ==
  ASSUME Sound, TraceMatches, pc \notin {"hung", "reset"}, NEW slot \in Wanted,
         slot[1] = frame, ~Examined(slot), trace' = Append(trace, slot[2]),
         \A s \in Slots : s[1] <= frame => (s \in Wanted' <=> s \in Wanted),
         \A s \in Wanted' : Examined(s)' <=> Examined(s) \/ s = slot,
         \A s \in Slots : NoLater(s, slot) <=> Examined(s) \/ s = slot
  PROVE  TraceMatches'
<1>0. /\ Wanted \in SUBSET Slots /\ Wanted' \in SUBSET Slots /\ frame \in Nat
      /\ trace \in Seq(Tasks) /\ slot \in Slots /\ slot[2] \in Tasks
  BY SlotType DEF Wanted, expected_trace, Slots, Tasks, Sound, TypeOK
<1>1. Done' = Done \cup {slot} /\ slot \notin Done
  BY <1>0, ExaminedIsEarly DEF Done
<1>2. \A s \in Done : s \in Slots /\ s[1] <= frame
  BY <1>0, ExaminedIsEarly DEF Done
<1>3. \A s \in Done : Position(s, Wanted') = Position(s, Wanted)
  BY <1>0, <1>2, PositionKept
<1>4. IsFiniteSet(Done) /\ Cardinality(Done) \in Nat
  <2>1. Done \in SUBSET Slots
    BY <1>0 DEF Done
  <2> QED
    BY <2>1, SlotsAreFinite, FS_Subset, FS_CardinalityType
<1>5. Cardinality(Done') = Cardinality(Done) + 1
  BY <1>1, <1>4, FS_AddElement
<1>6. /\ Len(trace) = Cardinality(Done)
      /\ \A s \in Done : trace[Position(s, Wanted)] = s[2]
  BY DEF TraceMatches
<1>7. \A s \in Done : Position(s, Wanted) \in 1 .. Cardinality(Done)
  <2> SUFFICES ASSUME NEW s \in Done PROVE Position(s, Wanted) \in 1 .. Cardinality(Done)
    OBVIOUS
  <2>1. \A r \in Wanted : NoLater(r, s) => r \in Done
    BY <1>0, <1>2, ExaminedFirst DEF Done
  <2>2. Done \in SUBSET Wanted
    BY DEF Done
  <2> QED
    BY <1>0, <2>1, <2>2, PositionIn
<1>8. Position(slot, Wanted') = Cardinality(Done) + 1
  <2>1. {s \in Wanted' : NoLater(s, slot)} = Done'
    <3>1. \A s \in Slots : NoLater(s, slot) => s[1] <= frame
      BY <1>0, SlotType DEF NoLater
    <3>2. Done' \subseteq Slots
      BY <1>0, <1>1, <1>2
    <3> QED
      BY <1>0, <1>1, <3>1, <3>2 DEF Done
  <2> QED
    BY <1>5, <2>1 DEF Position
<1>9. /\ Len(trace') = Len(trace) + 1
      /\ \A k \in 1 .. Len(trace) : trace'[k] = trace[k]
      /\ trace'[Len(trace) + 1] = slot[2]
  BY <1>0, AppendProperties
<1>10. Len(trace') = Cardinality(Done')
  BY <1>5, <1>6, <1>9
<1>11. \A s \in Done' : trace'[Position(s, Wanted')] = s[2]
  BY <1>1, <1>3, <1>6, <1>7, <1>8, <1>9
<1>12. \A s : Position(s, Wanted)' = Position(s, Wanted')
  BY DEF Position, NoLater
<1> QED
  BY <1>10, <1>11, <1>12 DEF TraceMatches

-----------------------------------------------------------------------------
(* The row under examination.                                              *)
TheRow == <<frame, cursor>>

LEMMA RowIsASlot ==
  ASSUME Sound, pc = "row", cursor < TaskCount
  PROVE  /\ TheRow \in Slots /\ TheRow[1] = frame /\ TheRow[2] = cursor
         /\ ~Examined(TheRow)
         /\ \A s \in Slots : NoLater(s, TheRow) <=> Examined(s) \/ s = TheRow
         /\ \A s \in Slots : s[1] < frame \/ (s[1] = frame /\ s[2] < cursor + 1)
                               <=> Examined(s) \/ s = TheRow
<1>1. /\ frame \in Nat /\ cursor \in Nat /\ frame < WindowFrames
      /\ WindowFrames \in Nat /\ TaskCount \in Nat
  BY ExecutiveAssumption DEF Sound, TypeOK, InWindow
<1>2. TheRow \in Slots /\ TheRow[1] = frame /\ TheRow[2] = cursor
  BY <1>1 DEF TheRow, Slots, Tasks
<1>3. \A s \in Slots : Examined(s) <=> s[1] < frame \/ (s[1] = frame /\ s[2] < cursor)
  BY DEF Examined, Reached
<1>4. \A s \in Slots : s = TheRow <=> s[1] = frame /\ s[2] = cursor
  BY SlotType DEF TheRow
<1>5. \A s \in Slots : NoLater(s, TheRow) <=> s[1] < frame \/ (s[1] = frame /\ s[2] <= cursor)
  BY <1>2 DEF NoLater
<1>6. \A s \in Slots : s[2] \in Nat
  BY SlotType
<1>7. /\ \A n \in Nat : n < cursor + 1 <=> n < cursor \/ n = cursor
      /\ \A n \in Nat : n <= cursor <=> n < cursor \/ n = cursor
      /\ ~(cursor < cursor) /\ ~(frame < frame)
  BY <1>1
<1> QED
  BY <1>2, <1>3, <1>4, <1>5, <1>6, <1>7

(* A row that is passed over is one the host does not expect.              *)
LEMMA SkippedIsUnwanted ==
  ASSUME Sound, MaxStrikes < 2, EntryOK, WithheldOK, SkipRow
  PROVE  TheRow \notin Wanted
<1>1. /\ pc = "row" /\ cursor < TaskCount
      /\ \/ IsSafe /\ ~Table[cursor].essential
         \/ ~IsDue(cursor, frame)
         \/ obc_recover_is_suspended(cursor, frame)
  BY DEF SkipRow
<1>2. TheRow \in Slots /\ TheRow[1] = frame /\ TheRow[2] = cursor
  BY <1>1, RowIsASlot
<1>3. TheRow \in expected_trace <=>
        /\ safe_entry_frame # NONE /\ frame > safe_entry_frame => Table[cursor].essential
        /\ IsDue(cursor, frame)
        /\ ~(suspended.task = cursor /\ suspended.frame = frame)
  BY <1>2, ExpectedIs
<1>4. CASE IsSafe /\ ~Table[cursor].essential
  <2>1. safe_entry_frame # NONE
    BY <1>1, <1>4, VoteWorks DEF Sound, ModeInv
  <2>2. safe_entry_frame < frame /\ safe_entry_frame \in Nat /\ frame \in Nat
    BY <1>1, <2>1 DEF EntryOK, Sound, TypeOK
  <2> QED
    BY <1>3, <1>4, <2>1, <2>2 DEF Wanted
<1>5. CASE ~IsDue(cursor, frame)
  BY <1>3, <1>5 DEF Wanted
<1>6. CASE obc_recover_is_suspended(cursor, frame)
  BY <1>3, <1>6, SuspendedIs DEF Wanted, Sound
<1> QED
  BY <1>1, <1>4, <1>5, <1>6

(* A row that is dispatched is one the host expects.                       *)
LEMMA DispatchedIsWanted ==
  ASSUME Sound, MaxStrikes < 2, EntryOK, WithheldOK, Dispatch,
         ~(build = "skip" /\ Defect)
  PROVE  TheRow \in Wanted
<1>1. /\ pc = "row" /\ cursor < TaskCount
      /\ ~IsSafe \/ Table[cursor].essential
      /\ IsDue(cursor, frame) /\ ~obc_recover_is_suspended(cursor, frame)
  BY DEF Dispatch
<1>2. TheRow \in Slots /\ TheRow[1] = frame /\ TheRow[2] = cursor
  BY <1>1, RowIsASlot
<1>3. TheRow \in expected_trace <=>
        /\ safe_entry_frame # NONE /\ frame > safe_entry_frame => Table[cursor].essential
        /\ IsDue(cursor, frame)
        /\ ~(suspended.task = cursor /\ suspended.frame = frame)
  BY <1>2, ExpectedIs
<1>4. safe_entry_frame # NONE => Table[cursor].essential
  BY <1>1, VoteWorks DEF EntryOK
<1>5. ~(suspended.task = cursor /\ suspended.frame = frame)
  BY <1>1, SuspendedIs DEF Sound
<1>6. build = "skip" => TheRow # TheDrop
  BY <1>1, <1>2 DEF Defect, TheRow, TheDrop
<1> QED
  BY <1>1, <1>3, <1>4, <1>5, <1>6 DEF Wanted

LEMMA MatchStep ==
  ASSUME Sound, OneOfEach, LogCapacity > 0, TraceCapacity >= TaskCount * WindowFrames,
         EntryOK, WithheldOK, EndOK, TraceMatches, build \in {"flight", "skip"},
         [BuildNext]_<<vars, build>>, Sound', WithheldOK'
  PROVE  TraceMatches'
<1> SUFFICES ASSUME pc' \notin {"hung", "reset"} PROVE TraceMatches'
  BY DEF TraceMatches
<1>0. /\ frame \in Nat /\ cursor \in Nat /\ TaskCount \in Nat /\ MaxStrikes < 2
      /\ Wanted' \in SUBSET Slots
  <2>1. frame \in Nat /\ cursor \in 0..TaskCount
    BY DEF Sound, TypeOK
  <2>2. TaskCount \in Nat
    BY ExecutiveAssumption
  <2>3. cursor \in Nat
    BY <2>1, <2>2
  <2>4. MaxStrikes < 2
    BY DEF OneOfEach
  <2>5. Wanted' \in SUBSET Slots
    BY DEF Wanted, expected_trace, Slots, Tasks
  <2> QED
    BY <2>1, <2>2, <2>3, <2>4, <2>5
<1>1. \A s \in Slots : s[1] <= frame => (s \in Wanted' <=> s \in Wanted)
  BY WantedIsSettled
<1>2. CASE SkipRow \/ (build = "skip" /\ DropDispatch)
  <2>1. /\ pc = "row" /\ pc' = "row" /\ cursor' = cursor + 1
        /\ UNCHANGED <<frame, trace>>
    BY <1>2 DEF SkipRow, DropDispatch, Defect, frameVars, traceVars
  <2>2. cursor < TaskCount
    BY <1>2, SchedSkipAssumption, ExecutiveAssumption DEF SkipRow, DropDispatch, Defect, Tasks
  <2>3. TheRow \notin Wanted
    BY <1>0, <1>2, SkippedIsUnwanted DEF DropDispatch, Defect, Wanted, TheRow, TheDrop
  <2>4. TheRow \in Slots /\ TheRow[1] = frame
    BY <2>1, <2>2, RowIsASlot
  <2>5. TheRow \notin Wanted'
    BY <1>0, <1>1, <2>3, <2>4
  <2>6. \A s \in Slots : Examined(s)' <=> Examined(s) \/ s = TheRow
    BY <2>1, <2>2, RowIsASlot DEF Examined, Reached
  <2> QED
    BY <1>0, <1>1, <2>1, <2>5, <2>6, NothingMore
<1>3. CASE Dispatch /\ ~(build = "skip" /\ Defect)
  <2>1. /\ pc = "row" /\ pc' = "running" /\ cursor < TaskCount
        /\ UNCHANGED <<frame, cursor>> /\ trace_push
    BY <1>3 DEF Dispatch, frameVars
  <2>2. trace' = Append(trace, cursor)
    <3>1. Len(trace) < TraceCapacity
      BY <2>1, RoomInTrace DEF Sound, InWindow
    <3> QED
      BY <2>1, <3>1, Zenon DEF trace_push
  <2>3. TheRow \in Wanted
    BY <1>0, <1>3, DispatchedIsWanted
  <2>4. \A s \in Slots : Examined(s)' <=> Examined(s) \/ s = TheRow
    BY <2>1, RowIsASlot DEF Examined, Reached
  <2>5. /\ TheRow[1] = frame /\ TheRow[2] = cursor /\ ~Examined(TheRow)
        /\ \A s \in Slots : NoLater(s, TheRow) <=> Examined(s) \/ s = TheRow
    BY <2>1, RowIsASlot
  <2> QED
    BY <1>0, <1>1, <2>1, <2>2, <2>3, <2>4, <2>5, OneMoreSlot
<1>4. CASE TaskReturns \/ TaskOverruns \/ (build = "skip" /\ OverrunIsCounted)
  <2>1. /\ pc = "running" /\ cursor' = cursor + 1 /\ UNCHANGED <<frame, trace>>
    BY <1>4 DEF TaskReturns, TaskOverruns, OverrunIsCounted, frameVars, traceVars
  <2>2. pc' = "row"
    BY <1>4, OverrunIsAnnounced DEF TaskReturns, OverrunIsCounted
  <2>3. Reached' = Reached
    BY <2>1, <2>2 DEF Reached
  <2>4. \A s \in Slots : Examined(s)' <=> Examined(s)
    BY <2>1, <2>3 DEF Examined
  <2> QED
    BY <1>0, <1>1, <2>1, <2>4, NothingMore
<1>5. CASE NextFrame
  <2>1. /\ pc = "boundary" /\ pc' \in {"row", "returned"} /\ frame' = frame + 1
        /\ cursor' = 0 /\ trace' = trace
    BY <1>5 DEF NextFrame, Return, traceVars
  <2>2. Reached = TaskCount /\ Reached' = 0
    BY <2>1 DEF EndOK, Reached
  <2>3. \A s \in Slots : Examined(s)' <=> s[1] < frame + 1
    BY <2>1, <2>2, SlotType DEF Examined
  <2>4. \A s \in Slots : Examined(s) <=> s[1] < frame + 1
    BY <1>0, <2>2, SlotType DEF Examined, Tasks
  <2> QED
    BY <1>0, <1>1, <2>1, <2>3, <2>4, NothingMore
<1>6. CASE \/ StartWindow \/ StartUnwatched \/ StartOnBadClock \/ Feed \/ RowsEnd
           \/ ClockUnstable \/ FrameOverruns
  <2>1. /\ pc \in {"start", "row", "clock", "idle"} /\ pc' # "running"
        /\ UNCHANGED <<frame, cursor, trace>>
    BY <1>6 DEF StartWindow, StartUnwatched, StartOnBadClock, Feed, RowsEnd, ClockUnstable,
                FrameOverruns, Return, frameVars, rowVars, traceVars
  <2>2. \A s \in Slots : Examined(s)' <=> Examined(s)
    BY <2>1 DEF Examined, Reached
  <2> QED
    BY <1>0, <1>1, <2>1, <2>2, NothingMore
<1>7. CASE FrameInTime \/ IdleToBoundary \/ ClockStops
  <2>1. /\ pc \in {"clock", "idle"} /\ pc' # "running"
        /\ UNCHANGED <<frame, cursor, trace>>
    BY <1>7 DEF FrameInTime, IdleToBoundary, ClockStops, Return, frameVars, rowVars, traceVars
  <2>2. \A s \in Slots : Examined(s)' <=> Examined(s)
    BY <2>1 DEF Examined, Reached
  <2> QED
    BY <1>0, <1>1, <2>1, <2>2, NothingMore
<1>8. CASE Strike \/ Ended \/ UNCHANGED vars
  <2>1. UNCHANGED <<pc, frame, cursor, trace>>
    BY <1>8 DEF Strike, Ended, vars, frameVars, rowVars, traceVars
  <2>2. \A s \in Slots : Examined(s)' <=> Examined(s)
    BY <2>1 DEF Examined, Reached
  <2>3. pc \notin {"hung", "reset"}
    BY <2>1
  <2> QED
    BY <1>0, <1>1, <2>1, <2>2, <2>3, NothingMore
<1>9. CASE WatchdogBites
  BY <1>9 DEF WatchdogBites
<1> QED
  BY <1>2, <1>3, <1>4, <1>5, <1>6, <1>7, <1>8, <1>9, StepKinds
  DEF SharedStep, FlightStep, BrokenStep

LEMMA ConformInit ==
  ASSUME OneOfEach, TraceCapacity >= TaskCount * WindowFrames, BuildInit
  PROVE  ConformInv
<1>1. /\ pc = "start" /\ frame = 0 /\ cursor = 0 /\ frames_run = 0 /\ armed = FALSE
      /\ result = "none" /\ log = <<>> /\ log_overflow = 0 /\ trace = <<>>
      /\ suspended = [task |-> NONE, frame |-> NONE] /\ safe_entry_frame = NONE
      /\ overruns = [t \in Tasks |-> 0]
  BY DEF BuildInit, Init
<1>2. mode = "nominal" /\ ~announced
  BY DEF BuildInit, Init, OneOfEach
<1>3. build \in {"flight", "skip"}
  BY SchedSkipAssumption DEF BuildInit
<1>4. Sound
  BY SoundInit
<1>5. EntryOK /\ WithheldOK /\ EndOK
  BY <1>1, <1>2 DEF EntryOK, WithheldOK, NoEntry, EndOK
<1>6. TraceMatches
  <2>1. Done = {}
    <3>1. \A s \in Slots : ~Examined(s)
      BY <1>1, SlotType DEF Examined, Reached
    <3> QED
      BY <3>1 DEF Done, Wanted, expected_trace
  <2> QED
    BY <1>1, <2>1, FS_EmptySet DEF TraceMatches
<1> QED
  BY <1>3, <1>4, <1>5, <1>6 DEF ConformInv

(* At the end every slot has been examined: the flight trace is the        *)
(* expected one, and the broken one is shorter by the drop.                *)
LEMMA Judgement ==
  ASSUME ConformInv, TheDropIsDue, result = "OK"
  PROVE  HostAccepts <=> build = "flight"
<1>1. /\ Sound /\ WithheldOK /\ EndOK /\ TraceMatches /\ pc = "returned"
      /\ frame = WindowFrames /\ frames_run = WindowFrames /\ trace_overflow = 0
      /\ build \in {"flight", "skip"} /\ log_overflow = 0
  BY DEF ConformInv, EndOK, Sound, TraceInv, WithheldOK
<1>2. Done = Wanted
  BY <1>1, SlotType, ExecutiveAssumption DEF Done, Wanted, expected_trace, Examined
<1>3. /\ Len(trace) = Cardinality(Wanted)
      /\ \A s \in Wanted : trace[Position(s, Wanted)] = s[2]
  BY <1>1, <1>2 DEF TraceMatches
<1>4. CASE build = "flight"
  <2>1. Wanted = expected_trace
    BY <1>4 DEF Wanted
  <2>2. check_trace
    BY <1>1, <1>3, <2>1 DEF check_trace, InPosition
  <2>3. check_suspensions
    <3>1. CASE NoEntry
      BY <1>1, <3>1 DEF NoEntry, check_suspensions
    <3>2. CASE OneEntry
      <4>1. log \in Seq([task : Tasks, frame : Nat, rung : {1, 2}]) /\ Len(log) = 1
        BY <1>1, <3>2 DEF Sound, TypeOK, OneEntry
      <4>2. DOMAIN log = {1}
        BY <4>1
      <4>3. log[1].frame < WindowFrames /\ IsDue(log[1].task, log[1].frame)
        BY <3>2, ExecutiveAssumption DEF OneEntry
      <4> QED
        BY <1>1, <4>2, <4>3 DEF check_suspensions
    <3> QED
      BY <1>1, <3>1, <3>2 DEF WithheldOK
  <2> QED
    BY <1>4, <2>2, <2>3 DEF HostAccepts
<1>5. CASE build = "skip"
  <2>1. TheDrop \in Slots /\ TheDrop[1] = SkipFrame /\ TheDrop[2] = SkipTask
    BY SchedSkipAssumption DEF TheDrop, Slots
  <2>2. NoEntry
    BY <1>1, <1>5 DEF WithheldOK, OneEntry
  <2>3. ~(suspended.task = SkipTask)
    BY <2>2, SchedSkipAssumption, NoneIsNoFrame, ExecutiveAssumption DEF NoEntry, Tasks
  <2>4. TheDrop \in expected_trace
    BY <1>1, <2>1, <2>3, ExpectedIs DEF TheDropIsDue
  <2>5. Wanted = expected_trace \ {TheDrop}
    BY <1>5 DEF Wanted
  <2>6. IsFiniteSet(expected_trace) /\ Cardinality(expected_trace) \in Nat
    <3>1. expected_trace \in SUBSET Slots
      BY DEF expected_trace
    <3> QED
      BY <3>1, SlotsAreFinite, FS_Subset, FS_CardinalityType
  <2>7. Cardinality(Wanted) = Cardinality(expected_trace) - 1
    BY <2>4, <2>5, <2>6, FS_RemoveElement
  <2>8. Len(trace) # Cardinality(expected_trace)
    BY <1>3, <2>6, <2>7
  <2> QED
    BY <1>5, <2>8 DEF HostAccepts, check_trace, InPosition
<1> QED
  BY <1>1, <1>4, <1>5

(* trace_check.py: a window that ran to its end is one the host accepts    *)
(* exactly when the executive dropped no dispatch, for every table and     *)
(* window, wherever in it one task overran and one boundary was missed.    *)
THEOREM ConformanceHolds ==
  ASSUME OneOfEach, TheBuffersAreLargeEnough, TheDropIsDue
  PROVE  BuildSpec => []Conformance
<1>1. LogCapacity > 0 /\ TraceCapacity >= TaskCount * WindowFrames
  BY DEF TheBuffersAreLargeEnough
<1>2. BuildInit => ConformInv
  BY <1>1, ConformInit
<1>3. ConformInv /\ [BuildNext]_<<vars, build>> => ConformInv'
  <2> SUFFICES ASSUME ConformInv, [BuildNext]_<<vars, build>> PROVE ConformInv'
    OBVIOUS
  <2>1. /\ Sound /\ EntryOK /\ WithheldOK /\ EndOK /\ TraceMatches
        /\ build \in {"flight", "skip"} /\ MaxStrikes < 2
    BY DEF ConformInv, OneOfEach
  <2>2. Sound'
    BY <1>1, <2>1, SoundStep
  <2>3. EntryOK' /\ WithheldOK' /\ EndOK'
    BY <1>1, <2>1, EntryStep, WithheldStep, EndStep
  <2>4. TraceMatches'
    BY <1>1, <2>1, <2>2, <2>3, MatchStep
  <2>5. build' = build
    BY StepKinds
  <2> QED
    BY <2>1, <2>2, <2>3, <2>4, <2>5 DEF ConformInv
<1>4. ConformInv => Conformance
  BY Judgement DEF Conformance
<1> QED
  BY <1>2, <1>3, <1>4, PTL DEF BuildSpec
=============================================================================
