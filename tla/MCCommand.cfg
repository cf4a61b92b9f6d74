\* Three frames over three minor frames, with a lost byte, a suspension and a
\* rung 2 reset: a full queue, a replay, an arm that
\* expires, counters that reach their ceiling.
SPECIFICATION Spec
CONSTANTS
  GroundFrames <- MCGroundFrames
  FrameLen = 2
  FifoDepth = 2
  RxBytes = 4
  QueueLen = 2
  ArmFrames = 1
  FrameTicks = 2
  CounterMax = 2
  Vacant = Vacant
  Window = 3
  MaxSent = 3
  MaxLost = 1
  MaxSkips = 1
  MaxResets = 1
INVARIANTS
  NothingFellBetween AcceptedIsAccountedFor ExecutedOnce CriticalNeedsArm
  RunsInItsFrame OldestFirst
PROPERTIES SilenceRealigns ImplementsLedger
