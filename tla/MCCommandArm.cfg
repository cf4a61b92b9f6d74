\* A critical command accepted while armed, tagged past the expiry of the arm.
SPECIFICATION Spec
CONSTANTS
  GroundFrames <- MCGroundFrames
  FrameLen = 2
  FifoDepth = 2
  RxBytes = 4
  QueueLen = 2
  ArmFrames = 1
  FrameTicks = 2
  CounterMax = 4
  Vacant = Vacant
  Window = 3
  MaxSent = 3
  MaxLost = 1
  MaxSkips = 1
  MaxResets = 1
INVARIANTS CriticalRunsArmed
