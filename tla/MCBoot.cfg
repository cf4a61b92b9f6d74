SPECIFICATION Spec
CONSTANTS
  ShortBootLimit = 2
  HealthyFrames = 8
  Frames = {7, 8}
  Traps = {t1, t2}
  MaxTraps = 2
  MaxResets = 2
INVARIANTS
  RecordIsOneTrap NoTrapIsForgotten SafeModeIsKept StreakEndsInSafe
  StreakIsExact LadderStops DoubleFaultIsReal
