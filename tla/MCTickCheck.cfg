\* Every reader, a timer that may carry in every round or stand still.
SPECIFICATION CheckSpec
CONSTANTS
  Words = 4
  Attempts = 2
  Readers = {"flight", "naive", "unstable"}
  FailsAfter = 3
  MaxHi = 2
  TickReads = 2
  Delta = 2
  BaseTicks = 2
  BaseReads = 2
INVARIANTS ReadIsAnInstant UnstableMeansManyCarries PassedClockWasSound AlarmIsReal
PROPERTIES SelfCheckEnds
