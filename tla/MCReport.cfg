\* Texts of one byte, one poll each; two traps or resets anywhere.
SPECIFICATION Spec
CONSTANTS
  Bytes = 1
  RetryLimit = 1
  MaxResets = 2
INVARIANTS TypeOK VerdictIsHonest
PROPERTIES CauseIsReported BootEnds
