SPECIFICATION Spec
CONSTANTS
  Quarter = 2
  MIN_WRITE_SLEEP = 2
  WriteSizes <- MCWriteSizes
  Garbage <- MCGarbage
INVARIANTS
  TypeOK
  SleepBounded
  NoMoreThanThreshold
PROPERTIES
  NoAbruptChange
  KnownResetJustAboveFill
