\* Three scans, one of them refused flock; threshold 1, cooldowns of 1 and 2 ticks.
CONSTANTS
  Threshold = 1
  BaseDelay = 1
  MaxDelay = 2
  MaxDoublings = 1
  FailuresMax = 3
  Scans = {s1, s2, s3}
  Refused = {s1}
  NoScan = NoScan
  MayMiss = {s1}
  Spoils = TRUE
  MayStop = {}
  MaxClock = 2
  ClockSteps = FALSE
SPECIFICATION Spec
INVARIANTS NoUncountedVerdict BurstBound
PROPERTY CooldownOnlyGrows
SYMMETRY Alike
