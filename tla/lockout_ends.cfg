\* Two scans whose flock always works, one of which may be stopped for ever
\* while it holds the lock; the clock may be set back.
CONSTANTS
  Threshold = 1
  BaseDelay = 1
  MaxDelay = 2
  MaxDoublings = 1
  FailuresMax = 3
  Scans = {s1, s2}
  Refused = {}
  NoScan = NoScan
  MayMiss = {s1}
  Spoils = TRUE
  MayStop = {s2}
  MaxClock = 2
  ClockSteps = TRUE
SPECIFICATION FairSpec
PROPERTIES ImplementsCounter ScansEnd
