SPECIFICATION FairSpec
CONSTANTS
  k1 = k1
  k2 = k2
  v2 = v2
  NoRelease = NoRelease
  Workers = {k1, k2}
  Releases = {v2}
  Delays = {2}
  MaxDelay = 2
  StatusPoll = 1
  MaxQueue = 3
  MaxSaves = 2
  MaxFailures = 1
  MaxEvents = 2
INVARIANTS BusyFollows KnownReplace
PROPERTIES HidesWhenQuiet StatusFollows
CHECK_DEADLOCK FALSE
