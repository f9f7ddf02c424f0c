\* A window of 20 ticks, naps longer than most captures, a grace period of 3.
CONSTANTS
  Duration = 20
  Grace = 3
  Window = 12
  Interval = 3
  CaptureTimes = {1, 2, 4}
  MaxCapture = 4
  UpdateTimes = {0, 1}
  MaxUpdate = 1
  LagTimes = {0, 1}
  MaxLag = 1
  MaxFrames = 2
  MaxErrors = 3
  LivenessOff = FALSE
SPECIFICATION FairSpec
INVARIANTS MatchEarned TimeBound GraceIsGiven EvidenceIsRecent
PROPERTIES Terminates
