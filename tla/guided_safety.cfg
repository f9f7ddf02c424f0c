\* Steps of four ticks, a frame each; one line typed in a run.
CONSTANTS
  Poses <- MCPoses
  NoPose = nopose
  StepTimeout = 3
  GlassesPause = 1
  FrameTimes = {1}
  MaxInputs = 1
SPECIFICATION FairSpec
CHECK_DEADLOCK FALSE
INVARIANTS OppositeWays
PROPERTIES RunEnds
