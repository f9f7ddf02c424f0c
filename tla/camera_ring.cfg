\* A ring of three buffers and seven frames of the sensor.
CONSTANTS
  Buffers = {b1, b2, b3}
  NoBuffer = nobuffer
  LastFrame = 7
SPECIFICATION FairSpec
CHECK_DEADLOCK FALSE
INVARIANTS ReadsOwnBuffer RingStaysFull Fresh Consecutive
PROPERTIES CallsReturn
