\* Two processes, two encoders; the new detector arrives at any moment.
CONSTANTS
  Processes = {r1, r2}
  Encoders = {mbf, r50}
  Scrfd = scrfd
  Slim = slim
  Unset = unset
  Absent = absent
  NoTag = notag
SPECIFICATION TagSpec
CHECK_DEADLOCK FALSE
SYMMETRY Symmetry
INVARIANTS TagTells ComparedAlike RefusedRightly
