SPECIFICATION OneCameraSpec
CONSTANTS
  Runs = {r1, r2}
  Scans = {s1}
  Legacy = legacy
  Cameras = {c1, c2}
  NoId = noid
  Models = {m1, m2}
  NoModel = nomodel
  Nothing = nothing
  Frames = 2
  MaxTemplates = 5
  MaxCameras = 2
  SealOn = FALSE
  Together = TRUE
  Hotplug = FALSE
CHECK_DEADLOCK FALSE
SYMMETRY Sym
PROPERTIES ImprovesKeepEachOther
