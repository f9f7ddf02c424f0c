SPECIFICATION Spec
CONSTANTS
  Runs = {r1, r2, r3}
  Scans = {s1}
  Legacy = legacy
  Cameras = {c1, c2}
  NoId = noid
  Models = {m1}
  NoModel = nomodel
  Nothing = nothing
  Frames = 2
  MaxTemplates = 4
  MaxCameras = 2
  SealOn = TRUE
  Together = FALSE
  Hotplug = FALSE
SYMMETRY Sym
INVARIANTS FilesAgree OwnCamera
PROPERTIES ImprovesKeep
