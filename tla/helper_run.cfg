\* One run of the PAM helper, from any of ten worlds, with one change around it.
CONSTANTS
  Unset = unset
  SystemFiles <- MCSystemFiles
  UserFiles <- MCUserFiles
  Requests <- MCRequests
  Worlds <- MCWorlds
  Cameras = {built_in, usb}
  NoCamera = nocamera
  PinnedCamera = built_in
  EnrolledOn = {built_in}
  External = {usb}
  MaxClock = 3
  MaxChanges = 1
  MaxKeys = 2
SPECIFICATION FairSpec
CHECK_DEADLOCK FALSE
INVARIANTS OverlayNarrows GrantGated EmitterGated DelayPaidOnce PinHolds ConfirmFresh
PROPERTIES RunEnds
