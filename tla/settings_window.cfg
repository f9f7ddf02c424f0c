SPECIFICATION Spec
CONSTANTS
  Unset = Unset
  w1 = w1
  Windows = {w1}
  NoWindow = NoWindow
  Missing = Missing
  Garbled = Garbled
  InitialFiles <- Initial1
  HandFiles <- Hands1
  Offered <- Offered1
  Modes <- Modes1
  Minutes = {60}
  Trusted = {1}
  MaxLines = 8
  MaxRows = 2
  MaxApplies = 1
  MaxOthers = 1
INVARIANT NoLostChange
INVARIANT RootsPolicy
INVARIANT OwnKept
PROPERTY EditExact
PROPERTY RowTakesEffect
PROPERTY EditsWait
CHECK_DEADLOCK FALSE
