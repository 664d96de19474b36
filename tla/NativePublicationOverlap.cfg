SPECIFICATION NativeSpec
CONSTANTS
  x1 = x1
  x2 = x2
  c1 = c1
  c2 = c2
  c3 = c3
  Turns <- MCTurns
  Contents <- MCContents
  Calls <- MCCalls
  Nothing = Nothing
  MaxParallel = 2
  MaxRestarts = 1
SYMMETRY MCSymmetry
CHECK_DEADLOCK FALSE
PROPERTIES
  NothingAfterShipment
