SPECIFICATION NativeSpec
CONSTANTS
  x1 = x1
  x2 = x2
  c1 = c1
  c2 = c2
  c3 = c3
  Turns <- MCTurns
  Contents <- MCContents
  Calls <- MCCalls
  Nothing = Nothing
  MaxParallel = 1
  MaxRestarts = 2
SYMMETRY MCSymmetry
CHECK_DEADLOCK FALSE
INVARIANTS
  CrashMakesNoSecondFile
  AnswersAreTrue
  CheckpointIsTrue
PROPERTIES
  NothingAfterShipment
