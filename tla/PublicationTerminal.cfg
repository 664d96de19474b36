SPECIFICATION Spec
CONSTANTS
  m1 = m1
  m2 = m2
  x1 = x1
  x2 = x2
  c1 = c1
  c2 = c2
  Turns <- MCTurns
  Contents <- MCContents
  Calls <- MCCalls
  Nothing = Nothing
SYMMETRY MCSymmetry
INVARIANTS
  ShippedIsTerminal
