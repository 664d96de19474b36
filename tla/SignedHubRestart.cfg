SPECIFICATION Spec
CONSTANTS
  p1 = p1
  p2 = p2
  p3 = p3
  Processes <- MCProcesses
  Nobody = Nobody
SYMMETRY MCSymmetry
CHECK_DEADLOCK FALSE
INVARIANTS
  RestartIsSafe
