SPECIFICATION MCSpec
CONSTANTS
  r1 = r1
  r2 = r2
  r3 = r3
  k1 = k1
  k2 = k2
  Nobody = Nobody
  Requests <- MCRequests
  MaxRequests = 3
  MaxConcurrent = 2
  MaxResponses = 1
  ToolCalls <- MCCalls
  CustomCalls <- MCCustom
  Prose = Prose
  NoCall = NoCall
  Fragments = 2
  MaxPieces = 4
  MaxTurns = 3
  MaxSignatures = 1
CHECK_DEADLOCK FALSE
INVARIANTS
  AckedMeansAnswered
  TurnMatchesRequest
  LimitsHold
  BridgeIsFaithful
PROPERTIES
  EveryRequestEnds
