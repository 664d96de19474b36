SPECIFICATION MCSpec
CONSTANTS
  a1 = a1
  a2 = a2
  a3 = a3
  b1 = b1
  b2 = b2
  l1 = l1
  l2 = l2
  k1 = k1
  k2 = k2
  k3 = k3
  i1 = i1
  i2 = i2
  m1 = m1
  q1 = q1
  q2 = q2
  Processes <- MCActors
  Manifests = {m1}
  Inputs <- MCPairs
  Organum = TRUE
  Nobody = Nobody
  None = None
  Runs <- MCPairs
  Lanes <- MCLanes
  Bridged <- MCBridged
  Questions = {q1, q2}
  Oversized = {q2}
  NoRun = NoRun
  Packets <- MCPackets
  Identities <- MCIdentities
  IdentityOf <- MCIdentityOf
  Calls <- MCActors
  NoPacket = NoPacket
  LaneIds <- MCLanes
  Profiles <- MCIdentities
  MaxLanes = 2
  Findings <- MCIdentities
  Digests <- MCLanes
  Turns = {q1}
  Routes <- MCRoutes
  Pinned = k1
  MaxEvents = 3
  MaxBatch = 3
  NoTurn = NoTurn
SYMMETRY MCSymmetry
CHECK_DEADLOCK FALSE
INVARIANTS
  LaunchedOnceAsBound
  ToldTruly
  DoneIsEarned
  PacketInOnePlace
  CheckForecastsRun
  EvidenceAgrees
