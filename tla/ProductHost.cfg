SPECIFICATION MCSpec
CONSTANTS
  x1 = x1
  p1 = p1
  p2 = p2
  s1 = s1
  s2 = s2
  s3 = s3
  c1 = c1
  c2 = c2
  w1 = w1
  w2 = w2
  h1 = h1
  h2 = h2
  Launches <- MCLaunchers
  Proposals <- MCProposals
  NoProposal = NoProposal
  Answers = {1, 2, 3}
  Runners <- MCRunners
  Sessions <- MCSessions
  TheSession = s1
  Nobody = Nobody
  Bodies <- MCBodies
  PermissionRequests <- MCRequests
  ReadOnly = TRUE
  MaxTurns = 2
  MaxGrants = 1
  MaxAllowed = 1
  Escalation = 2
  NoQuestion = NoQuestion
  Dispatches = {1, 2}
  MaxAnswers = 2
  Invocations <- MCInvocations
  MaxRequests = 2
  OCSessions <- MCOCSessions
  ParentOf <- MCParentOf
  MaxDepth = 2
  Calls <- MCCalls
  RelayItems <- MCBodies
  OtherItems = {}
  Budget = 1
  MaxWork = 5
  NoSession = NoSession
  Releases <- MCReleases
  VersionOf <- MCVersionOf
  NoRelease = NoRelease
  Unmanaged = Unmanaged
  MaxGeneration = 4
  k1 = k1
  k2 = k2
  k3 = k3
  k4 = k4
  MaxCommands = 2
  FieldItems = {k1, k2, k3, k4}
  Relevance <- MCRelevance
  Newer <- MCNewer
  Meta <- MCMeta
  Text <- MCText
  MaxItems = 2
  MaxItemSize = 3
  FieldRoom = 5
  GoalRoom = 4
  LeastGoal = 1
  PacketRoom = 11
  Goals <- MCGoals
  Rests = {2, 5}
  MaxSaves = 2
  Wizards <- MCCalls
  Presets <- MCPresets
  MaxWizards = 2
SYMMETRY MCSymmetry
CHECK_DEADLOCK FALSE
INVARIANTS
  GrantsAreOneShot
  CloseOutIsBounded
  CallsSettleOnce
  ExitIsEarned
  OneBackendPerRuntime
  ToolGrantIsExact
  ExposureIsTrue
  FilesAreWhole
PROPERTIES
  SessionNeverRebound
  SettledApprovalIsFinal
