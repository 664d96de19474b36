SPECIFICATION MCSpec
CONSTANTS
  s1 = s1
  s2 = s2
  e1 = e1
  f1 = f1
  Refresh = Refresh
  Nothing = Nothing
  Sessions <- MCSessions
  HubEvents = {e1}
  RelayFiles = {f1}
  MaxCrashes = 1
INVARIANTS
  NeverOfferedAgain
  RecordedUntilAcked
  ReadMeansHeard
PROPERTIES
  EventuallyAcked
