SPECIFICATION FairSpec
CONSTANTS
  c1 = c1  c2 = c2  c3 = c3  c4 = c4
  None = None
  Ids <- MCIds
  Says <- MCSays
  Preferences <- MCPreferences
  Ops <- MCOps
  Asks <- MCAsks
  Scenes <- MCScenes
  MaxFaults = 2
  Threshold = 2
  Switches = FALSE
INVARIANT HealthIsOnRecord
PROPERTIES ImplementsProvider OpsSettle
CHECK_DEADLOCK FALSE
