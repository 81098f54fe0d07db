SPECIFICATION LearningSpec
CONSTANTS
  p1 = p1  p2 = p2  p3 = p3  p4 = p4  k = k  k1 = k1
  None = None
  Proposals <- MCProposals
  Target <- MCTarget
  Level <- MCLevel
  Skill = {p1}
  Old = {p2}
  Jobs <- MCJobs
  Asks <- MCAsks
  Scenes <- MCScenes
  MaxActive = 2
  MaxNew = 2
  MaxFaults = 1
INVARIANTS OneOpenPerTarget ClaimsAreAccounted RevertedStaysRetracted
CHECK_DEADLOCK FALSE
