SPECIFICATION Spec
CONSTANTS
  NumSources = 3
  NumRequests = 2
  BatchSize = 1
  NumLayers = 2
  ExpertsPerRank = 2
  TopK = 3
  RouteTables <- MixedWays
  Arms <- TwoArms
  Repetitions = 2
  Counterbalanced = TRUE
  Faulty = {2}
INVARIANTS
  CallsMatch
  CountsMeasured
  RestoredToOrigin
  IntervalsClean
  RaisesTogether
  PassedMeansComplete
PROPERTIES
  EveryRankEnds
CHECK_DEADLOCK FALSE
