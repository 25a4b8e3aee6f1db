SPECIFICATION LadderSpec
CONSTANTS
  NumSources = 2
  NumRequests = 6
  BatchSize = 2
  NumLayers = 1
  MaxSweeps = 4
  InitialRestarts = 1
  MaxRestarts = 1
  RandomOrders <- SixShuffled
  CountTables <- OneAssignment
  RandomSamples = 1
INVARIANTS
  PlansPartition
  LoadsPatched
  LadderSound
