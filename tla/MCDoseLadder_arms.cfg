SPECIFICATION LadderSpec
CONSTANTS
  NumSources = 2
  NumRequests = 3
  BatchSize = 1
  NumLayers = 1
  MaxSweeps = 4
  InitialRestarts = 1
  MaxRestarts = 1
  RandomOrders <- ThreeShuffled
  CountTables <- AlikeSources
  RandomSamples = 1
INVARIANTS
  ArmsDistinct
