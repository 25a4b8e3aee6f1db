SPECIFICATION Spec
CONSTANTS
  NumSources = 2
  NumRequests = 4
  BatchSize = 2
  NumLayers = 1
  MaxSweeps = 4
  InitialRestarts = 3
  MaxRestarts = 4
  RandomOrders <- FourShuffled
  CountTables <- SomeHard
INVARIANTS
  LocalOptimum
  BestBracketed
PROPERTIES
  SearchEnds
