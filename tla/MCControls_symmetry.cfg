SPECIFICATION ReviewedSpec
CONSTANTS
  NumSources = 4
  NumRequests = 8
  BatchSize = 4
  NumLayers = 1
  ExpertsPerRank = 4
  TopK = 2
  RouteTables = {}
  Programs = {"gate"}
  Arguments <- DefaultWidth
  MaxLaunches <- Once
  Faulty = {2}
  Absent = Absent
INVARIANTS
  WorkSymmetric
CHECK_DEADLOCK FALSE
