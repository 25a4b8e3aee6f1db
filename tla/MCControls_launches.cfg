SPECIFICATION ReviewedSpec
CONSTANTS
  NumSources = 4
  NumRequests = 8
  BatchSize = 4
  NumLayers = 1
  ExpertsPerRank = 4
  TopK = 2
  RouteTables = {}
  Programs = {"gate", "proxy", "parallel"}
  Arguments <- CommandLines
  MaxLaunches <- OnceOrTwice
  Faulty = {2}
  Absent = Absent
INVARIANTS
  BlocksAgree
  OneRunAtATime
  SameWork
  ReturnedFromExpert
  PassedMeansComplete
  PassedIsAccepted
  VerdictOnCompleteRows
PROPERTIES
  EveryLaunchEnds
CHECK_DEADLOCK FALSE
