SPECIFICATION Spec
CONSTANTS
  NumRequests = 3
  ArrivalInterval = 3
  Mode = "diffusion"
  OutputTokens = 4
  Staggered = TRUE
  MinOutputTokens = 2
  BlockSize = 2
  Schedule <- TwoRounds
  Never = Never
  MaxBatchSize = 3
  BaseOverhead = 0
  NumGpus = 2
  NumExperts = 4
  AttentionTime = 0
  PositionTime = 1
  ExpertLaunch = 1
  TokenTime = 1
  SaturationTokens = 2
  WeightReadTime = 1
  MessageLatency = 1
  TransferTime = 1
  AggregateMessages = TRUE
  UseRankCriticalPath = FALSE
  PriorRoute <- OwnExpert
  MaxStates = 48
  RouteTables <- BlockRoutes
INVARIANTS
  ExactOptimum
  DistancesWitnessed
  EstimateExact
