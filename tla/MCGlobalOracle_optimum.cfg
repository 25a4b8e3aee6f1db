SPECIFICATION Spec
CONSTANTS
  NumRequests = 3
  ArrivalInterval = 4
  Mode = "autoregressive"
  OutputTokens = 3
  Staggered = FALSE
  MinOutputTokens = 1
  BlockSize = 1
  Schedule <- OneRound
  Never = Never
  MaxBatchSize = 3
  BaseOverhead = 1
  NumGpus = 1
  NumExperts = 5
  AttentionTime = 0
  PositionTime = 0
  ExpertLaunch = 1
  TokenTime = 0
  SaturationTokens = 1
  WeightReadTime = 0
  MessageLatency = 0
  TransferTime = 0
  AggregateMessages = TRUE
  UseRankCriticalPath = FALSE
  PriorRoute <- OwnExpert
  MaxStates = 1000
  RouteTables <- LateCluster
INVARIANTS
  ExactOptimum
