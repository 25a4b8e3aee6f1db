SPECIFICATION Spec
CONSTANTS
  NumRequests = 3
  ArrivalInterval = 7
  Mode = "diffusion"
  OutputTokens = 6
  Staggered = TRUE
  MinOutputTokens = 2
  BlockSize = 2
  Schedule <- TwoRounds
  Never = Never
  Policy = "locality"
  RouteKnowledge = "previous"
  MaxBatchSize = 2
  MaxWait = 8
  CandidatePoolSize = None
  ShortlistSize = None
  None = None
  OneShotProxyBatch = FALSE
  ProxyAlwaysActive = TRUE
  CommunicationBound = FALSE
  BaseOverhead = 0
  CandidateOverhead = 1
  ProxyOverhead = 0
  BatchTimes = {1, 4}
  LoopLimit = 12
INVARIANTS
  DelayAccounted
  ProgressAsPlanned
  WorkIndependentOfBatching
