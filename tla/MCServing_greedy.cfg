SPECIFICATION Spec
CONSTANTS
  NumRequests = 5
  ArrivalInterval = 1
  Mode = "autoregressive"
  OutputTokens = 4
  Staggered = FALSE
  MinOutputTokens = 4
  BlockSize = 1
  Schedule <- OneRound
  Never = Never
  Policy = "cost_aware"
  RouteKnowledge = "previous"
  MaxBatchSize = 2
  MaxWait = 7
  CandidatePoolSize = 3
  ShortlistSize = 2
  None = None
  OneShotProxyBatch = FALSE
  ProxyAlwaysActive = TRUE
  CommunicationBound = FALSE
  BaseOverhead = 0
  CandidateOverhead = 1
  ProxyOverhead = 1
  BatchTimes = {1, 2}
  LoopLimit = 30
INVARIANTS
  BoundedBypass
  WaitBound
  OverdueFirst
  ProfilesPrewarmed
