SPECIFICATION FairSpec
CONSTANTS
  NumRequests = 5
  ArrivalInterval = 1
  Mode = "autoregressive"
  OutputTokens = 3
  Staggered = FALSE
  MinOutputTokens = 3
  BlockSize = 1
  Schedule <- OneRound
  Never = Never
  RouteKnowledge = "previous"
  MaxBatchSize = 3
  MaxWait = 2
  CandidatePoolSize = 1
  ShortlistSize = 1
  None = None
  BaseOverhead = 0
  CandidateOverhead = 0
  ProxyOverhead = 0
  BatchTimes = {1, 2, 3}
  LoopLimit = 30
INVARIANTS
  BatchFill
  FifoBypass
PROPERTIES
  Termination
  KeepsTheLine
