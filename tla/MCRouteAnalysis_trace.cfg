SPECIFICATION AnalysisSpec
CONSTANTS
  NumSegments = 1
  NumRequests = 4
  MicrobatchSize = 2
  PrefixLength = 6
  BlockWidth = 3
  Steps = 2
  NumBlocks = 2
  InitialWidths <- TwoWidths
  Erratic = {1}
  Leftovers = {0, 5, 7}
  WorldSize = 2
  RequestsPerRank = 2
  NumExperts = 6
  NoReport = NoReport
INVARIANTS
  OnlyMaskTokensStick
  ManifestChains
  CellsExact
  PreviousIsPreceding
  ReportSound

