SPECIFICATION FairSpec
CONSTANTS
  Settings <- MCSettings
  FirstFees <- MCFirstFees
  GasReports <- MCGasReports
  Tips <- MCTips
  MaxFee = 12
INVARIANTS
  TypeOK
  EffectiveFloor
PROPERTIES
  Feedback
  QuoteOutlastsBlock
  CongestionPasses
