SPECIFICATION Spec
CONSTANTS
  Bodies <- MCBodies
  MixedBodies <- MCMixedBodies
  HonestBatches <- MCHonestBatches
  OtherBatches <- MCOtherBatches
  Tasks <- MCTasks
  P = 19
  N = 13
  B = 14
  G <- MCG
  Keys <- MCKeys
  Messages <- MCMessages
  rounds = 2
  MaxDifficulty = 2
  MaxNonce = 5
  Untrained = 9000000
  HasPrefix <- MCHasPrefix
  Candidates <- MCCandidates
  RoundLosses <- MCRoundLosses
  Reputations <- MCReputations
  min_difficulty = 1
  max_difficulty = 3
  Observations <- MCObservations
INVARIANTS
  ProofsConvince
  OnlyIncludedVerify
  RootCommits
  TrimmedWithinHonest
  KrumNearHonest
  NoWeightNoSay
  MultipliesOnCurve
  SignedIffVerified
  SealedIffTrained
  TriesEveryMove
