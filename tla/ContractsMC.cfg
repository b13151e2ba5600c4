SPECIFICATION Spec
CONSTANTS
  WORD_BITS = 3
  MAX_STACK = 2
  MAX_STEPS = 12
  Programs <- MCPrograms
  Contexts <- MCContexts
  GasLimits <- MCGasLimits
INVARIANTS
  TypeOK
  AllOrNothing
  GasBitesFirst
  GasOnlyCutsShort
  TemplatesDecide
