SPECIFICATION PageSpec
CONSTANTS
  Symbols = {ibm}
  Ibm = ibm
  Prices = {1, 2, 4}
  Quantities = {1}
  Depth = 2
  Infinity = 9
  WordMod = 16
  SnapLevels = 2
  MaxTxn = 3
  MaxSnaps = 1
  RowsPerSide = 2
  ForeignPrices = {4}
  MaxForeign = 1
  MaxLoads = 2
  NoMsg = NoMsg
INVARIANTS TypeOK PageFollowsMd TableShowsLevels FlagTellsRecovery
PROPERTIES ComesUpUnlessEarly
CHECK_DEADLOCK FALSE
