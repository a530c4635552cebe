SPECIFICATION ObservedSpec
CONSTANTS
  Symbols = {ibm, msft}
  OrderIds = {o1, o2, o3}
  Prices = {1, 2}
  QtyTexts = {0, 1, 2, 3, 4}
  QtyMod = 3
  MaxTxn = 3
  NoOrder = NoOrder
  NoMsg = NoMsg
SYMMETRY NameSymmetry
INVARIANTS TypeOK Uncrossed NoEmptyEntries IndexMatchesBook QuantityConserved TapeMatchesReports
PROPERTIES HandlerProgress OnlyFilledIdsReturn ImplementsPriceTime ImplementsLadder
