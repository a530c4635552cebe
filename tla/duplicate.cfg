SPECIFICATION AuditSpec
CONSTANTS
  Symbols = {ibm}
  OrderIds = {o1, o2, o3}
  Prices = {1, 2}
  QtyTexts = {0, 1, 2, 3, 4, 5}
  QtyMod = 4
  MaxTxn = 4
  NoOrder = NoOrder
  NoMsg = NoMsg
SYMMETRY IdSymmetry
PROPERTY EnteredOnce
