SPECIFICATION Spec
CONSTANTS
  Symbols = {ibm, aapl}
  Faults = {}
  TxnMod = 64
  MaxTxn = 3
  MaxCopies = 1
  MaxClients = 1
  NoSymbol = NoSymbol
INVARIANTS NeverRecoversWithoutLoss
CHECK_DEADLOCK FALSE
