SPECIFICATION FairSpec
CONSTANTS
  Symbols = {ibm}
  Faults = {"lose", "reorder", "duplicate", "refuse", "disconnect"}
  TxnMod = 64
  MaxTxn = 6
  MaxCopies = 1
  MaxClients = 2
  NoSymbol = NoSymbol
INVARIANTS TypeOK AppliedOnce OnlySnapshotIdMissed
PROPERTIES RecoveryEnds
CHECK_DEADLOCK FALSE
