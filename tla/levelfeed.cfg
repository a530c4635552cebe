SPECIFICATION FeedSpec
CONSTANTS
  Symbols = {ibm}
  Prices = {1, 2, 3, 4}
  Quantities = {1}
  Depth = 2
  Infinity = 9
  WordMod = 16
  SnapLevels = 3
  MaxTxn = 8
  MaxSnaps = 1
  NoMsg = NoMsg
INVARIANTS FaithfulUnlessGhost NothingLostUnlessMisrouted
PROPERTIES GhostsComeFromOuterLevels MisroutedOnlyByGhost BookIdCountsChanges
CHECK_DEADLOCK FALSE
