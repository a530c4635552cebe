SPECIFICATION Spec
CONSTANTS
  Dialect = "wamp"
  Sizes = {6, 9}
  BufSize = 12
  MaxMessages = 2
INVARIANTS WholeMessagesOnly
CHECK_DEADLOCK FALSE
