SPECIFICATION Spec
CONSTANTS
  Dialect = "sized"
  Sizes = {3, 5}
  BufSize = 5
  MaxMessages = 3
INVARIANTS TypeOK WholeMessagesOnly NeverTakenForClosed
PROPERTIES HandledUnlessClosed
CHECK_DEADLOCK FALSE
