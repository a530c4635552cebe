SPECIFICATION Spec
CONSTANTS
  MaxFrames = 3
  MaxReplies = 3
INVARIANTS TypeOK InOrder
PROPERTIES UpIsPipe DownIsPipe ClosesTogether
CHECK_DEADLOCK FALSE
