SPECIFICATION Spec
CONSTANTS
  RxLen = 3
  TxLen = 2
  MaxSize = 3
  MaxFrames = 3
  MaxStarts = 2
INVARIANTS
  ReceivedWhole
  FramesAccounted
  NoLostWakeup
  TransmittedWhole
PROPERTIES
  GuestBuffersSafe
  PendingResolved
CHECK_DEADLOCK FALSE
