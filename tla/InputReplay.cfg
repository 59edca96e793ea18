SPECIFICATION Spec
CONSTANTS
  DroppedMax = 2
  Capacity = 1
  Key = {k1, k2}
  MaxMotion = 1
  Limit = 1
  Modulus = 3
  Button = {left}
  MaxFrames = 3
  MaxCalls = 3
INVARIANTS
  ReplayFaithful
  DrivenInputFaithful
CHECK_DEADLOCK FALSE
