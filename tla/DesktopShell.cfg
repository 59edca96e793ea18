SPECIFICATION Spec
CONSTANTS
  Drive = {df0}
  Path = {adf1, adf2}
  NoDisk = NoDisk
  Value = {v1, v2}
  MaxCalls = 2
INVARIANTS
  ConfigAgreement
  CommandsInOrder
  NetworkViewCurrent
  FlushTargetsOwner
SYMMETRY Interchangeable
CHECK_DEADLOCK FALSE
