SPECIFICATION Spec
INVARIANT CoresAgree
PROPERTIES HandlersReturn SupervisorByException
CHECK_DEADLOCK FALSE
CONSTANTS
  ByteBits = 6
  Ten = 5
  Origin = 1000
  Handler = 20083
  Nesting = 2
  Families <- AllFamilies
  StepBoth <- Executed
  InterruptBoth <- Preempted
