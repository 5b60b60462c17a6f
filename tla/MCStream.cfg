CONSTANTS
  Objs = {o1, o2}
  Burst = 1
  IdleTicks = 2
  MaxFails = 1
SPECIFICATION FairSpec
CHECK_DEADLOCK FALSE
INVARIANTS
  OneOwner
  SendSafe
PROPERTIES
  Completes
