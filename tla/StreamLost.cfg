CONSTANTS
  Objs = {o1, o2}
  Burst = 1
  IdleTicks = 2
  MaxFails = 0
SPECIFICATION FairSpec
CHECK_DEADLOCK FALSE
PROPERTIES
  AlwaysCompleted
