SPECIFICATION NFairSpec
CONSTANTS
  t1 = t1
  t2 = t2
  Targets <- MCTargets
  MaxFaults = 1
INVARIANTS CallbackOnce NoFalseSuccess
PROPERTIES Settles AbortFinishes
