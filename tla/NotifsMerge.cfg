SPECIFICATION NMergeSpec
CONSTANTS
  t1 = t1
  t2 = t2
  Targets <- MCTargets
  MaxFaults = 0
INVARIANT StatusSound
CHECK_DEADLOCK FALSE
