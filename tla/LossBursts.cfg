CONSTANTS
  f1 = f1
  f2 = f2
  Flows = {f1, f2}
  Cases <- Reordered
  OnTimes = {2}
  OffTimes = {2}
  Largest = 8
  Forever = 1000
  DefaultDuration = 100
  RttmDelay = 2
  TicksPerSecond = 2
  UIntRange = 1000
SPECIFICATION Spec
CHECK_DEADLOCK FALSE
INVARIANTS
  BurstsCounted
