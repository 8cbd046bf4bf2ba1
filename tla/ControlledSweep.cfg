SPECIFICATION SweepSpec
CONSTANTS
  a = a
  b = b
  c = c
  Queues <- MCQueues
  Registered <- MCRegistered
  Limits = {1, 2, 9}
  MaxStalled = 2
  MaxRevisions = 2
INVARIANTS LimitSpent
PROPERTIES FencedBeforeSweep
CHECK_DEADLOCK FALSE
