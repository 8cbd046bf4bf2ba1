SPECIFICATION Spec
CONSTANTS
  Conns = 1
  Probes = 1
  Plans = 0
  HasPublisher = FALSE
  HasScheduler = FALSE
  Coordinated = 1
INVARIANTS DetachedWhenClosed
CHECK_DEADLOCK FALSE
