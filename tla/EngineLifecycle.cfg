SPECIFICATION FairSpec
CONSTANTS
  Conns = 2
  Probes = 2
  Plans = 2
  HasPublisher = TRUE
  HasScheduler = TRUE
  Coordinated = 1
INVARIANTS ReleasedInOrder StateHonest DetachedWhenClosed
PROPERTIES HooksSettle
CHECK_DEADLOCK FALSE
