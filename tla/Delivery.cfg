SPECIFICATION DeliverySpec
CONSTANTS
  Enhancers = 2
  Interceptors = 2
  Filters = 2
  Collect = TRUE
  MaxReads = 2
  Policies = {"p1", "p2"}
  Keys = {"k1", "k2"}
  Routes = {"r1", "r2"}
  FlowNames = {"f", "g"}
  Parents = {1, 2}
  MaxRecovered = 1
  Jobs = {"c", "d"}
  Batch = 1
  MaxChildren = 3
  Applications = {"a1", "a2"}
  Callers = {"u"}
  MaxItems = 2
INVARIANTS SingleNested MisuseFails PolicyFollowed StoredAsDeclared FlowReadsExact
PROPERTIES AbortStops InvocationSettles
CHECK_DEADLOCK FALSE
