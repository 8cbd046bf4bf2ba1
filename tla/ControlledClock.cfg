SPECIFICATION Spec
CONSTANTS
  MaxTime = 4
  MaxDeliveries = 2
  MaxRevision = 2
  Lease = 2
  Delay = 1
INVARIANTS GivesUpBeaten
PROPERTIES AppliedAsAsked AtomicOperationSpec
CHECK_DEADLOCK FALSE
