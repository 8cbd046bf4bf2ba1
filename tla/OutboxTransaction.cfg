SPECIFICATION FairSpec
CONSTANTS
  Queries = {q1, q2}
  Appends = {a1}
  Records = {r1}
INVARIANTS CommitIsClean NoStray CleanReuse
PROPERTIES AtomicOutboxSpec TransactionSettles
CHECK_DEADLOCK FALSE
