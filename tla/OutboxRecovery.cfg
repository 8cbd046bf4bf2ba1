SPECIFICATION FairSpec
CONSTANTS
  Calls = {c1, c2}
  Budgets = {1, 2}
  MaxTime = 2
  MaxAttempts = 3
INVARIANTS OneWinner DrainedBeforeDispose
PROPERTIES DisposalCompletes RecoveryExact AtomicRecoverySpec
CHECK_DEADLOCK FALSE
