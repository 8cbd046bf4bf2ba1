SPECIFICATION KyselyFairSpec
CONSTANTS
  Queries = {q1, q2}
  Appends = {a1}
  Records = {r1}
INVARIANTS AdmittedReaches ValueMeansAll
PROPERTIES TransactionSettles
CHECK_DEADLOCK FALSE
