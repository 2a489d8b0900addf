SPECIFICATION Spec
CONSTANTS
  Transactions = {t1}
  FromStore = {t1}
  Requests = {r1}
  Cancellers = {}
  MaxCrashes = 1
  NoTransaction = NoTransaction
INVARIANTS SuccessMeansEntitled
