SPECIFICATION MCSpec
CONSTANTS
  Transactions = {t1, t2, t3}
  FromStore = {t1}
  Requests = {r1, r2}
  Cancellers = {r1, r2}
  MaxCrashes = 2
  NoTransaction = NoTransaction
SYMMETRY Symmetry
INVARIANTS TypeOK EntitledOnce OneReward SerialBonusIsBacked SerialCancelledHasNothing
