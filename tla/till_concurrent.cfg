SPECIFICATION Spec
CONSTANTS
  Requests = {r1, r2}
  Managers = {r1, r2}
  Subtotals = {2}
  Discounts = {0}
  Amounts = {0, 1, 2}
  Kinds <- AllKinds
  MaxOrders = 1
  MaxDebts = 2
  MaxPaid = 3
SYMMETRY Symmetric
INVARIANTS PaidMeansCollected UnpaidMeansNothing DebtNeverOverstated OutstandingMeansOwed
PROPERTIES CompletedWhenCovered
