SPECIFICATION Spec
CONSTANTS
  Requests = {r1, r2}
  Managers = {r1, r2}
  Subtotals = {2}
  Discounts = {0}
  Amounts = {2}
  Kinds <- Lending
  MaxOrders = 1
  MaxDebts = 2
  MaxPaid = 4
SYMMETRY Symmetric
INVARIANT NeverOvercollected
