SPECIFICATION Spec
CONSTANTS
  Requests = {r1}
  Managers = {r1}
  Subtotals = {3}
  Discounts = {0, 1, 4}
  Amounts = {0, 1, 2}
  Kinds <- AllKinds
  MaxOrders = 1
  MaxDebts = 3
  MaxPaid = 4
INVARIANTS TypeOK NeverOvercollected SettledMeansPaid CollectedMeansPaid
PROPERTIES ImplementsAccount
