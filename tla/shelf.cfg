SPECIFICATION Spec
CONSTANTS
  Requests = {r1, r2}
  Dishes = {d1, d2}
  Deltas <- Movements
  Openings = {1}
  Levels = {0}
  Yields = {0, 1}
  Costs = {1}
  Kinds <- AllKinds
  MaxItems = 1
  MaxOrders = 1
  MaxExpenses = 1
  MaxSum = 2
SYMMETRY Symmetric
INVARIANTS TypeOK TotalIsLastBalance CancelledIsRestored OnlySalesGoNegative
PROPERTIES NoSilentDrift SettledStaysSettled
CONSTRAINT Apart
