SPECIFICATION Spec
CONSTANTS
  HoursPerDay = 2
  Offset = 1
  TrendDays = 2
  ReportDays = 2
  Methods = {cash, mpesa}
  cash = cash
  mpesa = mpesa
  Totals = {2}
  Amounts = {1, 2}
  Reports <- AllReports
  Requests = {r1, r2}
  r1 = r1
  r2 = r2
  MaxOrders = 1
  MaxPayments = 2
  MaxDebts = 1
  FirstHour = 2
  LastHour = 5
SYMMETRY Symmetry
CONSTRAINT Followed
INVARIANTS TypeOK FiguresAreOfLocalDays MoneyInOneColumn
