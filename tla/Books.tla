------------------------------- MODULE Books --------------------------------
(***************************************************************************)
(* The figures an owner reads: the dashboard's takings, the sales report   *)
(* and who is carrying unpaid money (app/routers/analytics.py,             *)
(* app/core/timezone.py), while orders, payments and debts go on being     *)
(* recorded and the clock runs on.                                         *)
(*                                                                         *)
(* Timestamps are UTC; a day is the restaurant's.  A report asks the clock *)
(* where its days begin and then reads the database in several queries.    *)
(* The till's requests read, check and commit later, several at once.      *)
(***************************************************************************)
EXTENDS Integers, FiniteSets, Sums

CONSTANTS
  HoursPerDay,  \* the length of a day
  Offset,       \* how many hours the restaurant's clock is ahead of UTC
  TrendDays,    \* the days of the dashboard's trend: 12
  ReportDays,   \* the days asked for in a sales report
  Methods,      \* how money is paid
  Totals,       \* what orders come to
  Amounts,      \* what payments and debts come to
  Reports,      \* which reports are asked for
  Requests,     \* the till's requests that can be under way at once
  MaxOrders, MaxPayments, MaxDebts,  \* bounds on rows ever inserted
  FirstHour, LastHour                \* the hours that the model runs through

AllReports == {"dashboard", "sales", "accountability"}

ASSUME BooksAssumption ==
  /\ HoursPerDay \in Nat \ {0} /\ Offset \in Int
  /\ TrendDays \in Nat \ {0} /\ ReportDays \in Nat \ {0}
  /\ IsFiniteSet(Methods)
  /\ Totals \subseteq Nat /\ Amounts \subseteq Nat
  /\ Reports \subseteq AllReports
  /\ MaxOrders \in Nat /\ MaxPayments \in Nat /\ MaxDebts \in Nat
  /\ FirstHour \in Int /\ LastHour \in Int /\ FirstHour <= LastHour

VARIABLES
  now,        \* the hour, in UTC
  orders,     \* the rows of orders
  payments,   \* the rows of payments
  debts,      \* the rows of debts
  tasks,      \* the till's requests between what they read and their commit
  report,     \* the report being made, or the last one made
  quiet       \* history: since it was begun no day began, and nothing was
              \* recorded

booksVars == <<now, orders, payments, debts, tasks, report, quiet>>

OrderIds == 1 .. MaxOrders
PaymentIds == 1 .. MaxPayments
DebtIds == 1 .. MaxDebts
Hours == 0 .. HoursPerDay - 1
TrendIndex == 0 .. TrendDays - 1
DailyIndex == 0 .. ReportDays - 1

\* order is 0 where there is no row; an order is void once cancelled.
OrderRow == [status : {"none", "open", "cancelled"}, at : Int, total : Nat]
PaymentRow == [order : Nat, at : Int, amount : Nat, method : Methods \cup {"none"}]
DebtRow == [order : Nat, at : Int, amount : Nat, paid : Nat,
            status : {"none", "outstanding", "settled"}]

\* row is the order paid or lent on, or the debt repaid; paid is a copy.
Task == [pc : {"idle", "pay", "credit", "repay"}, row : Nat, amount : Nat,
         paid : Nat]

\* from, until and before are the report's bounds, seen its copy of the orders.
Report == [kind : AllReports \cup {"none"}, step : Nat,
           from : Int, until : Int, before : Int,
           today : Nat, yesterday : Nat, buckets : [Hours -> Nat],
           trend : [TrendIndex -> Nat],
           gross : Nat, split : [Methods -> Nat], daily : [DailyIndex -> Nat],
           credit : [OrderIds -> Nat], seen : [OrderIds -> OrderRow],
           unpaid : Nat, outstanding : Nat]

TypeOK ==
  /\ now \in Int
  /\ orders \in [OrderIds -> OrderRow]
  /\ payments \in [PaymentIds -> PaymentRow]
  /\ debts \in [DebtIds -> DebtRow]
  /\ tasks \in [Requests -> Task]
  /\ report \in Report
  /\ quiet \in BOOLEAN
  /\ \A d \in DebtIds : debts[d].paid <= debts[d].amount

NoOrder == [status |-> "none", at |-> 0, total |-> 0]
NoPayment == [order |-> 0, at |-> 0, amount |-> 0, method |-> "none"]
NoDebt == [order |-> 0, at |-> 0, amount |-> 0, paid |-> 0, status |-> "none"]
Idle == [pc |-> "idle", row |-> 0, amount |-> 0, paid |-> 0]
NoReport ==
  [kind |-> "none", step |-> 0, from |-> 0, until |-> 0, before |-> 0,
   today |-> 0, yesterday |-> 0, buckets |-> [h \in Hours |-> 0],
   trend |-> [i \in TrendIndex |-> 0],
   gross |-> 0, split |-> [m \in Methods |-> 0],
   daily |-> [i \in DailyIndex |-> 0],
   credit |-> [o \in OrderIds |-> 0], seen |-> [o \in OrderIds |-> NoOrder],
   unpaid |-> 0, outstanding |-> 0]

Init ==
  /\ now = FirstHour
  /\ orders = [o \in OrderIds |-> NoOrder]
  /\ payments = [k \in PaymentIds |-> NoPayment]
  /\ debts = [d \in DebtIds |-> NoDebt]
  /\ tasks = [p \in Requests |-> Idle]
  /\ report = NoReport
  /\ quiet = TRUE

-----------------------------------------------------------------------------
(* The restaurant's clock (core/timezone.py).                              *)

\* to_local, as the hour of the day and as the date.
LocalHour(t) == (t + Offset) % HoursPerDay
LocalDay(t) == (t + Offset) \div HoursPerDay

\* Mutant: "today" is a UTC day.
StartOfDayUtc(t) == t - (t % HoursPerDay)

\* day_bounds_utc: local midnight before t, in UTC; the day ends a day later.
StartOfDay(t) == t - LocalHour(t)

\* days_ago_utc
DaysAgo(days) == StartOfDay(now - days * HoursPerDay)

-----------------------------------------------------------------------------
(* The queries.                                                            *)

AtLeastZero(n) == IF n < 0 THEN 0 ELSE n

\* SELECT sum(amount_cents) over some rows of payments.
Sum(rows) == SumOver([k \in PaymentIds |-> payments[k].amount], rows)

Recorded == {k \in PaymentIds : payments[k].order # 0}
Since(from) == {k \in Recorded : payments[k].at >= from}
Between(from, until) == {k \in Since(from) : payments[k].at < until}

\* Bucketed by the local hour, or by the local date counted from a first one.
ByHour(rows) ==
  [h \in Hours |-> Sum({k \in rows : LocalHour(payments[k].at) = h})]
ByDay(rows, first, index) ==
  [i \in index |-> Sum({k \in rows : LocalDay(payments[k].at) = first + i})]
ByMethod(rows) ==
  [m \in Methods |-> Sum({k \in rows : payments[k].method = m})]

PaidOn(o) == Sum({k \in Recorded : payments[k].order = o})
Owed(d) == AtLeastZero(debts[d].amount - debts[d].paid)
SumOwed(rows) == SumOver([d \in DebtIds |-> Owed(d)], rows)

\* The debts of an order that pay_debt has not settled.
Outstanding(o) ==
  {d \in DebtIds : debts[d].order = o /\ debts[d].status = "outstanding"}

\* Mutant: what is on credit is not taken off the unpaid orders.
CreditOnOrderIgnored == [o \in OrderIds |-> 0]

\* credit_on_order
CreditOnOrder ==
  [o \in OrderIds |->
     SumOver([d \in DebtIds |-> debts[d].amount - debts[d].paid],
             Outstanding(o))]

\* The shortfalls of the orders in the window, from the report's copies.
UnpaidValue ==
  SumOver(
    [o \in OrderIds |->
       AtLeastZero(report.seen[o].total - PaidOn(o) - report.credit[o])],
    {o \in OrderIds : report.seen[o].status = "open"})

CreditSince(from) ==
  SumOwed({d \in DebtIds : debts[d].order # 0 /\ debts[d].at >= from})

-----------------------------------------------------------------------------
(* What the till records meanwhile, and the clock.                         *)

Placed(o) == orders[o].status # "none"

PlaceOrder(o, total) ==
  /\ orders[o].status = "none"
  /\ \A e \in OrderIds : e < o => Placed(e)
  /\ orders' = [orders EXCEPT ![o] = [status |-> "open", at |-> now,
                                      total |-> total]]
  /\ quiet' = FALSE
  /\ UNCHANGED <<now, payments, debts, tasks, report>>

\* update_status sets any status whenever it is asked to, a cancelled order's
\* too; cancel_order, for the unpaid, is one case.  Money and debts stay.
UpdateStatus(o, status) ==
  /\ Placed(o)
  /\ orders' = [orders EXCEPT ![o].status = status]
  /\ quiet' = FALSE
  /\ UNCHANGED <<now, payments, debts, tasks, report>>

\* record_payment's cap: neither money nor credit beyond the balance.
Remaining(o) ==
  AtLeastZero(orders[o].total - PaidOn(o)) - SumOwed(Outstanding(o))

Begun(p, task) ==
  /\ tasks[p] = Idle
  /\ tasks' = [tasks EXCEPT ![p] = task]
  /\ UNCHANGED <<now, orders, payments, debts, report, quiet>>

\* record_payment up to its cap, with nothing locked; then money or a debt.
StartPayment(p, o, amount, next) ==
  /\ Placed(o) /\ amount <= Remaining(o)
  /\ Begun(p, [pc |-> next, row |-> o, amount |-> amount, paid |-> 0])

\* pay_debt, likewise: its copy of the debt is what it will add to.
StartRepayment(p, d, amount) ==
  /\ debts[d].status = "outstanding"
  /\ 0 < amount /\ amount <= Owed(d)
  /\ Begun(p, [pc |-> "repay", row |-> d, amount |-> amount,
               paid |-> debts[d].paid])

Done(p) ==
  /\ tasks' = [tasks EXCEPT ![p] = Idle]
  /\ quiet' = FALSE
  /\ UNCHANGED <<now, orders, report>>

\* A payment on the order, dated now.
Pay(k, o, amount, method) ==
  /\ payments[k].order = 0
  /\ \A j \in PaymentIds : j < k => payments[j].order # 0
  /\ payments' = [payments EXCEPT ![k] =
       [order |-> o, at |-> now, amount |-> amount, method |-> method]]

RecordPayment(p, k, method) ==
  /\ tasks[p].pc = "pay"
  /\ Pay(k, tasks[p].row, tasks[p].amount, method)
  /\ UNCHANGED debts
  /\ Done(p)

RecordCredit(p, d) ==
  /\ tasks[p].pc = "credit"
  /\ debts[d].order = 0 /\ \A e \in DebtIds : e < d => debts[e].order # 0
  /\ debts' = [debts EXCEPT ![d] =
       [order |-> tasks[p].row, at |-> now, amount |-> tasks[p].amount,
        paid |-> 0, status |-> "outstanding"]]
  /\ UNCHANGED payments
  /\ Done(p)

\* The row with this much repaid; a settled debt stays so.
Repaid(debt, paid) ==
  [debt EXCEPT !.paid = paid,
               !.status = IF paid >= debt.amount THEN "settled" ELSE @]

\* Mutant: the sum is added to the row as it is, not to the copy checked.
PayDebtInPlace(p, k, method) ==
  LET d == tasks[p].row IN
  /\ tasks[p].pc = "repay"
  /\ Pay(k, debts[d].order, tasks[p].amount, method)
  /\ debts' = [debts EXCEPT ![d] = Repaid(@, @.paid + tasks[p].amount)]
  /\ Done(p)

PayDebt(p, k, method) ==
  LET d == tasks[p].row IN
  /\ tasks[p].pc = "repay"
  /\ Pay(k, debts[d].order, tasks[p].amount, method)
  /\ debts' = [debts EXCEPT ![d] = Repaid(@, tasks[p].paid + tasks[p].amount)]
  /\ Done(p)

\* The request fails and its session is rolled back.
Abandon(p) ==
  /\ tasks[p] # Idle
  /\ tasks' = [tasks EXCEPT ![p] = Idle]
  /\ UNCHANGED <<now, orders, payments, debts, report, quiet>>

Tick ==
  /\ now < LastHour
  /\ now' = now + 1
  /\ quiet' = (quiet /\ LocalDay(now + 1) = LocalDay(now))
  /\ UNCHANGED <<orders, payments, debts, tasks, report>>

-----------------------------------------------------------------------------
(* The reports, one query after another.                                   *)

Begin(kind, first) ==
  /\ kind \in Reports
  /\ report.kind = "none"
  /\ report' = first
  /\ quiet' = TRUE
  /\ UNCHANGED <<now, orders, payments, debts, tasks>>

Step(kind, step, next) ==
  /\ report.kind = kind /\ report.step = step
  /\ report' = [next EXCEPT !.step = step + 1]
  /\ UNCHANGED <<now, orders, payments, debts, tasks, quiet>>

\* dashboard: the clock is read for today, for yesterday and, four queries
\* later, for the trend.
DashboardBounds ==
  Begin("dashboard", [NoReport EXCEPT
    !.kind = "dashboard", !.from = StartOfDay(now),
    !.until = StartOfDay(now) + HoursPerDay])
DashboardYesterday == Step("dashboard", 0, [report EXCEPT !.before = DaysAgo(1)])
DashboardToday ==
  Step("dashboard", 1,
       [report EXCEPT !.today = Sum(Between(report.from, report.until))])
DashboardYday ==
  Step("dashboard", 2,
       [report EXCEPT !.yesterday = Sum(Between(report.before, report.from))])
DashboardHours ==
  Step("dashboard", 3,
       [report EXCEPT !.buckets = ByHour(Between(report.from, report.until))])
DashboardTrendStart ==
  Step("dashboard", 4, [report EXCEPT !.before = DaysAgo(TrendDays - 1)])
DashboardTrend ==
  Step("dashboard", 5,
       [report EXCEPT !.trend = ByDay(Since(report.before),
                                      LocalDay(report.before), TrendIndex)])

\* sales_report, and sales_pdf but for its dates.
SalesWindow ==
  Begin("sales", [NoReport EXCEPT !.kind = "sales",
                                  !.from = DaysAgo(ReportDays - 1)])
SalesGross ==
  Step("sales", 0, [report EXCEPT !.gross = Sum(Since(report.from))])
SalesSplit ==
  Step("sales", 1, [report EXCEPT !.split = ByMethod(Since(report.from))])
SalesSeries ==
  Step("sales", 2,
       [report EXCEPT !.daily = ByDay(Since(report.from),
                                      LocalDay(report.from), DailyIndex)])

\* accountability: a rolling window; the orders' payments are a query of their
\* own.
AccountabilityCredit ==
  Begin("accountability", [NoReport EXCEPT
    !.kind = "accountability", !.from = now - ReportDays * HoursPerDay,
    !.credit = CreditOnOrder])
AccountabilityOrders ==
  Step("accountability", 0, [report EXCEPT !.seen = [o \in OrderIds |->
         IF orders[o].status = "open" /\ orders[o].at >= report.from
         THEN orders[o] ELSE NoOrder]])
AccountabilityUnpaid ==
  Step("accountability", 1, [report EXCEPT !.unpaid = UnpaidValue])
AccountabilityDebts ==
  Step("accountability", 2,
       [report EXCEPT !.outstanding = CreditSince(report.from)])

LastStep == [dashboard |-> 6, sales |-> 3, accountability |-> 3]
Made(kind) == report.kind = kind /\ report.step = LastStep[kind]

\* The answer is sent, or the request fails on the way.
Answer ==
  /\ report.kind # "none"
  /\ report' = NoReport
  /\ quiet' = TRUE
  /\ UNCHANGED <<now, orders, payments, debts, tasks>>

-----------------------------------------------------------------------------

Till ==
  \/ \E o \in OrderIds, total \in Totals : PlaceOrder(o, total)
  \/ \E o \in OrderIds, status \in {"open", "cancelled"} :
       UpdateStatus(o, status)
  \/ \E p \in Requests, amount \in Amounts :
       \/ \E o \in OrderIds, next \in {"pay", "credit"} :
            StartPayment(p, o, amount, next)
       \/ \E d \in DebtIds : StartRepayment(p, d, amount)
  \/ \E p \in Requests :
       \/ \E k \in PaymentIds, method \in Methods :
            RecordPayment(p, k, method) \/ PayDebt(p, k, method)
       \/ \E d \in DebtIds : RecordCredit(p, d)
       \/ Abandon(p)

Dashboard ==
  \/ DashboardBounds \/ DashboardYesterday \/ DashboardToday \/ DashboardYday
  \/ DashboardHours \/ DashboardTrendStart \/ DashboardTrend
Sales == SalesWindow \/ SalesGross \/ SalesSplit \/ SalesSeries
Accountability ==
  \/ AccountabilityCredit \/ AccountabilityOrders
  \/ AccountabilityUnpaid \/ AccountabilityDebts

Next == Till \/ Tick \/ Dashboard \/ Sales \/ Accountability \/ Answer

Spec == Init /\ [][Next]_booksVars

-----------------------------------------------------------------------------

\* The reference: what was received on a day of the restaurant's calendar.
TakingsOn(day) == Sum({k \in Recorded : LocalDay(payments[k].at) = day})

DashboardIsTrue ==
  Made("dashboard") /\ quiet =>
    /\ report.today = TakingsOn(LocalDay(now))
    /\ report.yesterday = TakingsOn(LocalDay(now) - 1)
    /\ SumOver(report.buckets, Hours) = report.today
    /\ \A i \in TrendIndex :
         report.trend[i] = TakingsOn(LocalDay(now) - (TrendDays - 1) + i)

SalesAddUp ==
  Made("sales") =>
    LET split == SumOver(report.split, Methods)
        daily == SumOver(report.daily, DailyIndex)
    IN  /\ report.gross <= split
        /\ quiet => /\ report.gross = split /\ split = daily
                    /\ \A i \in DailyIndex : report.daily[i] =
                         TakingsOn(LocalDay(now) - (ReportDays - 1) + i)

\* timezone.py:12-15, analytics.py:46-50 and :108-110: sums over UTC bounds and
\* buckets by local hour and date are the same takings of the restaurant's days,
\* in a report that nothing crossed; and no payment that the gross counted is
\* missing from the split, whatever crossed it.  The hours are those that the
\* dashboard sums; its chart then draws 7 to 21 only (analytics.py:117-122).
FiguresAreOfLocalDays == DashboardIsTrue /\ SalesAddUp

\* The reference: what is lent on an order, and what counts for it.
LentOn(o) == SumOwed(Outstanding(o))
Exposure(o) ==
  LET lacks == AtLeastZero(orders[o].total - PaidOn(o))
  IN  IF lacks < LentOn(o) THEN LentOn(o) ELSE lacks

\* analytics.py:541-551 and :558-563: unpaid orders and credit are told apart
\* in a report that nothing crossed.  An order in the window counts once, for
\* what it lacks or what was lent on it, whichever is more, and every other
\* debt for what is owed on it, however the till's requests overlapped before.
\* Where they lent no more than was lacking and settled only what was repaid,
\* that is what the orders lack and what is owed on the orders outside.
MoneyInOneColumn ==
  Made("accountability") /\ quiet =>
    LET inside == {o \in OrderIds : report.seen[o].status = "open"}
        since == {d \in DebtIds : /\ debts[d].order # 0
                                  /\ debts[d].at >= report.from}
        counted == UNION {Outstanding(o) : o \in inside}
        outside == {d \in since : debts[d].order \notin inside}
        columns == report.unpaid + report.outstanding
    IN  /\ columns = SumOver([o \in OrderIds |-> Exposure(o)], inside)
                       + SumOwed(since \ counted)
        /\ (/\ \A o \in inside : PaidOn(o) + LentOn(o) <= orders[o].total
            /\ \A d \in since : debts[d].status = "settled" => Owed(d) = 0)
             => columns =
                  SumOver([o \in OrderIds |-> orders[o].total - PaidOn(o)], inside)
                    + SumOwed(outside)

=============================================================================
