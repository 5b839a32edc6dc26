---------------------------- MODULE BooksProofs -----------------------------
(***************************************************************************)
(* Machine-checked facts about Books for every length of the day, every    *)
(* offset of the restaurant's clock, every number of rows and every amount *)
(* of money.                                                               *)
(***************************************************************************)
EXTENDS Books, SumTheorems, TLAPS

-----------------------------------------------------------------------------
(* What the queries find, of any tables.                                   *)

AmountOf(pays) == [k \in PaymentIds |-> pays[k].amount]
RowsOn(pays, day) ==
  {k \in PaymentIds : pays[k].order # 0 /\ LocalDay(pays[k].at) = day}
RowsSince(pays, from) ==
  {k \in PaymentIds : pays[k].order # 0 /\ pays[k].at >= from}

\* Received on a day of the restaurant's, since an hour, and on an order.
Takings(pays, day) == SumOver(AmountOf(pays), RowsOn(pays, day))
TakenSince(pays, from) == SumOver(AmountOf(pays), RowsSince(pays, from))
PaidFor(pays, o) ==
  SumOver(AmountOf(pays),
          {k \in PaymentIds : pays[k].order # 0 /\ pays[k].order = o})

OwedOf(rows) == [d \in DebtIds |-> AtLeastZero(rows[d].amount - rows[d].paid)]
OwedIn(rows, D) == SumOver(OwedOf(rows), D)
LentFor(rows, o) ==
  OwedIn(rows, {d \in DebtIds : rows[d].order = o /\ rows[d].status = "outstanding"})
LentTo(rows, S) ==
  {d \in DebtIds : rows[d].order \in S /\ rows[d].status = "outstanding"}
OwedSince(rows, from) ==
  OwedIn(rows, {d \in DebtIds : rows[d].order # 0 /\ rows[d].at >= from})

\* The orders a report saw open; what an order counts for: what it lacks or what
\* was lent on it, whichever is more.
Inside(seen) == {o \in OrderIds : seen[o].status = "open"}
Larger(m, n) == IF m < n THEN n ELSE m
Counted(placed, pays, rows) ==
  [o \in OrderIds |-> Larger(AtLeastZero(placed[o].total - PaidFor(pays, o)),
                             LentFor(rows, o))]

-----------------------------------------------------------------------------
(* The inductive invariant.                                                *)

\* A row was written on an order that was there, no later than now.
Dated ==
  /\ \A o \in OrderIds : Placed(o) => orders[o].at <= now
  /\ \A k \in PaymentIds : payments[k].order # 0 =>
       /\ payments[k].order \in OrderIds /\ Placed(payments[k].order)
       /\ payments[k].at <= now /\ payments[k].method \in Methods
  /\ \A d \in DebtIds : debts[d].order # 0 =>
       /\ debts[d].order \in OrderIds /\ Placed(debts[d].order)
       /\ orders[debts[d].order].at <= debts[d].at /\ debts[d].at <= now
  /\ \A d \in DebtIds : debts[d].status # "none" <=> debts[d].order # 0

\* What a request read of a row that was there: the order to pay or lend on; or
\* the debt, of which its copy and the repayment are together no more.
TasksFit ==
  \A p \in Requests :
    /\ tasks[p].pc \in {"pay", "credit"} =>
         tasks[p].row \in OrderIds /\ Placed(tasks[p].row)
    /\ tasks[p].pc = "repay" =>
         /\ tasks[p].row \in DebtIds /\ debts[tasks[p].row].order # 0
         /\ tasks[p].paid + tasks[p].amount <= debts[tasks[p].row].amount

\* What each query of a report left in it.
DashboardSoFar ==
  report.kind = "dashboard" /\ quiet =>
    LET day == LocalDay(now) IN
    /\ report.from + Offset = day * HoursPerDay
    /\ report.until = report.from + HoursPerDay
    /\ report.step \in 1 .. 4 => report.before = report.from - HoursPerDay
    /\ report.step >= 2 => report.today = Takings(payments, day)
    /\ report.step >= 3 => report.yesterday = Takings(payments, day - 1)
    /\ report.step >= 4 => SumOver(report.buckets, Hours) = report.today
    /\ report.step = 5 => report.before + Offset =
                            (day - (TrendDays - 1)) * HoursPerDay
    /\ report.step >= 6 => \A i \in TrendIndex :
         report.trend[i] = Takings(payments, day - (TrendDays - 1) + i)

SalesSoFar ==
  report.kind = "sales" =>
    LET first == LocalDay(now) - (ReportDays - 1)
        split == SumOver(report.split, Methods)
    IN
    /\ report.step = 1 => report.gross <= TakenSince(payments, report.from)
    /\ report.step >= 2 => report.gross <= split
    /\ quiet =>
         /\ report.from + Offset = first * HoursPerDay
         /\ report.step >= 1 => report.gross = TakenSince(payments, report.from)
         /\ report.step >= 2 => report.gross = split
         /\ report.step >= 3 =>
              /\ SumOver(report.daily, DailyIndex) = report.gross
              /\ \A i \in DailyIndex :
                   report.daily[i] = Takings(payments, first + i)

AccountabilitySoFar ==
  report.kind = "accountability" /\ quiet =>
    /\ \A o \in OrderIds : report.credit[o] = LentFor(debts, o)
    /\ report.step >= 1 => \A o \in OrderIds :
         IF orders[o].status = "open" /\ orders[o].at >= report.from
         THEN report.seen[o] = orders[o] ELSE report.seen[o].status = "none"
    /\ report.step >= 2 =>
         report.unpaid + OwedIn(debts, LentTo(debts, Inside(report.seen)))
           = SumOver(Counted(orders, payments, debts), Inside(report.seen))
    /\ report.step >= 3 => report.outstanding = OwedSince(debts, report.from)

IInv ==
  /\ TypeOK /\ Dated /\ TasksFit
  /\ DashboardSoFar /\ SalesSoFar /\ AccountabilitySoFar

-----------------------------------------------------------------------------
(* Days of the restaurant's calendar and hours of UTC.                     *)

LEMMA DayLength == HoursPerDay \in Nat /\ HoursPerDay > 0 /\ Offset \in Int
BY BooksAssumption

\* x \div HoursPerDay is the one day whose hours x is among.
LEMMA DivisionIsUnique ==
  ASSUME NEW x \in Int, NEW D \in Int
  PROVE  x \div HoursPerDay = D <=>
           D * HoursPerDay <= x /\ x < (D + 1) * HoursPerDay
<1>1. ASSUME D * HoursPerDay <= x, x < (D + 1) * HoursPerDay
      PROVE  x \div HoursPerDay = D
  BY <1>1, DayLength
<1>2. /\ (x \div HoursPerDay) * HoursPerDay <= x
      /\ x < (x \div HoursPerDay + 1) * HoursPerDay
  BY DayLength
<1>. QED
  BY <1>1, <1>2

LEMMA DayOf ==
  ASSUME NEW t \in Int, NEW D \in Int
  PROVE  LocalDay(t) = D <=>
           D * HoursPerDay <= t + Offset /\ t + Offset < (D + 1) * HoursPerDay
BY DivisionIsUnique, DayLength DEF LocalDay

LEMMA DayTyped ==
  ASSUME NEW t \in Int
  PROVE  LocalDay(t) \in Int /\ LocalHour(t) \in Hours
BY DayLength DEF LocalDay, LocalHour, Hours

LEMMA DayStart ==
  ASSUME NEW t \in Int
  PROVE  StartOfDay(t) \in Int /\ StartOfDay(t) + Offset = LocalDay(t) * HoursPerDay
<1>. DEFINE x == t + Offset
<1>1. x \in Int
  BY DayLength
<1>. HIDE DEF x
<1>2. x - (x % HoursPerDay) = (x \div HoursPerDay) * HoursPerDay
  BY <1>1, DayLength
<1>3. (x % HoursPerDay) \in Int
  BY <1>1, DayLength
<1>. QED
  BY <1>2, <1>3, DayLength DEF StartOfDay, LocalDay, LocalHour, x

\* n days earlier.
LEMMA DayBack ==
  ASSUME NEW t \in Int, NEW n \in Nat
  PROVE  /\ t - n * HoursPerDay \in Int
         /\ LocalDay(t - n * HoursPerDay) = LocalDay(t) - n
<1>. DEFINE D == LocalDay(t)
            m == n * HoursPerDay
<1>1. D \in Int /\ m \in Int
  BY DayTyped, DayLength
<1>2. D * HoursPerDay <= t + Offset /\ t + Offset < (D + 1) * HoursPerDay
  BY <1>1, DayOf
<1>3. /\ (D - n) * HoursPerDay = D * HoursPerDay - m
      /\ (D - n + 1) * HoursPerDay = (D + 1) * HoursPerDay - m
  BY <1>1, DayLength
<1>4. /\ D * HoursPerDay \in Int /\ (D + 1) * HoursPerDay \in Int
      /\ t - m \in Int
  BY <1>1, DayLength
<1>5. /\ (D - n) * HoursPerDay <= t - m + Offset
      /\ t - m + Offset < (D - n + 1) * HoursPerDay
  <2>. HIDE DEF D, m
  <2>. QED
    BY <1>1, <1>2, <1>3, <1>4, DayLength
<1>6. D - n \in Int
  BY <1>1
<1>. HIDE DEF D, m
<1>7. LocalDay(t - m) = D - n
  BY <1>4, <1>5, <1>6, DayOf
<1>. QED
  BY <1>4, <1>7 DEF D, m

\* Where a report of several days begins.
LEMMA FirstDay ==
  ASSUME NEW n \in Nat, now \in Int
  PROVE  /\ DaysAgo(n) \in Int
         /\ DaysAgo(n) + Offset = (LocalDay(now) - n) * HoursPerDay
BY DayBack, DayStart DEF DaysAgo

\* Later is not an earlier day.
LEMMA DayMonotone ==
  ASSUME NEW t \in Int, NEW u \in Int, t <= u
  PROVE  LocalDay(t) <= LocalDay(u)
<1>. DEFINE D == LocalDay(t)
            E == LocalDay(u)
<1>1. D \in Int /\ E \in Int
  BY DayTyped
<1>2. D * HoursPerDay <= t + Offset /\ u + Offset < (E + 1) * HoursPerDay
  BY <1>1, DayOf
<1>3. SUFFICES ASSUME E < D PROVE FALSE
  BY <1>1
<1>. HIDE DEF D, E
<1>4. E + 1 <= D /\ E + 1 \in Int
  BY <1>1, <1>3
<1>5. (E + 1) * HoursPerDay <= D * HoursPerDay
  BY <1>1, <1>4, DayLength
<1>6. (E + 1) * HoursPerDay \in Int /\ D * HoursPerDay \in Int
  BY <1>1, DayLength
<1>. QED
  BY <1>2, <1>5, <1>6, DayLength

\* A day's first hour, and whatever is not before it.
LEMMA DayFrom ==
  ASSUME NEW from \in Int, NEW D \in Int, from + Offset = D * HoursPerDay,
         NEW t \in Int
  PROVE  /\ t >= from <=> LocalDay(t) >= D
         /\ t < from + HoursPerDay <=> LocalDay(t) <= D
<1>. DEFINE E == LocalDay(t)
<1>1. E \in Int
  BY DayTyped
<1>2. E * HoursPerDay <= t + Offset /\ t + Offset < (E + 1) * HoursPerDay
  BY <1>1, DayOf
<1>. HIDE DEF E
<1>3. (D + 1) * HoursPerDay = D * HoursPerDay + HoursPerDay
  BY DayLength
<1>4. /\ D * HoursPerDay \in Int /\ E * HoursPerDay \in Int
      /\ (E + 1) * HoursPerDay \in Int /\ (D + 1) * HoursPerDay \in Int
  BY <1>1, DayLength
<1>5. E >= D => E * HoursPerDay >= D * HoursPerDay
  BY <1>1, DayLength
<1>6. E < D => (E + 1) * HoursPerDay <= D * HoursPerDay
  <2>1. E < D => E + 1 <= D
    BY <1>1
  <2>. QED
    BY <1>1, <2>1, DayLength
<1>7. E <= D => (E + 1) * HoursPerDay <= (D + 1) * HoursPerDay
  BY <1>1, DayLength
<1>8. E > D => E * HoursPerDay >= (D + 1) * HoursPerDay
  <2>1. E > D => E >= D + 1
    BY <1>1
  <2>. QED
    BY <1>1, <2>1, DayLength
<1>9. t >= from <=> E >= D
  BY <1>1, <1>2, <1>4, <1>5, <1>6, DayLength
<1>10. t < from + HoursPerDay <=> E <= D
  BY <1>1, <1>2, <1>3, <1>4, <1>7, <1>8, DayLength
<1>. QED
  BY <1>9, <1>10 DEF E

-----------------------------------------------------------------------------
(* The queries in terms of the tables they read.                           *)

PaymentTable == [PaymentIds -> PaymentRow]
DebtTable == [DebtIds -> DebtRow]

LEMMA RowsFinite ==
  /\ IsFiniteSet(PaymentIds) /\ \A R \in SUBSET PaymentIds : IsFiniteSet(R)
  /\ IsFiniteSet(DebtIds) /\ \A R \in SUBSET DebtIds : IsFiniteSet(R)
  /\ IsFiniteSet(OrderIds) /\ \A R \in SUBSET OrderIds : IsFiniteSet(R)
  /\ IsFiniteSet(Hours) /\ IsFiniteSet(DailyIndex) /\ IsFiniteSet(Methods)
<1>1. /\ IsFiniteSet(PaymentIds) /\ IsFiniteSet(DebtIds)
      /\ IsFiniteSet(OrderIds) /\ IsFiniteSet(Hours) /\ IsFiniteSet(DailyIndex)
  BY FS_Interval, BooksAssumption
     DEF PaymentIds, DebtIds, OrderIds, Hours, DailyIndex
<1>. QED
  BY <1>1, FS_Subset, BooksAssumption

LEMMA AmountSum ==
  ASSUME NEW pays \in PaymentTable, NEW R \in SUBSET PaymentIds
  PROVE  /\ \A k \in PaymentIds : AmountOf(pays)[k] = pays[k].amount
         /\ \A k \in PaymentIds : AmountOf(pays)[k] \in Nat
         /\ SumOver(AmountOf(pays), R) \in Nat
<1>1. /\ \A k \in PaymentIds : AmountOf(pays)[k] = pays[k].amount
      /\ \A k \in PaymentIds : AmountOf(pays)[k] \in Nat
  BY DEF AmountOf, PaymentTable, PaymentRow
<1>2. SumOver(AmountOf(pays), R) \in Nat
  BY <1>1, RowsFinite, SumNat
<1>. QED
  BY <1>1, <1>2

LEMMA OwedTyped ==
  ASSUME NEW rows \in DebtTable, NEW d \in DebtIds
  PROVE  /\ OwedOf(rows)[d] = AtLeastZero(rows[d].amount - rows[d].paid)
         /\ OwedOf(rows)[d] \in Nat
BY DEF OwedOf, DebtTable, DebtRow, AtLeastZero

LEMMA OwedSum ==
  ASSUME NEW rows \in DebtTable, NEW D \in SUBSET DebtIds
  PROVE  OwedIn(rows, D) \in Nat
<1>1. \A d \in D : OwedOf(rows)[d] \in Nat
  BY OwedTyped
<1>2. IsFiniteSet(D)
  BY RowsFinite
<1>3. SumOver(OwedOf(rows), D) \in Nat
  BY <1>1, <1>2, SumNat
<1>. QED
  BY <1>3 DEF OwedIn

LEMMA SumIs == \A R : Sum(R) = SumOver(AmountOf(payments), R)
BY DEF Sum, AmountOf

LEMMA TakingsIs == \A day : TakingsOn(day) = Takings(payments, day)
<1>1. \A day : {k \in Recorded : LocalDay(payments[k].at) = day}
                 = RowsOn(payments, day)
  BY DEF Recorded, RowsOn
<1>. QED
  BY <1>1, SumIs DEF TakingsOn, Takings

LEMMA SinceIs == \A from : Since(from) = RowsSince(payments, from)
BY DEF Since, Recorded, RowsSince

LEMMA PaidIs == \A o : PaidOn(o) = PaidFor(payments, o)
<1>1. \A o : {k \in Recorded : payments[k].order = o}
               = {k \in PaymentIds : payments[k].order # 0 /\ payments[k].order = o}
  BY DEF Recorded
<1>. QED
  BY <1>1, SumIs DEF PaidOn, PaidFor

LEMMA OwedIs == \A D : SumOwed(D) = OwedIn(debts, D)
BY DEF SumOwed, OwedIn, OwedOf, Owed

\* UTC bounds a day apart hold one of the restaurant's days.
LEMMA DayBetween ==
  ASSUME payments \in PaymentTable, NEW from \in Int, NEW D \in Int,
         from + Offset = D * HoursPerDay
  PROVE  Between(from, from + HoursPerDay) = RowsOn(payments, D)
<1>1. ASSUME NEW k \in PaymentIds
      PROVE  k \in Between(from, from + HoursPerDay) <=> k \in RowsOn(payments, D)
  <2>1. payments[k].at \in Int
    BY DEF PaymentTable, PaymentRow
  <2>2. /\ payments[k].at >= from <=> LocalDay(payments[k].at) >= D
        /\ payments[k].at < from + HoursPerDay <=> LocalDay(payments[k].at) <= D
    BY <2>1, DayFrom
  <2>3. LocalDay(payments[k].at) \in Int
    BY <2>1, DayTyped
  <2>. QED
    BY <2>2, <2>3 DEF Between, Since, Recorded, RowsOn
<1>2. /\ Between(from, from + HoursPerDay) \subseteq PaymentIds
      /\ RowsOn(payments, D) \subseteq PaymentIds
  BY DEF Between, Since, Recorded, RowsOn
<1>. QED
  BY <1>1, <1>2

\* The days counted from the first are days of the calendar.
LEMMA ByDayIs ==
  ASSUME payments \in PaymentTable, NEW from \in Int, NEW D \in Int,
         from + Offset = D * HoursPerDay, NEW index \in SUBSET Nat
  PROVE  /\ LocalDay(from) = D
         /\ \A i \in index : ByDay(Since(from), LocalDay(from), index)[i]
                               = Takings(payments, D + i)
<1>1. LocalDay(from) = D
  <2>1. D * HoursPerDay < (D + 1) * HoursPerDay
    BY DayLength
  <2>2. D * HoursPerDay \in Int
    BY DayLength
  <2>. QED
    BY <2>1, <2>2, DayOf
<1>2. ASSUME NEW i \in index
      PROVE  {k \in Since(from) : LocalDay(payments[k].at) = D + i}
               = RowsOn(payments, D + i)
  <2>1. ASSUME NEW k \in PaymentIds, LocalDay(payments[k].at) = D + i
        PROVE  payments[k].at >= from
    <3>1. payments[k].at \in Int
      BY DEF PaymentTable, PaymentRow
    <3>2. D + i >= D
      OBVIOUS
    <3>. QED
      BY <2>1, <3>1, <3>2, DayFrom
  <2>. QED
    BY <2>1 DEF Since, Recorded, RowsOn
<1>. QED
  BY <1>1, <1>2, SumIs DEF ByDay, Takings

\* Bucketing rows by a key loses nothing where every key has a bucket.
LEMMA BucketsAddUp ==
  ASSUME payments \in PaymentTable, NEW R \in SUBSET PaymentIds,
         NEW I, IsFiniteSet(I), NEW key, \A k \in R : key[k] \in I, NEW groups,
         \A i \in I : groups[i] = Sum({k \in R : key[k] = i})
  PROVE  SumOver(groups, I) = Sum(R)
<1>. DEFINE f == AmountOf(payments)
<1>1. \A k \in R : f[k] \in Nat
  BY AmountSum
<1>2. \A i \in I : groups[i] = SumOver(f, {k \in R : key[k] = i})
  BY SumIs
<1>3. IsFiniteSet(R)
  BY RowsFinite
<1>. HIDE DEF f
<1>4. SumOver(groups, I) = SumOver(f, R)
  BY <1>1, <1>2, <1>3, SumGroups, SMTT(30)
<1>. QED
  BY <1>4, SumIs DEF f

LEMMA HoursAddUp ==
  ASSUME payments \in PaymentTable, NEW R \in SUBSET PaymentIds
  PROVE  /\ ByHour(R) \in [Hours -> Nat]
         /\ SumOver(ByHour(R), Hours) = Sum(R)
<1>. DEFINE key == [k \in R |-> LocalHour(payments[k].at)]
            groups == ByHour(R)
<1>1. ASSUME NEW h \in Hours
      PROVE  Sum({k \in R : LocalHour(payments[k].at) = h}) \in Nat
  BY AmountSum, SumIs
<1>2. groups \in [Hours -> Nat]
  BY <1>1 DEF ByHour
<1>3. \A k \in R : key[k] \in Hours
  BY DayTyped DEF PaymentTable, PaymentRow
<1>4. \A h \in Hours : groups[h] = Sum({k \in R : key[k] = h})
  <2>1. \A h \in Hours : {k \in R : key[k] = h}
                           = {k \in R : LocalHour(payments[k].at) = h}
    OBVIOUS
  <2>. QED
    BY <2>1 DEF ByHour
<1>5. IsFiniteSet(Hours)
  BY RowsFinite
<1>. HIDE DEF key, groups
<1>. QED
  BY <1>2, <1>3, <1>4, <1>5, BucketsAddUp DEF groups

LEMMA MethodsAddUp ==
  ASSUME payments \in PaymentTable, NEW R \in SUBSET PaymentIds
  PROVE  /\ ByMethod(R) \in [Methods -> Nat]
         /\ (\A k \in R : payments[k].method \in Methods) =>
              SumOver(ByMethod(R), Methods) = Sum(R)
<1>. DEFINE key == [k \in R |-> payments[k].method]
            groups == ByMethod(R)
<1>1. ASSUME NEW m \in Methods
      PROVE  Sum({k \in R : payments[k].method = m}) \in Nat
  BY AmountSum, SumIs
<1>2. groups \in [Methods -> Nat]
  BY <1>1 DEF ByMethod
<1>3. (\A k \in R : payments[k].method \in Methods) =>
        \A k \in R : key[k] \in Methods
  OBVIOUS
<1>4. \A m \in Methods : groups[m] = Sum({k \in R : key[k] = m})
  <2>1. \A m \in Methods : {k \in R : key[k] = m}
                             = {k \in R : payments[k].method = m}
    OBVIOUS
  <2>. QED
    BY <2>1 DEF ByMethod
<1>5. IsFiniteSet(Methods)
  BY RowsFinite
<1>. HIDE DEF key, groups
<1>. QED
  BY <1>2, <1>3, <1>4, <1>5, BucketsAddUp DEF groups

LEMMA ByDayTyped ==
  ASSUME payments \in PaymentTable, NEW R \in SUBSET PaymentIds, NEW first,
         NEW index
  PROVE  ByDay(R, first, index) \in [index -> Nat]
<1>1. ASSUME NEW i \in index
      PROVE  Sum({k \in R : LocalDay(payments[k].at) = first + i}) \in Nat
  BY AmountSum, SumIs
<1>. QED
  BY <1>1 DEF ByDay

LEMMA DaysAddUp ==
  ASSUME payments \in PaymentTable, NEW R \in SUBSET PaymentIds,
         NEW first \in Int,
         \A k \in R : LocalDay(payments[k].at) - first \in DailyIndex
  PROVE  SumOver(ByDay(R, first, DailyIndex), DailyIndex) = Sum(R)
<1>. DEFINE key == [k \in R |-> LocalDay(payments[k].at) - first]
            groups == ByDay(R, first, DailyIndex)
<1>1. \A k \in R : key[k] \in DailyIndex
  OBVIOUS
<1>2. \A i \in DailyIndex : groups[i] = Sum({k \in R : key[k] = i})
  <2>1. ASSUME NEW i \in DailyIndex
        PROVE  {k \in R : key[k] = i}
                 = {k \in R : LocalDay(payments[k].at) = first + i}
    <3>1. \A k \in R : LocalDay(payments[k].at) \in Int
      BY DayTyped DEF PaymentTable, PaymentRow
    <3>2. i \in Int
      BY DEF DailyIndex
    <3>3. \A k \in R : LocalDay(payments[k].at) - first = i <=>
                         LocalDay(payments[k].at) = first + i
      BY <3>1, <3>2
    <3>. QED
      BY <3>3
  <2>. QED
    BY <2>1 DEF ByDay
<1>3. IsFiniteSet(DailyIndex)
  BY RowsFinite
<1>. HIDE DEF key, groups
<1>. QED
  BY <1>1, <1>2, <1>3, BucketsAddUp DEF groups

-----------------------------------------------------------------------------
(* What one more row adds.                                                 *)

LEMMA PaymentAdds ==
  ASSUME NEW pays \in PaymentTable, NEW k \in PaymentIds, pays[k].order = 0,
         NEW row, row.order # 0, NEW after \in PaymentTable, after[k] = row,
         \A j \in PaymentIds \ {k} : after[j] = pays[j]
  PROVE  \A from : TakenSince(pays, from) <= TakenSince(after, from)
<1>. DEFINE f == AmountOf(pays)
            g == AmountOf(after)
<1>1. /\ \A j \in PaymentIds : f[j] \in Nat /\ g[j] \in Nat
      /\ \A j \in PaymentIds \ {k} : after[j] = pays[j] /\ f[j] = g[j]
      /\ after[k] = row /\ g[k] = row.amount
  <2>1. \A j \in PaymentIds : f[j] = pays[j].amount /\ g[j] = after[j].amount
    BY DEF AmountOf
  <2>2. \A j \in PaymentIds : f[j] \in Nat /\ g[j] \in Nat
    BY AmountSum
  <2>. HIDE DEF f, g
  <2>. QED
    BY <2>1, <2>2
<1>. HIDE DEF f, g
<1>2. ASSUME NEW from
      PROVE  TakenSince(pays, from) <= TakenSince(after, from)
  <2>. DEFINE R == RowsSince(pays, from)
              T == RowsSince(after, from)
  <2>1. R \in SUBSET T /\ k \notin R /\ T \subseteq PaymentIds
    BY <1>1 DEF RowsSince
  <2>2. IsFiniteSet(T)
    BY <2>1, RowsFinite
  <2>. HIDE DEF R, T
  <2>3. \A j \in T : g[j] \in Nat
    BY <1>1, <2>1
  <2>4. \A j \in R : f[j] \in Nat /\ f[j] <= g[j]
    BY <1>1, <2>1
  <2>5. SumOver(f, R) <= SumOver(g, T)
    BY <2>1, <2>2, <2>3, <2>4, SumMonotone
  <2>. QED
    BY <2>5 DEF TakenSince, f, g, R, T
<1>. QED
  BY <1>2

-----------------------------------------------------------------------------
(* What the till records keeps the invariant.                              *)

TablesOK ==
  /\ now \in Int /\ quiet \in BOOLEAN
  /\ orders \in [OrderIds -> OrderRow]
  /\ payments \in PaymentTable
  /\ debts \in DebtTable
  /\ tasks \in [Requests -> Task]
  /\ \A d \in DebtIds : debts[d].paid <= debts[d].amount

LEMMA TypeParts == TypeOK <=> TablesOK /\ report \in Report
BY DEF TypeOK, TablesOK, PaymentTable, DebtTable

LEMMA SumsTyped ==
  ASSUME TablesOK, NEW o
  PROVE  /\ PaidFor(payments, o) \in Nat
         /\ LentFor(debts, o) \in Nat
         /\ \A from : TakenSince(payments, from) \in Nat
         /\ \A day : Takings(payments, day) \in Nat
<1>1. payments \in PaymentTable /\ debts \in DebtTable
  BY DEF TablesOK
<1>2. {k \in PaymentIds : payments[k].order # 0 /\ payments[k].order = o}
        \in SUBSET PaymentIds
  OBVIOUS
<1>3. PaidFor(payments, o) \in Nat
  BY <1>1, <1>2, AmountSum DEF PaidFor
<1>4. {d \in DebtIds : debts[d].order = o /\ debts[d].status = "outstanding"}
        \in SUBSET DebtIds
  OBVIOUS
<1>5. LentFor(debts, o) \in Nat
  BY <1>1, <1>4, OwedSum DEF LentFor
<1>6. \A from : RowsSince(payments, from) \in SUBSET PaymentIds
  BY DEF RowsSince
<1>7. \A day : RowsOn(payments, day) \in SUBSET PaymentIds
  BY DEF RowsOn
<1>8. \A from : TakenSince(payments, from) \in Nat
  BY <1>1, <1>6, AmountSum DEF TakenSince
<1>9. \A day : Takings(payments, day) \in Nat
  BY <1>1, <1>7, AmountSum DEF Takings
<1>. QED
  BY <1>3, <1>5, <1>8, <1>9

\* A record of the till's: reports under way are no longer quiet, and no
\* payment is taken back.
LEMMA TillStep ==
  ASSUME IInv, UNCHANGED report, quiet' = FALSE, TablesOK', Dated', TasksFit',
         \A from : TakenSince(payments, from) <= TakenSince(payments', from)
  PROVE  IInv'
<1>1. report \in Report /\ TablesOK
  BY TypeParts DEF IInv
<1>2. TypeOK'
  <2>1. /\ now' \in Int /\ quiet' \in BOOLEAN
        /\ orders' \in [OrderIds -> OrderRow]
        /\ payments' \in PaymentTable /\ debts' \in DebtTable
        /\ tasks' \in [Requests -> Task]
        /\ \A d \in DebtIds : debts'[d].paid <= debts'[d].amount
    BY DEF TablesOK
  <2>. QED
    BY <1>1, <2>1 DEF TypeOK, PaymentTable, DebtTable
<1>3. DashboardSoFar' /\ AccountabilitySoFar'
  BY DEF DashboardSoFar, AccountabilitySoFar
<1>4. SalesSoFar'
  <2>. SUFFICES ASSUME report.kind = "sales"
                PROVE  /\ report.step = 1 =>
                            report.gross <= TakenSince(payments', report.from)
                       /\ report.step >= 2 =>
                            report.gross <= SumOver(report.split, Methods)
    BY DEF SalesSoFar
  <2>1. report.gross \in Nat /\ TakenSince(payments, report.from) \in Nat
    BY <1>1, SumsTyped DEF Report
  <2>2. /\ report.step = 1 => report.gross <= TakenSince(payments, report.from)
        /\ report.step >= 2 => report.gross <= SumOver(report.split, Methods)
    BY DEF IInv, SalesSoFar
  <2>3. TakenSince(payments', report.from) \in Nat
    <3>. DEFINE after == payments'
                R == RowsSince(after, report.from)
    <3>1. after \in PaymentTable
      BY DEF TablesOK
    <3>2. R \in SUBSET PaymentIds
      BY DEF RowsSince
    <3>. HIDE DEF after, R
    <3>3. SumOver(AmountOf(after), R) \in Nat
      BY <3>1, <3>2, AmountSum
    <3>. QED
      BY <3>3 DEF TakenSince, after, R
  <2>4. TakenSince(payments, report.from) <= TakenSince(payments', report.from)
    OBVIOUS
  <2>. QED
    BY <2>1, <2>2, <2>3, <2>4
<1>. QED
  BY <1>2, <1>3, <1>4 DEF IInv

LEMMA SameTakings ==
  ASSUME TablesOK, UNCHANGED payments
  PROVE  \A from : TakenSince(payments, from) <= TakenSince(payments', from)
BY SumsTyped

\* What requests had read stays there, unless they are done.
LEMMA FitKept ==
  ASSUME IInv, \A p \in Requests : tasks'[p] = tasks[p] \/ tasks'[p] = Idle,
         \A o \in OrderIds : Placed(o) => Placed(o)',
         \A d \in DebtIds : debts[d].order # 0 =>
           debts'[d].order # 0 /\ debts'[d].amount = debts[d].amount
  PROVE  TasksFit'
<1>1. TasksFit
  BY DEF IInv
<1>2. SUFFICES ASSUME NEW p \in Requests
               PROVE  /\ tasks'[p].pc \in {"pay", "credit"} =>
                           tasks'[p].row \in OrderIds /\ Placed(tasks[p].row)'
                      /\ tasks'[p].pc = "repay" =>
                           /\ tasks'[p].row \in DebtIds
                           /\ debts'[tasks'[p].row].order # 0
                           /\ tasks'[p].paid + tasks'[p].amount
                                <= debts'[tasks'[p].row].amount
  BY DEF TasksFit
<1>3. CASE tasks'[p] = Idle
  BY <1>3 DEF Idle
<1>4. CASE tasks'[p] = tasks[p]
  <2>1. ASSUME tasks[p].pc \in {"pay", "credit"}
        PROVE  tasks[p].row \in OrderIds /\ Placed(tasks[p].row)'
    <3>1. tasks[p].row \in OrderIds /\ Placed(tasks[p].row)
      BY <1>1, <2>1 DEF TasksFit
    <3>. QED
      BY <1>4, <3>1 DEF Placed
  <2>2. ASSUME tasks[p].pc = "repay"
        PROVE  /\ tasks[p].row \in DebtIds /\ debts'[tasks[p].row].order # 0
               /\ tasks[p].paid + tasks[p].amount <= debts'[tasks[p].row].amount
    BY <1>1, <2>2 DEF TasksFit
  <2>. QED
    BY <1>4, <2>1, <2>2
<1>. QED
  BY <1>2, <1>3, <1>4

LEMMA PlaceOrderInv ==
  ASSUME IInv, NEW o \in OrderIds, NEW total \in Totals, PlaceOrder(o, total)
  PROVE  IInv'
<1>1. TablesOK /\ Dated
  BY TypeParts DEF IInv
<1>2. total \in Nat
  BY BooksAssumption
<1>3. /\ orders' = [orders EXCEPT ![o] = [status |-> "open", at |-> now,
                                          total |-> total]]
      /\ orders[o].status = "none" /\ quiet' = FALSE
      /\ UNCHANGED <<now, payments, debts, tasks, report>>
  BY DEF PlaceOrder
<1>4. TablesOK'
  BY <1>1, <1>2, <1>3 DEF TablesOK, OrderRow
<1>5. \A e \in OrderIds : /\ e # o => orders'[e] = orders[e]
                          /\ e = o => orders'[e].status = "open" /\ orders'[e].at = now
  BY <1>1, <1>3 DEF TablesOK
<1>6. Dated'
  BY <1>1, <1>3, <1>5 DEF Dated, Placed, TablesOK
<1>7. TasksFit'
  <2>1. \A e \in OrderIds : Placed(e) => Placed(e)'
    BY <1>5 DEF Placed
  <2>. QED
    BY <1>3, <2>1, FitKept
<1>8. \A from : TakenSince(payments, from) <= TakenSince(payments', from)
  BY <1>1, <1>3, SameTakings
<1>. QED
  BY <1>3, <1>4, <1>6, <1>7, <1>8, TillStep

LEMMA UpdateStatusInv ==
  ASSUME IInv, NEW o \in OrderIds, NEW status \in {"open", "cancelled"},
         UpdateStatus(o, status)
  PROVE  IInv'
<1>1. TablesOK /\ Dated
  BY TypeParts DEF IInv
<1>2. /\ orders' = [orders EXCEPT ![o] = [orders[o] EXCEPT !.status = status]]
      /\ Placed(o) /\ quiet' = FALSE
      /\ UNCHANGED <<now, payments, debts, tasks, report>>
  BY DEF UpdateStatus
<1>3. \A e \in OrderIds : /\ orders'[e].at = orders[e].at
                          /\ orders'[e].total = orders[e].total
                          /\ orders'[e].status # "none" <=> orders[e].status # "none"
  BY <1>1, <1>2 DEF TablesOK, OrderRow, Placed
<1>4. TablesOK'
  BY <1>1, <1>2 DEF TablesOK, OrderRow
<1>5. Dated'
  BY <1>1, <1>2, <1>3 DEF Dated, Placed
<1>6. TasksFit'
  <2>1. \A e \in OrderIds : Placed(e) => Placed(e)'
    BY <1>3 DEF Placed
  <2>. QED
    BY <1>2, <2>1, FitKept
<1>7. \A from : TakenSince(payments, from) <= TakenSince(payments', from)
  BY <1>1, <1>2, SameTakings
<1>. QED
  BY <1>2, <1>4, <1>5, <1>6, <1>7, TillStep

\* A request that has only read leaves every report as it was.
LEMMA ReadStep ==
  ASSUME IInv, UNCHANGED <<now, orders, payments, debts, report, quiet>>,
         tasks' \in [Requests -> Task], TasksFit'
  PROVE  IInv'
<1>1. TypeOK' /\ Dated'
  BY DEF IInv, TypeOK, Dated, Placed
<1>2. DashboardSoFar' /\ SalesSoFar' /\ AccountabilitySoFar'
  BY DEF IInv, DashboardSoFar, SalesSoFar, AccountabilitySoFar
<1>. QED
  BY <1>1, <1>2 DEF IInv

LEMMA StartPaymentInv ==
  ASSUME IInv, NEW p \in Requests, NEW o \in OrderIds, NEW amount \in Amounts,
         NEW next \in {"pay", "credit"}, StartPayment(p, o, amount, next)
  PROVE  IInv'
<1>. DEFINE task == [pc |-> next, row |-> o, amount |-> amount, paid |-> 0]
<1>1. TablesOK /\ TasksFit
  BY TypeParts DEF IInv
<1>2. /\ Placed(o) /\ tasks' = [tasks EXCEPT ![p] = task]
      /\ UNCHANGED <<now, orders, payments, debts, report, quiet>>
  BY DEF StartPayment, Begun
<1>3. task \in Task /\ task.pc \in {"pay", "credit"} /\ task.row = o
  BY BooksAssumption DEF Task, OrderIds
<1>. HIDE DEF task
<1>4. tasks' \in [Requests -> Task]
  BY <1>1, <1>2, <1>3 DEF TablesOK
<1>5. \A q \in Requests : tasks'[q] = IF q = p THEN task ELSE tasks[q]
  BY <1>1, <1>2 DEF TablesOK
<1>6. TasksFit'
  BY <1>1, <1>2, <1>3, <1>5 DEF TasksFit, Placed
<1>. QED
  BY <1>2, <1>4, <1>6, ReadStep

LEMMA StartRepaymentInv ==
  ASSUME IInv, NEW p \in Requests, NEW d \in DebtIds, NEW amount \in Amounts,
         StartRepayment(p, d, amount)
  PROVE  IInv'
<1>. DEFINE task == [pc |-> "repay", row |-> d, amount |-> amount,
                     paid |-> debts[d].paid]
<1>1. TablesOK /\ TasksFit /\ Dated
  BY TypeParts DEF IInv
<1>2. /\ debts[d].status = "outstanding" /\ 0 < amount /\ amount <= Owed(d)
      /\ tasks' = [tasks EXCEPT ![p] = task]
      /\ UNCHANGED <<now, orders, payments, debts, report, quiet>>
  BY DEF StartRepayment, Begun
<1>3. /\ debts[d].amount \in Nat /\ debts[d].paid \in Nat
      /\ d \in Nat /\ amount \in Nat
  BY <1>1, BooksAssumption DEF TablesOK, DebtTable, DebtRow, DebtIds
<1>4. task \in Task /\ task.pc = "repay" /\ task.row = d
      /\ task.paid + task.amount <= debts[d].amount
  BY <1>2, <1>3 DEF Task, Owed, AtLeastZero
<1>5. debts[d].order # 0
  BY <1>1, <1>2 DEF Dated
<1>. HIDE DEF task
<1>6. tasks' \in [Requests -> Task]
  BY <1>1, <1>2, <1>4 DEF TablesOK
<1>7. \A q \in Requests : tasks'[q] = IF q = p THEN task ELSE tasks[q]
  BY <1>1, <1>2 DEF TablesOK
<1>8. TasksFit'
  BY <1>1, <1>2, <1>4, <1>5, <1>7 DEF TasksFit, Placed
<1>. QED
  BY <1>2, <1>6, <1>8, ReadStep

LEMMA AbandonInv ==
  ASSUME IInv, NEW p \in Requests, Abandon(p)
  PROVE  IInv'
<1>1. TablesOK
  BY TypeParts DEF IInv
<1>2. /\ tasks' = [tasks EXCEPT ![p] = Idle]
      /\ UNCHANGED <<now, orders, payments, debts, report, quiet>>
  BY DEF Abandon
<1>3. /\ tasks' \in [Requests -> Task]
      /\ \A q \in Requests : tasks'[q] = tasks[q] \/ tasks'[q] = Idle
  BY <1>1, <1>2 DEF TablesOK, Task, Idle
<1>4. \A e \in OrderIds : Placed(e) => Placed(e)'
  BY <1>2 DEF Placed
<1>5. TasksFit'
  BY <1>2, <1>3, <1>4, FitKept
<1>. QED
  BY <1>2, <1>3, <1>5, ReadStep

\* A payment on an order that is there.
LEMMA PayFacts ==
  ASSUME TablesOK, Dated, NEW k \in PaymentIds, NEW o \in OrderIds, Placed(o),
         NEW amount \in Nat, NEW method \in Methods,
         Pay(k, o, amount, method)
  PROVE  /\ payments' \in PaymentTable
         /\ \A from : TakenSince(payments, from) <= TakenSince(payments', from)
         /\ \A j \in PaymentIds : payments'[j].order # 0 =>
              /\ payments'[j].order \in OrderIds /\ Placed(payments'[j].order)
              /\ payments'[j].at <= now /\ payments'[j].method \in Methods
<1>. DEFINE row == [order |-> o, at |-> now, amount |-> amount, method |-> method]
            after == payments'
<1>1. o \in Nat /\ o # 0
  BY BooksAssumption DEF OrderIds
<1>2. row \in PaymentRow /\ row.order = o /\ row.amount = amount
  BY <1>1 DEF TablesOK, PaymentRow
<1>3. /\ payments \in PaymentTable /\ payments[k].order = 0
      /\ after = [payments EXCEPT ![k] = row]
  BY DEF Pay, TablesOK
<1>4. after[k] = row /\ \A j \in PaymentIds \ {k} : after[j] = payments[j]
  BY <1>3 DEF PaymentTable
<1>5. \A j \in PaymentIds : after[j].order # 0 =>
        /\ after[j].order \in OrderIds /\ Placed(after[j].order)
        /\ after[j].at <= now /\ after[j].method \in Methods
  BY <1>4 DEF Dated, TablesOK
<1>. HIDE DEF row, after
<1>6. row.order # 0
  BY <1>1, <1>2
<1>7. after \in PaymentTable
  BY <1>2, <1>3 DEF PaymentTable
<1>8. \A from : TakenSince(payments, from) <= TakenSince(after, from)
  <2>1. payments \in PaymentTable /\ payments[k].order = 0
    BY <1>3
  <2>. QED
    BY <1>4, <1>6, <1>7, <2>1, PaymentAdds
<1>. QED
  BY <1>5, <1>7, <1>8 DEF after

\* A request that is done leaves the others as they were.
LEMMA DoneFacts ==
  ASSUME TablesOK, NEW p \in Requests, Done(p)
  PROVE  /\ tasks' \in [Requests -> Task]
         /\ \A q \in Requests : tasks'[q] = tasks[q] \/ tasks'[q] = Idle
         /\ quiet' = FALSE /\ UNCHANGED <<now, orders, report>>
         /\ \A o \in OrderIds : Placed(o) => Placed(o)'
<1>1. /\ tasks' = [tasks EXCEPT ![p] = Idle] /\ quiet' = FALSE
      /\ UNCHANGED <<now, orders, report>>
  BY DEF Done
<1>2. Idle \in Task
  BY DEF Idle, Task
<1>. QED
  BY <1>1, <1>2 DEF TablesOK, Placed

LEMMA RecordPaymentInv ==
  ASSUME IInv, NEW p \in Requests, NEW k \in PaymentIds, NEW method \in Methods,
         RecordPayment(p, k, method)
  PROVE  IInv'
<1>. DEFINE o == tasks[p].row
            amount == tasks[p].amount
<1>1. TablesOK /\ Dated /\ TasksFit
  BY TypeParts DEF IInv
<1>2. tasks[p].pc = "pay" /\ Pay(k, o, amount, method) /\ UNCHANGED debts /\ Done(p)
  BY DEF RecordPayment
<1>3. o \in OrderIds /\ Placed(o) /\ amount \in Nat
  BY <1>1, <1>2 DEF TasksFit, TablesOK, Task
<1>. HIDE DEF o, amount
<1>4. /\ payments' \in PaymentTable
      /\ \A from : TakenSince(payments, from) <= TakenSince(payments', from)
      /\ \A j \in PaymentIds : payments'[j].order # 0 =>
           /\ payments'[j].order \in OrderIds /\ Placed(payments'[j].order)
           /\ payments'[j].at <= now /\ payments'[j].method \in Methods
  BY <1>1, <1>2, <1>3, PayFacts
<1>5. /\ tasks' \in [Requests -> Task]
      /\ \A q \in Requests : tasks'[q] = tasks[q] \/ tasks'[q] = Idle
      /\ quiet' = FALSE /\ UNCHANGED <<now, orders, report>>
      /\ \A e \in OrderIds : Placed(e) => Placed(e)'
  BY <1>1, <1>2, DoneFacts
<1>6. TablesOK'
  BY <1>1, <1>2, <1>4, <1>5 DEF TablesOK
<1>7. Dated'
  BY <1>1, <1>2, <1>4, <1>5 DEF Dated, Placed
<1>8. TasksFit'
  BY <1>2, <1>5, FitKept
<1>. QED
  BY <1>4, <1>5, <1>6, <1>7, <1>8, TillStep

LEMMA RecordCreditInv ==
  ASSUME IInv, NEW p \in Requests, NEW d \in DebtIds, RecordCredit(p, d)
  PROVE  IInv'
<1>. DEFINE o == tasks[p].row
            row == [order |-> o, at |-> now, amount |-> tasks[p].amount,
                    paid |-> 0, status |-> "outstanding"]
            after == debts'
<1>1. TablesOK /\ Dated /\ TasksFit
  BY TypeParts DEF IInv
<1>2. /\ tasks[p].pc = "credit" /\ debts[d].order = 0
      /\ after = [debts EXCEPT ![d] = row] /\ UNCHANGED payments /\ Done(p)
  BY DEF RecordCredit
<1>3. /\ o \in OrderIds /\ Placed(o) /\ tasks[p].amount \in Nat
      /\ o \in Nat /\ o # 0
  BY <1>1, <1>2, BooksAssumption DEF TasksFit, TablesOK, Task, OrderIds
<1>4. /\ row \in DebtRow /\ row.order = o /\ row.paid <= row.amount
      /\ row.at = now /\ row.status # "none"
  BY <1>1, <1>3 DEF TablesOK, DebtRow
<1>5. debts \in DebtTable /\ now \in Int
  BY <1>1 DEF TablesOK
<1>. HIDE DEF row, after, o
<1>6. after[d] = row /\ \A e \in DebtIds \ {d} : after[e] = debts[e]
  BY <1>2, <1>5 DEF DebtTable
<1>7. after \in DebtTable
  BY <1>2, <1>4, <1>5 DEF DebtTable
<1>8. /\ tasks' \in [Requests -> Task]
      /\ \A q \in Requests : tasks'[q] = tasks[q] \/ tasks'[q] = Idle
      /\ quiet' = FALSE /\ UNCHANGED <<now, orders, report>>
      /\ \A e \in OrderIds : Placed(e) => Placed(e)'
  BY <1>1, <1>2, DoneFacts
<1>9. TablesOK'
  <2>1. \A e \in DebtIds : after[e].paid <= after[e].amount
    BY <1>1, <1>4, <1>6 DEF TablesOK
  <2>. QED
    BY <1>1, <1>2, <1>7, <1>8, <2>1 DEF TablesOK, after
<1>10. Dated'
  <2>1. orders[o].at <= now
    BY <1>1, <1>3 DEF Dated
  <2>2. \A e \in DebtIds : after[e].order # 0 =>
          /\ after[e].order \in OrderIds /\ Placed(after[e].order)
          /\ orders[after[e].order].at <= after[e].at /\ after[e].at <= now
    BY <1>1, <1>3, <1>4, <1>5, <1>6, <2>1 DEF Dated
  <2>3. \A e \in DebtIds : after[e].status # "none" <=> after[e].order # 0
    BY <1>1, <1>3, <1>4, <1>6 DEF Dated
  <2>. QED
    BY <1>1, <1>2, <1>8, <2>2, <2>3 DEF Dated, Placed, after
<1>11. TasksFit'
  <2>1. \A e \in DebtIds : debts[e].order # 0 =>
          debts'[e].order # 0 /\ debts'[e].amount = debts[e].amount
    BY <1>2, <1>6 DEF after
  <2>. QED
    BY <1>8, <2>1, FitKept
<1>12. \A from : TakenSince(payments, from) <= TakenSince(payments', from)
  BY <1>1, <1>2, SameTakings
<1>. QED
  BY <1>8, <1>9, <1>10, <1>11, <1>12, TillStep

LEMMA PayDebtInv ==
  ASSUME IInv, NEW p \in Requests, NEW k \in PaymentIds, NEW method \in Methods,
         PayDebt(p, k, method)
  PROVE  IInv'
<1>. DEFINE d == tasks[p].row
            o == debts[d].order
            amount == tasks[p].amount
            paid == tasks[p].paid + amount
            row == Repaid(debts[d], paid)
            after == debts'
<1>1. TablesOK /\ Dated /\ TasksFit
  BY TypeParts DEF IInv
<1>2. /\ tasks[p].pc = "repay" /\ Pay(k, o, amount, method)
      /\ after = [debts EXCEPT ![d] = row] /\ Done(p)
  BY DEF PayDebt
<1>3. /\ d \in DebtIds /\ o # 0 /\ amount \in Nat /\ paid \in Nat
      /\ paid <= debts[d].amount /\ debts \in DebtTable
  BY <1>1, <1>2 DEF TasksFit, TablesOK, Task
<1>4. o \in OrderIds /\ Placed(o)
  BY <1>1, <1>3 DEF Dated
<1>. HIDE DEF d, amount, paid, after
<1>5. /\ row \in DebtRow /\ row.order = o /\ row.at = debts[d].at
      /\ row.amount = debts[d].amount /\ row.paid = paid /\ row.status # "none"
  <2>1. debts[d] \in DebtRow /\ debts[d].status # "none"
    BY <1>1, <1>3 DEF DebtTable, Dated
  <2>. QED
    BY <1>3, <2>1 DEF Repaid, DebtRow
<1>. HIDE DEF row
<1>6. /\ after \in DebtTable
      /\ \A e \in DebtIds : /\ after[e].order = debts[e].order
                            /\ after[e].at = debts[e].at
                            /\ after[e].amount = debts[e].amount
      /\ \A e \in DebtIds : e # d => after[e] = debts[e]
      /\ after[d] = row
  BY <1>2, <1>3, <1>5 DEF DebtTable
<1>. HIDE DEF o
<1>7. /\ payments' \in PaymentTable
      /\ \A from : TakenSince(payments, from) <= TakenSince(payments', from)
      /\ \A j \in PaymentIds : payments'[j].order # 0 =>
           /\ payments'[j].order \in OrderIds /\ Placed(payments'[j].order)
           /\ payments'[j].at <= now /\ payments'[j].method \in Methods
  BY <1>1, <1>2, <1>3, <1>4, PayFacts
<1>8. /\ tasks' \in [Requests -> Task]
      /\ \A q \in Requests : tasks'[q] = tasks[q] \/ tasks'[q] = Idle
      /\ quiet' = FALSE /\ UNCHANGED <<now, orders, report>>
      /\ \A e \in OrderIds : Placed(e) => Placed(e)'
  BY <1>1, <1>2, DoneFacts
<1>9. TablesOK'
  <2>1. \A e \in DebtIds : after[e].paid <= after[e].amount
    BY <1>1, <1>3, <1>5, <1>6 DEF TablesOK
  <2>. QED
    BY <1>1, <1>6, <1>7, <1>8, <2>1 DEF TablesOK, after
<1>10. Dated'
  <2>1. \A e \in DebtIds : after[e].order # 0 =>
          /\ after[e].order \in OrderIds /\ Placed(after[e].order)
          /\ orders[after[e].order].at <= after[e].at /\ after[e].at <= now
    BY <1>1, <1>6 DEF Dated
  <2>2. \A e \in DebtIds : after[e].status # "none" <=> after[e].order # 0
    BY <1>1, <1>3, <1>5, <1>6 DEF Dated
  <2>. QED
    BY <1>1, <1>7, <1>8, <2>1, <2>2 DEF Dated, Placed, after
<1>11. TasksFit'
  <2>1. \A e \in DebtIds : debts[e].order # 0 =>
          debts'[e].order # 0 /\ debts'[e].amount = debts[e].amount
    BY <1>6 DEF after
  <2>. QED
    BY <1>8, <2>1, FitKept
<1>. QED
  BY <1>7, <1>8, <1>9, <1>10, <1>11, TillStep

\* An hour passes: a quiet report is still within its day.
LEMMA TickInv == IInv /\ Tick => IInv'
<1>. SUFFICES ASSUME IInv, Tick PROVE IInv'
  OBVIOUS
<1>1. TablesOK /\ Dated /\ TasksFit /\ report \in Report
  BY TypeParts DEF IInv
<1>2. /\ now' = now + 1 /\ UNCHANGED <<orders, payments, debts, tasks, report>>
      /\ quiet' => quiet /\ LocalDay(now') = LocalDay(now)
      /\ quiet' \in BOOLEAN
  BY <1>1 DEF Tick, TablesOK
<1>3. TypeOK'
  BY <1>1, <1>2 DEF TypeOK, TablesOK, PaymentTable, DebtTable
<1>4. Dated'
  <2>1. /\ \A o \in OrderIds : orders[o].at \in Int
        /\ \A k \in PaymentIds : payments[k].at \in Int
        /\ \A d \in DebtIds : debts[d].at \in Int
    BY <1>1 DEF TablesOK, PaymentTable, DebtTable, OrderRow, PaymentRow, DebtRow
  <2>2. now \in Int
    BY <1>1 DEF TablesOK
  <2>. QED
    BY <1>1, <1>2, <2>1, <2>2 DEF Dated, Placed
<1>5. TasksFit'
  BY <1>1, <1>2 DEF TasksFit, Placed
<1>6. DashboardSoFar'
  BY <1>2 DEF DashboardSoFar, IInv
<1>7. SalesSoFar'
  BY <1>2 DEF SalesSoFar, IInv
<1>8. AccountabilitySoFar'
  BY <1>2 DEF AccountabilitySoFar, IInv
<1>. QED
  BY <1>3, <1>4, <1>5, <1>6, <1>7, <1>8 DEF IInv

-----------------------------------------------------------------------------
(* The reports, query by query.                                            *)

\* A query writes nothing, and leaves the other reports' parts aside.
LEMMA QueryStep ==
  ASSUME IInv, UNCHANGED <<now, orders, payments, debts, tasks>>, quiet' \in BOOLEAN,
         report' \in Report,
         report'.kind = "dashboard" => DashboardSoFar',
         report'.kind = "sales" => SalesSoFar',
         report'.kind = "accountability" => AccountabilitySoFar'
  PROVE  IInv'
<1>1. TablesOK /\ Dated /\ TasksFit
  BY TypeParts DEF IInv
<1>2. TypeOK'
  BY <1>1 DEF TypeOK, TablesOK, PaymentTable, DebtTable
<1>3. Dated' /\ TasksFit'
  BY <1>1 DEF Dated, Placed, TasksFit
<1>4. DashboardSoFar' /\ SalesSoFar' /\ AccountabilitySoFar'
  BY DEF DashboardSoFar, SalesSoFar, AccountabilitySoFar
<1>. QED
  BY <1>2, <1>3, <1>4 DEF IInv

LEMMA NoReportTyped ==
  /\ NoReport \in Report
  /\ NoReport.kind = "none" /\ NoReport.step = 0
BY DEF NoReport, Report, OrderRow, NoOrder

LEMMA AnswerInv == IInv /\ Answer => IInv'
<1>. SUFFICES ASSUME IInv, Answer PROVE IInv'
  OBVIOUS
<1>1. /\ report' \in Report /\ report'.kind = "none" /\ quiet' \in BOOLEAN
      /\ UNCHANGED <<now, orders, payments, debts, tasks>>
  BY NoReportTyped DEF Answer
<1>. QED
  BY <1>1, QueryStep

LEMMA Known ==
  ASSUME IInv
  PROVE  /\ now \in Int /\ quiet \in BOOLEAN /\ report \in Report
         /\ payments \in PaymentTable /\ debts \in DebtTable
         /\ orders \in [OrderIds -> OrderRow]
         /\ TablesOK /\ Dated /\ TasksFit
         /\ LocalDay(now) \in Int
         /\ report.from \in Int /\ report.until \in Int /\ report.before \in Int
<1>1. TypeOK /\ Dated /\ TasksFit
  BY DEF IInv
<1>2. now \in Int /\ report \in Report
  BY <1>1 DEF TypeOK
<1>3. LocalDay(now) \in Int
  BY <1>2, DayTyped
<1>. QED
  BY <1>1, <1>2, <1>3, TypeParts DEF TablesOK, Report

LEMMA DashboardBoundsInv == IInv /\ DashboardBounds => IInv'
<1>. SUFFICES ASSUME IInv, DashboardBounds PROVE IInv'
  OBVIOUS
<1>. DEFINE first == StartOfDay(now)
<1>1. first \in Int /\ first + Offset = LocalDay(now) * HoursPerDay
  BY Known, DayStart
<1>2. /\ report' = [NoReport EXCEPT !.kind = "dashboard", !.from = first,
                                    !.until = first + HoursPerDay]
      /\ quiet' = TRUE /\ UNCHANGED <<now, orders, payments, debts, tasks>>
  BY DEF DashboardBounds, Begin
<1>3. first + HoursPerDay \in Int
  BY <1>1, DayLength
<1>. HIDE DEF first
<1>4. /\ report' \in Report /\ report'.kind = "dashboard" /\ report'.step = 0
      /\ report'.from = first /\ report'.until = first + HoursPerDay
  BY <1>1, <1>2, <1>3, NoReportTyped DEF Report, AllReports
<1>5. DashboardSoFar'
  BY <1>1, <1>2, <1>4 DEF DashboardSoFar
<1>. QED
  BY <1>2, <1>4, <1>5, QueryStep

LEMMA DashboardYesterdayInv == IInv /\ DashboardYesterday => IInv'
<1>. SUFFICES ASSUME IInv, DashboardYesterday PROVE IInv'
  OBVIOUS
<1>. DEFINE first == DaysAgo(1)
<1>1. first \in Int /\ first + Offset = (LocalDay(now) - 1) * HoursPerDay
  BY Known, FirstDay
<1>2. /\ report.kind = "dashboard" /\ report.step = 0
      /\ report' = [report EXCEPT !.before = first, !.step = 1]
      /\ UNCHANGED <<now, orders, payments, debts, tasks, quiet>>
  BY DEF DashboardYesterday, Step
<1>3. quiet => report.from + Offset = LocalDay(now) * HoursPerDay
  BY <1>2 DEF IInv, DashboardSoFar
<1>4. (LocalDay(now) - 1) * HoursPerDay = LocalDay(now) * HoursPerDay - HoursPerDay
  BY Known, DayLength
<1>. HIDE DEF first
<1>5. quiet => first = report.from - HoursPerDay
  <2>. SUFFICES ASSUME quiet PROVE first = report.from - HoursPerDay
    OBVIOUS
  <2>. DEFINE m == LocalDay(now) * HoursPerDay
  <2>1. first + Offset = m - HoursPerDay /\ report.from + Offset = m
    BY <1>1, <1>3, <1>4
  <2>2. m \in Int /\ report.from \in Int
    BY Known, DayLength
  <2>3. first \in Int /\ Offset \in Int /\ HoursPerDay \in Int
    BY <1>1, DayLength
  <2>. HIDE DEF m
  <2>. QED
    BY <2>1, <2>2, <2>3
<1>6. /\ report' \in Report /\ report'.kind = "dashboard" /\ report'.step = 1
      /\ report'.from = report.from /\ report'.until = report.until
      /\ report'.before = first
  BY <1>1, <1>2, Known DEF Report
<1>7. DashboardSoFar'
  BY <1>2, <1>5, <1>6 DEF IInv, DashboardSoFar
<1>8. quiet' \in BOOLEAN
  BY <1>2, Known
<1>. QED
  BY <1>2, <1>6, <1>7, <1>8, QueryStep

LEMMA DashboardTodayInv == IInv /\ DashboardToday => IInv'
<1>. SUFFICES ASSUME IInv, DashboardToday PROVE IInv'
  OBVIOUS
<1>. DEFINE sum == Sum(Between(report.from, report.until))
<1>1. /\ report.kind = "dashboard" /\ report.step = 1
      /\ report' = [report EXCEPT !.today = sum, !.step = 2]
      /\ UNCHANGED <<now, orders, payments, debts, tasks, quiet>>
  BY DEF DashboardToday, Step
<1>2. sum \in Nat
  BY Known, AmountSum, SumIs DEF Between, Since, Recorded
<1>3. quiet => sum = Takings(payments, LocalDay(now))
  <2>. SUFFICES ASSUME quiet PROVE sum = Takings(payments, LocalDay(now))
    OBVIOUS
  <2>1. /\ report.from + Offset = LocalDay(now) * HoursPerDay
        /\ report.until = report.from + HoursPerDay
    BY <1>1 DEF IInv, DashboardSoFar
  <2>2. Between(report.from, report.until) = RowsOn(payments, LocalDay(now))
    BY <2>1, Known, DayBetween
  <2>. QED
    BY <2>2, SumIs DEF Takings
<1>. HIDE DEF sum
<1>4. /\ report' \in Report /\ report'.kind = "dashboard" /\ report'.step = 2
      /\ report'.from = report.from /\ report'.until = report.until
      /\ report'.before = report.before /\ report'.today = sum
  BY <1>1, <1>2, Known DEF Report
<1>5. DashboardSoFar'
  BY <1>1, <1>3, <1>4 DEF IInv, DashboardSoFar
<1>6. quiet' \in BOOLEAN
  BY <1>1, Known
<1>. QED
  BY <1>1, <1>4, <1>5, <1>6, QueryStep

LEMMA DashboardYdayInv == IInv /\ DashboardYday => IInv'
<1>. SUFFICES ASSUME IInv, DashboardYday PROVE IInv'
  OBVIOUS
<1>. DEFINE sum == Sum(Between(report.before, report.from))
<1>1. /\ report.kind = "dashboard" /\ report.step = 2
      /\ report' = [report EXCEPT !.yesterday = sum, !.step = 3]
      /\ UNCHANGED <<now, orders, payments, debts, tasks, quiet>>
  BY DEF DashboardYday, Step
<1>2. sum \in Nat
  BY Known, AmountSum, SumIs DEF Between, Since, Recorded
<1>3. quiet => sum = Takings(payments, LocalDay(now) - 1)
  <2>. SUFFICES ASSUME quiet PROVE sum = Takings(payments, LocalDay(now) - 1)
    OBVIOUS
  <2>. DEFINE D == LocalDay(now) - 1
              m == LocalDay(now) * HoursPerDay
  <2>1. report.from + Offset = m /\ report.before = report.from - HoursPerDay
    BY <1>1 DEF IInv, DashboardSoFar
  <2>2. D \in Int /\ m \in Int /\ D * HoursPerDay = m - HoursPerDay
    BY Known, DayLength
  <2>. HIDE DEF D, m
  <2>3. report.from = report.before + HoursPerDay
    BY <2>1, Known, DayLength
  <2>4. report.before + Offset = D * HoursPerDay
    BY <2>1, <2>2, Known, DayLength
  <2>5. Between(report.before, report.from) = RowsOn(payments, D)
    BY <2>2, <2>3, <2>4, Known, DayBetween
  <2>. QED
    BY <2>5, SumIs DEF Takings, D
<1>. HIDE DEF sum
<1>4. /\ report' \in Report /\ report'.kind = "dashboard" /\ report'.step = 3
      /\ report'.from = report.from /\ report'.until = report.until
      /\ report'.before = report.before /\ report'.today = report.today
      /\ report'.yesterday = sum
  BY <1>1, <1>2, Known DEF Report
<1>5. DashboardSoFar'
  BY <1>1, <1>3, <1>4 DEF IInv, DashboardSoFar
<1>6. quiet' \in BOOLEAN
  BY <1>1, Known
<1>. QED
  BY <1>1, <1>4, <1>5, <1>6, QueryStep

LEMMA DashboardHoursInv == IInv /\ DashboardHours => IInv'
<1>. SUFFICES ASSUME IInv, DashboardHours PROVE IInv'
  OBVIOUS
<1>. DEFINE R == Between(report.from, report.until)
            hours == ByHour(R)
<1>1. /\ report.kind = "dashboard" /\ report.step = 3
      /\ report' = [report EXCEPT !.buckets = hours, !.step = 4]
      /\ UNCHANGED <<now, orders, payments, debts, tasks, quiet>>
  BY DEF DashboardHours, Step
<1>2. R \in SUBSET PaymentIds
  BY DEF Between, Since, Recorded
<1>3. hours \in [Hours -> Nat] /\ SumOver(hours, Hours) = Sum(R)
  BY <1>2, Known, HoursAddUp
<1>4. quiet => Sum(R) = report.today
  <2>. SUFFICES ASSUME quiet PROVE Sum(R) = report.today
    OBVIOUS
  <2>1. /\ report.from + Offset = LocalDay(now) * HoursPerDay
        /\ report.until = report.from + HoursPerDay
        /\ report.today = Takings(payments, LocalDay(now))
    BY <1>1 DEF IInv, DashboardSoFar
  <2>2. R = RowsOn(payments, LocalDay(now))
    BY <2>1, Known, DayBetween
  <2>. QED
    BY <2>1, <2>2, SumIs DEF Takings
<1>. HIDE DEF R, hours
<1>5. /\ report' \in Report /\ report'.kind = "dashboard" /\ report'.step = 4
      /\ report'.from = report.from /\ report'.until = report.until
      /\ report'.before = report.before /\ report'.today = report.today
      /\ report'.yesterday = report.yesterday /\ report'.buckets = hours
  BY <1>1, <1>3, Known DEF Report
<1>6. DashboardSoFar'
  BY <1>1, <1>3, <1>4, <1>5 DEF IInv, DashboardSoFar
<1>7. quiet' \in BOOLEAN
  BY <1>1, Known
<1>. QED
  BY <1>1, <1>5, <1>6, <1>7, QueryStep

LEMMA DashboardTrendStartInv == IInv /\ DashboardTrendStart => IInv'
<1>. SUFFICES ASSUME IInv, DashboardTrendStart PROVE IInv'
  OBVIOUS
<1>. DEFINE first == DaysAgo(TrendDays - 1)
<1>1. TrendDays - 1 \in Nat
  BY BooksAssumption
<1>2. /\ first \in Int
      /\ first + Offset = (LocalDay(now) - (TrendDays - 1)) * HoursPerDay
  BY <1>1, Known, FirstDay
<1>3. /\ report.kind = "dashboard" /\ report.step = 4
      /\ report' = [report EXCEPT !.before = first, !.step = 5]
      /\ UNCHANGED <<now, orders, payments, debts, tasks, quiet>>
  BY DEF DashboardTrendStart, Step
<1>. HIDE DEF first
<1>4. /\ report' \in Report /\ report'.kind = "dashboard" /\ report'.step = 5
      /\ report'.from = report.from /\ report'.until = report.until
      /\ report'.before = first /\ report'.today = report.today
      /\ report'.yesterday = report.yesterday
      /\ report'.buckets = report.buckets
  BY <1>2, <1>3, Known DEF Report
<1>5. DashboardSoFar'
  BY <1>2, <1>3, <1>4 DEF IInv, DashboardSoFar
<1>6. quiet' \in BOOLEAN
  BY <1>3, Known
<1>. QED
  BY <1>3, <1>4, <1>5, <1>6, QueryStep

LEMMA DashboardTrendInv == IInv /\ DashboardTrend => IInv'
<1>. SUFFICES ASSUME IInv, DashboardTrend PROVE IInv'
  OBVIOUS
<1>. DEFINE days == ByDay(Since(report.before), LocalDay(report.before), TrendIndex)
            D == LocalDay(now) - (TrendDays - 1)
<1>1. /\ report.kind = "dashboard" /\ report.step = 5
      /\ report' = [report EXCEPT !.trend = days, !.step = 6]
      /\ UNCHANGED <<now, orders, payments, debts, tasks, quiet>>
  BY DEF DashboardTrend, Step
<1>2. Since(report.before) \in SUBSET PaymentIds
  BY DEF Since, Recorded
<1>3. days \in [TrendIndex -> Nat]
  BY <1>2, Known, ByDayTyped
<1>4. quiet => \A i \in TrendIndex : days[i] = Takings(payments, D + i)
  <2>. SUFFICES ASSUME quiet
                PROVE  \A i \in TrendIndex : days[i] = Takings(payments, D + i)
    OBVIOUS
  <2>1. report.before + Offset = D * HoursPerDay
    BY <1>1 DEF IInv, DashboardSoFar
  <2>2. D \in Int /\ TrendIndex \in SUBSET Nat
    BY Known, BooksAssumption DEF TrendIndex
  <2>. HIDE DEF D
  <2>. QED
    BY <2>1, <2>2, Known, ByDayIs
<1>. HIDE DEF days
<1>5. /\ report' \in Report /\ report'.kind = "dashboard" /\ report'.step = 6
      /\ report'.from = report.from /\ report'.until = report.until
      /\ report'.before = report.before /\ report'.today = report.today
      /\ report'.yesterday = report.yesterday
      /\ report'.buckets = report.buckets /\ report'.trend = days
  BY <1>1, <1>3, Known DEF Report
<1>6. DashboardSoFar'
  BY <1>1, <1>4, <1>5 DEF IInv, DashboardSoFar
<1>7. quiet' \in BOOLEAN
  BY <1>1, Known
<1>. QED
  BY <1>1, <1>5, <1>6, <1>7, QueryStep

-----------------------------------------------------------------------------

LEMMA SalesWindowInv == IInv /\ SalesWindow => IInv'
<1>. SUFFICES ASSUME IInv, SalesWindow PROVE IInv'
  OBVIOUS
<1>. DEFINE first == DaysAgo(ReportDays - 1)
<1>1. ReportDays - 1 \in Nat
  BY BooksAssumption
<1>2. /\ first \in Int
      /\ first + Offset = (LocalDay(now) - (ReportDays - 1)) * HoursPerDay
  BY <1>1, Known, FirstDay
<1>3. /\ report' = [NoReport EXCEPT !.kind = "sales", !.from = first]
      /\ quiet' = TRUE /\ UNCHANGED <<now, orders, payments, debts, tasks>>
  BY DEF SalesWindow, Begin
<1>. HIDE DEF first
<1>4. /\ report' \in Report /\ report'.kind = "sales" /\ report'.step = 0
      /\ report'.from = first
  BY <1>2, <1>3, NoReportTyped DEF Report, AllReports
<1>5. SalesSoFar'
  BY <1>2, <1>3, <1>4 DEF SalesSoFar
<1>. QED
  BY <1>3, <1>4, <1>5, QueryStep

LEMMA SalesGrossInv == IInv /\ SalesGross => IInv'
<1>. SUFFICES ASSUME IInv, SalesGross PROVE IInv'
  OBVIOUS
<1>. DEFINE sum == Sum(Since(report.from))
<1>1. /\ report.kind = "sales" /\ report.step = 0
      /\ report' = [report EXCEPT !.gross = sum, !.step = 1]
      /\ UNCHANGED <<now, orders, payments, debts, tasks, quiet>>
  BY DEF SalesGross, Step
<1>2. sum = TakenSince(payments, report.from)
  BY SumIs, SinceIs DEF TakenSince
<1>3. sum \in Nat
  BY <1>2, Known, SumsTyped
<1>. HIDE DEF sum
<1>4. /\ report' \in Report /\ report'.kind = "sales" /\ report'.step = 1
      /\ report'.from = report.from /\ report'.gross = sum
  BY <1>1, <1>3, Known DEF Report
<1>5. SalesSoFar'
  BY <1>1, <1>2, <1>3, <1>4 DEF IInv, SalesSoFar
<1>6. quiet' \in BOOLEAN
  BY <1>1, Known
<1>. QED
  BY <1>1, <1>4, <1>5, <1>6, QueryStep

LEMMA SalesSplitInv == IInv /\ SalesSplit => IInv'
<1>. SUFFICES ASSUME IInv, SalesSplit PROVE IInv'
  OBVIOUS
<1>. DEFINE R == Since(report.from)
            split == ByMethod(R)
<1>1. /\ report.kind = "sales" /\ report.step = 1
      /\ report' = [report EXCEPT !.split = split, !.step = 2]
      /\ UNCHANGED <<now, orders, payments, debts, tasks, quiet>>
  BY DEF SalesSplit, Step
<1>2. R \in SUBSET PaymentIds /\ \A k \in R : payments[k].method \in Methods
  BY Known DEF Since, Recorded, Dated
<1>3. split \in [Methods -> Nat] /\ SumOver(split, Methods) = Sum(R)
  BY <1>2, Known, MethodsAddUp
<1>4. SumOver(split, Methods) = TakenSince(payments, report.from)
  BY <1>3, SumIs, SinceIs DEF TakenSince
<1>. HIDE DEF R, split
<1>5. /\ report' \in Report /\ report'.kind = "sales" /\ report'.step = 2
      /\ report'.from = report.from /\ report'.gross = report.gross
      /\ report'.split = split
  BY <1>1, <1>3, Known DEF Report
<1>6. SalesSoFar'
  BY <1>1, <1>4, <1>5 DEF IInv, SalesSoFar
<1>7. quiet' \in BOOLEAN
  BY <1>1, Known
<1>. QED
  BY <1>1, <1>5, <1>6, <1>7, QueryStep

LEMMA SalesSeriesInv == IInv /\ SalesSeries => IInv'
<1>. SUFFICES ASSUME IInv, SalesSeries PROVE IInv'
  OBVIOUS
<1>. DEFINE R == Since(report.from)
            D == LocalDay(now) - (ReportDays - 1)
            days == ByDay(R, LocalDay(report.from), DailyIndex)
<1>1. /\ report.kind = "sales" /\ report.step = 2
      /\ report' = [report EXCEPT !.daily = days, !.step = 3]
      /\ UNCHANGED <<now, orders, payments, debts, tasks, quiet>>
  BY DEF SalesSeries, Step
<1>2. R \in SUBSET PaymentIds
  BY DEF Since, Recorded
<1>3. days \in [DailyIndex -> Nat]
  BY <1>2, Known, ByDayTyped
<1>4. ASSUME quiet
      PROVE  /\ SumOver(days, DailyIndex) = report.gross
             /\ \A i \in DailyIndex : days[i] = Takings(payments, D + i)
  <2>1. /\ report.from + Offset = D * HoursPerDay
        /\ report.gross = TakenSince(payments, report.from)
    BY <1>1, <1>4 DEF IInv, SalesSoFar
  <2>2. D \in Int /\ DailyIndex \in SUBSET Nat /\ ReportDays \in Int
    BY Known, BooksAssumption DEF DailyIndex
  <2>3. D = LocalDay(now) - (ReportDays - 1)
    OBVIOUS
  <2>. HIDE DEF D
  <2>4. /\ LocalDay(report.from) = D
        /\ \A i \in DailyIndex : days[i] = Takings(payments, D + i)
    <3>1. payments \in PaymentTable /\ report.from \in Int
      BY Known
    <3>2. /\ LocalDay(report.from) = D
          /\ \A i \in DailyIndex :
               ByDay(Since(report.from), LocalDay(report.from), DailyIndex)[i]
                 = Takings(payments, D + i)
      BY <2>1, <2>2, <3>1, ByDayIs
    <3>. QED
      BY <3>2
  <2>5. ASSUME NEW k \in R
        PROVE  LocalDay(payments[k].at) - D \in DailyIndex
    <3>1. /\ payments[k].at \in Int /\ payments[k].at >= report.from
          /\ payments[k].at <= now
      BY Known DEF Since, Recorded, Dated, PaymentTable, PaymentRow
    <3>2. LocalDay(payments[k].at) >= D
      BY <2>1, <2>2, <3>1, Known, DayFrom
    <3>3. LocalDay(payments[k].at) <= LocalDay(now)
      BY <3>1, Known, DayMonotone
    <3>4. LocalDay(payments[k].at) \in Int /\ LocalDay(now) \in Int
      BY <3>1, Known, DayTyped
    <3>. QED
      BY <2>2, <2>3, <3>2, <3>3, <3>4 DEF DailyIndex
  <2>6. SumOver(ByDay(R, D, DailyIndex), DailyIndex) = Sum(R)
    BY <1>2, <2>2, <2>5, Known, DaysAddUp
  <2>7. Sum(R) = TakenSince(payments, report.from)
    BY SumIs, SinceIs DEF TakenSince
  <2>. QED
    BY <2>1, <2>4, <2>6, <2>7
<1>. HIDE DEF R, days
<1>5. /\ report' \in Report /\ report'.kind = "sales" /\ report'.step = 3
      /\ report'.from = report.from /\ report'.gross = report.gross
      /\ report'.split = report.split /\ report'.daily = days
  BY <1>1, <1>3, Known DEF Report
<1>6. SalesSoFar'
  BY <1>1, <1>4, <1>5 DEF IInv, SalesSoFar
<1>7. quiet' \in BOOLEAN
  BY <1>1, Known
<1>. QED
  BY <1>1, <1>5, <1>6, <1>7, QueryStep

-----------------------------------------------------------------------------

\* The credit on an order, which no repayment makes negative.
LEMMA CreditIs ==
  ASSUME IInv
  PROVE  /\ CreditOnOrder \in [OrderIds -> Nat]
         /\ \A o \in OrderIds : CreditOnOrder[o] = LentFor(debts, o)
<1>1. ASSUME NEW o \in OrderIds
      PROVE  CreditOnOrder[o] = LentFor(debts, o)
  <2>. DEFINE T == {d \in DebtIds : debts[d].order = o
                                    /\ debts[d].status = "outstanding"}
              f == [d \in DebtIds |-> debts[d].amount - debts[d].paid]
              g == OwedOf(debts)
  <2>1. Outstanding(o) = T /\ T \in SUBSET DebtIds
    BY DEF Outstanding
  <2>2. ASSUME NEW d \in DebtIds
        PROVE  f[d] = g[d]
    <3>1. /\ debts[d].amount \in Nat /\ debts[d].paid \in Nat
          /\ debts[d].paid <= debts[d].amount
      BY Known DEF DebtTable, DebtRow, TablesOK
    <3>. QED
      BY <3>1 DEF OwedOf, AtLeastZero
  <2>3. CreditOnOrder[o] = SumOver(f, T) /\ LentFor(debts, o) = SumOver(g, T)
    BY <2>1 DEF CreditOnOrder, LentFor, OwedIn
  <2>4. \A d \in T : f[d] = g[d]
    BY <2>1, <2>2
  <2>. HIDE DEF T, f, g
  <2>5. SumOver(f, T) = SumOver(g, T)
    BY <2>4, SumSame
  <2>. QED
    BY <2>3, <2>5
<1>2. \A o \in OrderIds : LentFor(debts, o) \in Nat
  BY Known, SumsTyped
<1>3. CreditOnOrder = [o \in OrderIds |-> CreditOnOrder[o]]
  BY DEF CreditOnOrder
<1>. QED
  BY <1>1, <1>2, <1>3

LEMMA AccountabilityCreditInv == IInv /\ AccountabilityCredit => IInv'
<1>. SUFFICES ASSUME IInv, AccountabilityCredit PROVE IInv'
  OBVIOUS
<1>. DEFINE first == now - ReportDays * HoursPerDay
            credit == CreditOnOrder
<1>1. first \in Int
  BY Known, DayBack, BooksAssumption
<1>2. /\ credit \in [OrderIds -> Nat]
      /\ \A o \in OrderIds : credit[o] = LentFor(debts, o)
  BY CreditIs
<1>3. /\ report' = [NoReport EXCEPT !.kind = "accountability", !.from = first,
                                    !.credit = credit]
      /\ quiet' = TRUE /\ UNCHANGED <<now, orders, payments, debts, tasks>>
  BY DEF AccountabilityCredit, Begin
<1>. HIDE DEF first, credit
<1>4. /\ report' \in Report /\ report'.kind = "accountability"
      /\ report'.step = 0 /\ report'.credit = credit
  BY <1>1, <1>2, <1>3, NoReportTyped DEF Report, AllReports
<1>5. AccountabilitySoFar'
  BY <1>2, <1>3, <1>4 DEF AccountabilitySoFar
<1>. QED
  BY <1>3, <1>4, <1>5, QueryStep

LEMMA AccountabilityOrdersInv == IInv /\ AccountabilityOrders => IInv'
<1>. SUFFICES ASSUME IInv, AccountabilityOrders PROVE IInv'
  OBVIOUS
<1>. DEFINE seen == [o \in OrderIds |->
               IF orders[o].status = "open" /\ orders[o].at >= report.from
               THEN orders[o] ELSE NoOrder]
<1>1. /\ report.kind = "accountability" /\ report.step = 0
      /\ report' = [report EXCEPT !.seen = seen, !.step = 1]
      /\ UNCHANGED <<now, orders, payments, debts, tasks, quiet>>
  BY DEF AccountabilityOrders, Step
<1>2. NoOrder \in OrderRow /\ NoOrder.status = "none"
  BY DEF NoOrder, OrderRow
<1>3. seen \in [OrderIds -> OrderRow]
  BY <1>2, Known
<1>4. \A o \in OrderIds :
        IF orders[o].status = "open" /\ orders[o].at >= report.from
        THEN seen[o] = orders[o] ELSE seen[o].status = "none"
  BY <1>2
<1>. HIDE DEF seen
<1>5. /\ report' \in Report /\ report'.kind = "accountability"
      /\ report'.step = 1 /\ report'.credit = report.credit
      /\ report'.from = report.from /\ report'.seen = seen
  BY <1>1, <1>3, Known DEF Report
<1>6. AccountabilitySoFar'
  BY <1>1, <1>4, <1>5 DEF IInv, AccountabilitySoFar
<1>7. quiet' \in BOOLEAN
  BY <1>1, Known
<1>. QED
  BY <1>1, <1>5, <1>6, <1>7, QueryStep

\* Debts by their orders.
LEMMA LentByOrder ==
  ASSUME IInv, NEW S \in SUBSET OrderIds
  PROVE  SumOver([o \in OrderIds |-> LentFor(debts, o)], S)
           = OwedIn(debts, LentTo(debts, S))
<1>. DEFINE D == LentTo(debts, S)
            f == OwedOf(debts)
            key == [d \in D |-> debts[d].order]
            groups == [o \in OrderIds |-> LentFor(debts, o)]
<1>1. D \in SUBSET DebtIds
  BY DEF LentTo
<1>2. \A d \in D : f[d] \in Nat
  BY <1>1, Known, OwedTyped
<1>3. \A d \in D : key[d] \in S
  BY DEF LentTo
<1>4. \A o \in S : groups[o] = SumOver(f, {d \in D : key[d] = o})
  <2>1. ASSUME NEW o \in S
        PROVE  {d \in D : key[d] = o}
                 = {d \in DebtIds : debts[d].order = o
                                    /\ debts[d].status = "outstanding"}
    BY DEF LentTo
  <2>. QED
    BY <2>1 DEF LentFor, OwedIn
<1>5. IsFiniteSet(D)
  BY <1>1, RowsFinite
<1>6. IsFiniteSet(S)
  BY RowsFinite
<1>. HIDE DEF D, f, key, groups
<1>7. SumOver(groups, S) = SumOver(f, D)
  BY ONLY <1>2, <1>3, <1>4, <1>5, <1>6, SumGroups, SMTT(90)
<1>. QED
  BY <1>7 DEF D, f, groups, OwedIn

LEMMA AccountabilityUnpaidInv == IInv /\ AccountabilityUnpaid => IInv'
<1>. SUFFICES ASSUME IInv, AccountabilityUnpaid PROVE IInv'
  OBVIOUS
<1>. DEFINE S == Inside(report.seen)
            u == [o \in OrderIds |->
                    AtLeastZero(report.seen[o].total - PaidOn(o) - report.credit[o])]
            w == [o \in OrderIds |-> LentFor(debts, o)]
            h == Counted(orders, payments, debts)
            unpaid == UnpaidValue
<1>1. /\ report.kind = "accountability" /\ report.step = 1
      /\ report' = [report EXCEPT !.unpaid = unpaid, !.step = 2]
      /\ UNCHANGED <<now, orders, payments, debts, tasks, quiet>>
  BY DEF AccountabilityUnpaid, Step
<1>2. unpaid = SumOver(u, S)
  BY DEF UnpaidValue, Inside
<1>3. S \in SUBSET OrderIds /\ IsFiniteSet(S)
  BY RowsFinite DEF Inside
<1>4. \A o \in S : /\ PaidFor(payments, o) \in Nat /\ LentFor(debts, o) \in Nat
                   /\ orders[o].total \in Nat /\ report.seen[o].total \in Nat
                   /\ report.credit[o] \in Nat
  <2>1. \A o \in S : o \in OrderIds
    BY <1>3
  <2>2. \A o \in OrderIds : /\ orders[o].total \in Nat
                            /\ report.seen[o].total \in Nat
                            /\ report.credit[o] \in Nat
    BY Known DEF Report, OrderRow
  <2>3. \A o : PaidFor(payments, o) \in Nat /\ LentFor(debts, o) \in Nat
    BY Known, SumsTyped
  <2>. QED
    BY <2>1, <2>2, <2>3
<1>5. \A o \in S : u[o] = AtLeastZero(report.seen[o].total - PaidFor(payments, o)
                                        - report.credit[o])
  BY <1>3, PaidIs
<1>6. \A o \in S : /\ w[o] = LentFor(debts, o)
                   /\ h[o] = Larger(AtLeastZero(orders[o].total
                                                  - PaidFor(payments, o)),
                                    LentFor(debts, o))
  BY <1>3 DEF Counted
<1>7. OwedIn(debts, LentTo(debts, S)) = SumOver(w, S)
  BY <1>3, LentByOrder
<1>. HIDE DEF u, w, h
<1>8. unpaid \in Nat
  <2>1. \A o \in S : u[o] \in Nat
    <3>1. ASSUME NEW o \in S
          PROVE  u[o] \in Nat
      <4>. DEFINE n == report.seen[o].total - PaidFor(payments, o) - report.credit[o]
      <4>1. n \in Int /\ u[o] = AtLeastZero(n)
        BY <1>4, <1>5
      <4>. HIDE DEF n
      <4>. QED
        BY <4>1 DEF AtLeastZero
    <3>. QED
      BY <3>1
  <2>. HIDE DEF S, unpaid
  <2>2. SumOver(u, S) \in Nat
    BY <1>3, <2>1, SumNat
  <2>. QED
    BY <1>2, <2>2
<1>9. ASSUME quiet
      PROVE  unpaid + OwedIn(debts, LentTo(debts, S)) = SumOver(h, S)
  <2>1. \A o \in S : /\ report.credit[o] = LentFor(debts, o)
                     /\ report.seen[o].total = orders[o].total
    <3>1. \A o \in OrderIds :
            /\ report.credit[o] = LentFor(debts, o)
            /\ IF orders[o].status = "open" /\ orders[o].at >= report.from
               THEN report.seen[o] = orders[o] ELSE report.seen[o].status = "none"
      BY <1>1, <1>9 DEF IInv, AccountabilitySoFar
    <3>. QED
      BY <3>1 DEF Inside
  <2>2. ASSUME NEW o \in S
        PROVE  u[o] \in Nat /\ w[o] \in Nat /\ h[o] = u[o] + w[o]
    <3>. DEFINE total == orders[o].total
                paid == PaidFor(payments, o)
                lent == LentFor(debts, o)
    <3>1. total \in Nat /\ paid \in Nat /\ lent \in Nat
      BY <1>4
    <3>2. /\ u[o] = AtLeastZero(total - paid - lent)
          /\ w[o] = lent /\ h[o] = Larger(AtLeastZero(total - paid), lent)
      BY <1>5, <1>6, <2>1
    <3>. HIDE DEF total, paid, lent
    <3>. QED
      BY <3>1, <3>2 DEF AtLeastZero, Larger
  <2>. HIDE DEF S, unpaid
  <2>3. \A o \in S : u[o] \in Nat /\ w[o] \in Nat /\ h[o] = u[o] + w[o]
    BY <2>2
  <2>4. IsFiniteSet(S)
    BY <1>3
  <2>5. SumOver(h, S) = SumOver(u, S) + SumOver(w, S)
    BY <2>3, <2>4, SumPlus
  <2>. QED
    BY <1>2, <1>7, <2>5
<1>. HIDE DEF unpaid
<1>10. /\ report' \in Report /\ report'.kind = "accountability"
       /\ report'.step = 2 /\ report'.credit = report.credit
       /\ report'.from = report.from /\ report'.seen = report.seen
       /\ report'.unpaid = unpaid
  BY <1>1, <1>8, Known DEF Report
<1>11. AccountabilitySoFar'
  <2>1. quiet => unpaid + OwedIn(debts, LentTo(debts, Inside(report.seen)))
                   = SumOver(Counted(orders, payments, debts), Inside(report.seen))
    BY <1>9 DEF h
  <2>. QED
    BY <1>1, <2>1, <1>10 DEF IInv, AccountabilitySoFar
<1>12. quiet' \in BOOLEAN
  BY <1>1, Known
<1>. QED
  BY <1>1, <1>10, <1>11, <1>12, QueryStep

LEMMA AccountabilityDebtsInv == IInv /\ AccountabilityDebts => IInv'
<1>. SUFFICES ASSUME IInv, AccountabilityDebts PROVE IInv'
  OBVIOUS
<1>. DEFINE owed == CreditSince(report.from)
<1>1. /\ report.kind = "accountability" /\ report.step = 2
      /\ report' = [report EXCEPT !.outstanding = owed, !.step = 3]
      /\ UNCHANGED <<now, orders, payments, debts, tasks, quiet>>
  BY DEF AccountabilityDebts, Step
<1>2. owed = OwedSince(debts, report.from)
  BY OwedIs DEF CreditSince, OwedSince
<1>3. owed \in Nat
  <2>1. {d \in DebtIds : debts[d].order # 0 /\ debts[d].at >= report.from}
          \in SUBSET DebtIds
    OBVIOUS
  <2>. QED
    BY <1>2, <2>1, Known, OwedSum DEF OwedSince
<1>. HIDE DEF owed
<1>4. /\ report' \in Report /\ report'.kind = "accountability"
      /\ report'.step = 3 /\ report'.credit = report.credit
      /\ report'.from = report.from /\ report'.seen = report.seen
      /\ report'.unpaid = report.unpaid /\ report'.outstanding = owed
  BY <1>1, <1>3, Known DEF Report
<1>5. AccountabilitySoFar'
  BY <1>1, <1>2, <1>4 DEF IInv, AccountabilitySoFar
<1>6. quiet' \in BOOLEAN
  BY <1>1, Known
<1>. QED
  BY <1>1, <1>4, <1>5, <1>6, QueryStep

-----------------------------------------------------------------------------

LEMMA InitInv == Init => IInv
<1>. SUFFICES ASSUME Init PROVE IInv
  OBVIOUS
<1>1. TypeOK
  BY NoReportTyped, BooksAssumption DEF Init, TypeOK, OrderRow, PaymentRow,
     DebtRow, Task, NoOrder, NoPayment, NoDebt, Idle
<1>2. Dated
  BY DEF Init, Dated, Placed, NoOrder, NoPayment, NoDebt
<1>3. TasksFit
  BY DEF Init, TasksFit, Idle
<1>4. report.kind = "none"
  BY NoReportTyped DEF Init
<1>. QED
  BY <1>1, <1>2, <1>3, <1>4
     DEF IInv, DashboardSoFar, SalesSoFar, AccountabilitySoFar

LEMMA NextInv == IInv /\ [Next]_booksVars => IInv'
<1>. SUFFICES ASSUME IInv, [Next]_booksVars PROVE IInv'
  OBVIOUS
<1>1. CASE Till
  <2>1. CASE \E o \in OrderIds, total \in Totals : PlaceOrder(o, total)
    BY <2>1, PlaceOrderInv
  <2>2. CASE \E o \in OrderIds, status \in {"open", "cancelled"} :
               UpdateStatus(o, status)
    BY <2>2, UpdateStatusInv
  <2>3. CASE \E p \in Requests, amount \in Amounts :
               \/ \E o \in OrderIds, next \in {"pay", "credit"} :
                    StartPayment(p, o, amount, next)
               \/ \E d \in DebtIds : StartRepayment(p, d, amount)
    BY <2>3, StartPaymentInv, StartRepaymentInv
  <2>4. CASE \E p \in Requests :
               \/ \E k \in PaymentIds, method \in Methods :
                    RecordPayment(p, k, method) \/ PayDebt(p, k, method)
               \/ \E d \in DebtIds : RecordCredit(p, d)
               \/ Abandon(p)
    BY <2>4, RecordPaymentInv, PayDebtInv, RecordCreditInv, AbandonInv
  <2>. QED
    BY <1>1, <2>1, <2>2, <2>3, <2>4 DEF Till
<1>2. CASE Dashboard
  BY <1>2, DashboardBoundsInv, DashboardYesterdayInv, DashboardTodayInv,
     DashboardYdayInv, DashboardHoursInv, DashboardTrendStartInv,
     DashboardTrendInv DEF Dashboard
<1>3. CASE Sales
  BY <1>3, SalesWindowInv, SalesGrossInv, SalesSplitInv, SalesSeriesInv DEF Sales
<1>4. CASE Accountability
  BY <1>4, AccountabilityCreditInv, AccountabilityOrdersInv,
     AccountabilityUnpaidInv, AccountabilityDebtsInv DEF Accountability
<1>5. CASE UNCHANGED booksVars
  <2>1. UNCHANGED <<now, orders, payments, debts, tasks, report, quiet>>
    BY <1>5 DEF booksVars
  <2>2. quiet' \in BOOLEAN /\ report' \in Report
    BY <2>1, Known
  <2>3. /\ DashboardSoFar' /\ SalesSoFar' /\ AccountabilitySoFar'
    BY <2>1 DEF IInv, DashboardSoFar, SalesSoFar, AccountabilitySoFar
  <2>. QED
    BY <2>1, <2>2, <2>3, QueryStep
<1>. QED
  BY <1>1, <1>2, <1>3, <1>4, <1>5, TickInv, AnswerInv DEF Next

THEOREM Invariant == Spec => []IInv
BY InitInv, NextInv, PTL DEF Spec

\* Every table and every figure keeps its type, and no debt is repaid beyond
\* its amount.
THEOREM TypeCorrect == Spec => []TypeOK
BY Invariant, PTL DEF IInv

\* The figures of a dashboard that nothing crossed are the takings of the
\* restaurant's days, whatever the offset from UTC; and a sales report's split
\* misses nothing that its gross counted, whatever crossed it.
THEOREM FiguresAreTrue == Spec => []FiguresAreOfLocalDays
<1>1. IInv => FiguresAreOfLocalDays
  <2>. SUFFICES ASSUME IInv PROVE DashboardIsTrue /\ SalesAddUp
    BY DEF FiguresAreOfLocalDays
  <2>1. LastStep["dashboard"] = 6 /\ LastStep["sales"] = 3
    BY DEF LastStep
  <2>2. DashboardIsTrue
    BY <2>1, TakingsIs DEF IInv, DashboardSoFar, DashboardIsTrue, Made
  <2>3. SalesAddUp
    BY <2>1, TakingsIs DEF IInv, SalesSoFar, SalesAddUp, Made
  <2>. QED
    BY <2>2, <2>3
<1>. QED
  BY <1>1, Invariant, PTL

\* What is lent on the orders of a set, by the database's words.
LEMMA LentIs ==
  /\ \A o : LentOn(o) = LentFor(debts, o)
  /\ \A S : UNION {Outstanding(o) : o \in S} = LentTo(debts, S)
<1>1. \A o : Outstanding(o) = {d \in DebtIds : debts[d].order = o
                                               /\ debts[d].status = "outstanding"}
  BY DEF Outstanding
<1>2. \A o : LentOn(o) = LentFor(debts, o)
  BY <1>1, OwedIs DEF LentOn, LentFor
<1>3. ASSUME NEW S
      PROVE  UNION {Outstanding(o) : o \in S} = LentTo(debts, S)
  BY <1>1 DEF LentTo
<1>. QED
  BY <1>2, <1>3

\* Of an accountability report that nothing crossed: each order it saw counts
\* once, for what it lacks or what was lent on it, and each other debt for what
\* is owed on it.
LEMMA CountedOnce ==
  ASSUME IInv, Made("accountability"), quiet
  PROVE  LET inside == Inside(report.seen)
             since == {d \in DebtIds : /\ debts[d].order # 0
                                       /\ debts[d].at >= report.from}
         IN  report.unpaid + report.outstanding =
               SumOver(Counted(orders, payments, debts), inside)
                 + OwedIn(debts, since \ LentTo(debts, inside))
<1>. DEFINE inside == Inside(report.seen)
            within == LentTo(debts, inside)
            since == {d \in DebtIds : /\ debts[d].order # 0
                                      /\ debts[d].at >= report.from}
            others == since \ within
<1>1. report.kind = "accountability" /\ report.step = 3
  BY DEF Made, LastStep
<1>2. /\ \A o \in OrderIds :
           IF orders[o].status = "open" /\ orders[o].at >= report.from
           THEN report.seen[o] = orders[o] ELSE report.seen[o].status = "none"
      /\ report.unpaid + OwedIn(debts, within)
           = SumOver(Counted(orders, payments, debts), inside)
      /\ report.outstanding = OwedIn(debts, since)
  BY <1>1 DEF IInv, AccountabilitySoFar, OwedSince
<1>3. within \in SUBSET since
  <2>1. ASSUME NEW d \in DebtIds, debts[d].order \in inside
        PROVE  debts[d].order # 0 /\ debts[d].at >= report.from
    <3>. DEFINE o == debts[d].order
    <3>1. o \in OrderIds /\ report.seen[o].status = "open"
      BY <2>1 DEF Inside
    <3>2. o # 0 /\ orders[o].at >= report.from
      BY <1>2, <3>1 DEF OrderIds
    <3>3. orders[o].at <= debts[d].at
      BY <3>2, Known DEF Dated
    <3>4. orders[o].at \in Int /\ debts[d].at \in Int /\ report.from \in Int
      BY <3>1, Known DEF OrderRow, DebtTable, DebtRow
    <3>. QED
      BY <3>2, <3>3, <3>4
  <2>. QED
    BY <2>1 DEF LentTo
<1>4. /\ since = within \cup others /\ within \cap others = {}
      /\ since \in SUBSET DebtIds /\ within \in SUBSET DebtIds
      /\ others \in SUBSET DebtIds
  BY <1>3
<1>5. OwedIn(debts, since) = OwedIn(debts, within) + OwedIn(debts, others)
  <2>. DEFINE f == OwedOf(debts)
  <2>1. \A d \in DebtIds : f[d] \in Nat
    BY Known, OwedTyped
  <2>. HIDE DEF since, within, others, f
  <2>2. IsFiniteSet(within) /\ IsFiniteSet(others)
    BY <1>4, RowsFinite
  <2>3. \A d \in within \cup others : f[d] \in Nat
    BY <1>4, <2>1
  <2>4. SumOver(f, within \cup others) = SumOver(f, within) + SumOver(f, others)
    BY <1>4, <2>2, <2>3, SumUnion
  <2>. QED
    BY <1>4, <2>4 DEF OwedIn, f
<1>6. /\ report.unpaid \in Nat /\ OwedIn(debts, within) \in Nat
      /\ OwedIn(debts, others) \in Nat
  <2>1. report.unpaid \in Nat
    BY Known DEF Report
  <2>. HIDE DEF within, others, since
  <2>. QED
    BY <1>4, <2>1, Known, OwedSum
<1>7. report.unpaid + report.outstanding
        = SumOver(Counted(orders, payments, debts), inside) + OwedIn(debts, others)
  <2>. HIDE DEF inside, others, within, since
  <2>. QED
    BY <1>2, <1>5, <1>6
<1>. QED
  BY <1>7

\* Where the till lent no more than was lacking, an order counts for what it
\* lacks.
LEMMA LackingOnly ==
  ASSUME IInv, NEW S \in SUBSET OrderIds,
         \A o \in S : PaidFor(payments, o) + LentFor(debts, o) <= orders[o].total
  PROVE  SumOver(Counted(orders, payments, debts), S)
           = SumOver([o \in OrderIds |-> orders[o].total - PaidOn(o)], S)
<1>. DEFINE f == Counted(orders, payments, debts)
            g == [o \in OrderIds |-> orders[o].total - PaidOn(o)]
<1>1. ASSUME NEW o \in S
      PROVE  f[o] = g[o]
  <2>. DEFINE total == orders[o].total
              paid == PaidFor(payments, o)
              lent == LentFor(debts, o)
  <2>1. total \in Nat /\ paid \in Nat /\ lent \in Nat /\ paid + lent <= total
    BY Known, SumsTyped DEF OrderRow
  <2>2. f[o] = Larger(AtLeastZero(total - paid), lent) /\ g[o] = total - paid
    BY PaidIs DEF Counted
  <2>. HIDE DEF total, paid, lent, f, g
  <2>. QED
    BY <2>1, <2>2 DEF Larger, AtLeastZero
<1>2. \A o \in S : f[o] = g[o]
  BY <1>1
<1>. HIDE DEF f, g
<1>3. SumOver(f, S) = SumOver(g, S)
  BY <1>2, SumSame
<1>. QED
  BY <1>3 DEF f, g

\* Where a settled debt owes nothing, the others are those of orders outside.
LEMMA OutsideOnly ==
  ASSUME IInv, NEW S \in SUBSET OrderIds, NEW D \in SUBSET DebtIds,
         \A d \in D : debts[d].order # 0,
         \A d \in D : debts[d].status = "settled" => Owed(d) = 0
  PROVE  OwedIn(debts, D \ LentTo(debts, S))
           = OwedIn(debts, {d \in D : debts[d].order \notin S})
<1>. DEFINE A == D \ LentTo(debts, S)
            B == {d \in D : debts[d].order \notin S}
            f == OwedOf(debts)
<1>1. B \in SUBSET A
  BY DEF LentTo
<1>2. ASSUME NEW d \in A \ B
      PROVE  f[d] = 0
  <2>1. d \in DebtIds /\ d \in D /\ debts[d].order \in S
    OBVIOUS
  <2>2. debts[d].status # "outstanding"
    BY <2>1 DEF LentTo
  <2>3. debts[d].status \in {"none", "outstanding", "settled"}
    BY <2>1, Known DEF DebtTable, DebtRow
  <2>4. debts[d].status # "none"
    BY <2>1, Known DEF Dated
  <2>5. Owed(d) = 0
    BY <2>1, <2>2, <2>3, <2>4
  <2>. QED
    BY <2>1, <2>5 DEF OwedOf, Owed
<1>3. \A d \in A \ B : f[d] = 0
  BY <1>2
<1>. HIDE DEF A, B, f
<1>4. SumOver(f, A) = SumOver(f, B)
  BY <1>1, <1>3, SumWhere
<1>. QED
  BY <1>4 DEF OwedIn, A, B, f

\* In an accountability report that nothing crossed, whatever overlapped
\* before it, an order of the window counts once, for what it lacks or what was
\* lent on it, and every other debt for what is owed on it; where no order was
\* lent more than it lacked and no debt settled short, that is what the orders
\* lack and what is owed on the orders outside.
THEOREM EachShillingOnce == Spec => []MoneyInOneColumn
<1>1. IInv => MoneyInOneColumn
  <2>. SUFFICES ASSUME IInv, Made("accountability"), quiet
                PROVE  MoneyInOneColumn
    BY DEF MoneyInOneColumn
  <2>. DEFINE inside == Inside(report.seen)
              since == {d \in DebtIds : /\ debts[d].order # 0
                                        /\ debts[d].at >= report.from}
              counted == LentTo(debts, inside)
              outside == {d \in since : debts[d].order \notin inside}
              columns == report.unpaid + report.outstanding
              lacking == SumOver([o \in OrderIds |-> orders[o].total - PaidOn(o)],
                                 inside)
  <2>1. columns = SumOver(Counted(orders, payments, debts), inside)
                    + OwedIn(debts, since \ counted)
    BY CountedOnce
  <2>2. SumOver([o \in OrderIds |-> Exposure(o)], inside)
          = SumOver(Counted(orders, payments, debts), inside)
    <3>1. [o \in OrderIds |-> Exposure(o)] = Counted(orders, payments, debts)
      BY PaidIs, LentIs DEF Exposure, Counted, Larger
    <3>. QED
      BY <3>1
  <2>3. SumOwed(since \ counted) = OwedIn(debts, since \ counted)
        /\ SumOwed(outside) = OwedIn(debts, outside)
    BY OwedIs
  <2>4. inside \in SUBSET OrderIds /\ since \in SUBSET DebtIds
    BY DEF Inside
  <2>5. ASSUME \A o \in inside : PaidOn(o) + LentOn(o) <= orders[o].total,
               \A d \in since : debts[d].status = "settled" => Owed(d) = 0
        PROVE  columns = lacking + SumOwed(outside)
    <3>1. \A o \in inside :
            PaidFor(payments, o) + LentFor(debts, o) <= orders[o].total
      BY <2>5, PaidIs, LentIs
    <3>2. SumOver(Counted(orders, payments, debts), inside) = lacking
      <4>. HIDE DEF inside
      <4>. QED
        BY <2>4, <3>1, LackingOnly
    <3>3. \A d \in since : debts[d].order # 0
      OBVIOUS
    <3>4. OwedIn(debts, since \ counted) = OwedIn(debts, outside)
      <4>. HIDE DEF inside, since
      <4>. QED
        BY <2>4, <2>5, <3>3, OutsideOnly
    <3>. QED
      BY <2>1, <2>3, <3>2, <3>4
  <2>6. counted = UNION {Outstanding(o) : o \in inside}
    BY LentIs
  <2>7. inside = {o \in OrderIds : report.seen[o].status = "open"}
    BY DEF Inside
  <2>8. columns = SumOver([o \in OrderIds |-> Exposure(o)], inside)
                    + SumOwed(since \ counted)
    BY <2>1, <2>2, <2>3
  <2>. HIDE DEF inside, counted
  <2>. QED
    BY <2>5, <2>6, <2>7, <2>8 DEF MoneyInOneColumn
<1>. QED
  BY <1>1, Invariant, PTL

=============================================================================
