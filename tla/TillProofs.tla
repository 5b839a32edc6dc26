----------------------------- MODULE TillProofs -----------------------------
(***************************************************************************)
(* Machine-checked facts about Till for every number of requests, orders   *)
(* and debts and every amount: what stale copies cannot break and, where   *)
(* requests do not overlap, the account that the till keeps of an order.   *)
(***************************************************************************)
EXTENDS Till, SumTheorems, TLAPS

-----------------------------------------------------------------------------
(* The inductive invariant.                                                *)

\* A row that is not there has collected nothing, and "unpaid" is exactly
\* the mark of an order that has collected nothing.
OrdersInv ==
  \A o \in OrderIds :
    /\ ~ Placed(o) => orders[o].pay = "unpaid" /\ payments[o] = 0
    /\ orders[o].pay = "unpaid" <=> payments[o] = 0
    /\ orders[o].pay = "paid" => payments[o] >= orders[o].total

DebtsInv ==
  \A d \in DebtIds :
    /\ debts[d].paid <= collected[d]
    /\ debts[d].paid <= debts[d].amount
    /\ debts[d].status = "outstanding" /\ debts[d].amount > 0
         => debts[d].paid < debts[d].amount
    /\ debts[d].status # "none" => Placed(debts[d].order)

\* What the payments of session q come to once its own is flushed.
Counted(q) == IF q.credit THEN q.seen ELSE q.seen + q.amount

\* A session on an order: its copies may be old, but an order's total never
\* changes and its payments never shrink.
OrderCopy(q) ==
  /\ q.order \in OrderIds /\ Placed(q.order)
  /\ q.row.total = orders[q.order].total
  /\ q.row.status # "none" /\ q.new.status # "none"
  /\ q.seen <= payments[q.order]
  /\ q.row.pay = "unpaid" <=> q.seen = 0

\* A repayment: the debt's paid_cents was backed when it was loaded.
DebtCopy(q) ==
  /\ q.debt \in DebtIds /\ debts[q.debt].status # "none"
  /\ q.copy.amount = debts[q.debt].amount
  /\ q.copy.paid <= collected[q.debt]
  /\ q.amount > 0 /\ q.copy.paid + q.amount <= q.copy.amount

Session(q) ==
  /\ q.pc \in OnOrder => OrderCopy(q)
  /\ q.pc \in {"patch", "cancel"} => q.new.pay = q.row.pay
  /\ q.pc = "flushed" => q.new.pay = StatusFor(q.row.total, Counted(q))
  /\ q.pc = "place" => q.new.pay = "unpaid" /\ q.new.status # "none"
  /\ q.pc = "repay" => DebtCopy(q)
  /\ q.pc \in {"pay", "accepted", "flushed"} => q.amount \in Amounts

IInv == TypeOK /\ OrdersInv /\ DebtsInv /\ \A p \in Requests : Session(proc[p])

-----------------------------------------------------------------------------
(* Helpers.                                                                *)

LEMMA IdleType == Idle \in Process /\ Idle.pc \notin OnOrder
BY DEF Idle, Process, Points, NoOrder, NoDebt, OrderRow, DebtRow, OrderStatus,
       PaymentStatus, OnOrder

\* An order's total and a request's amount are natural numbers.
LEMMA AtLeastZeroNat == \A n \in Int : AtLeastZero(n) \in Nat
BY DEF AtLeastZero

LEMMA StatusForFacts ==
  ASSUME NEW total \in Nat, NEW paid \in Nat
  PROVE  /\ StatusFor(total, paid) \in PaymentStatus
         /\ StatusFor(total, paid) = "unpaid" <=> paid = 0
         /\ StatusFor(total, paid) = "paid" => paid >= total
BY DEF StatusFor, PaymentStatus

LEMMA WrittenType ==
  ASSUME NEW loaded \in OrderRow, NEW new \in OrderRow, NEW row \in OrderRow
  PROVE  Written(loaded, new, row) \in OrderRow
BY DEF Written, OrderRow

\* A session as _get_scoped_order leaves it.
LEMMA LoadFacts ==
  ASSUME IInv, NEW p \in Requests, NEW o \in OrderIds, Placed(o),
         NEW pc \in Points
  PROVE  /\ Load(p, o, pc) \in Process
         /\ OrderCopy(Load(p, o, pc))
         /\ Load(p, o, pc).pc = pc
         /\ Load(p, o, pc).new = orders[o] /\ Load(p, o, pc).row = orders[o]
<1>1. orders[o] \in OrderRow /\ payments[o] \in Nat /\ o \in Nat
  BY DEF IInv, TypeOK, OrderIds
<1>2. /\ Load(p, o, pc).order = o /\ Load(p, o, pc).row = orders[o]
      /\ Load(p, o, pc).new = orders[o] /\ Load(p, o, pc).pc = pc
      /\ Load(p, o, pc).seen = payments[o]
  BY DEF Load, Idle
<1>3. Load(p, o, pc) \in Process
  BY <1>1, IdleType DEF Load, Process, Idle
<1>4. orders[o].pay = "unpaid" <=> payments[o] = 0
  BY DEF IInv, OrdersInv
<1>. QED
  BY <1>1, <1>2, <1>3, <1>4 DEF OrderCopy, Placed

\* A step that only changes one request's own state.
LEMMA LocalStep ==
  ASSUME IInv, NEW p \in Requests, NEW v \in Process, Session(v),
         proc' = [proc EXCEPT ![p] = v],
         UNCHANGED <<orders, payments, debts, collected>>
  PROVE  IInv'
<1>1. proc' \in [Requests -> Process]
  BY DEF IInv, TypeOK
<1>2. \A q \in Requests : proc'[q] = proc[q] \/ proc'[q] = v
  BY DEF IInv, TypeOK
<1>3. \A q \in Requests : Session(proc'[q])
  BY <1>2 DEF IInv
<1>4. \A q : Session(q) => Session(q)'
  BY DEF Session, OrderCopy, DebtCopy, Placed
<1>5. \A q \in Requests : /\ proc'[q].pc \in OnOrder => proc'[q].order \in OrderIds
                          /\ proc'[q].pc = "repay" => proc'[q].debt \in DebtIds
  BY <1>3 DEF Session, OrderCopy, DebtCopy
<1>6. TypeOK'
  BY <1>1, <1>5 DEF IInv, TypeOK
<1>7. OrdersInv' /\ DebtsInv'
  BY DEF IInv, OrdersInv, DebtsInv, Placed
<1>8. (\A q \in Requests : Session(proc[q]))'
  BY <1>3, <1>4
<1>. QED
  BY <1>6, <1>7, <1>8 DEF IInv

\* What no commit ever undoes.
Grows ==
  /\ \A o \in OrderIds :
       /\ payments'[o] >= payments[o]
       /\ orders[o].status # "none" =>
            orders'[o].status # "none" /\ orders'[o].total = orders[o].total
  /\ \A d \in DebtIds :
       /\ collected'[d] >= collected[d]
       /\ debts[d].status # "none" =>
            debts'[d].status # "none" /\ debts'[d].amount = debts[d].amount

\* A commit that ends request p leaves the other sessions in order.
LEMMA SharedStep ==
  ASSUME IInv, NEW p \in Requests, Finish(p), Grows,
         orders' \in [OrderIds -> OrderRow], payments' \in [OrderIds -> Nat],
         debts' \in [DebtIds -> DebtRow], collected' \in [DebtIds -> Nat],
         \A d \in DebtIds : debts'[d].status # "none" => debts'[d].order \in OrderIds,
         OrdersInv', DebtsInv'
  PROVE  IInv'
<1>1. proc' \in [Requests -> Process]
  BY IdleType DEF IInv, TypeOK, Finish
<1>2. \A q \in Requests : proc'[q] = proc[q] \/ proc'[q] = Idle
  BY DEF IInv, TypeOK, Finish
<1>3. \A q \in Process : OrderCopy(q) => OrderCopy(q)'
  BY DEF OrderCopy, Placed, Grows, IInv, TypeOK, Process, OrderRow
<1>4. \A q \in Process : DebtCopy(q) => DebtCopy(q)'
  BY DEF DebtCopy, Grows, IInv, TypeOK, Process, DebtRow
<1>5. \A q \in Requests : Session(proc[q])'
  <2>. SUFFICES ASSUME NEW q \in Requests PROVE Session(proc[q])'
    OBVIOUS
  <2>1. CASE proc'[q] = Idle
    BY <2>1, IdleType DEF Session, Idle, OnOrder
  <2>2. CASE proc'[q] = proc[q]
    <3>1. Session(proc[q]) /\ proc[q] \in Process
      BY DEF IInv, TypeOK
    <3>2. /\ proc[q].pc \in OnOrder => OrderCopy(proc[q])'
          /\ proc[q].pc = "repay" => DebtCopy(proc[q])'
      BY <2>2, <3>1, <1>3, <1>4 DEF Session, OrderCopy, DebtCopy, Placed
    <3>. QED
      BY <2>2, <3>1, <3>2 DEF Session
  <2>. QED
    BY <1>2, <2>1, <2>2
<1>6. \A q \in Requests : /\ proc'[q].pc \in OnOrder => proc'[q].order \in OrderIds
                          /\ proc'[q].pc = "repay" => proc'[q].debt \in DebtIds
  BY <1>5 DEF Session, OrderCopy, DebtCopy
<1>7. TypeOK'
  BY <1>1, <1>6 DEF TypeOK
<1>. QED
  BY <1>5, <1>7 DEF IInv

-----------------------------------------------------------------------------
(* Steps before a commit.                                                  *)

LEMMA StartSteps ==
  ASSUME IInv, NEW p \in Requests, Arrive(p)
  PROVE  IInv'
<1>1. ASSUME NEW s \in Subtotals, NEW t \in Discounts, PlaceStart(p, s, t)
      PROVE  IInv'
  <2>. DEFINE new == [status |-> "pending", pay |-> "unpaid",
                      total |-> AtLeastZero(s - t)]
              v == [Idle EXCEPT !.pc = "place", !.new = new]
  <2>1. new \in OrderRow /\ new.pay = "unpaid" /\ new.status # "none"
    BY TillAssumption, AtLeastZeroNat DEF OrderRow, OrderStatus, PaymentStatus
  <2>2. proc' = [proc EXCEPT ![p] = v]
        /\ UNCHANGED <<orders, payments, debts, collected>>
    BY <1>1 DEF PlaceStart
  <2>. HIDE DEF new
  <2>3. v \in Process /\ v.pc = "place" /\ v.new = new
    BY <2>1, IdleType DEF Idle, Process, Points
  <2>4. Session(v)
    BY <2>1, <2>3 DEF Session, OnOrder
  <2>. QED
    BY <2>2, <2>3, <2>4, LocalStep
<1>2. ASSUME NEW o \in OrderIds, NEW s \in OrderStatus, PatchStart(p, o, s)
      PROVE  IInv'
  <2>. DEFINE w == Load(p, o, "patch")
              v == [w EXCEPT !.new.status = s]
  <2>1. w \in Process /\ OrderCopy(w) /\ w.pc = "patch" /\ w.new = w.row
    BY <1>2, LoadFacts DEF PatchStart, Points
  <2>2. proc' = [proc EXCEPT ![p] = v]
        /\ UNCHANGED <<orders, payments, debts, collected>>
    BY <1>2 DEF PatchStart
  <2>. HIDE DEF w
  <2>3. v \in Process
    BY <2>1 DEF Process, OrderRow
  <2>4. OrderCopy(v)
    BY <2>1 DEF OrderCopy, Process, OrderRow, OrderStatus
  <2>5. v.pc = "patch" /\ v.new.pay = v.row.pay
    BY <2>1 DEF Process, OrderRow
  <2>6. Session(v)
    BY <2>4, <2>5 DEF Session
  <2>. QED
    BY <2>2, <2>3, <2>6, LocalStep
<1>3. ASSUME NEW o \in OrderIds, NEW a \in Amounts, NEW credit \in BOOLEAN,
             PayStart(p, o, a, credit)
      PROVE  IInv'
  <2>. DEFINE w == Load(p, o, "pay")
              v == [w EXCEPT !.amount = a, !.credit = credit]
  <2>1. w \in Process /\ OrderCopy(w) /\ w.pc = "pay"
    BY <1>3, LoadFacts DEF PayStart, Points
  <2>2. proc' = [proc EXCEPT ![p] = v]
        /\ UNCHANGED <<orders, payments, debts, collected>>
    BY <1>3 DEF PayStart
  <2>. HIDE DEF w
  <2>3. v \in Process /\ v.pc = "pay" /\ v.amount \in Amounts
    BY <2>1, TillAssumption DEF Process
  <2>4. OrderCopy(v)
    BY <2>1 DEF OrderCopy, Process
  <2>5. Session(v)
    BY <2>3, <2>4 DEF Session
  <2>. QED
    BY <2>2, <2>3, <2>5, LocalStep
<1>4. ASSUME NEW o \in OrderIds, CancelStart(p, o)
      PROVE  IInv'
  <2>. DEFINE w == Load(p, o, "cancel")
              v == [w EXCEPT !.new.status = "cancelled"]
  <2>1. w \in Process /\ OrderCopy(w) /\ w.pc = "cancel" /\ w.new = w.row
    BY <1>4, LoadFacts DEF CancelStart, Points
  <2>2. proc' = [proc EXCEPT ![p] = v]
        /\ UNCHANGED <<orders, payments, debts, collected>>
    BY <1>4 DEF CancelStart
  <2>. HIDE DEF w
  <2>3. v \in Process
    BY <2>1 DEF Process, OrderRow, OrderStatus
  <2>4. OrderCopy(v)
    BY <2>1 DEF OrderCopy, Process, OrderRow
  <2>5. v.pc = "cancel" /\ v.new.pay = v.row.pay
    BY <2>1 DEF Process, OrderRow
  <2>6. Session(v)
    BY <2>4, <2>5 DEF Session
  <2>. QED
    BY <2>2, <2>3, <2>6, LocalStep
<1>5. ASSUME NEW d \in DebtIds, NEW a \in Amounts, RepayStart(p, d, a)
      PROVE  IInv'
  <2>. DEFINE o == debts[d].order
              w == Load(p, o, "repay")
              v == [w EXCEPT !.debt = d, !.copy = debts[d], !.amount = a]
  <2>0. debts[d] \in DebtRow /\ collected[d] \in Nat /\ d \in Nat /\ a \in Nat
    BY TillAssumption DEF IInv, TypeOK, DebtIds
  <2>1. /\ debts[d].status = "outstanding" /\ o \in OrderIds
        /\ debts[d].paid <= collected[d]
        /\ a > 0 /\ a <= AtLeastZero(debts[d].amount - debts[d].paid)
    BY <1>5 DEF RepayStart, IInv, TypeOK, DebtsInv
  <2>2. a > 0 /\ debts[d].paid + a <= debts[d].amount
    BY <2>0, <2>1 DEF AtLeastZero, DebtRow
  <2>3. Placed(o)
    BY <2>1 DEF IInv, DebtsInv
  <2>4. w \in Process /\ OrderCopy(w) /\ w.pc = "repay"
    BY <2>1, <2>3, LoadFacts DEF Points
  <2>5. proc' = [proc EXCEPT ![p] = v]
        /\ UNCHANGED <<orders, payments, debts, collected>>
    BY <1>5 DEF RepayStart
  <2>. HIDE DEF w, o
  <2>6. v \in Process /\ v.pc = "repay"
    BY <2>0, <2>4 DEF Process
  <2>7. OrderCopy(v)
    BY <2>4 DEF OrderCopy, Process
  <2>8. DebtCopy(v)
    BY <2>0, <2>1, <2>2, <2>4 DEF DebtCopy, Process
  <2>9. Session(v)
    BY <2>6, <2>7, <2>8 DEF Session
  <2>. QED
    BY <2>5, <2>6, <2>9, LocalStep
<1>. QED
  BY <1>1, <1>2, <1>3, <1>4, <1>5 DEF Arrive

LEMMA PayStep ==
  ASSUME IInv, NEW p \in Requests, PayAccept(p) \/ PayFlush(p)
  PROVE  IInv'
<1>. DEFINE q == proc[p]
<1>0. q \in Process /\ Session(q)
  BY DEF IInv, TypeOK
<1>1. CASE PayAccept(p)
  <2>. DEFINE v == [q EXCEPT !.pc = "accepted"]
  <2>1. q.pc = "pay" /\ OrderCopy(q) /\ q.amount \in Amounts
    BY <1>0, <1>1 DEF PayAccept, Session, OnOrder
  <2>2. proc' = [proc EXCEPT ![p] = v]
        /\ UNCHANGED <<orders, payments, debts, collected>>
    BY <1>1 DEF PayAccept, IInv, TypeOK
  <2>. HIDE DEF q
  <2>3. v \in Process /\ v.pc = "accepted" /\ v.amount = q.amount
    BY <1>0 DEF Process, Points
  <2>4. OrderCopy(v)
    BY <1>0, <2>1 DEF OrderCopy, Process
  <2>5. Session(v)
    BY <2>1, <2>3, <2>4 DEF Session
  <2>. QED
    BY <2>2, <2>3, <2>5, LocalStep
<1>2. CASE PayFlush(p)
  <2>. DEFINE pay == StatusFor(q.row.total, Counted(q))
  <2>1. q.pc = "accepted" /\ OrderCopy(q) /\ q.amount \in Amounts
    BY <1>0, <1>2 DEF PayFlush, Session, OnOrder
  <2>2. PICK status \in {"completed", q.row.status} :
          /\ proc' = [proc EXCEPT ![p].pc = "flushed",
               ![p].new = [status |-> status, pay |-> pay,
                           total |-> q.row.total]]
          /\ UNCHANGED <<orders, payments, debts, collected>>
    BY <1>2 DEF PayFlush, Counted
  <2>. DEFINE new == [status |-> status, pay |-> pay, total |-> q.row.total]
              v == [q EXCEPT !.pc = "flushed", !.new = new]
  <2>3. proc' = [proc EXCEPT ![p] = v]
    BY <2>2 DEF IInv, TypeOK
  <2>4. q.row.total \in Nat /\ Counted(q) \in Nat
    BY <1>0 DEF Counted, Process, OrderRow
  <2>5. pay \in PaymentStatus
    BY <2>4, StatusForFacts
  <2>6. new \in OrderRow
    BY <1>0, <2>2, <2>4, <2>5 DEF Process, OrderRow, OrderStatus
  <2>7. new.status # "none" /\ new.pay = pay
    BY <2>1, <2>2 DEF OrderCopy
  <2>. HIDE DEF q, pay, new
  <2>8. v \in Process
    BY <1>0, <2>6 DEF Process, Points
  <2>9. /\ v.pc = "flushed" /\ v.new = new /\ v.amount = q.amount
        /\ v.row = q.row /\ Counted(v) = Counted(q)
    BY <1>0 DEF Process, Counted
  <2>10. OrderCopy(v)
    BY <1>0, <2>1, <2>7 DEF OrderCopy, Process
  <2>11. Session(v)
    BY <2>1, <2>7, <2>9, <2>10 DEF Session, pay
  <2>. QED
    BY <2>2, <2>3, <2>8, <2>11, LocalStep
<1>. QED
  BY <1>1, <1>2

LEMMA QuitStep ==
  ASSUME IInv, NEW p \in Requests, PayRefuse(p) \/ Abandon(p)
  PROVE  IInv'
<1>1. proc' = [proc EXCEPT ![p] = Idle]
      /\ UNCHANGED <<orders, payments, debts, collected>>
  BY DEF PayRefuse, Abandon, Finish
<1>2. Session(Idle)
  BY IdleType DEF Session, Idle, OnOrder
<1>. QED
  BY <1>1, <1>2, IdleType, LocalStep

-----------------------------------------------------------------------------
(* Commits.                                                                *)

\* The order row a commit writes keeps its total, and is marked by the money
\* on it: what the session counted, or what the row already said.
LEMMA SaveFacts ==
  ASSUME IInv, NEW q \in Process, OrderCopy(q), NEW new \in OrderRow,
         new.status # "none", NEW paid \in Nat, paid >= q.seen,
         NEW money \in Nat, money >= payments[q.order], money >= paid,
         money = 0 \/ paid > 0 \/ payments[q.order] > 0,
         \/ new.pay = StatusFor(q.row.total, paid)
         \/ new.pay = q.row.pay /\ paid = q.seen
  PROVE  LET row == Written(q.row, new, orders[q.order]) IN
         /\ row \in OrderRow /\ row.status # "none"
         /\ row.total = orders[q.order].total
         /\ row.pay = "unpaid" <=> money = 0
         /\ row.pay = "paid" => money >= row.total
<1>. DEFINE o == q.order  row == Written(q.row, new, orders[o])
<1>1. /\ o \in OrderIds /\ orders[o] \in OrderRow /\ payments[o] \in Nat
      /\ q.row \in OrderRow /\ q.seen \in Nat
  BY DEF IInv, TypeOK, OrderCopy, Process
<1>2. row \in OrderRow /\ row.status # "none" /\ row.total = orders[o].total
  BY <1>1, WrittenType DEF Written, OrderCopy, Placed
<1>3. /\ orders[o].pay = "unpaid" <=> payments[o] = 0
      /\ orders[o].pay = "paid" => payments[o] >= orders[o].total
      /\ q.seen <= payments[o] /\ q.row.total = orders[o].total
      /\ q.row.pay = "unpaid" <=> q.seen = 0
  BY <1>1 DEF IInv, OrdersInv, OrderCopy
<1>4. q.row.total \in Nat
  BY <1>1 DEF OrderRow
<1>5. CASE new.pay = q.row.pay
  <2>1. row.pay = orders[o].pay
    BY <1>5 DEF Written
  <2>2. new.pay = StatusFor(q.row.total, paid) => (new.pay = "unpaid" <=> paid = 0)
    BY <1>4, StatusForFacts
  <2>3. payments[o] = 0 => money = 0
    BY <1>1, <1>3, <1>5, <2>2
  <2>. QED
    BY <1>1, <1>2, <1>3, <2>1, <2>3 DEF OrderRow
<1>6. CASE new.pay # q.row.pay
  <2>1. row.pay = new.pay
    BY <1>6 DEF Written
  <2>2. new.pay = StatusFor(q.row.total, paid)
    BY <1>6
  <2>3. /\ new.pay = "unpaid" <=> paid = 0
        /\ new.pay = "paid" => paid >= q.row.total
    BY <1>4, <2>2, StatusForFacts
  <2>4. paid # 0
    BY <1>1, <1>3, <1>6, <2>3
  <2>. QED
    BY <1>1, <1>2, <1>3, <1>4, <2>1, <2>3, <2>4
<1>. QED
  BY <1>5, <1>6

LEMMA PlaceCommitStep ==
  ASSUME IInv, NEW p \in Requests, NEW o \in OrderIds, PlaceCommit(p, o)
  PROVE  IInv'
<1>. DEFINE new == proc[p].new
<1>1. proc[p] \in Process /\ Session(proc[p]) /\ proc[p].pc = "place"
  BY DEF IInv, TypeOK, PlaceCommit
<1>2. new \in OrderRow /\ new.pay = "unpaid" /\ new.status # "none"
  BY <1>1 DEF Process, Session
<1>3. /\ ~ Placed(o) /\ orders' = [orders EXCEPT ![o] = new] /\ Finish(p)
      /\ UNCHANGED <<payments, debts, collected>>
  BY DEF PlaceCommit
<1>. HIDE DEF new
<1>4. orders' \in [OrderIds -> OrderRow] /\ orders'[o] = new
      /\ \A r \in OrderIds : r # o => orders'[r] = orders[r]
  BY <1>2, <1>3 DEF IInv, TypeOK
<1>5. Grows
  BY <1>2, <1>3, <1>4 DEF Grows, Placed, IInv, TypeOK
<1>6. OrdersInv'
  BY <1>2, <1>3, <1>4 DEF OrdersInv, IInv, Placed
<1>7. DebtsInv'
  BY <1>2, <1>3, <1>4 DEF DebtsInv, IInv, TypeOK, Placed
<1>. QED
  BY <1>3, <1>4, <1>5, <1>6, <1>7, SharedStep DEF IInv, TypeOK

\* A commit on order o leaves the orders in order when its row is marked by
\* the money then on it, and undoes nothing.
OrderCommitted(o) ==
  /\ orders' \in [OrderIds -> OrderRow] /\ payments' \in [OrderIds -> Nat]
  /\ \A r \in OrderIds : r # o => orders'[r] = orders[r]
                                  /\ payments'[r] = payments[r]
  /\ payments'[o] >= payments[o]
  /\ orders'[o].status # "none" /\ orders'[o].total = orders[o].total
  /\ orders'[o].pay = "unpaid" <=> payments'[o] = 0
  /\ orders'[o].pay = "paid" => payments'[o] >= orders'[o].total

OrdersGrow ==
  \A r \in OrderIds :
    /\ payments'[r] >= payments[r]
    /\ orders[r].status # "none" =>
         orders'[r].status # "none" /\ orders'[r].total = orders[r].total

LEMMA OrderCommit ==
  ASSUME IInv, NEW o \in OrderIds, OrderCommitted(o)
  PROVE  OrdersInv' /\ OrdersGrow
<1>1. payments \in [OrderIds -> Nat]
  BY DEF IInv, TypeOK
<1>2. OrdersInv'
  BY <1>1 DEF IInv, OrdersInv, Placed, OrderCommitted
<1>. QED
  BY <1>1, <1>2 DEF OrdersGrow, OrderCommitted

\* update_status and cancel_order change the status alone.
LEMMA StatusCommitStep ==
  ASSUME IInv, NEW p \in Requests, PatchCommit(p) \/ CancelCommit(p)
  PROVE  IInv'
<1>. DEFINE q == proc[p]  o == q.order  row == Written(q.row, q.new, orders[o])
<1>1. /\ q \in Process /\ Session(q) /\ q.pc \in {"patch", "cancel"}
      /\ orders' = [orders EXCEPT ![o] = row] /\ Finish(p)
      /\ UNCHANGED <<payments, debts, collected>>
  BY DEF IInv, TypeOK, PatchCommit, CancelCommit, Save
<1>2. /\ OrderCopy(q) /\ q.new.pay = q.row.pay
      /\ q.new.status # "none" /\ q.new \in OrderRow
  BY <1>1 DEF Session, OnOrder, OrderCopy, Process
<1>3. o \in OrderIds /\ Placed(o) /\ payments[o] \in Nat /\ q.seen \in Nat
      /\ q.seen <= payments[o]
  BY <1>1, <1>2 DEF OrderCopy, IInv, TypeOK, Process
<1>4. q.seen > 0 \/ payments[o] > 0 \/ payments[o] = 0
  BY <1>3
<1>5. /\ row \in OrderRow /\ row.status # "none"
      /\ row.total = orders[o].total
      /\ row.pay = "unpaid" <=> payments[o] = 0
      /\ row.pay = "paid" => payments[o] >= row.total
  BY <1>1, <1>2, <1>3, <1>4, SaveFacts
<1>. HIDE DEF q, row, o
<1>6. OrderCommitted(o)
  BY <1>1, <1>3, <1>5 DEF OrderCommitted, IInv, TypeOK
<1>7. OrdersInv' /\ OrdersGrow
  BY <1>3, <1>6, OrderCommit
<1>8. Grows
  BY <1>1, <1>7 DEF Grows, OrdersGrow, IInv, TypeOK
<1>9. DebtsInv'
  BY <1>1, <1>7 DEF DebtsInv, OrdersGrow, IInv, TypeOK, Placed
<1>. QED
  BY <1>1, <1>6, <1>7, <1>8, <1>9, SharedStep DEF OrderCommitted, IInv, TypeOK

LEMMA PayCommitStep ==
  ASSUME IInv, NEW p \in Requests, PayCommit(p)
  PROVE  IInv'
<1>. DEFINE q == proc[p]  o == q.order  row == Written(q.row, q.new, orders[o])
<1>1. /\ q \in Process /\ Session(q) /\ q.pc = "flushed" /\ ~ q.credit
      /\ orders' = [orders EXCEPT ![o] = row] /\ Finish(p)
      /\ payments' = [payments EXCEPT ![o] = payments[o] + q.amount]
      /\ UNCHANGED <<debts, collected>>
  BY DEF IInv, TypeOK, PayCommit, Save
<1>2. /\ OrderCopy(q) /\ q.new.status # "none" /\ q.new \in OrderRow
      /\ q.new.pay = StatusFor(q.row.total, q.seen + q.amount)
  BY <1>1 DEF Session, OnOrder, OrderCopy, Process, Counted
<1>3. /\ o \in OrderIds /\ Placed(o) /\ payments[o] \in Nat
      /\ q.seen \in Nat /\ q.amount \in Nat /\ q.seen <= payments[o]
  BY <1>1, <1>2 DEF OrderCopy, IInv, TypeOK, Process
<1>. DEFINE paid == q.seen + q.amount  money == payments[o] + q.amount
<1>4. /\ paid \in Nat /\ money \in Nat /\ paid >= q.seen
      /\ money >= payments[o] /\ money >= paid
      /\ money = 0 \/ paid > 0 \/ payments[o] > 0
  BY <1>3
<1>5. /\ row \in OrderRow /\ row.status # "none"
      /\ row.total = orders[o].total
      /\ row.pay = "unpaid" <=> money = 0
      /\ row.pay = "paid" => money >= row.total
  <2>. HIDE DEF money
  <2>. QED
    BY <1>1, <1>2, <1>4, SaveFacts
<1>. HIDE DEF q, row, o
<1>6. OrderCommitted(o)
  BY <1>1, <1>3, <1>4, <1>5 DEF OrderCommitted, IInv, TypeOK
<1>7. OrdersInv' /\ OrdersGrow
  BY <1>3, <1>6, OrderCommit
<1>8. Grows
  BY <1>1, <1>7 DEF Grows, OrdersGrow, IInv, TypeOK
<1>9. DebtsInv'
  BY <1>1, <1>7 DEF DebtsInv, OrdersGrow, IInv, TypeOK, Placed
<1>. QED
  BY <1>1, <1>6, <1>7, <1>8, <1>9, SharedStep DEF OrderCommitted, IInv, TypeOK

LEMMA CreditCommitStep ==
  ASSUME IInv, NEW p \in Requests, NEW d \in DebtIds, CreditCommit(p, d)
  PROVE  IInv'
<1>. DEFINE q == proc[p]  o == q.order  row == Written(q.row, q.new, orders[o])
            debt == [order |-> o, amount |-> q.amount, paid |-> 0,
                     status |-> "outstanding"]
<1>1. /\ q \in Process /\ Session(q) /\ q.pc = "flushed" /\ q.credit
      /\ orders' = [orders EXCEPT ![o] = row] /\ Finish(p)
      /\ debts[d].status = "none"
      /\ debts' = [debts EXCEPT ![d] = debt]
      /\ UNCHANGED <<payments, collected>>
  BY DEF IInv, TypeOK, CreditCommit, Save
<1>2. /\ OrderCopy(q) /\ q.new.status # "none" /\ q.new \in OrderRow
      /\ q.new.pay = StatusFor(q.row.total, q.seen) /\ q.amount \in Amounts
  BY <1>1 DEF Session, OnOrder, OrderCopy, Process, Counted
<1>3. /\ o \in OrderIds /\ o \in Nat /\ Placed(o) /\ payments[o] \in Nat
      /\ q.seen \in Nat /\ q.amount \in Nat /\ q.seen <= payments[o]
      /\ payments[o] = 0 \/ payments[o] > 0
  BY <1>1, <1>2 DEF OrderCopy, IInv, TypeOK, Process, OrderIds
<1>4. /\ row \in OrderRow /\ row.status # "none"
      /\ row.total = orders[o].total
      /\ row.pay = "unpaid" <=> payments[o] = 0
      /\ row.pay = "paid" => payments[o] >= row.total
  BY <1>1, <1>2, <1>3, SaveFacts
<1>5. debt \in DebtRow
  BY <1>3 DEF DebtRow
<1>6. debt.amount > 0 => debt.paid < debt.amount
  BY <1>3
<1>. HIDE DEF q, row, o
<1>7. OrderCommitted(o)
  BY <1>1, <1>3, <1>4 DEF OrderCommitted, IInv, TypeOK
<1>8. OrdersInv' /\ OrdersGrow
  BY <1>3, <1>7, OrderCommit
<1>9. /\ debts' \in [DebtIds -> DebtRow] /\ debts'[d] = debt
      /\ \A e \in DebtIds : e # d => debts'[e] = debts[e]
  BY <1>1, <1>5 DEF IInv, TypeOK
<1>10. Grows
  BY <1>1, <1>8, <1>9 DEF Grows, OrdersGrow, IInv, TypeOK
<1>11. DebtsInv'
  <2>. SUFFICES ASSUME NEW e \in DebtIds
       PROVE /\ debts'[e].paid <= collected'[e]
             /\ debts'[e].paid <= debts'[e].amount
             /\ debts'[e].status = "outstanding" /\ debts'[e].amount > 0
                  => debts'[e].paid < debts'[e].amount
             /\ debts'[e].status # "none" =>
                  orders'[debts'[e].order].status # "none"
    BY DEF DebtsInv, Placed
  <2>1. CASE e = d
    BY <1>1, <1>3, <1>6, <1>8, <1>9, <2>1 DEF OrdersGrow, IInv, TypeOK, Placed
  <2>2. CASE e # d
    BY <1>1, <1>8, <1>9, <2>2 DEF OrdersGrow, IInv, TypeOK, DebtsInv, Placed
  <2>. QED
    BY <2>1, <2>2
<1>12. \A e \in DebtIds : debts'[e].status # "none" => debts'[e].order \in OrderIds
  BY <1>3, <1>9 DEF IInv, TypeOK
<1>. QED
  BY <1>1, <1>7, <1>8, <1>9, <1>10, <1>11, <1>12, SharedStep
  DEF OrderCommitted, IInv, TypeOK

\* The order row of a repayment.
LEMMA RepaidRowFacts ==
  ASSUME IInv, NEW p \in Requests, proc[p].pc = "repay"
  PROVE  LET q == proc[p]  new == RepaidRow(p) IN
         /\ new \in OrderRow /\ new.status # "none"
         /\ new.pay = StatusFor(q.row.total, q.seen + q.amount)
<1>. DEFINE q == proc[p]  new == RepaidRow(p)  seen == q.seen + q.amount
<1>1. /\ OrderCopy(q) /\ q.row \in OrderRow /\ q.row.total \in Nat
      /\ seen \in Nat
  BY DEF IInv, TypeOK, Session, OnOrder, Process, OrderRow
<1>2. StatusFor(q.row.total, seen) \in PaymentStatus
  BY <1>1, StatusForFacts
<1>3. new.status \in {"completed", q.row.status}
      /\ new.pay = StatusFor(q.row.total, seen) /\ new.total = q.row.total
  BY DEF RepaidRow
<1>4. new = [status |-> new.status, pay |-> new.pay, total |-> new.total]
  BY DEF RepaidRow
<1>5. q.row.status # "none"
  BY <1>1 DEF OrderCopy
<1>. HIDE DEF new
<1>6. new.status \in OrderStatus \cup {"none"} /\ new.status # "none"
  BY <1>1, <1>3, <1>5 DEF OrderRow, OrderStatus
<1>. QED
  BY <1>1, <1>2, <1>3, <1>4, <1>6 DEF OrderRow, new

\* pay_debt writes paid_cents from its own copy of the debt: what it writes was
\* backed by collections when it was loaded, and collections only grow.
LEMMA RepayCommitStep ==
  ASSUME IInv, NEW p \in Requests, RepayCommit(p)
  PROVE  IInv'
<1>. DEFINE q == proc[p]  o == q.order  d == q.debt  new == RepaidRow(p)
            row == Written(q.row, new, orders[o])
            paid == q.copy.paid + q.amount
            status == IF AtLeastZero(q.copy.amount - paid) <= 0
                        THEN "settled" ELSE debts[d].status
            money == payments[o] + q.amount
            seen == q.seen + q.amount
<1>1. /\ q \in Process /\ Session(q) /\ q.pc = "repay" /\ Finish(p)
      /\ orders' = [orders EXCEPT ![o] = row]
      /\ payments' = [payments EXCEPT ![o] = money]
      /\ collected' = [collected EXCEPT ![d] = collected[d] + q.amount]
      /\ debts' = [debts EXCEPT ![d].paid = paid, ![d].status = status]
  BY DEF IInv, TypeOK, RepayCommit
<1>2. OrderCopy(q) /\ DebtCopy(q)
  BY <1>1 DEF Session, OnOrder
<1>3. /\ o \in OrderIds /\ Placed(o) /\ payments[o] \in Nat /\ d \in DebtIds
      /\ q.seen \in Nat /\ q.amount \in Nat /\ q.seen <= payments[o]
      /\ q.row \in OrderRow /\ q.copy \in DebtRow
      /\ debts[d] \in DebtRow /\ collected[d] \in Nat
  BY <1>1, <1>2 DEF OrderCopy, DebtCopy, IInv, TypeOK, Process
<1>4. /\ seen \in Nat /\ money \in Nat /\ seen >= q.seen
      /\ money >= payments[o] /\ money >= seen
      /\ money = 0 \/ seen > 0 \/ payments[o] > 0
  BY <1>3
<1>5. /\ new \in OrderRow /\ new.status # "none"
      /\ new.pay = StatusFor(q.row.total, seen)
  BY <1>1, RepaidRowFacts
<1>6. /\ row \in OrderRow /\ row.status # "none"
      /\ row.total = orders[o].total
      /\ row.pay = "unpaid" <=> money = 0
      /\ row.pay = "paid" => money >= row.total
  <2>. HIDE DEF money, seen, new
  <2>. QED
    BY <1>1, <1>2, <1>4, <1>5, SaveFacts
<1>7. /\ paid \in Nat /\ paid <= collected[d] + q.amount
      /\ paid <= debts[d].amount /\ debts[d].amount \in Nat
      /\ status = "outstanding" => paid < debts[d].amount
      /\ status \in {"none", "outstanding", "settled"} /\ status # "none"
      /\ Placed(debts[d].order) /\ debts[d].order \in OrderIds
  <2>1. /\ q.copy.amount = debts[d].amount /\ q.copy.paid <= collected[d]
        /\ paid <= q.copy.amount /\ debts[d].status # "none"
    BY <1>2 DEF DebtCopy
  <2>2. /\ q.copy.paid \in Nat /\ q.copy.amount \in Nat
        /\ debts[d].status \in {"none", "outstanding", "settled"}
    BY <1>3 DEF DebtRow
  <2>3. Placed(debts[d].order) /\ debts[d].order \in OrderIds
    BY <1>3, <2>1 DEF IInv, TypeOK, DebtsInv
  <2>. QED
    BY <1>3, <2>1, <2>2, <2>3 DEF AtLeastZero
<1>. HIDE DEF q, row, o, d, paid, status, money
<1>8. OrderCommitted(o)
  BY <1>1, <1>3, <1>4, <1>6 DEF OrderCommitted, IInv, TypeOK
<1>9. OrdersInv' /\ OrdersGrow
  BY <1>3, <1>8, OrderCommit
<1>10. /\ debts' \in [DebtIds -> DebtRow]
       /\ debts'[d].paid = paid /\ debts'[d].status = status
       /\ debts'[d].amount = debts[d].amount /\ debts'[d].order = debts[d].order
       /\ \A e \in DebtIds : e # d => debts'[e] = debts[e]
  BY <1>1, <1>3, <1>7 DEF IInv, TypeOK, DebtRow
<1>11. /\ collected' \in [DebtIds -> Nat]
       /\ collected'[d] = collected[d] + q.amount
       /\ \A e \in DebtIds : e # d => collected'[e] = collected[e]
  BY <1>1, <1>3 DEF IInv, TypeOK
<1>12. Grows
  BY <1>3, <1>7, <1>9, <1>10, <1>11 DEF Grows, OrdersGrow, IInv, TypeOK
<1>13. DebtsInv'
  <2>. SUFFICES ASSUME NEW e \in DebtIds
       PROVE /\ debts'[e].paid <= collected'[e]
             /\ debts'[e].paid <= debts'[e].amount
             /\ debts'[e].status = "outstanding" /\ debts'[e].amount > 0
                  => debts'[e].paid < debts'[e].amount
             /\ debts'[e].status # "none" =>
                  orders'[debts'[e].order].status # "none"
    BY DEF DebtsInv, Placed
  <2>1. CASE e = d
    BY <1>7, <1>9, <1>10, <1>11, <2>1 DEF OrdersGrow, Placed
  <2>2. CASE e # d
    BY <1>9, <1>10, <1>11, <2>2 DEF OrdersGrow, IInv, TypeOK, DebtsInv, Placed
  <2>. QED
    BY <2>1, <2>2
<1>14. \A e \in DebtIds : debts'[e].status # "none" => debts'[e].order \in OrderIds
  BY <1>7, <1>10 DEF IInv, TypeOK
<1>. QED
  BY <1>1, <1>8, <1>9, <1>10, <1>11, <1>12, <1>13, <1>14, SharedStep
  DEF OrderCommitted

-----------------------------------------------------------------------------
(* The theorems.                                                           *)

LEMMA InvInit == Init => IInv
<1>. SUFFICES ASSUME Init PROVE IInv
  OBVIOUS
<1>1. TypeOK
  BY IdleType DEF Init, TypeOK, NoOrder, NoDebt, OrderRow, DebtRow, OrderStatus,
                  PaymentStatus, Idle
<1>2. OrdersInv
  BY DEF Init, OrdersInv, NoOrder, Placed
<1>3. DebtsInv
  BY DEF Init, DebtsInv, NoDebt
<1>4. \A p \in Requests : Session(proc[p])
  BY IdleType DEF Init, Session, Idle, OnOrder
<1>. QED
  BY <1>1, <1>2, <1>3, <1>4 DEF IInv

LEMMA InvNext == IInv /\ [Next]_tillVars => IInv'
<1>. SUFFICES ASSUME IInv, [Next]_tillVars PROVE IInv'
  OBVIOUS
<1>1. CASE UNCHANGED tillVars
  BY <1>1 DEF tillVars, IInv, TypeOK, OrdersInv, DebtsInv, Session, OrderCopy,
              DebtCopy, Placed
<1>2. ASSUME NEW p \in Requests, Arrive(p) PROVE IInv'
  BY <1>2, StartSteps
<1>3. ASSUME NEW p \in Requests, Proceed(p) PROVE IInv'
  BY <1>3, PlaceCommitStep, StatusCommitStep, PayStep, QuitStep, PayCommitStep,
     CreditCommitStep, RepayCommitStep DEF Proceed
<1>. QED
  BY <1>1, <1>2, <1>3 DEF Next

LEMMA Invariance == Spec => []IInv
BY InvInit, InvNext, PTL DEF Spec

\* Every reachable state of the till is well typed.
THEOREM TypeCorrect == Spec => []TypeOK
<1>1. IInv => TypeOK
  BY DEF IInv
<1>. QED
  BY <1>1, Invariance, PTL

\* An order marked paid has collected its total (sync_payment_status on stale
\* copies), for any number of overlapping requests.
THEOREM PaidIsCollected == Spec => []PaidMeansCollected
<1>1. IInv => PaidMeansCollected
  BY DEF IInv, OrdersInv, PaidMeansCollected
<1>. QED
  BY <1>1, Invariance, PTL

\* An order that has collected something is never marked unpaid again.
THEOREM UnpaidIsNothing == Spec => []UnpaidMeansNothing
<1>1. IInv => UnpaidMeansNothing
  BY DEF IInv, OrdersInv, UnpaidMeansNothing
<1>. QED
  BY <1>1, Invariance, PTL

\* However repayments overwrite each other (pay_debt), a debt never claims more
\* than was collected against it, nor more than was lent.
THEOREM NeverOverstated == Spec => []DebtNeverOverstated
<1>1. IInv => DebtNeverOverstated
  BY DEF IInv, DebtsInv, DebtNeverOverstated
<1>. QED
  BY <1>1, Invariance, PTL

\* However repayments overwrite each other, a debt that is listed as outstanding
\* and was lent for something still owes (pay_debt settles it otherwise).
THEOREM OutstandingIsOwed == Spec => []OutstandingMeansOwed
<1>1. IInv => OutstandingMeansOwed
  BY DEF IInv, DebtsInv, OutstandingMeansOwed
<1>. QED
  BY <1>1, Invariance, PTL

-----------------------------------------------------------------------------
(* Credit, added up.                                                       *)

LEMMA RowsFinite == IsFiniteSet(DebtIds) /\ 0 \notin OrderIds
BY FS_Interval, TillAssumption DEF DebtIds, OrderIds

\* A row of debts before its insert is blank.
BlankInv == \A d \in DebtIds : debts[d].status = "none" => debts[d] = NoDebt

\* What a step never does to credit: take a debt off its order, or change what
\* was lent.
DebtsKept ==
  /\ \A o \in OrderIds : payments'[o] >= payments[o]
  /\ debts' \in [DebtIds -> DebtRow]
  /\ \A d \in DebtIds : debts[d].order # 0 =>
       debts'[d].order = debts[d].order /\ debts'[d].amount = debts[d].amount

LEMMA KeepsDebts ==
  ASSUME IInv, BlankInv, [Next]_tillVars
  PROVE  DebtsKept /\ BlankInv'
<1>0. TypeOK /\ TypeOK'
  BY InvNext DEF IInv
<1>1. CASE UNCHANGED <<payments, debts>>
  BY <1>0, <1>1 DEF DebtsKept, BlankInv, TypeOK
<1>2. ASSUME NEW p \in Requests, PayCommit(p) PROVE DebtsKept /\ BlankInv'
  <2>1. proc[p].order \in OrderIds /\ proc[p].amount \in Nat
    BY <1>0, <1>2 DEF TypeOK, PayCommit, OnOrder, Process
  <2>2. \A o \in OrderIds : payments'[o] >= payments[o]
    BY <1>0, <1>2, <2>1 DEF TypeOK, PayCommit
  <2>. QED
    BY <1>0, <1>2, <2>2 DEF DebtsKept, BlankInv, TypeOK, PayCommit
<1>3. ASSUME NEW p \in Requests, NEW d \in DebtIds, CreditCommit(p, d)
      PROVE  DebtsKept /\ BlankInv'
  <2>1. /\ debts[d] = NoDebt /\ debts'[d].status = "outstanding"
        /\ \A e \in DebtIds : e # d => debts'[e] = debts[e]
        /\ payments' = payments
    BY <1>0, <1>3 DEF TypeOK, CreditCommit, BlankInv
  <2>. QED
    BY <1>0, <2>1, SMTT(30) DEF DebtsKept, BlankInv, TypeOK, NoDebt
<1>4. ASSUME NEW p \in Requests, RepayCommit(p) PROVE DebtsKept /\ BlankInv'
  <2>. DEFINE d == proc[p].debt
  <2>1. /\ proc[p].order \in OrderIds /\ proc[p].amount \in Nat
        /\ d \in DebtIds /\ debts[d].status # "none"
    BY <1>4, SMTT(30)
    DEF IInv, TypeOK, RepayCommit, OnOrder, Process, Session, DebtCopy
  <2>2. \A o \in OrderIds : payments'[o] >= payments[o]
    BY <1>0, <1>4, <2>1, SMTT(30) DEF TypeOK, RepayCommit
  <2>. DEFINE paid == proc[p].copy.paid + proc[p].amount
              status == IF AtLeastZero(proc[p].copy.amount - paid) <= 0
                          THEN "settled" ELSE debts[d].status
  <2>3. /\ debts' = [debts EXCEPT ![d].paid = paid, ![d].status = status]
        /\ status # "none"
    BY <1>0, <1>4, <2>1 DEF TypeOK, RepayCommit
  <2>4. /\ debts'[d].order = debts[d].order /\ debts'[d].amount = debts[d].amount
        /\ debts'[d].status # "none"
        /\ \A e \in DebtIds : e # d => debts'[e] = debts[e]
    <3>. HIDE DEF paid, status, d
    <3>. QED
      BY <1>0, <2>1, <2>3, SMTT(30) DEF TypeOK, DebtRow
  <2>. HIDE DEF d
  <2>. QED
    BY <1>0, <2>1, <2>2, <2>4 DEF DebtsKept, BlankInv, TypeOK
<1>5. ASSUME NEW p \in Requests, Arrive(p) PROVE UNCHANGED <<payments, debts>>
  BY <1>5, ZenonT(60)
  DEF Arrive, PlaceStart, PatchStart, PayStart, CancelStart, RepayStart
<1>. QED
  BY <1>1, <1>2, <1>3, <1>4, <1>5
  DEF Next, Proceed, PlaceCommit, PatchCommit, PayAccept, PayRefuse, PayFlush,
      CancelCommit, Abandon, tillVars

\* Lent and Outstanding, of given rows.
LentIn(rows, o) ==
  SumOver([d \in DebtIds |-> rows[d].amount], {d \in DebtIds : rows[d].order = o})
OwedIn(rows, o) ==
  SumOver([d \in DebtIds |-> rows[d].amount - rows[d].paid],
          {d \in DebtIds : rows[d].order = o /\ rows[d].status = "outstanding"})

\* What was lent only grows.
LEMMA LentGrows ==
  ASSUME TypeOK, DebtsKept, NEW o \in OrderIds
  PROVE  /\ LentIn(debts, o) \in Nat /\ LentIn(debts', o) \in Nat
         /\ LentIn(debts, o) <= LentIn(debts', o)
<1>. DEFINE f == [d \in DebtIds |-> debts[d].amount]
            g == [d \in DebtIds |-> debts'[d].amount]
            S == {d \in DebtIds : debts[d].order = o}
            T == {d \in DebtIds : debts'[d].order = o}
<1>1. /\ IsFiniteSet(S) /\ IsFiniteSet(T)
  BY RowsFinite, FS_Subset
<1>2. S \in SUBSET T
  BY RowsFinite DEF DebtsKept
<1>3. /\ \A d \in S : f[d] \in Nat /\ f[d] <= g[d]
      /\ \A d \in T : g[d] \in Nat
  BY RowsFinite DEF DebtsKept, TypeOK, DebtRow
<1>4. LentIn(debts, o) = SumOver(f, S) /\ LentIn(debts', o) = SumOver(g, T)
  BY DEF LentIn
<1>. HIDE DEF f, g, S, T
<1>5. SumOver(f, S) \in Nat /\ SumOver(g, T) \in Nat /\ SumOver(f, S) <= SumOver(g, T)
  BY <1>1, <1>2, <1>3, SumNat, SumMonotone
<1>. QED
  BY <1>4, <1>5

\* What is still owed is part of what was lent.
LEMMA OutstandingIsLent ==
  ASSUME IInv, NEW o \in OrderIds
  PROVE  OwedIn(debts, o) \in Nat /\ OwedIn(debts, o) <= LentIn(debts, o)
<1>. DEFINE f == [d \in DebtIds |-> debts[d].amount - debts[d].paid]
            g == [d \in DebtIds |-> debts[d].amount]
            S == {d \in DebtIds : debts[d].order = o /\ debts[d].status = "outstanding"}
            T == {d \in DebtIds : debts[d].order = o}
<1>1. IsFiniteSet(S) /\ IsFiniteSet(T) /\ S \in SUBSET T
  BY RowsFinite, FS_Subset
<1>2. \A d \in DebtIds : f[d] \in Nat /\ f[d] <= g[d] /\ g[d] \in Nat
  BY DEF IInv, TypeOK, DebtsInv, DebtRow
<1>3. OwedIn(debts, o) = SumOver(f, S) /\ LentIn(debts, o) = SumOver(g, T)
  BY DEF OwedIn, LentIn
<1>4. \A d \in T : d \in DebtIds
  OBVIOUS
<1>. HIDE DEF f, g, S, T
<1>5. SumOver(f, S) \in Nat /\ SumOver(f, S) <= SumOver(g, T)
  BY <1>1, <1>2, <1>4, SumNat, SumMonotone
<1>. QED
  BY <1>3, <1>5

-----------------------------------------------------------------------------
(* Completion.                                                             *)

\* A payment or credit about to complete an order: what it saw covered the
\* total together with its own amount, and neither the money nor what was lent
\* has shrunk since.
CoverNoted(q) ==
  q.pc = "flushed" /\ q.new.status # q.row.status =>
    payments[q.order] + LentIn(debts, q.order) + q.amount >= q.row.total

CInv == IInv /\ BlankInv /\ \A p \in Requests : CoverNoted(proc[p])

\* Steps leave the sessions of the other requests alone.
LEMMA OthersWait ==
  ASSUME TypeOK, NEW p \in Requests, Arrive(p) \/ Proceed(p)
  PROVE  \A q \in Requests : q # p => proc'[q] = proc[q]
<1>1. CASE Arrive(p)
  BY <1>1, ZenonT(60)
  DEF TypeOK, Arrive, PlaceStart, PatchStart, PayStart, CancelStart,
              RepayStart
<1>2. CASE Proceed(p)
  BY <1>2 DEF TypeOK, Proceed, PlaceCommit, PatchCommit, PayAccept, PayRefuse,
              PayFlush, PayCommit, CreditCommit, RepayCommit, CancelCommit,
              Abandon, Finish
<1>. QED
  BY <1>1, <1>2, SMTT(30)

\* Only PayFlush brings a request to the point where its row is flushed.
LEMMA FlushedByFlush ==
  ASSUME TypeOK, NEW p \in Requests, Arrive(p) \/ Proceed(p), ~ PayFlush(p)
  PROVE  proc'[p].pc # "flushed"
<1>1. CASE Arrive(p)
  <2>1. ASSUME NEW s \in Subtotals, NEW t \in Discounts, PlaceStart(p, s, t)
        PROVE  proc'[p].pc # "flushed"
    BY <2>1 DEF TypeOK, PlaceStart, Idle
  <2>2. ASSUME NEW o \in OrderIds, NEW s \in OrderStatus, PatchStart(p, o, s)
        PROVE  proc'[p].pc # "flushed"
    BY <2>2 DEF TypeOK, PatchStart, Load, Idle
  <2>3. ASSUME NEW o \in OrderIds, NEW a \in Amounts, NEW credit \in BOOLEAN,
               PayStart(p, o, a, credit)
        PROVE  proc'[p].pc # "flushed"
    BY <2>3 DEF TypeOK, PayStart, Load, Idle
  <2>4. ASSUME NEW o \in OrderIds, CancelStart(p, o)
        PROVE  proc'[p].pc # "flushed"
    BY <2>4 DEF TypeOK, CancelStart, Load, Idle
  <2>5. ASSUME NEW d \in DebtIds, NEW a \in Amounts, RepayStart(p, d, a)
        PROVE  proc'[p].pc # "flushed"
    BY <2>5 DEF TypeOK, RepayStart, Load, Idle
  <2>. QED
    BY <1>1, <2>1, <2>2, <2>3, <2>4, <2>5 DEF Arrive
<1>2. CASE PayAccept(p)
  BY <1>2 DEF PayAccept, TypeOK, Process
<1>3. CASE Finish(p)
  BY <1>3 DEF Finish, Idle, TypeOK
<1>. QED
  BY <1>1, <1>2, <1>3 DEF Proceed, PlaceCommit, PatchCommit, PayRefuse,
     PayCommit, CreditCommit, RepayCommit, CancelCommit, Abandon, Save

LEMMA CoverNext == CInv /\ [Next]_tillVars => CInv'
<1>. SUFFICES ASSUME CInv, [Next]_tillVars PROVE CInv'
  OBVIOUS
<1>0. IInv /\ BlankInv /\ IInv' /\ BlankInv' /\ DebtsKept
  BY InvNext, KeepsDebts DEF CInv
<1>1. TypeOK /\ TypeOK'
  BY <1>0 DEF IInv
\* A session that was there before the step.
<1>2. ASSUME NEW p \in Requests, proc'[p] = proc[p] PROVE CoverNoted(proc[p])'
  <2>. DEFINE q == proc[p]
  <2>. SUFFICES ASSUME q.pc = "flushed", q.new.status # q.row.status
       PROVE  payments'[q.order] + LentIn(debts', q.order) + q.amount >= q.row.total
    BY <1>2 DEF CoverNoted
  <2>1. q \in Process /\ q.order \in OrderIds
        /\ q.row.total \in Nat /\ q.amount \in Nat
    BY <1>1 DEF TypeOK, OnOrder, Process, OrderRow
  <2>2. payments[q.order] + LentIn(debts, q.order) + q.amount >= q.row.total
    BY DEF CInv, CoverNoted
  <2>. HIDE DEF q
  <2>3. /\ LentIn(debts, q.order) \in Nat /\ LentIn(debts', q.order) \in Nat
        /\ LentIn(debts, q.order) <= LentIn(debts', q.order)
    BY <1>0, <1>1, <2>1, LentGrows
  <2>4. payments[q.order] \in Nat /\ payments'[q.order] \in Nat
        /\ payments'[q.order] >= payments[q.order]
    BY <1>0, <1>1, <2>1 DEF TypeOK, DebtsKept
  <2>. QED
    BY <2>1, <2>2, <2>3, <2>4
<1>3. ASSUME NEW p \in Requests, PayFlush(p) PROVE CoverNoted(proc[p])'
  <2>. DEFINE q == proc[p]  o == q.order
              paid == IF q.credit THEN q.seen ELSE q.seen + q.amount
              owed == OwedIn(debts, o) + (IF q.credit THEN q.amount ELSE 0)
              status == IF paid + owed >= q.row.total /\ q.row.status = "served"
                          THEN "completed" ELSE q.row.status
  <2>0. Outstanding(o) = OwedIn(debts, o)
    BY DEF Outstanding, OutstandingOn, OwedIn
  <2>1. /\ q \in Process /\ o \in OrderIds /\ OrderCopy(q) /\ q.pc = "accepted"
    BY <1>1, <1>3, SMTT(30)
    DEF TypeOK, PayFlush, CInv, IInv, Session, OnOrder, OrderCopy
  <2>2. /\ proc'[p].order = o /\ proc'[p].row = q.row
        /\ proc'[p].amount = q.amount /\ proc'[p].new.status = status
        /\ UNCHANGED <<payments, debts>>
    BY <1>1, <1>3, <2>0, <2>1, ZenonT(60) DEF TypeOK, PayFlush, Process
  <2>3. /\ payments[o] \in Nat /\ q.seen \in Nat /\ q.amount \in Nat
        /\ q.row.total \in Nat /\ q.seen <= payments[o]
    BY <1>1, <2>1 DEF TypeOK, Process, OrderRow, OrderCopy
  <2>4. /\ OwedIn(debts, o) \in Nat /\ OwedIn(debts, o) <= LentIn(debts, o)
        /\ LentIn(debts, o) \in Nat
    <3>. HIDE DEF o
    <3>. QED
      BY <1>0, <1>1, <2>1, OutstandingIsLent, LentGrows
  <2>5. status # q.row.status =>
          payments[o] + LentIn(debts, o) + q.amount >= q.row.total
    BY <2>3, <2>4
  <2>. HIDE DEF status, q
  <2>. QED
    BY <2>2, <2>5 DEF CoverNoted
<1>4. ASSUME NEW p \in Requests PROVE CoverNoted(proc[p])'
  <2>1. CASE UNCHANGED tillVars
    BY <1>2, <2>1 DEF tillVars
  <2>2. ASSUME NEW q \in Requests, Arrive(q) \/ Proceed(q)
        PROVE  CoverNoted(proc[p])'
    <3>1. CASE p # q
      BY <1>1, <1>2, <2>2, <3>1, OthersWait
    <3>2. CASE p = q /\ PayFlush(p)
      BY <1>3, <3>2
    <3>3. CASE p = q /\ ~ PayFlush(p)
      BY <1>1, <2>2, <3>3, FlushedByFlush, SMTT(30) DEF CoverNoted
    <3>. QED
      BY <3>1, <3>2, <3>3
  <2>. QED
    BY <2>1, <2>2 DEF Next
<1>. QED
  BY <1>0, <1>4 DEF CInv

\* What CompletedWhenCovered says of a step.
CompletesCovered ==
  \A o \in OrderIds, p \in Requests :
    (orders[o].status = "served" /\ orders'[o].status = "completed"
       /\ proc[p].pc \in {"flushed", "repay"} /\ proc'[p].pc = "idle") =>
      payments'[o] + Lent(o)' >= orders[o].total

LEMMA CompletionStep == CInv /\ [Next]_tillVars => CompletesCovered
<1>. SUFFICES ASSUME CInv, [Next]_tillVars, NEW o \in OrderIds, NEW p \in Requests,
                     orders[o].status = "served", orders'[o].status = "completed",
                     proc[p].pc \in {"flushed", "repay"}, proc'[p].pc = "idle"
     PROVE  payments'[o] + LentIn(debts', o) >= orders[o].total
  BY DEF CompletesCovered, Lent, LentIn
<1>. DEFINE q == proc[p]
<1>0. IInv /\ TypeOK /\ TypeOK' /\ DebtsKept /\ Session(q) /\ BlankInv
      /\ q \in Process
  BY InvNext, KeepsDebts DEF CInv, IInv, TypeOK
<1>1. Arrive(p) \/ Proceed(p)
  <2>1. PICK r \in Requests : Arrive(r) \/ Proceed(r)
    BY DEF Next, tillVars
  <2>. QED
    BY <1>0, <2>1, OthersWait
<1>2. /\ OrderCopy(q) /\ q.order \in OrderIds /\ q.seen \in Nat
      /\ q.amount \in Nat /\ q.row \in OrderRow /\ q.row.total \in Nat
      /\ q.row.total = orders[q.order].total /\ q.seen <= payments[q.order]
  BY <1>0 DEF Session, OnOrder, OrderCopy, Process, OrderRow
<1>3. /\ LentIn(debts, o) \in Nat /\ LentIn(debts', o) \in Nat /\ LentIn(debts, o) <= LentIn(debts', o)
      /\ payments[o] \in Nat
  BY <1>0, LentGrows DEF TypeOK
<1>4. CASE PayCommit(p) /\ q.pc = "flushed"
  <2>1. /\ payments' = [payments EXCEPT ![q.order] = payments[q.order] + q.amount]
        /\ orders' = [orders EXCEPT ![q.order] = Written(q.row, q.new, orders[q.order])]
        /\ UNCHANGED debts
    BY <1>4 DEF PayCommit, Save
  <2>2. o = q.order /\ q.new.status # q.row.status
    BY <1>0, <2>1 DEF TypeOK, Written
  <2>3. payments[o] + LentIn(debts, o) + q.amount >= q.row.total
    BY <1>4, <2>2 DEF CInv, CoverNoted
  <2>4. payments'[o] = payments[o] + q.amount
    BY <1>0, <2>1, <2>2 DEF TypeOK
  <2>. QED
    BY <1>2, <1>3, <2>2, <2>3, <2>4
<1>5. ASSUME NEW d \in DebtIds, CreditCommit(p, d), q.pc = "flushed"
      PROVE  payments'[o] + LentIn(debts', o) >= orders[o].total
  <2>. DEFINE debt == [order |-> q.order, amount |-> q.amount, paid |-> 0,
                       status |-> "outstanding"]
  <2>1. /\ debts' = [debts EXCEPT ![d] = debt] /\ debts[d].status = "none"
        /\ orders' = [orders EXCEPT ![q.order] = Written(q.row, q.new, orders[q.order])]
        /\ UNCHANGED payments
    BY <1>5 DEF CreditCommit, Save
  <2>2. o = q.order /\ q.new.status # q.row.status
    BY <1>0, <2>1 DEF TypeOK, Written
  <2>3. payments[o] + LentIn(debts, o) + q.amount >= q.row.total
    BY <1>5, <2>2 DEF CInv, CoverNoted
  <2>4. LentIn(debts', o) = LentIn(debts, o) + q.amount
    <3>. DEFINE f == [e \in DebtIds |-> debts[e].amount]
                g == [e \in DebtIds |-> debts'[e].amount]
                S == {e \in DebtIds : debts[e].order = o}
                T == {e \in DebtIds : debts'[e].order = o}
    <3>1. debts[d].order = 0 /\ debts'[d] = debt
          /\ \A e \in DebtIds : e # d => debts'[e] = debts[e]
      BY <1>0, <2>1 DEF BlankInv, NoDebt, TypeOK
    <3>2. IsFiniteSet(S) /\ d \notin S /\ T = S \cup {d}
      BY <2>2, <3>1, RowsFinite, FS_Subset
    <3>3. /\ g[d] = q.amount /\ \A e \in S : f[e] = g[e]
          /\ \A e \in S \cup {d} : g[e] \in Nat
      BY <1>0, <1>2, <3>1, <3>2 DEF TypeOK, DebtRow
    <3>4. LentIn(debts, o) = SumOver(f, S) /\ LentIn(debts', o) = SumOver(g, T)
      BY DEF LentIn
    <3>. HIDE DEF f, g, S, T, q
    <3>5. SumOver(g, S \cup {d}) = SumOver(g, S) + g[d]
      BY <3>2, <3>3, SumAdd, ZenonT(60)
    <3>6. SumOver(g, S) = SumOver(f, S)
      BY <3>3, SumSame
    <3>. QED
      BY <3>2, <3>3, <3>4, <3>5, <3>6
  <2>. QED
    BY <1>2, <1>3, <2>1, <2>2, <2>3, <2>4
<1>6. CASE RepayCommit(p)
  <2>. DEFINE new == RepaidRow(p)
  <2>1. /\ payments' = [payments EXCEPT ![q.order] = payments[q.order] + q.amount]
        /\ orders' = [orders EXCEPT ![q.order] = Written(q.row, new, orders[q.order])]
    BY <1>6 DEF RepayCommit
  <2>2. o = q.order /\ new.status # q.row.status
    BY <1>0, <2>1 DEF TypeOK, Written
  <2>3. StatusFor(q.row.total, q.seen + q.amount) = "paid"
    BY <2>2 DEF RepaidRow
  <2>4. q.seen + q.amount \in Nat
    BY <1>2
  <2>5. q.seen + q.amount >= q.row.total
    BY <1>2, <2>3, <2>4, StatusForFacts
  <2>6. payments'[o] = payments[o] + q.amount
    BY <1>0, <2>1, <2>2 DEF TypeOK
  <2>. QED
    BY <1>2, <1>3, <2>2, <2>5, <2>6
<1>7. CASE Abandon(p)
  BY <1>7 DEF Abandon
<1>. QED
  BY <1>1, <1>4, <1>5, <1>6, <1>7, ZenonT(60)
  DEF Arrive, PlaceStart, PatchStart, PayStart, CancelStart, RepayStart, Proceed,
      PlaceCommit, PatchCommit, PayAccept, PayRefuse, PayFlush, PayCommit,
      CreditCommit, CancelCommit

\* An order that a payment, a credit or a repayment completes has had its whole
\* total collected or lent (record_payment and pay_debt on stale copies), for
\* any number of overlapping requests.
THEOREM CompletedIsCovered == Spec => CompletedWhenCovered
<1>1. Init => CInv
  <2>. SUFFICES ASSUME Init PROVE CInv
    OBVIOUS
  <2>1. IInv
    BY InvInit
  <2>. QED
    BY <2>1 DEF Init, CInv, BlankInv, CoverNoted, Idle
<1>2. CInv /\ [Next]_tillVars => [CompletesCovered]_tillVars
  BY CompletionStep
<1>. QED
  BY <1>1, <1>2, CoverNext, PTL DEF Spec, CompletedWhenCovered, CompletesCovered

-----------------------------------------------------------------------------
(* Requests that do not overlap.                                           *)

\* There is one slot for requests, so each is over before the next arrives.
Alone == \A p, q \in Requests : p = q

\* What the orders and debts amount to between requests.
AccountsInv ==
  /\ \A o \in OrderIds :
       /\ payments[o] + OwedIn(debts, o) <= orders[o].total
       /\ ~ Placed(o) => orders[o].total = 0
       /\ payments[o] > 0 /\ payments[o] >= orders[o].total =>
            orders[o].pay = "paid"
  /\ \A d \in DebtIds :
       debts[d].status = "settled" => debts[d].paid = debts[d].amount

\* What a request holds is what is in the database, and what it has accepted
\* still fits.
Fresh(q) ==
  /\ q.pc \in OnOrder => q.row = orders[q.order] /\ q.seen = payments[q.order]
  /\ q.pc \in {"accepted", "flushed"} =>
       payments[q.order] + OwedIn(debts, q.order) + q.amount <= q.row.total
  /\ q.pc = "repay" =>
       /\ q.copy = debts[q.debt] /\ q.copy.status = "outstanding"
       /\ q.copy.order = q.order /\ q.amount \in Amounts
  /\ q.pc = "place" => q.new.total \in Prices

SInv == IInv /\ BlankInv /\ AccountsInv /\ \A p \in Requests : Fresh(proc[p])

\* A debt's share of what order o still owes.
Share(debt, o) ==
  IF debt.order = o /\ debt.status = "outstanding" THEN debt.amount - debt.paid ELSE 0

\* One debt changes: what is owed changes by its share.
LEMMA OneDebtChanges ==
  ASSUME NEW rows \in [DebtIds -> DebtRow], NEW new \in [DebtIds -> DebtRow],
         NEW d \in DebtIds, \A e \in DebtIds : e # d => new[e] = rows[e],
         \A e \in DebtIds : rows[e].paid <= rows[e].amount,
         new[d].paid <= new[d].amount, NEW o
  PROVE  /\ OwedIn(new, o) = OwedIn(rows, o) - Share(rows[d], o) + Share(new[d], o)
         /\ OwedIn(rows, o) \in Nat
         /\ Share(rows[d], o) \in Nat /\ Share(rows[d], o) <= OwedIn(rows, o)
<1>. DEFINE On(debts_) == {e \in DebtIds : /\ debts_[e].order = o
                                           /\ debts_[e].status = "outstanding"}
            Owing(debts_) == [e \in DebtIds |-> debts_[e].amount - debts_[e].paid]
            Shares(debts_) == [e \in DebtIds |-> Share(debts_[e], o)]
            f == Shares(rows)
            g == Shares(new)
<1>1. SumOver(f, DebtIds) = OwedIn(rows, o)
  <2>1. /\ \A e \in On(rows) : f[e] = Owing(rows)[e]
        /\ \A e \in DebtIds \ On(rows) : f[e] = 0
    BY DEF Share
  <2>. HIDE DEF f
  <2>2. SumOver(f, DebtIds) = SumOver(Owing(rows), On(rows))
    BY <2>1, SumWhere
  <2>. QED
    BY <2>2 DEF OwedIn
<1>2. SumOver(g, DebtIds) = OwedIn(new, o)
  <2>1. /\ \A e \in On(new) : g[e] = Owing(new)[e]
        /\ \A e \in DebtIds \ On(new) : g[e] = 0
    BY DEF Share
  <2>. HIDE DEF g
  <2>2. SumOver(g, DebtIds) = SumOver(Owing(new), On(new))
    BY <2>1, SumWhere
  <2>. QED
    BY <2>2 DEF OwedIn
<1>3. /\ \A e \in DebtIds : f[e] \in Nat
      /\ g[d] \in Nat /\ \A e \in DebtIds \ {d} : g[e] = f[e]
      /\ f[d] = Share(rows[d], o) /\ g[d] = Share(new[d], o)
  <2>1. ASSUME NEW debt \in DebtRow, debt.paid <= debt.amount
        PROVE  Share(debt, o) \in Nat
    BY <2>1 DEF Share, DebtRow
  <2>. QED
    BY <2>1
<1>. HIDE DEF f, g
<1>4. SumOver(g, DebtIds) = SumOver(f, DebtIds) - f[d] + g[d]
  <2>1. IsFiniteSet(DebtIds)
    BY RowsFinite
  <2>2. /\ \A y \in DebtIds : f[y] \in Nat
        /\ g[d] \in Nat
        /\ \A y \in DebtIds \ {d} : g[y] = f[y]
    BY <1>3
  <2>. QED
    BY <2>1, <2>2, SumUpdate
<1>5. SumOver(f, DebtIds) \in Nat /\ f[d] <= SumOver(f, DebtIds)
  BY <1>3, RowsFinite, SumNat, SumMember
<1>. QED
  BY <1>1, <1>2, <1>3, <1>4, <1>5

LEMMA OwedNat ==
  ASSUME IInv, NEW o \in OrderIds
  PROVE  OwedIn(debts, o) \in Nat
BY OutstandingIsLent

-----------------------------------------------------------------------------
(* The steps, one at a time.                                               *)

\* What each step is shown to do, an action of the abstract account included.
Kept ==
  /\ AccountsInv'
  /\ \A q \in Requests : Fresh(proc[q])'
  /\ [Account!AcctNext]_(Account!acctVars)

LEMMA CreditIs == \A o \in OrderIds : Outstanding(o) = OwedIn(debts, o)
BY DEF Outstanding, OutstandingOn, OwedIn

\* A step that changes nothing but the request itself.
LEMMA SerialLocal ==
  ASSUME SInv, Alone, NEW p \in Requests, NEW v, Fresh(v),
         proc' = [proc EXCEPT ![p] = v],
         UNCHANGED <<orders, payments, debts, collected>>
  PROVE  Kept
<1>1. AccountsInv'
  BY DEF SInv, AccountsInv, Placed
<1>2. \A q \in Requests : proc'[q] = v
  BY DEF SInv, IInv, TypeOK, Alone
<1>3. \A q : Fresh(q) => Fresh(q)'
  BY DEF Fresh
<1>4. (\A q \in Requests : Fresh(proc[q]))'
  BY <1>2, <1>3
<1>5. UNCHANGED Account!acctVars
  BY DEF Account!acctVars, TotalOf, Credit, Outstanding, OutstandingOn
<1>. QED
  BY <1>1, <1>4, <1>5 DEF Kept

\* A request that is over holds nothing.
LEMMA SerialFinish ==
  ASSUME SInv, Alone, NEW p \in Requests, Finish(p)
  PROVE  \A q \in Requests : Fresh(proc[q])'
<1>1. \A q \in Requests : proc'[q] = Idle
  BY DEF SInv, IInv, TypeOK, Alone, Finish
<1>. QED
  BY <1>1 DEF Fresh, Idle, OnOrder

\* A session as it is loaded.
LEMMA SerialLoad ==
  ASSUME NEW p, NEW o, NEW pc
  PROVE  /\ Load(p, o, pc).row = orders[o] /\ Load(p, o, pc).new = orders[o]
         /\ Load(p, o, pc).seen = payments[o] /\ Load(p, o, pc).order = o
         /\ Load(p, o, pc).pc = pc
BY DEF Load, Idle

LEMMA SerialStart ==
  ASSUME SInv, Alone, NEW p \in Requests, Arrive(p)
  PROVE  Kept
<1>1. ASSUME NEW s \in Subtotals, NEW t \in Discounts, PlaceStart(p, s, t)
      PROVE  Kept
  <2>. DEFINE new == [status |-> "pending", pay |-> "unpaid",
                      total |-> AtLeastZero(s - t)]
              v == [Idle EXCEPT !.pc = "place", !.new = new]
  <2>1. new.total \in Prices /\ proc' = [proc EXCEPT ![p] = v]
        /\ UNCHANGED <<orders, payments, debts, collected>>
    BY <1>1 DEF PlaceStart, Prices
  <2>. HIDE DEF new
  <2>2. v.pc = "place" /\ v.new = new
    BY DEF Idle
  <2>3. Fresh(v)
    BY <2>1, <2>2 DEF Fresh, OnOrder
  <2>. HIDE DEF v
  <2>. QED
    BY <2>1, <2>3, SerialLocal
<1>2. ASSUME NEW o \in OrderIds, NEW s \in OrderStatus, PatchStart(p, o, s)
      PROVE  Kept
  <2>. DEFINE v == [Load(p, o, "patch") EXCEPT !.new.status = s]
  <2>1. proc' = [proc EXCEPT ![p] = v]
        /\ UNCHANGED <<orders, payments, debts, collected>>
    BY <1>2 DEF PatchStart
  <2>2. /\ v.row = orders[o] /\ v.seen = payments[o] /\ v.order = o
        /\ v.pc = "patch"
    BY DEF Load, Idle
  <2>3. Fresh(v)
    BY <2>2 DEF Fresh
  <2>. HIDE DEF v
  <2>. QED
    BY <2>1, <2>3, SerialLocal
<1>3. ASSUME NEW o \in OrderIds, NEW a \in Amounts, NEW credit \in BOOLEAN,
             PayStart(p, o, a, credit)
      PROVE  Kept
  <2>. DEFINE v == [Load(p, o, "pay") EXCEPT !.amount = a, !.credit = credit]
  <2>1. proc' = [proc EXCEPT ![p] = v]
        /\ UNCHANGED <<orders, payments, debts, collected>>
    BY <1>3 DEF PayStart
  <2>2. /\ v.row = orders[o] /\ v.seen = payments[o] /\ v.order = o
        /\ v.pc = "pay"
    BY DEF Load, Idle
  <2>3. Fresh(v)
    BY <2>2 DEF Fresh
  <2>. HIDE DEF v
  <2>. QED
    BY <2>1, <2>3, SerialLocal
<1>4. ASSUME NEW o \in OrderIds, CancelStart(p, o)
      PROVE  Kept
  <2>. DEFINE v == [Load(p, o, "cancel") EXCEPT !.new.status = "cancelled"]
  <2>1. proc' = [proc EXCEPT ![p] = v]
        /\ UNCHANGED <<orders, payments, debts, collected>>
    BY <1>4 DEF CancelStart
  <2>2. /\ v.row = orders[o] /\ v.seen = payments[o] /\ v.order = o
        /\ v.pc = "cancel"
    BY DEF Load, Idle
  <2>3. Fresh(v)
    BY <2>2 DEF Fresh
  <2>. HIDE DEF v
  <2>. QED
    BY <2>1, <2>3, SerialLocal
<1>5. ASSUME NEW d \in DebtIds, NEW a \in Amounts, RepayStart(p, d, a)
      PROVE  Kept
  <2>. DEFINE o == debts[d].order
              v == [Load(p, o, "repay") EXCEPT
                      !.debt = d, !.copy = debts[d], !.amount = a]
  <2>1. proc' = [proc EXCEPT ![p] = v] /\ debts[d].status = "outstanding"
        /\ UNCHANGED <<orders, payments, debts, collected>>
    BY <1>5 DEF RepayStart
  <2>2. /\ v.row = orders[o] /\ v.seen = payments[o] /\ v.order = o
        /\ v.pc = "repay" /\ v.debt = d /\ v.copy = debts[d] /\ v.amount = a
    BY DEF Load, Idle
  <2>3. Fresh(v)
    BY <2>1, <2>2 DEF Fresh
  <2>. HIDE DEF v
  <2>. QED
    BY <2>1, <2>3, SerialLocal
<1>. QED
  BY <1>1, <1>2, <1>3, <1>4, <1>5 DEF Arrive

LEMMA SerialPay ==
  ASSUME SInv, Alone, NEW p \in Requests, PayAccept(p) \/ PayFlush(p)
  PROVE  Kept
<1>. DEFINE q == proc[p]
<1>0. q \in Process /\ q.order \in OrderIds /\ Fresh(q) /\ OrderCopy(q)
  BY DEF SInv, IInv, TypeOK, Session, OnOrder, PayAccept, PayFlush
<1>1. CASE PayAccept(p)
  <2>. DEFINE v == [q EXCEPT !.pc = "accepted"]
  <2>1. q.pc = "pay" /\ q.amount <= Remaining(p) /\ proc' = [proc EXCEPT ![p] = v]
        /\ UNCHANGED <<orders, payments, debts, collected>>
    BY <1>1 DEF PayAccept, SInv, IInv, TypeOK
  <2>2. Remaining(p) = AtLeastZero(q.row.total - q.seen) - OwedIn(debts, q.order)
    BY <1>0, CreditIs DEF Remaining, Balance
  <2>3. /\ q.row = orders[q.order] /\ q.seen = payments[q.order]
        /\ q.amount \in Nat /\ q.seen \in Nat /\ q.row.total \in Nat
        /\ OwedIn(debts, q.order) \in Nat
        /\ q.seen + OwedIn(debts, q.order) <= q.row.total
    BY <1>0, <2>1, OwedNat
    DEF Fresh, OnOrder, SInv, AccountsInv, Process, OrderRow
  <2>4. q.seen + OwedIn(debts, q.order) + q.amount <= q.row.total
    BY <2>1, <2>2, <2>3 DEF AtLeastZero
  <2>5. /\ v.pc = "accepted" /\ v.row = q.row /\ v.seen = q.seen
        /\ v.order = q.order /\ v.amount = q.amount
    BY <1>0 DEF Process
  <2>. HIDE DEF v, q
  <2>6. Fresh(v)
    BY <2>3, <2>4, <2>5 DEF Fresh
  <2>. QED
    BY <2>1, <2>6, SerialLocal
<1>2. CASE PayFlush(p)
  <2>1. PICK new : /\ proc' = [proc EXCEPT ![p].pc = "flushed", ![p].new = new]
                   /\ q.pc = "accepted"
                   /\ UNCHANGED <<orders, payments, debts, collected>>
    BY <1>2 DEF PayFlush
  <2>. DEFINE v == [q EXCEPT !.pc = "flushed", !.new = new]
  <2>2. proc' = [proc EXCEPT ![p] = v]
    BY <2>1 DEF SInv, IInv, TypeOK
  <2>3. /\ v.pc = "flushed" /\ v.row = q.row /\ v.seen = q.seen
        /\ v.order = q.order /\ v.amount = q.amount
    BY <1>0 DEF Process
  <2>. HIDE DEF v, q
  <2>4. Fresh(v)
    BY <1>0, <2>1, <2>3 DEF Fresh, OnOrder
  <2>. QED
    BY <2>1, <2>2, <2>4, SerialLocal
<1>. QED
  BY <1>1, <1>2

LEMMA SerialQuit ==
  ASSUME SInv, Alone, NEW p \in Requests, PayRefuse(p) \/ Abandon(p)
  PROVE  Kept
<1>1. proc' = [proc EXCEPT ![p] = Idle]
      /\ UNCHANGED <<orders, payments, debts, collected>>
  BY DEF PayRefuse, Abandon, Finish
<1>2. Fresh(Idle)
  BY DEF Fresh, Idle, OnOrder
<1>. QED
  BY <1>1, <1>2, SerialLocal

\* What a commit makes of the order: the mark is the session's.
LEMMA OrderSaved ==
  ASSUME SInv, NEW p \in Requests, proc[p].pc \in OnOrder,
         NEW new \in OrderRow, new.status # "none",
         orders' = [orders EXCEPT ![proc[p].order] =
                      Written(proc[p].row, new, orders[proc[p].order])]
  PROVE  /\ proc[p].order \in OrderIds
         /\ orders'[proc[p].order].pay = new.pay
         /\ \A o \in OrderIds :
              /\ o # proc[p].order => orders'[o] = orders[o]
              /\ orders'[o].total = orders[o].total
              /\ orders'[o].status = "none" => orders[o].status = "none"
         /\ TotalOf' = TotalOf
<1>. DEFINE o == proc[p].order
<1>1. /\ o \in OrderIds /\ proc[p].row = orders[o] /\ orders[o] \in OrderRow
  BY DEF SInv, IInv, TypeOK, Fresh
<1>2. orders'[o] = Written(orders[o], new, orders[o])
  BY <1>1 DEF SInv, IInv, TypeOK
<1>3. /\ orders'[o].pay = new.pay /\ orders'[o].total = orders[o].total
      /\ orders'[o].status # "none" \/ orders[o].status = "none"
  BY <1>2 DEF Written
<1>4. \A x \in OrderIds : x # o => orders'[x] = orders[x]
  BY DEF SInv, IInv, TypeOK
<1>. HIDE DEF o
<1>5. \A x \in OrderIds : orders'[x].total = orders[x].total
  BY <1>3, <1>4
<1>6. TotalOf' = TotalOf
  BY <1>5 DEF TotalOf
<1>. QED
  BY <1>1, <1>3, <1>4, <1>5, <1>6 DEF o

LEMMA SerialPlace ==
  ASSUME SInv, Alone, NEW p \in Requests, NEW o \in OrderIds, PlaceCommit(p, o)
  PROVE  Kept
<1>. DEFINE new == proc[p].new
<1>1. /\ ~ Placed(o) /\ orders' = [orders EXCEPT ![o] = new] /\ Finish(p)
      /\ UNCHANGED <<payments, debts, collected>>
      /\ new \in OrderRow /\ new.total \in Prices /\ new.status # "none"
  BY DEF PlaceCommit, SInv, IInv, TypeOK, Session, Fresh, Process
<1>2. /\ orders[o].total = 0 /\ payments[o] = 0 /\ OwedIn(debts, o) \in Nat
  BY <1>1, OwedNat DEF SInv, AccountsInv, IInv, OrdersInv
<1>3. OwedIn(debts, o) = 0
  BY <1>2 DEF SInv, AccountsInv
<1>4. /\ orders'[o] = new /\ new.total \in Nat
      /\ \A x \in OrderIds : x # o => orders'[x] = orders[x]
  BY <1>1 DEF SInv, IInv, TypeOK, OrderRow
<1>. HIDE DEF new
<1>5. AccountsInv'
  <2>1. ASSUME NEW x \in OrderIds
        PROVE  /\ payments[x] + OwedIn(debts, x) <= orders'[x].total
               /\ orders'[x].status = "none" => orders'[x].total = 0
               /\ payments[x] > 0 /\ payments[x] >= orders'[x].total =>
                    orders'[x].pay = "paid"
    <3>1. CASE x = o
      BY <1>1, <1>2, <1>3, <1>4, <3>1
    <3>2. CASE x # o
      BY <1>4, <3>2 DEF SInv, AccountsInv, Placed
    <3>. QED
      BY <3>1, <3>2
  <2>. QED
    BY <1>1, <2>1 DEF SInv, AccountsInv, Placed
<1>6. Account!OpenOrder(o, new.total)
  <2>1. TotalOf' = [TotalOf EXCEPT ![o] = new.total] /\ TotalOf[o] = 0
    BY <1>2, <1>4 DEF TotalOf
  <2>2. Credit' = Credit
    BY <1>1 DEF Credit, Outstanding, OutstandingOn
  <2>. QED
    BY <1>1, <2>1, <2>2 DEF Account!OpenOrder
<1>7. Account!AcctNext
  BY <1>1, <1>6 DEF Account!AcctNext
<1>. QED
  BY <1>1, <1>5, <1>7, SerialFinish DEF Kept

\* A status change and a cancellation leave the account alone.
LEMMA SerialStatus ==
  ASSUME SInv, Alone, NEW p \in Requests, PatchCommit(p) \/ CancelCommit(p)
  PROVE  Kept
<1>. DEFINE q == proc[p]  new == q.new
<1>1. /\ q.pc \in {"patch", "cancel"} /\ q.pc \in OnOrder /\ Finish(p)
      /\ orders' = [orders EXCEPT ![q.order] = Written(q.row, new, orders[q.order])]
      /\ UNCHANGED <<payments, debts, collected>>
  BY DEF PatchCommit, CancelCommit, Save, OnOrder, SInv, IInv, TypeOK
<1>2. /\ new \in OrderRow /\ new.status # "none"
      /\ new.pay = q.row.pay /\ q.row = orders[q.order]
  BY <1>1, SMTT(30) DEF SInv, IInv, TypeOK, Session, OrderCopy, Process, Fresh
<1>3. /\ orders'[q.order].pay = orders[q.order].pay
      /\ \A o \in OrderIds :
              /\ o # q.order => orders'[o] = orders[o]
              /\ orders'[o].total = orders[o].total
              /\ orders'[o].status = "none" => orders[o].status = "none"
      /\ TotalOf' = TotalOf
  <2>. HIDE DEF new
  <2>. QED
    BY <1>1, <1>2, OrderSaved
<1>. HIDE DEF q
<1>4. \A o \in OrderIds : orders'[o].pay = orders[o].pay
  BY <1>3
<1>5. AccountsInv'
  BY <1>1, <1>3, <1>4 DEF SInv, AccountsInv, Placed
<1>6. UNCHANGED Account!acctVars
  BY <1>1, <1>3 DEF Account!acctVars, Credit, Outstanding, OutstandingOn
<1>. QED
  BY <1>1, <1>5, <1>6, SerialFinish DEF Kept

\* Money recorded on an order: the account collects it.
LEMMA SerialMoney ==
  ASSUME SInv, Alone, NEW p \in Requests, PayCommit(p)
  PROVE  Kept
<1>. DEFINE q == proc[p]  new == q.new  o == q.order
            money == payments[o] + q.amount
<1>1. /\ q.pc = "flushed" /\ q.pc \in OnOrder /\ Finish(p) /\ ~ q.credit
      /\ payments' = [payments EXCEPT ![o] = money]
      /\ orders' = [orders EXCEPT ![o] = Written(q.row, new, orders[o])]
      /\ UNCHANGED <<debts, collected>>
  BY DEF PayCommit, Save, OnOrder, SInv, IInv, TypeOK
<1>2. /\ new \in OrderRow /\ new.status # "none" /\ o \in OrderIds
      /\ q.seen = payments[o] /\ q.row = orders[o] /\ q.row.total \in Nat
      /\ q.amount \in Amounts /\ q.amount \in Nat /\ payments[o] \in Nat
      /\ new.pay = StatusFor(q.row.total, money)
      /\ payments[o] + OwedIn(debts, o) + q.amount <= q.row.total
  BY <1>1, SMTT(30)
  DEF SInv, IInv, TypeOK, Session, OrderCopy, Process, OrderRow, Fresh,
              Counted
<1>3. /\ orders'[o].pay = new.pay
      /\ \A x \in OrderIds :
              /\ x # o => orders'[x] = orders[x]
              /\ orders'[x].total = orders[x].total
              /\ orders'[x].status = "none" => orders[x].status = "none"
      /\ TotalOf' = TotalOf
  <2>. HIDE DEF new
  <2>. QED
    BY <1>1, <1>2, OrderSaved
<1>4. OwedIn(debts, o) \in Nat /\ money \in Nat
  BY <1>2, OwedNat DEF SInv
<1>. HIDE DEF q, o
<1>5. /\ payments'[o] = money
      /\ \A x \in OrderIds : x # o => payments'[x] = payments[x]
  BY <1>1, <1>2 DEF SInv, IInv, TypeOK
<1>6. Placed(o)
  BY <1>1 DEF SInv, IInv, Session, OrderCopy, q, o
<1>7. money > 0 /\ money >= orders[o].total => new.pay = "paid"
  <2>. HIDE DEF money
  <2>. QED
    BY <1>2, <1>4 DEF StatusFor
<1>8. AccountsInv'
  <2>1. ASSUME NEW x \in OrderIds
        PROVE  /\ payments'[x] + OwedIn(debts, x) <= orders'[x].total
               /\ orders'[x].status = "none" => orders'[x].total = 0
               /\ payments'[x] > 0 /\ payments'[x] >= orders'[x].total =>
                    orders'[x].pay = "paid"
    <3>1. CASE x = o
      BY <1>2, <1>3, <1>4, <1>5, <1>6, <1>7, <3>1 DEF Placed
    <3>2. CASE x # o
      BY <1>3, <1>5, <3>2 DEF SInv, AccountsInv, Placed
    <3>. QED
      BY <3>1, <3>2
  <2>. QED
    BY <1>1, <2>1 DEF SInv, AccountsInv, Placed
<1>9. Account!Collect(o, q.amount)
  <2>1. Credit' = Credit /\ Credit[o] = OwedIn(debts, o) /\ TotalOf[o] = orders[o].total
    BY <1>1, <1>2, CreditIs DEF Credit, TotalOf, Outstanding, OutstandingOn
  <2>. QED
    BY <1>1, <1>2, <1>3, <1>4, <2>1 DEF Account!Collect, Account!Left
<1>10. Account!AcctNext
  BY <1>2, <1>9 DEF Account!AcctNext
<1>. QED
  BY <1>1, <1>8, <1>10, SerialFinish DEF Kept

\* Credit given for an order: the account lends it.
LEMMA SerialCredit ==
  ASSUME SInv, Alone, NEW p \in Requests, NEW d \in DebtIds, CreditCommit(p, d)
  PROVE  Kept
<1>. DEFINE q == proc[p]  new == q.new  o == q.order
            debt == [order |-> o, amount |-> q.amount, paid |-> 0,
                     status |-> "outstanding"]
<1>1. /\ q.pc = "flushed" /\ q.pc \in OnOrder /\ Finish(p) /\ q.credit
      /\ debts' = [debts EXCEPT ![d] = debt] /\ debts[d] = NoDebt
      /\ orders' = [orders EXCEPT ![o] = Written(q.row, new, orders[o])]
      /\ UNCHANGED <<payments, collected>>
  BY DEF CreditCommit, Save, OnOrder, SInv, IInv, TypeOK, BlankInv
<1>2. /\ new \in OrderRow /\ new.status # "none" /\ o \in OrderIds
      /\ q.seen = payments[o] /\ q.row = orders[o] /\ q.row.total \in Nat
      /\ q.amount \in Amounts /\ q.amount \in Nat /\ payments[o] \in Nat
      /\ new.pay = StatusFor(q.row.total, payments[o])
      /\ payments[o] + OwedIn(debts, o) + q.amount <= q.row.total
  BY <1>1, SMTT(30)
  DEF SInv, IInv, TypeOK, Session, OrderCopy, Process, OrderRow, Fresh,
              Counted
<1>3. /\ orders'[o].pay = new.pay
      /\ \A x \in OrderIds :
              /\ x # o => orders'[x] = orders[x]
              /\ orders'[x].total = orders[x].total
              /\ orders'[x].status = "none" => orders[x].status = "none"
      /\ TotalOf' = TotalOf
  <2>. HIDE DEF new
  <2>. QED
    BY <1>1, <1>2, OrderSaved
<1>4. /\ debts' \in [DebtIds -> DebtRow] /\ debts'[d] = debt
      /\ \A e \in DebtIds : e # d => debts'[e] = debts[e]
      /\ debts \in [DebtIds -> DebtRow]
      /\ \A e \in DebtIds : debts[e].paid <= debts[e].amount
  <2>1. debt \in DebtRow
    BY <1>2 DEF DebtRow, OrderIds
  <2>. HIDE DEF debt
  <2>. QED
    BY <1>1, <2>1 DEF SInv, IInv, TypeOK, DebtsInv
<1>5. /\ debt.paid <= debt.amount /\ Share(debt, o) = q.amount
      /\ debt.status = "outstanding"
      /\ \A x \in OrderIds : /\ Share(NoDebt, x) = 0
                             /\ x # o => Share(debt, x) = 0
  BY <1>2 DEF Share, NoDebt
<1>6. \A x \in OrderIds :
        /\ OwedIn(debts', x) = OwedIn(debts, x) - Share(debts[d], x)
                                 + Share(debts'[d], x)
        /\ OwedIn(debts, x) \in Nat
  <2>. HIDE DEF debt
  <2>. QED
    BY <1>4, <1>5, OneDebtChanges
<1>. HIDE DEF q, o, debt
<1>7. /\ OwedIn(debts', o) = OwedIn(debts, o) + q.amount
      /\ \A x \in OrderIds : x # o => OwedIn(debts', x) = OwedIn(debts, x)
  <2>1. debts[d] = NoDebt /\ debts'[d] = debt
    BY <1>1, <1>4
  <2>2. \A x \in OrderIds : OwedIn(debts', x) = OwedIn(debts, x) - 0 + Share(debt, x)
    BY <1>5, <1>6, <2>1
  <2>3. \A x \in OrderIds : OwedIn(debts, x) \in Nat
    BY <1>6
  <2>4. o \in OrderIds /\ q.amount \in Nat
    BY <1>2
  <2>. QED
    BY <1>5, <2>2, <2>3, <2>4
<1>8. Placed(o)
  BY <1>1 DEF SInv, IInv, Session, OrderCopy, q, o
<1>9. payments[o] > 0 /\ payments[o] >= orders[o].total => new.pay = "paid"
  BY <1>2 DEF StatusFor
<1>10. AccountsInv'
  <2>1. ASSUME NEW x \in OrderIds
        PROVE  /\ payments'[x] + OwedIn(debts', x) <= orders'[x].total
               /\ orders'[x].status = "none" => orders'[x].total = 0
               /\ payments'[x] > 0 /\ payments'[x] >= orders'[x].total =>
                    orders'[x].pay = "paid"
    <3>1. CASE x = o
      <4>1. payments' = payments /\ OwedIn(debts, o) \in Nat
        BY <1>1, <1>2, <1>6
      <4>. QED
        BY <1>2, <1>3, <1>7, <1>8, <1>9, <3>1, <4>1 DEF Placed
    <3>2. CASE x # o
      <4>1. payments'[x] = payments[x] /\ orders'[x] = orders[x]
            /\ OwedIn(debts', x) = OwedIn(debts, x)
        BY <1>1, <1>3, <1>7, <3>2
      <4>. QED
        BY <4>1 DEF SInv, AccountsInv, Placed
    <3>. QED
      BY <3>1, <3>2
  <2>2. \A e \in DebtIds : debts'[e].status = "settled" =>
          debts'[e].paid = debts'[e].amount
    BY <1>4, <1>5 DEF SInv, AccountsInv
  <2>. QED
    BY <2>1, <2>2 DEF AccountsInv, Placed
<1>11. Account!Lend(o, q.amount)
  <2>1. \A x \in OrderIds : Credit[x] = OwedIn(debts, x)
    BY CreditIs DEF Credit
  <2>2. Credit' = [x \in OrderIds |-> OwedIn(debts', x)]
    BY DEF Credit, Outstanding, OutstandingOn, OwedIn
  <2>3. Credit' = [Credit EXCEPT ![o] = Credit[o] + q.amount]
    BY <1>2, <1>7, <2>1, <2>2 DEF Credit
  <2>4. TotalOf[o] = orders[o].total
    BY <1>2 DEF TotalOf
  <2>. QED
    BY <1>1, <1>2, <1>3, <1>6, <2>1, <2>3, <2>4 DEF Account!Lend, Account!Left
<1>12. Account!AcctNext
  BY <1>2, <1>11 DEF Account!AcctNext
<1>. QED
  BY <1>1, <1>10, <1>12, SerialFinish DEF Kept

\* A repayment moves its amount from what is owed to what is collected.
LEMMA SerialRepay ==
  ASSUME SInv, Alone, NEW p \in Requests, RepayCommit(p)
  PROVE  Kept
<1>. DEFINE q == proc[p]  new == RepaidRow(p)  o == q.order  d == q.debt
            money == payments[o] + q.amount
            paid == debts[d].paid + q.amount
            status == IF AtLeastZero(debts[d].amount - paid) <= 0
                        THEN "settled" ELSE debts[d].status
<1>1. q.pc = "repay" /\ q.pc \in OnOrder /\ q.copy = debts[d]
      /\ q.row = orders[o] /\ q.seen = payments[o]
  BY DEF RepayCommit, OnOrder, SInv, Fresh
<1>2. /\ Finish(p)
      /\ payments' = [payments EXCEPT ![o] = money]
      /\ debts' = [debts EXCEPT ![d].paid = paid, ![d].status = status]
      /\ orders' = [orders EXCEPT ![o] = Written(q.row, new, orders[o])]
  BY <1>1 DEF RepayCommit, SInv, IInv, TypeOK
<1>3. /\ new \in OrderRow /\ new.status # "none" /\ o \in OrderIds
      /\ q.row.total \in Nat /\ q.amount \in Amounts /\ q.amount \in Nat
      /\ q.amount > 0 /\ payments[o] \in Nat
      /\ new.pay = StatusFor(q.row.total, money)
      /\ d \in DebtIds /\ debts[d] \in DebtRow
      /\ debts[d].status = "outstanding" /\ debts[d].order = o
      /\ paid <= debts[d].amount
  BY <1>1, RepaidRowFacts, SMTT(30)
  DEF SInv, IInv, TypeOK, Session, OrderCopy, DebtCopy, Process, OrderRow, Fresh
<1>4. /\ orders'[o].pay = new.pay
      /\ \A x \in OrderIds :
              /\ x # o => orders'[x] = orders[x]
              /\ orders'[x].total = orders[x].total
              /\ orders'[x].status = "none" => orders[x].status = "none"
      /\ TotalOf' = TotalOf
  <2>. HIDE DEF new
  <2>. QED
    BY <1>1, <1>2, <1>3, OrderSaved, ZenonT(60)
<1>5. /\ paid \in Nat /\ status \in {"settled", "outstanding"}
      /\ status = "settled" => paid = debts[d].amount
      /\ status = "outstanding" => paid < debts[d].amount
  BY <1>3 DEF AtLeastZero, DebtRow
<1>. HIDE DEF paid, status, q, o, d, new
<1>6. /\ debts'[d] = [debts[d] EXCEPT !.paid = paid, !.status = status]
      /\ debts'[d] \in DebtRow
      /\ \A e \in DebtIds : e # d => debts'[e] = debts[e]
      /\ debts \in [DebtIds -> DebtRow] /\ debts' \in [DebtIds -> DebtRow]
      /\ \A e \in DebtIds : debts[e].paid <= debts[e].amount
  BY <1>2, <1>3, <1>5 DEF SInv, IInv, TypeOK, DebtsInv, DebtRow
<1>7. /\ debts'[d].paid = paid /\ debts'[d].status = status
      /\ debts'[d].amount = debts[d].amount /\ debts'[d].order = o
  BY <1>3, <1>6 DEF DebtRow
<1>8. /\ debts'[d].paid <= debts'[d].amount
      /\ Share(debts[d], o) = debts[d].amount - debts[d].paid
      /\ Share(debts'[d], o) = debts[d].amount - paid
      /\ \A x \in OrderIds :
           x # o => Share(debts[d], x) = 0 /\ Share(debts'[d], x) = 0
  BY <1>3, <1>5, <1>7 DEF Share, DebtRow
<1>9. \A x \in OrderIds :
        /\ OwedIn(debts', x) = OwedIn(debts, x) - Share(debts[d], x)
                                 + Share(debts'[d], x)
        /\ OwedIn(debts, x) \in Nat
        /\ Share(debts[d], x) <= OwedIn(debts, x)
  <2>1. d \in DebtIds /\ debts'[d].paid <= debts'[d].amount
    BY <1>3, <1>8
  <2>2. /\ debts \in [DebtIds -> DebtRow] /\ debts' \in [DebtIds -> DebtRow]
        /\ \A e \in DebtIds : e # d => debts'[e] = debts[e]
        /\ \A e \in DebtIds : debts[e].paid <= debts[e].amount
    BY <1>6
  <2>. QED
    BY <2>1, <2>2, OneDebtChanges
<1>10. /\ OwedIn(debts', o) = OwedIn(debts, o) - q.amount
       /\ q.amount <= OwedIn(debts, o)
       /\ \A x \in OrderIds : x # o => OwedIn(debts', x) = OwedIn(debts, x)
  <2>1. debts[d].amount \in Nat /\ debts[d].paid \in Nat
    BY <1>3 DEF DebtRow
  <2>. QED
    BY <1>3, <1>8, <1>9, <2>1 DEF paid
<1>11. /\ payments'[o] = money /\ money \in Nat
       /\ \A x \in OrderIds : x # o => payments'[x] = payments[x]
  BY <1>2, <1>3 DEF SInv, IInv, TypeOK
<1>12. Placed(o) /\ payments[o] + OwedIn(debts, o) <= orders[o].total
  BY <1>1, <1>3 DEF SInv, IInv, AccountsInv, Session, OrderCopy, q, o
<1>13. money > 0 /\ money >= orders[o].total => new.pay = "paid"
  <2>. HIDE DEF money
  <2>. QED
    BY <1>1, <1>3, <1>11 DEF StatusFor
<1>14. AccountsInv'
  <2>1. ASSUME NEW x \in OrderIds
        PROVE  /\ payments'[x] + OwedIn(debts', x) <= orders'[x].total
               /\ orders'[x].status = "none" => orders'[x].total = 0
               /\ payments'[x] > 0 /\ payments'[x] >= orders'[x].total =>
                    orders'[x].pay = "paid"
    <3>1. CASE x = o
      BY <1>3, <1>4, <1>9, <1>10, <1>11, <1>12, <1>13, <3>1 DEF Placed
    <3>2. CASE x # o
      BY <1>4, <1>10, <1>11, <3>2 DEF SInv, AccountsInv, Placed
    <3>. QED
      BY <3>1, <3>2
  <2>2. \A e \in DebtIds : debts'[e].status = "settled" =>
          debts'[e].paid = debts'[e].amount
    BY <1>5, <1>6, <1>7 DEF SInv, AccountsInv
  <2>. QED
    BY <2>1, <2>2 DEF AccountsInv, Placed
<1>15. Account!Repaid(o, q.amount)
  <2>1. \A x \in OrderIds : Credit[x] = OwedIn(debts, x)
    BY CreditIs DEF Credit
  <2>2. Credit' = [x \in OrderIds |-> OwedIn(debts', x)]
    BY DEF Credit, Outstanding, OutstandingOn, OwedIn
  <2>3. \A x \in OrderIds : OwedIn(debts', x) =
          IF x = o THEN OwedIn(debts, x) - q.amount ELSE OwedIn(debts, x)
    BY <1>3, <1>10
  <2>4. Credit = [x \in OrderIds |-> OwedIn(debts, x)]
    BY <2>1 DEF Credit
  <2>5. Credit' = [Credit EXCEPT ![o] = Credit[o] - q.amount]
    BY ONLY <1>3, <2>2, <2>3, <2>4
  <2>. QED
    BY <1>2, <1>3, <1>4, <1>10, <2>1, <2>5 DEF Account!Repaid
<1>16. Account!AcctNext
  BY <1>3, <1>15 DEF Account!AcctNext
<1>. QED
  BY <1>2, <1>14, <1>16, SerialFinish DEF Kept

-----------------------------------------------------------------------------
(* Theorems of requests that do not overlap.                               *)

LEMMA SerialInit == Init => SInv /\ Account!AcctInit
<1>. SUFFICES ASSUME Init PROVE SInv /\ Account!AcctInit
  OBVIOUS
<1>1. IInv /\ BlankInv /\ \A p \in Requests : Fresh(proc[p])
  BY InvInit DEF Init, BlankInv, Fresh, Idle, OnOrder
<1>2. \A o \in OrderIds : OwedIn(debts, o) = 0
  <2>. SUFFICES ASSUME NEW o \in OrderIds PROVE OwedIn(debts, o) = 0
    OBVIOUS
  <2>1. {d \in DebtIds : /\ debts[d].order = o
                         /\ debts[d].status = "outstanding"} = {}
    BY DEF Init, NoDebt
  <2>. QED
    BY <2>1, SumEmpty DEF OwedIn
<1>3. AccountsInv
  BY <1>2 DEF Init, AccountsInv, NoOrder, NoDebt
<1>4. Account!AcctInit
  BY <1>2, CreditIs DEF Init, Account!AcctInit, TotalOf, Credit, NoOrder
<1>. QED
  BY <1>1, <1>3, <1>4 DEF SInv

LEMMA SerialNext ==
  ASSUME Alone
  PROVE  SInv /\ [Next]_tillVars => SInv' /\ [Account!AcctNext]_(Account!acctVars)
<1>. SUFFICES ASSUME SInv, [Next]_tillVars
     PROVE  SInv' /\ [Account!AcctNext]_(Account!acctVars)
  OBVIOUS
<1>1. IInv' /\ BlankInv'
  BY InvNext, KeepsDebts DEF SInv
<1>2. CASE UNCHANGED tillVars
  BY <1>1, <1>2 DEF tillVars, SInv, AccountsInv, Placed, Fresh, Account!acctVars,
                    TotalOf, Credit, Outstanding, OutstandingOn
<1>3. ASSUME NEW p \in Requests, Arrive(p) \/ Proceed(p) PROVE Kept
  BY <1>3, SerialStart, SerialPlace, SerialStatus, SerialPay, SerialQuit,
     SerialMoney, SerialCredit, SerialRepay DEF Proceed
<1>. QED
  BY <1>1, <1>2, <1>3 DEF Next, Kept, SInv

\* Handled one at a time, no order collects and lends more than its total: the
\* cap of record_payment, which counts both, does hold them together.
THEOREM NothingOvercollected ==
  ASSUME Alone
  PROVE  Spec => []NeverOvercollected
<1>1. SInv => NeverOvercollected
  BY CreditIs DEF SInv, AccountsInv, NeverOvercollected
<1>. QED
  BY <1>1, SerialInit, SerialNext, PTL DEF Spec

\* Handled one at a time, a settled debt was repaid in full (pay_debt).
THEOREM SettledIsPaid ==
  ASSUME Alone
  PROVE  Spec => []SettledMeansPaid
<1>1. SInv => SettledMeansPaid
  BY DEF SInv, AccountsInv, SettledMeansPaid
<1>. QED
  BY <1>1, SerialInit, SerialNext, PTL DEF Spec

\* Handled one at a time, an order that has collected its total is marked paid
\* (sync_payment_status).
THEOREM CollectedIsPaid ==
  ASSUME Alone
  PROVE  Spec => []CollectedMeansPaid
<1>1. SInv => CollectedMeansPaid
  BY DEF SInv, AccountsInv, CollectedMeansPaid
<1>. QED
  BY <1>1, SerialInit, SerialNext, PTL DEF Spec

\* Handled one at a time, the till keeps the abstract account of every order.
THEOREM AccountKept ==
  ASSUME Alone
  PROVE  Spec => ImplementsAccount
BY SerialInit, SerialNext, PTL DEF Spec, ImplementsAccount, Account!AccountSpec
=============================================================================
