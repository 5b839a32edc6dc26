-------------------------------- MODULE Till --------------------------------
(***************************************************************************)
(* The till: orders, the payments recorded on them, and credit             *)
(* (app/routers/orders.py, app/routers/debts.py, app/models/order.py,      *)
(* app/models/debt.py), with several staff at work on the same orders.     *)
(*                                                                         *)
(* Every handler loads rows into a session of its own and takes no lock.   *)
(* It checks and computes on those copies, and its commit writes only the  *)
(* columns whose value differs from the copy: money already on the order   *)
(* is summed over the copies of the payment rows, a debt's paid_cents is   *)
(* written as a literal.  The sums over debts are queries of their own, so *)
(* they see what is committed at that moment.                              *)
(***************************************************************************)
EXTENDS Integers, FiniteSets, Sums

CONSTANTS
  Requests,   \* slots for requests in flight
  Managers,   \* the slots whose user is a manager or the owner
  Subtotals, Discounts,  \* what an order's lines may come to, and discounts
  Amounts,    \* amounts keyed in, in cents once rounded
  Kinds,      \* which requests arrive, a subset of AllKinds
  MaxOrders,  \* bound on orders ever placed
  MaxDebts,   \* bound on debts ever recorded
  MaxPaid     \* bound on what the model lets one order collect

AllKinds == {"place", "patch", "pay", "credit", "repay", "cancel"}
Points == {"idle", "place", "patch", "pay", "accepted", "flushed", "repay",
           "cancel"}

ASSUME TillAssumption ==
  /\ Managers \subseteq Requests
  /\ Subtotals \subseteq Nat /\ Discounts \subseteq Nat /\ Amounts \subseteq Nat
  /\ Kinds \subseteq AllKinds
  /\ MaxOrders \in Nat /\ MaxDebts \in Nat /\ MaxPaid \in Nat

VARIABLES
  orders,     \* the rows of orders
  payments,   \* the sum of each order's payment rows
  debts,      \* the rows of debts
  collected,  \* the part of payments that pay_debt recorded, by debt
  proc        \* the requests in flight, with their sessions

tillVars == <<orders, payments, debts, collected, proc>>

OrderIds == 1 .. MaxOrders
DebtIds == 1 .. MaxDebts

\* "pending" stands for pending, preparing and ready, which the till does not
\* tell apart; "none" is a row not inserted yet.
OrderStatus == {"pending", "served", "completed", "cancelled"}
PaymentStatus == {"unpaid", "partial", "paid"}
OrderRow == [status : OrderStatus \cup {"none"}, pay : PaymentStatus,
             total : Nat]
DebtRow == [order : Nat, amount : Nat, paid : Nat,
            status : {"none", "outstanding", "settled"}]

\* row, seen and debt are the session's copies: the order, the sum over the
\* payments loaded with it, and the debt.  new is the order row to commit.
Process == [pc : Points, order : Nat, debt : Nat, row : OrderRow,
            new : OrderRow, seen : Nat, copy : DebtRow, amount : Nat,
            credit : BOOLEAN]

\* The points at which a request works on an order, and on a debt.
OnOrder == {"patch", "pay", "accepted", "flushed", "repay", "cancel"}

TypeOK ==
  /\ orders \in [OrderIds -> OrderRow]
  /\ payments \in [OrderIds -> Nat]
  /\ debts \in [DebtIds -> DebtRow]
  /\ collected \in [DebtIds -> Nat]
  /\ proc \in [Requests -> Process]
  /\ \A p \in Requests :
       /\ proc[p].pc \in OnOrder => proc[p].order \in OrderIds
       /\ proc[p].pc = "repay" => proc[p].debt \in DebtIds
  /\ \A d \in DebtIds : debts[d].status # "none" => debts[d].order \in OrderIds

NoOrder == [status |-> "none", pay |-> "unpaid", total |-> 0]
NoDebt == [order |-> 0, amount |-> 0, paid |-> 0, status |-> "none"]
Idle == [pc |-> "idle", order |-> 0, debt |-> 0, row |-> NoOrder,
         new |-> NoOrder, seen |-> 0, copy |-> NoDebt, amount |-> 0,
         credit |-> FALSE]

Init ==
  /\ orders = [o \in OrderIds |-> NoOrder]
  /\ payments = [o \in OrderIds |-> 0]
  /\ debts = [d \in DebtIds |-> NoDebt]
  /\ collected = [d \in DebtIds |-> 0]
  /\ proc = [p \in Requests |-> Idle]

-----------------------------------------------------------------------------
(* Money helpers and the session.                                          *)

\* Mutant: a total or a balance may go below zero.
AsItIs(n) == n

AtLeastZero(n) == IF n < 0 THEN 0 ELSE n

\* balance_cents, over the payments a session knows of.
Balance(total, paid) == AtLeastZero(total - paid)

\* sync_payment_status
StatusFor(total, paid) ==
  IF paid <= 0 THEN "unpaid" ELSE IF paid < total THEN "partial" ELSE "paid"

OutstandingOn(o) ==
  {d \in DebtIds : debts[d].order = o /\ debts[d].status = "outstanding"}

\* SELECT coalesce(sum(amount_cents - paid_cents), 0): committed debts only.
\* No term is negative (DebtNeverOverstated).
Outstanding(o) ==
  SumOver([d \in DebtIds |-> debts[d].amount - debts[d].paid], OutstandingOn(o))

\* Mutant: every column of the row is written.
WrittenWhole(loaded, new, row) == new

\* The unit of work's UPDATE, as in Billing.
Written(loaded, new, row) ==
  [status |-> IF new.status # loaded.status THEN new.status ELSE row.status,
   pay    |-> IF new.pay # loaded.pay THEN new.pay ELSE row.pay,
   total  |-> row.total]

Save(p) ==
  orders' = [orders EXCEPT ![proc[p].order] =
               Written(proc[p].row, proc[p].new, @)]

Placed(o) == orders[o].status # "none"
Finish(p) == proc' = [proc EXCEPT ![p] = Idle]

\* _get_scoped_order: the row and its payments, into p's session.
Load(p, o, pc) ==
  [Idle EXCEPT !.pc = pc, !.order = o, !.row = orders[o], !.new = orders[o],
               !.seen = payments[o]]

-----------------------------------------------------------------------------
(* create_order: recalculate, flush, commit.  Its stock is not modelled.   *)

PlaceStart(p, subtotal, discount) ==
  /\ "place" \in Kinds /\ proc[p].pc = "idle"
  /\ discount > 0 => p \in Managers
  /\ proc' = [proc EXCEPT ![p] = [Idle EXCEPT !.pc = "place",
                !.new = [status |-> "pending", pay |-> "unpaid",
                         total |-> AtLeastZero(subtotal - discount)]]]
  /\ UNCHANGED <<orders, payments, debts, collected>>

PlaceCommit(p, o) ==
  /\ proc[p].pc = "place"
  /\ ~ Placed(o) /\ \A q \in 1 .. o - 1 : Placed(q)
  /\ orders' = [orders EXCEPT ![o] = proc[p].new]
  /\ Finish(p)
  /\ UNCHANGED <<payments, debts, collected>>

-----------------------------------------------------------------------------
(* update_status: any role, any status, from any status.                   *)

PatchStart(p, o, status) ==
  /\ "patch" \in Kinds /\ proc[p].pc = "idle" /\ Placed(o)
  /\ proc' = [proc EXCEPT ![p] =
                [Load(p, o, "patch") EXCEPT !.new.status = status]]
  /\ UNCHANGED <<orders, payments, debts, collected>>

PatchCommit(p) ==
  /\ proc[p].pc = "patch"
  /\ Save(p) /\ Finish(p)
  /\ UNCHANGED <<payments, debts, collected>>

-----------------------------------------------------------------------------
(* record_payment, of money or (method "debt") of credit.                  *)

PayStart(p, o, amount, credit) ==
  /\ (IF credit THEN "credit" ELSE "pay") \in Kinds
  /\ proc[p].pc = "idle" /\ Placed(o)
  /\ proc' = [proc EXCEPT ![p] = [Load(p, o, "pay") EXCEPT !.amount = amount,
                                                         !.credit = credit]]
  /\ UNCHANGED <<orders, payments, debts, collected>>

\* Mutant: credit already given does not count.
RemainingIgnoresDebt(p) == Balance(proc[p].row.total, proc[p].seen)

\* What is left to pay, from the session's payments and the committed debts.
Remaining(p) ==
  Balance(proc[p].row.total, proc[p].seen) - Outstanding(proc[p].order)

PayAccept(p) ==
  /\ proc[p].pc = "pay" /\ proc[p].amount <= Remaining(p)
  /\ proc' = [proc EXCEPT ![p].pc = "accepted"]
  /\ UNCHANGED <<orders, payments, debts, collected>>

PayRefuse(p) ==
  /\ proc[p].pc = "pay" /\ proc[p].amount > Remaining(p)
  /\ Finish(p)
  /\ UNCHANGED <<orders, payments, debts, collected>>

\* Mutants: credit counts towards the payment status; any payment completes a
\* served order; the status is synced before the payment is added.
FlushedAs(p, status, paid) ==
  /\ proc[p].pc = "accepted"
  /\ proc' = [proc EXCEPT ![p].pc = "flushed",
       ![p].new = [status |-> status, total |-> proc[p].row.total,
                   pay |-> StatusFor(proc[p].row.total, paid)]]
  /\ UNCHANGED <<orders, payments, debts, collected>>
PayFlushCountsCredit(p) ==
  FlushedAs(p, proc[p].row.status, proc[p].seen + proc[p].amount)
PayFlushCompletes(p) ==
  FlushedAs(p, IF proc[p].row.status = "served" THEN "completed"
                 ELSE proc[p].row.status,
            IF proc[p].credit THEN proc[p].seen
              ELSE proc[p].seen + proc[p].amount)
PayFlushSyncsFirst(p) == FlushedAs(p, proc[p].row.status, proc[p].seen)

\* The row is flushed, the payment status synced, and the debts are summed
\* again, the one just flushed included, to see whether the order is covered.
PayFlush(p) ==
  LET q       == proc[p]
      paid    == IF q.credit THEN q.seen ELSE q.seen + q.amount
      owed    == Outstanding(q.order) + (IF q.credit THEN q.amount ELSE 0)
      covered == paid + owed >= q.row.total
  IN
  /\ q.pc = "accepted"
  /\ proc' = [proc EXCEPT ![p].pc = "flushed",
       ![p].new = [status |-> IF covered /\ q.row.status = "served"
                                THEN "completed" ELSE q.row.status,
                   pay |-> StatusFor(q.row.total, paid),
                   total |-> q.row.total]]
  /\ UNCHANGED <<orders, payments, debts, collected>>

PayCommit(p) ==
  /\ proc[p].pc = "flushed" /\ ~ proc[p].credit
  /\ payments[proc[p].order] + proc[p].amount <= MaxPaid
  /\ payments' = [payments EXCEPT ![proc[p].order] = @ + proc[p].amount]
  /\ Save(p) /\ Finish(p)
  /\ UNCHANGED <<debts, collected>>

CreditCommit(p, d) ==
  /\ proc[p].pc = "flushed" /\ proc[p].credit
  /\ debts[d].status = "none" /\ \A e \in 1 .. d - 1 : debts[e].status # "none"
  /\ debts' = [debts EXCEPT ![d] =
                 [order |-> proc[p].order, amount |-> proc[p].amount,
                  paid |-> 0, status |-> "outstanding"]]
  /\ Save(p) /\ Finish(p)
  /\ UNCHANGED <<payments, collected>>

-----------------------------------------------------------------------------
(* pay_debt                                                                *)

\* Mutant: capped at what was lent instead of what is still owed.
RepayStartUpToLent(p, d, amount) ==
  /\ "repay" \in Kinds /\ proc[p].pc = "idle"
  /\ debts[d].status = "outstanding"
  /\ amount > 0 /\ amount <= debts[d].amount
  /\ proc' = [proc EXCEPT ![p] =
                [Load(p, debts[d].order, "repay") EXCEPT
                   !.debt = d, !.copy = debts[d], !.amount = amount]]
  /\ UNCHANGED <<orders, payments, debts, collected>>

RepayStart(p, d, amount) ==
  /\ "repay" \in Kinds /\ proc[p].pc = "idle"
  /\ debts[d].status = "outstanding"
  /\ amount > 0 /\ amount <= AtLeastZero(debts[d].amount - debts[d].paid)
  /\ proc' = [proc EXCEPT ![p] =
                [Load(p, debts[d].order, "repay") EXCEPT
                   !.debt = d, !.copy = debts[d], !.amount = amount]]
  /\ UNCHANGED <<orders, payments, debts, collected>>

\* The new row of the order, from the session's copies alone.
RepaidRow(p) ==
  LET row == proc[p].row
      pay == StatusFor(row.total, proc[p].seen + proc[p].amount)
  IN  [status |-> IF pay = "paid" /\ row.status = "served"
                    THEN "completed" ELSE row.status,
       pay |-> pay, total |-> row.total]

\* Mutants: a debt repaid in full stays outstanding; any repayment settles it.
RepaidTo(p, paid, settled) ==
  /\ proc[p].pc = "repay" /\ payments[proc[p].order] + proc[p].amount <= MaxPaid
  /\ payments' = [payments EXCEPT ![proc[p].order] = @ + proc[p].amount]
  /\ collected' = [collected EXCEPT ![proc[p].debt] = @ + proc[p].amount]
  /\ debts' = [debts EXCEPT ![proc[p].debt].paid = paid,
                 ![proc[p].debt].status = IF settled THEN "settled" ELSE @]
  /\ orders' = [orders EXCEPT ![proc[p].order] =
                  Written(proc[p].row, RepaidRow(p), @)]
  /\ Finish(p)
RepayCommitNeverSettles(p) ==
  RepaidTo(p, proc[p].copy.paid + proc[p].amount, FALSE)
RepayCommitSettles(p) ==
  RepaidTo(p, proc[p].copy.paid + proc[p].amount, TRUE)

\* Mutant: the debt is reduced and no payment is recorded on the order.
RepayCommitUnrecorded(p) ==
  LET paid == proc[p].copy.paid + proc[p].amount IN
  /\ proc[p].pc = "repay"
  /\ debts' = [debts EXCEPT ![proc[p].debt].paid = paid,
                 ![proc[p].debt].status =
                    IF paid >= proc[p].copy.amount THEN "settled" ELSE @]
  /\ Finish(p)
  /\ UNCHANGED <<orders, payments, collected>>

RepayCommit(p) ==
  LET o    == proc[p].order
      copy == proc[p].copy
      paid == copy.paid + proc[p].amount
  IN
  /\ proc[p].pc = "repay"
  /\ payments[o] + proc[p].amount <= MaxPaid
  /\ payments' = [payments EXCEPT ![o] = @ + proc[p].amount]
  /\ collected' = [collected EXCEPT ![proc[p].debt] = @ + proc[p].amount]
  /\ debts' = [debts EXCEPT ![proc[p].debt].paid = paid,
                 ![proc[p].debt].status =
                    IF AtLeastZero(copy.amount - paid) <= 0 THEN "settled" ELSE @]
  /\ orders' = [orders EXCEPT ![o] = Written(proc[p].row, RepaidRow(p), @)]
  /\ Finish(p)

-----------------------------------------------------------------------------
(* cancel_order: managers only, not of a paid or a cancelled order.        *)

CancelStart(p, o) ==
  /\ "cancel" \in Kinds /\ proc[p].pc = "idle" /\ Placed(o)
  /\ p \in Managers
  /\ orders[o].pay # "paid" /\ orders[o].status # "cancelled"
  /\ proc' = [proc EXCEPT ![p] =
                [Load(p, o, "cancel") EXCEPT !.new.status = "cancelled"]]
  /\ UNCHANGED <<orders, payments, debts, collected>>

CancelCommit(p) ==
  /\ proc[p].pc = "cancel"
  /\ Save(p) /\ Finish(p)
  /\ UNCHANGED <<payments, debts, collected>>

\* The client goes away, a statement fails or the worker dies: rolled back.
Abandon(p) ==
  /\ proc[p].pc # "idle"
  /\ Finish(p)
  /\ UNCHANGED <<orders, payments, debts, collected>>

-----------------------------------------------------------------------------
Arrive(p) ==
  \/ \E s \in Subtotals, t \in Discounts : PlaceStart(p, s, t)
  \/ \E o \in OrderIds :
       \/ \E s \in OrderStatus : PatchStart(p, o, s)
       \/ \E a \in Amounts, credit \in BOOLEAN : PayStart(p, o, a, credit)
       \/ CancelStart(p, o)
  \/ \E d \in DebtIds, a \in Amounts : RepayStart(p, d, a)

Proceed(p) ==
  \/ \E o \in OrderIds : PlaceCommit(p, o)
  \/ PatchCommit(p)
  \/ PayAccept(p) \/ PayRefuse(p) \/ PayFlush(p) \/ PayCommit(p)
  \/ \E d \in DebtIds : CreditCommit(p, d)
  \/ RepayCommit(p)
  \/ CancelCommit(p)
  \/ Abandon(p)

Next == \E p \in Requests : Arrive(p) \/ Proceed(p)

Spec == Init /\ [][Next]_tillVars

-----------------------------------------------------------------------------
(* Properties that hold however the requests overlap.                      *)

\* An order marked paid has collected its total: the mark is made from stale
\* copies of the payments, which can only have missed some.
PaidMeansCollected ==
  \A o \in OrderIds : orders[o].pay = "paid" => payments[o] >= orders[o].total

\* Money on an order is never forgotten altogether: no stale commit puts an
\* order that has collected something back to "unpaid", where the
\* accountability report would hold it against its server in full.
UnpaidMeansNothing ==
  \A o \in OrderIds : orders[o].pay = "unpaid" => payments[o] = 0

\* A debt never claims more repaid than was collected against it, nor more
\* than was lent, although concurrent repayments overwrite each other's
\* paid_cents.
DebtNeverOverstated ==
  \A d \in DebtIds : debts[d].paid <= collected[d] /\ debts[d].paid <= debts[d].amount

\* models/debt.py:24, OUTSTANDING = "still owed (fully or partially)": what is
\* listed as outstanding can be repaid, although repayments write paid_cents
\* from stale copies.  A debt lent for an amount that rounds to zero is left out:
\* it stays listed, and no repayment is small enough for it.
OutstandingMeansOwed ==
  \A d \in DebtIds :
    debts[d].status = "outstanding" /\ debts[d].amount > 0 =>
      debts[d].paid < debts[d].amount

\* All that was ever given on credit for an order, repaid or not.
Lent(o) ==
  SumOver([d \in DebtIds |-> debts[d].amount], {d \in DebtIds : debts[d].order = o})

\* An order that a payment, a credit or a repayment completes has had its whole
\* total collected or lent, whatever else was committed while it ran.
CompletedWhenCovered ==
  [][\A o \in OrderIds, p \in Requests :
       (orders[o].status = "served" /\ orders'[o].status = "completed"
          /\ proc[p].pc \in {"flushed", "repay"} /\ proc'[p].pc = "idle") =>
         payments'[o] + Lent(o)' >= orders[o].total]_tillVars

-----------------------------------------------------------------------------
(* Properties of requests that do not overlap; section 11 of the README    *)
(* says how overlapping ones break them.                                   *)

\* orders.py:191-196: payments and outstanding debt both count, "so the two
\* paths can't each be capped against the full balance independently (which
\* would let an order collect more than its total)".
NeverOvercollected ==
  \A o \in OrderIds : payments[o] + Outstanding(o) <= orders[o].total

\* models/debt.py:25, SETTLED = "fully paid off".
SettledMeansPaid ==
  \A d \in DebtIds : debts[d].status = "settled" => debts[d].paid = debts[d].amount

\* An order that has collected its total says so.
CollectedMeansPaid ==
  \A o \in OrderIds :
    payments[o] > 0 /\ payments[o] >= orders[o].total => orders[o].pay = "paid"

\* With one request at a time, the till keeps each order's account.
Credit == [o \in OrderIds |-> Outstanding(o)]
TotalOf == [o \in OrderIds |-> orders[o].total]
Prices == {AtLeastZero(s - t) : s \in Subtotals, t \in Discounts}

Account == INSTANCE OrderAccount
             WITH Orders <- OrderIds, Totals <- Prices,
                  total <- TotalOf, collected <- payments, credit <- Credit

ImplementsAccount == Account!AccountSpec
=============================================================================
