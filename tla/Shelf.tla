------------------------------- MODULE Shelf -------------------------------
(***************************************************************************)
(* The storeroom: stock items with their running totals, the ledger of     *)
(* movements, the recipes that deduct ingredients when a dish is sold, and *)
(* the expenses, which a costed delivery writes (app/routers/stock.py,     *)
(* app/services/stock_deduction.py, app/routers/expenses.py and the        *)
(* stock's part of app/routers/orders.py).                                 *)
(*                                                                         *)
(* A request loads rows into its session, checks and computes on those     *)
(* copies, and commits literals: the running total it writes is the one it *)
(* read plus its own movement.  No handler takes a lock.  Total, movement, *)
(* order and expense of one request commit together or not at all.         *)
(***************************************************************************)
EXTENDS Integers, FiniteSets, Sums

CONSTANTS
  Requests,     \* slots for requests in flight
  Dishes,       \* the items of the menu that recipes speak of
  Deltas,       \* quantities keyed in as movements, in thousandths
  Openings,     \* opening quantities of a new item
  Levels,       \* reorder levels
  Yields,       \* quantities one sale takes, once rounded; 0 is no recipe
  Costs,        \* amounts of an expense or of a delivery, in cents
  Kinds,        \* which requests arrive, a subset of AllKinds
  MaxItems, MaxOrders, MaxExpenses,  \* bounds on rows ever inserted
  MaxSum        \* bound on what the model lets totals and ledgers come to

ItemKinds == {"update", "archive", "move", "recipe"}
OrderKinds == {"patch", "cancel"}
ExpenseKinds == {"amend", "settle", "drop"}
AllKinds == ItemKinds \cup OrderKinds \cup ExpenseKinds \cup {"place"}

ASSUME ShelfAssumption ==
  /\ Deltas \subseteq Int \ {0} /\ Openings \subseteq Nat
  /\ Levels \subseteq Nat /\ Yields \subseteq Nat /\ Costs \subseteq Nat
  /\ Kinds \subseteq AllKinds
  /\ MaxItems \in Nat /\ MaxOrders \in Nat /\ MaxExpenses \in Nat
  /\ MaxSum \in Nat
  /\ IsFiniteSet(Dishes)

VARIABLES
  items,      \* the rows of stock_items
  recipes,    \* the quantity of each recipe line, by dish and item
  ledger,     \* stock_movements: the sum of an item's deltas, its last balance
  orders,     \* the orders: their dishes, whether cancelled, whether paid
  net,        \* the part of the ledger that an order moved, by order and item
  expenses,   \* the rows of expenses
  proc,       \* the requests in flight, with their sessions
  steady      \* history: so far no requests overlapped, and neither recipes,
              \* shelf nor statuses were changed under a placed order

shelfVars == <<items, recipes, ledger, orders, net, expenses, proc, steady>>

ItemIds == 1 .. MaxItems
OrderIds == 1 .. MaxOrders
ExpenseIds == 1 .. MaxExpenses

ItemRow == [status : {"none", "live", "archived"}, qty : Int, level : Nat]
OrderRow == [status : {"none", "open", "cancelled"}, paid : BOOLEAN,
             lines : [Dishes -> {0, 1}]]
ExpenseRow == [status : {"none", "live", "deleted"}, amount : Nat,
               paid : BOOLEAN]
Points == {"idle", "reverse"} \cup AllKinds

\* row, shelf, line, order and bill are the session's copies; held says that
\* the recipe line it loaded is still the same row.
Process == [pc : Points, item : Nat, dish : Dishes \cup {"none"}, ord : Nat,
            exp : Nat, shelf : [ItemIds -> ItemRow], line : Nat,
            held : BOOLEAN, order : OrderRow, bill : ExpenseRow,
            take : [ItemIds -> Int]]

OnOrder == OrderKinds \cup {"place", "reverse"}

TypeOK ==
  /\ items \in [ItemIds -> ItemRow]
  /\ recipes \in [Dishes -> [ItemIds -> Nat]]
  /\ ledger \in [ItemIds -> [sum : Int, last : Int]]
  /\ orders \in [OrderIds -> OrderRow]
  /\ net \in [OrderIds -> [ItemIds -> Int]]
  /\ expenses \in [ExpenseIds -> ExpenseRow]
  /\ proc \in [Requests -> Process]
  /\ steady \in BOOLEAN
  /\ \A p \in Requests :
       /\ proc[p].pc \in ItemKinds => proc[p].item \in ItemIds
       /\ proc[p].pc = "recipe" => proc[p].dish \in Dishes
       /\ proc[p].pc \in OnOrder => proc[p].ord \in OrderIds
       /\ proc[p].pc \in ExpenseKinds => proc[p].exp \in ExpenseIds

NoItem == [status |-> "none", qty |-> 0, level |-> 0]
NoOrder == [status |-> "none", paid |-> FALSE, lines |-> [d \in Dishes |-> 0]]
NoExpense == [status |-> "none", amount |-> 0, paid |-> FALSE]
Nothing == [i \in ItemIds |-> 0]
Idle == [pc |-> "idle", item |-> 0, dish |-> "none", ord |-> 0, exp |-> 0,
         shelf |-> [i \in ItemIds |-> NoItem], line |-> 0, held |-> TRUE,
         order |-> NoOrder, bill |-> NoExpense, take |-> Nothing]

Init ==
  /\ items = [i \in ItemIds |-> NoItem]
  /\ recipes = [d \in Dishes |-> Nothing]
  /\ ledger = [i \in ItemIds |-> [sum |-> 0, last |-> 0]]
  /\ orders = [o \in OrderIds |-> NoOrder]
  /\ net = [o \in OrderIds |-> Nothing]
  /\ expenses = [e \in ExpenseIds |-> NoExpense]
  /\ proc = [p \in Requests |-> Idle]
  /\ steady = TRUE

-----------------------------------------------------------------------------
(* What the handlers compute.                                              *)

NoneInFlight == \A p \in Requests : proc[p].pc = "idle"
NothingPlaced == \A o \in OrderIds : orders[o].status = "none"

\* _lines_for: the quantity an order moves per item, netted over its dishes;
\* archived items take no part.
LinesFor(lines) ==
  [i \in ItemIds |->
     IF items[i].status = "live"
     THEN SumOver([d \in Dishes |-> recipes[d][i] * lines[d]], Dishes)
     ELSE 0]

\* The total that _move and record_movement write: the copy's plus the delta.
NewTotal(p, i, delta) == proc[p].shelf[i].qty + delta

Within(n) == n \in -MaxSum .. MaxSum
Bounded(take) == take \in [ItemIds -> 0 .. MaxSum]

\* Mutant: the total is incremented by the database, the balance is the copy's.
MovedIncrement(p, moves) ==
  /\ \A i \in ItemIds : Within(ledger[i].sum + moves[i])
  /\ items' = [i \in ItemIds |-> [items[i] EXCEPT !.qty = @ + moves[i]]]
  /\ ledger' = [i \in ItemIds |->
       IF moves[i] = 0 THEN ledger[i]
       ELSE [sum |-> ledger[i].sum + moves[i],
             last |-> NewTotal(p, i, moves[i])]]

\* Mutant: the ledger keeps the size of a movement without its sign.
MovedUnsigned(p, moves) ==
  /\ \A i \in ItemIds : Within(NewTotal(p, i, moves[i]))
  /\ items' = [i \in ItemIds |->
       IF moves[i] = 0 THEN items[i]
       ELSE [items[i] EXCEPT !.qty = NewTotal(p, i, moves[i])]]
  /\ ledger' = [i \in ItemIds |->
       IF moves[i] = 0 THEN ledger[i]
       ELSE [sum |-> ledger[i].sum
                       + (IF moves[i] < 0 THEN -moves[i] ELSE moves[i]),
             last |-> NewTotal(p, i, moves[i])]]

\* The rows that a commit of p moving moves[i] of each item i writes.
Moved(p, moves) ==
  /\ \A i \in ItemIds : /\ Within(ledger[i].sum + moves[i])
                        /\ Within(NewTotal(p, i, moves[i]))
  /\ items' = [i \in ItemIds |->
       IF moves[i] = 0 THEN items[i]
       ELSE [items[i] EXCEPT !.qty = NewTotal(p, i, moves[i])]]
  /\ ledger' = [i \in ItemIds |->
       IF moves[i] = 0 THEN ledger[i]
       ELSE [sum |-> ledger[i].sum + moves[i],
             last |-> NewTotal(p, i, moves[i])]]

Finish(p) == proc' = [proc EXCEPT ![p] = Idle]

\* A request arrives: it is handled alone, or no longer steadily.
Load(p, point, copies) ==
  /\ proc[p].pc = "idle"
  /\ point \in Kinds
  /\ proc' = [proc EXCEPT ![p] = copies]
  /\ steady' = (steady /\ NoneInFlight)

-----------------------------------------------------------------------------
(* Stock items (routers/stock.py).                                         *)

\* create_stock_item: the opening quantity is itself a movement, and the item
\* may be linked to a dish at once.  It reads no row that another may change.
CreateItem(i, quantity, d, yield) ==
  /\ items[i].status = "none"
  /\ \A j \in ItemIds : j < i => items[j].status # "none"
  /\ items' = [items EXCEPT ![i] = [status |-> "live", qty |-> quantity,
                                    level |-> 0]]
  /\ ledger' = [ledger EXCEPT ![i] = [sum |-> quantity, last |-> quantity]]
  /\ recipes' = IF d \in Dishes THEN [recipes EXCEPT ![d][i] = yield]
                ELSE recipes
  /\ steady' = (steady /\ NoneInFlight /\ (d \notin Dishes \/ NothingPlaced))
  /\ UNCHANGED <<orders, net, expenses, proc>>

\* Mutant: the request does not keep the dish it was sent for.
ItemStartNoDish(p, kind, i, d) ==
  /\ kind \in ItemKinds
  /\ items[i].status = "live"
  /\ Load(p, kind, [Idle EXCEPT !.pc = kind, !.item = i, !.shelf = items])
  /\ UNCHANGED <<items, recipes, ledger, orders, net, expenses>>

\* _get_item: an archived item is not found.
ItemStart(p, kind, i, d) ==
  /\ kind \in ItemKinds
  /\ items[i].status = "live"
  /\ Load(p, kind, [Idle EXCEPT !.pc = kind, !.item = i, !.shelf = items,
                      !.dish = IF kind = "recipe" THEN d ELSE "none",
                      !.line = IF kind = "recipe" THEN recipes[d][i] ELSE 0])
  /\ UNCHANGED <<items, recipes, ledger, orders, net, expenses>>

\* update_stock_item has no column for the quantity.
UpdateCommit(p, level) ==
  LET i == proc[p].item IN
  /\ proc[p].pc = "update"
  /\ items' = IF level = proc[p].shelf[i].level THEN items
              ELSE [items EXCEPT ![i].level = level]
  /\ Finish(p)
  /\ UNCHANGED <<recipes, ledger, orders, net, expenses, steady>>

ArchiveCommit(p) ==
  /\ proc[p].pc = "archive"
  /\ items' = [items EXCEPT ![proc[p].item].status = "archived"]
  /\ Finish(p)
  /\ steady' = (steady /\ NothingPlaced)
  /\ UNCHANGED <<recipes, ledger, orders, net, expenses>>

\* Mutant: a movement is never refused.
MoveCommitUnchecked(p, delta, received, cost, paid) ==
  LET i == proc[p].item IN
  /\ proc[p].pc = "move"
  /\ Moved(p, [Nothing EXCEPT ![i] = delta])
  /\ Finish(p)
  /\ UNCHANGED <<recipes, orders, net, expenses, steady>>

\* record_movement: refused when the copy says the total would be negative.  A
\* costed delivery writes an expense in the same transaction.
MoveCommit(p, delta, received, cost, paid) ==
  LET i == proc[p].item IN
  /\ proc[p].pc = "move"
  /\ NewTotal(p, i, delta) >= 0
  /\ Moved(p, [Nothing EXCEPT ![i] = delta])
  /\ IF received /\ cost # 0
     THEN \E e \in ExpenseIds :
            /\ expenses[e].status = "none"
            /\ \A f \in ExpenseIds : f < e => expenses[f].status # "none"
            /\ expenses' = [expenses EXCEPT ![e] =
                 [status |-> "live", amount |-> cost, paid |-> paid]]
     ELSE UNCHANGED expenses
  /\ Finish(p)
  /\ UNCHANGED <<recipes, orders, net, steady>>

\* set_recipe: nothing or zero clears the link.  A line that has been deleted
\* since it was loaded, or inserted since it was missed, fails the commit and
\* the request ends without one (Abandon).
RecipeCommit(p, quantity) ==
  LET i == proc[p].item
      d == proc[p].dish
      existing == proc[p].line
      writes == IF existing # 0 THEN quantity # existing ELSE quantity # 0
      held(q) == /\ proc[q].pc = "recipe"
                 /\ proc[q].item = i /\ proc[q].dish = d
  IN
  /\ proc[p].pc = "recipe"
  /\ writes => IF existing # 0 THEN proc[p].held ELSE recipes[d][i] = 0
  /\ recipes' = IF writes THEN [recipes EXCEPT ![d][i] = quantity] ELSE recipes
  /\ proc' = [q \in Requests |->
       IF q = p THEN Idle
       ELSE IF writes /\ quantity = 0 /\ held(q)
            THEN [proc[q] EXCEPT !.held = FALSE] ELSE proc[q]]
  /\ steady' = (steady /\ (writes => NothingPlaced))
  /\ UNCHANGED <<items, ledger, orders, net, expenses>>

-----------------------------------------------------------------------------
(* Orders, for what they do to the shelf (routers/orders.py).              *)

\* create_order: flush the order, then read the recipes and the shelf.
PlaceStart(p, o, lines) ==
  /\ orders[o].status = "none"
  /\ \A q \in Requests : proc[q].pc = "place" => proc[q].ord # o
  /\ Bounded(LinesFor(lines))
  /\ Load(p, "place",
       [Idle EXCEPT !.pc = "place", !.ord = o, !.shelf = items,
          !.order = [status |-> "open", paid |-> FALSE, lines |-> lines],
          !.take = LinesFor(lines)])
  /\ UNCHANGED <<items, recipes, ledger, orders, net, expenses>>

\* apply_sale: the deduction commits with the order; it may go below zero.
PlaceCommit(p) ==
  LET moves == [i \in ItemIds |-> -proc[p].take[i]] IN
  /\ proc[p].pc = "place"
  /\ Moved(p, moves)
  /\ orders' = [orders EXCEPT ![proc[p].ord] = proc[p].order]
  /\ net' = [net EXCEPT ![proc[p].ord] = moves]
  /\ Finish(p)
  /\ UNCHANGED <<recipes, expenses, steady>>

\* Mutant: an order that is already cancelled can be cancelled.
OrderStartAgain(p, kind, o) ==
  /\ kind \in OrderKinds
  /\ orders[o].status # "none"
  /\ kind = "cancel" => ~orders[o].paid
  /\ Load(p, kind, [Idle EXCEPT !.pc = kind, !.ord = o, !.order = orders[o]])
  /\ UNCHANGED <<items, recipes, ledger, orders, net, expenses>>

\* cancel_order and update_status load the order; only a cancellation is
\* refused for a paid or cancelled one.
OrderStart(p, kind, o) ==
  /\ kind \in OrderKinds
  /\ orders[o].status # "none"
  /\ kind = "cancel" => /\ ~orders[o].paid
                        /\ orders[o].status # "cancelled"
  /\ Load(p, kind, [Idle EXCEPT !.pc = kind, !.ord = o, !.order = orders[o]])
  /\ UNCHANGED <<items, recipes, ledger, orders, net, expenses>>

\* reverse_sale reads the recipes and the shelf as they are now.
ReverseRead(p) ==
  /\ proc[p].pc = "cancel"
  /\ Bounded(LinesFor(proc[p].order.lines))
  /\ proc' = [proc EXCEPT ![p].pc = "reverse", ![p].shelf = items,
                          ![p].take = LinesFor(proc[p].order.lines)]
  /\ UNCHANGED <<items, recipes, ledger, orders, net, expenses, steady>>

CancelCommit(p) ==
  LET o == proc[p].ord IN
  /\ proc[p].pc = "reverse"
  /\ Moved(p, proc[p].take)
  /\ \A i \in ItemIds : Within(net[o][i] + proc[p].take[i])
  /\ orders' = [orders EXCEPT ![o].status = "cancelled"]
  /\ net' = [net EXCEPT ![o] = [i \in ItemIds |-> @[i] + proc[p].take[i]]]
  /\ Finish(p)
  /\ UNCHANGED <<recipes, expenses, steady>>

\* update_status moves no stock, whatever the status.  "open" stands for every
\* status but cancelled: from one of them to another the column is written too.
PatchCommit(p, status, writes) ==
  LET o == proc[p].ord IN
  /\ proc[p].pc = "patch"
  /\ status # proc[p].order.status => writes
  /\ status = proc[p].order.status /\ status = "cancelled" => ~writes
  /\ orders' = IF writes THEN [orders EXCEPT ![o].status = status] ELSE orders
  /\ steady' = (steady /\ orders' = orders)
  /\ Finish(p)
  /\ UNCHANGED <<items, recipes, ledger, net, expenses>>

\* record_payment, which the till models, may complete an order at any time.  If
\* its copy is from before a cancellation it writes completed over that; the
\* order is then as after a PatchCommit to "open" and this.
PayOrder(o) ==
  /\ orders[o].status # "none"
  /\ orders' = [orders EXCEPT ![o].paid = TRUE]
  /\ UNCHANGED <<items, recipes, ledger, net, expenses, proc, steady>>

-----------------------------------------------------------------------------
(* Expenses (routers/expenses.py).                                         *)

\* create_expense: paid unless a delivery said otherwise.
Spend(e, amount) ==
  /\ expenses[e].status = "none"
  /\ \A f \in ExpenseIds : f < e => expenses[f].status # "none"
  /\ expenses' = [expenses EXCEPT ![e] = [status |-> "live", amount |-> amount,
                                          paid |-> TRUE]]
  /\ UNCHANGED <<items, recipes, ledger, orders, net, proc, steady>>

ExpenseStart(p, kind, e) ==
  /\ kind \in ExpenseKinds
  /\ expenses[e].status = "live"
  /\ kind = "settle" => ~expenses[e].paid
  /\ Load(p, kind, [Idle EXCEPT !.pc = kind, !.exp = e, !.bill = expenses[e]])
  /\ UNCHANGED <<items, recipes, ledger, orders, net, expenses>>

\* Mutant: the whole row is written back, stale columns included.
ExpenseCommitWhole(p, row) ==
  /\ \/ /\ proc[p].pc = "amend"
        /\ row = [proc[p].bill EXCEPT !.amount = row.amount]
     \/ /\ proc[p].pc = "settle"
        /\ row = [proc[p].bill EXCEPT !.paid = TRUE]
  /\ expenses' = [expenses EXCEPT ![proc[p].exp] = row]
  /\ Finish(p)
  /\ UNCHANGED <<items, recipes, ledger, orders, net, steady>>

\* update_expense, mark_expense_paid and delete_expense write the columns they
\* set.  To a row deleted meanwhile nothing is done: an update fails, another
\* deletion has no effect (Abandon).
ExpenseCommit(p, row) ==
  LET e == proc[p].exp
      old == proc[p].bill
  IN
  /\ \/ /\ proc[p].pc = "amend"
        /\ row = [old EXCEPT !.amount = row.amount]
     \/ /\ proc[p].pc = "settle"
        /\ row = [old EXCEPT !.paid = TRUE]
     \/ /\ proc[p].pc = "drop"
        /\ row = [old EXCEPT !.status = "deleted"]
  /\ row # old => expenses[e].status = "live"
  /\ expenses' = [expenses EXCEPT ![e] =
       [status |-> IF row.status # old.status THEN row.status ELSE @.status,
        amount |-> IF row.amount # old.amount THEN row.amount ELSE @.amount,
        paid |-> IF row.paid # old.paid THEN row.paid ELSE @.paid]]
  /\ Finish(p)
  /\ UNCHANGED <<items, recipes, ledger, orders, net, steady>>

\* A session that ends without its commit: an error, a lost connection.
Abandon(p) ==
  /\ proc[p].pc # "idle"
  /\ Finish(p)
  /\ UNCHANGED <<items, recipes, ledger, orders, net, expenses, steady>>

-----------------------------------------------------------------------------

Arrive ==
  \/ \E i \in ItemIds, quantity \in Openings, d \in Dishes \cup {"none"},
        yield \in Yields : CreateItem(i, quantity, d, yield)
  \/ \E p \in Requests, i \in ItemIds, kind \in ItemKinds, d \in Dishes :
        ItemStart(p, kind, i, d)
  \/ \E p \in Requests, o \in OrderIds, lines \in [Dishes -> {0, 1}] :
        PlaceStart(p, o, lines)
  \/ \E p \in Requests, o \in OrderIds, kind \in OrderKinds :
        OrderStart(p, kind, o)
  \/ \E o \in OrderIds : PayOrder(o)
  \/ \E e \in ExpenseIds, amount \in Costs : Spend(e, amount)
  \/ \E p \in Requests, e \in ExpenseIds, kind \in ExpenseKinds :
        ExpenseStart(p, kind, e)

Proceed(p) ==
  \/ \E level \in Levels : UpdateCommit(p, level)
  \/ ArchiveCommit(p)
  \/ \E delta \in Deltas, received \in BOOLEAN, cost \in Costs \cup {0},
        paid \in BOOLEAN : MoveCommit(p, delta, received, cost, paid)
  \/ \E quantity \in Yields : RecipeCommit(p, quantity)
  \/ PlaceCommit(p)
  \/ ReverseRead(p)
  \/ CancelCommit(p)
  \/ \E status \in {"open", "cancelled"}, writes \in BOOLEAN :
        PatchCommit(p, status, writes)
  \/ \E amount \in Costs, paid \in BOOLEAN, status \in {"live", "deleted"} :
        ExpenseCommit(p, [status |-> status, amount |-> amount,
                          paid |-> paid])
  \/ Abandon(p)

Next == Arrive \/ \E p \in Requests : Proceed(p)

Spec == Init /\ [][Next]_shelfVars

-----------------------------------------------------------------------------
(* Properties that hold however the requests overlap.                      *)

\* models/stock.py:134-136: the balance written on a movement "exposes a
\* divergence rather than hiding one".  Whatever was overwritten meanwhile, the
\* running total is the balance on the item's newest movement.
TotalIsLastBalance == \A i \in ItemIds : items[i].qty = ledger[i].last

\* The total and the sum of the ledger part company only in a commit of a
\* request whose copy of the total was out of date: no handler writes the one
\* without the other (models/stock.py:10).
NoSilentDrift ==
  [][\A i \in ItemIds :
       items'[i].qty - ledger'[i].sum # items[i].qty - ledger[i].sum =>
         \E p \in Requests : /\ proc[p].pc # "idle" /\ proc'[p].pc = "idle"
                             /\ proc[p].shelf[i].qty # items[i].qty]_shelfVars

\* Settling an expense is final: no update loaded before it takes it back.
SettledStaysSettled ==
  [][\A e \in ExpenseIds : expenses[e].paid => expenses'[e].paid]_shelfVars

-----------------------------------------------------------------------------
(* Properties while history is steady; section 7 of the README says what   *)
(* breaks them otherwise.                                                  *)

\* stock_deduction.py:8, "CANCELLING RESTORES IT": a cancelled order has moved
\* nothing, all in all.
CancelledIsRestored ==
  steady => \A o \in OrderIds, i \in ItemIds :
              orders[o].status = "cancelled" => net[o][i] = 0

\* stock_deduction.py:12, "A SALE MAY TAKE STOCK NEGATIVE, unlike a hand-keyed
\* movement": where the total is below zero, some sale took from the item and
\* was not given back.
OnlySalesGoNegative ==
  steady => \A i \in ItemIds :
              items[i].qty < 0 => \E o \in OrderIds : net[o][i] < 0

=============================================================================
