---------------------------- MODULE ShelfProofs -----------------------------
(***************************************************************************)
(* Machine-checked facts about Shelf for every number of requests, dishes, *)
(* items, orders and expenses, and every quantity: what holds however      *)
(* requests overlap and, at the end, what holds of steady histories.       *)
(***************************************************************************)
EXTENDS Shelf, SumTheorems, TLAPS

-----------------------------------------------------------------------------
(* The inductive invariant.                                                *)

\* A session works on rows that are there.
Fit(v) ==
  /\ v \in Process
  /\ v.pc \in ItemKinds => v.item \in ItemIds
  /\ v.pc = "recipe" => v.dish \in Dishes
  /\ v.pc \in OnOrder => v.ord \in OrderIds
  /\ v.pc \in ExpenseKinds => v.exp \in ExpenseIds

\* An expense is not paid before it is there.
UnwrittenUnpaid ==
  \A e \in ExpenseIds : expenses[e].status = "none" => ~expenses[e].paid

IInv == TypeOK /\ TotalIsLastBalance /\ UnwrittenUnpaid

\* The tables hold rows of their types.
TablesOK ==
  /\ items \in [ItemIds -> ItemRow]
  /\ recipes \in [Dishes -> [ItemIds -> Nat]]
  /\ ledger \in [ItemIds -> [sum : Int, last : Int]]
  /\ orders \in [OrderIds -> OrderRow]
  /\ net \in [OrderIds -> [ItemIds -> Int]]
  /\ expenses \in [ExpenseIds -> ExpenseRow]

LEMMA TypeParts ==
  TypeOK <=> /\ TablesOK /\ steady \in BOOLEAN
             /\ proc \in [Requests -> Process]
             /\ \A p \in Requests : Fit(proc[p])
BY DEF TypeOK, TablesOK, Fit

LEMMA IdleFits == Fit(Idle)
BY DEF Fit, Idle, Process, Points, AllKinds, ItemKinds, OrderKinds,
       ExpenseKinds, OnOrder, NoItem, NoOrder, NoExpense, Nothing, ItemRow,
       OrderRow, ExpenseRow

\* A request that keeps its session to itself.
LEMMA SessionStep ==
  ASSUME TypeOK, NEW p \in Requests, NEW v, Fit(v),
         proc' = [proc EXCEPT ![p] = v]
  PROVE  proc' \in [Requests -> Process] /\ \A q \in Requests : Fit(proc'[q])
<1>1. v \in Process
  BY DEF Fit
<1>2. proc' \in [Requests -> Process]
  BY <1>1 DEF TypeOK
<1>3. \A q \in Requests : proc'[q] = v \/ proc'[q] = proc[q]
  BY DEF TypeOK
<1>. QED
  BY <1>2, <1>3, TypeParts

LEMMA FinishStep ==
  ASSUME TypeOK, NEW p \in Requests, Finish(p)
  PROVE  proc' \in [Requests -> Process] /\ \A q \in Requests : Fit(proc'[q])
BY SessionStep, IdleFits DEF Finish

\* TypeOK of the next state, from its parts.
LEMMA TypeNext ==
  ASSUME TablesOK', steady' \in BOOLEAN, proc' \in [Requests -> Process],
         \A p \in Requests : Fit(proc'[p])
  PROVE  TypeOK'
<1>1. \A v : Fit(v) <=> Fit(v)'
  BY DEF Fit
<1>2. (\A p \in Requests : Fit(proc[p]))'
  BY <1>1
<1>. QED
  BY <1>2, TypeParts DEF TypeOK, TablesOK, Fit

\* What Load leaves, when it keeps the tables.
LEMMA LoadStep ==
  ASSUME IInv, NEW p \in Requests, NEW point, NEW v, Fit(v), Load(p, point, v),
         UNCHANGED <<items, recipes, ledger, orders, net, expenses>>
  PROVE  IInv'
<1>1. proc' \in [Requests -> Process] /\ \A q \in Requests : Fit(proc'[q])
  BY SessionStep DEF Load, IInv
<1>2. TablesOK'
  BY TypeParts DEF IInv, TablesOK
<1>3. steady' \in BOOLEAN
  BY DEF Load
<1>4. TypeOK'
  BY <1>1, <1>2, <1>3, TypeNext
<1>. QED
  BY <1>4 DEF IInv, TotalIsLastBalance, UnwrittenUnpaid

\* A commit's movements write totals and balances that agree.
LEMMA MovedFacts ==
  ASSUME IInv, NEW p \in Requests, NEW moves \in [ItemIds -> Int],
         Moved(p, moves)
  PROVE  /\ items' \in [ItemIds -> ItemRow]
         /\ ledger' \in [ItemIds -> [sum : Int, last : Int]]
         /\ TotalIsLastBalance'
         /\ \A i \in ItemIds :
              proc[p].shelf[i].qty = items[i].qty =>
                items'[i].qty - ledger'[i].sum = items[i].qty - ledger[i].sum
<1>1. /\ items \in [ItemIds -> ItemRow]
      /\ ledger \in [ItemIds -> [sum : Int, last : Int]]
      /\ proc[p].shelf \in [ItemIds -> ItemRow]
  BY DEF IInv, TypeOK, Process
<1>2. ASSUME NEW i \in ItemIds
      PROVE  /\ NewTotal(p, i, moves[i]) \in Int
             /\ ledger[i].sum + moves[i] \in Int
  BY <1>1 DEF NewTotal, ItemRow
<1>3. items' \in [ItemIds -> ItemRow]
  BY <1>1, <1>2, ZenonT(60) DEF Moved, ItemRow
<1>4. ledger' \in [ItemIds -> [sum : Int, last : Int]]
  BY <1>1, <1>2 DEF Moved
<1>5. ASSUME NEW i \in ItemIds
      PROVE  items'[i].qty = ledger'[i].last
  <2>1. CASE moves[i] = 0
    BY <2>1, <1>1 DEF Moved, IInv, TotalIsLastBalance
  <2>2. CASE moves[i] # 0
    BY <2>2, <1>1 DEF Moved, ItemRow
  <2>. QED
    BY <2>1, <2>2
<1>6. ASSUME NEW i \in ItemIds, proc[p].shelf[i].qty = items[i].qty
      PROVE  items'[i].qty - ledger'[i].sum = items[i].qty - ledger[i].sum
  <2>1. items[i].qty \in Int /\ ledger[i].sum \in Int /\ moves[i] \in Int
    BY <1>1 DEF ItemRow
  <2>2. CASE moves[i] = 0
    BY <2>2, <1>1 DEF Moved
  <2>3. CASE moves[i] # 0
    <3>1. items'[i].qty = items[i].qty + moves[i]
      BY <2>3, <1>1, <1>6 DEF Moved, ItemRow, NewTotal
    <3>2. ledger'[i].sum = ledger[i].sum + moves[i]
      BY <2>3, <1>1 DEF Moved
    <3>. QED
      BY <2>1, <3>1, <3>2
  <2>. QED
    BY <2>2, <2>3
<1>. QED
  BY <1>3, <1>4, <1>5, <1>6 DEF TotalIsLastBalance

-----------------------------------------------------------------------------
(* Each action keeps the invariant.                                        *)

LEMMA InitInv == Init => IInv
<1>. SUFFICES ASSUME Init PROVE IInv
  OBVIOUS
<1>1. TablesOK
  BY DEF Init, TablesOK, NoItem, NoOrder, NoExpense, Nothing, ItemRow,
         OrderRow, ExpenseRow
<1>2. proc \in [Requests -> Process] /\ \A p \in Requests : Fit(proc[p])
  BY IdleFits DEF Init, Fit
<1>3. TypeOK
  BY <1>1, <1>2, TypeParts DEF Init
<1>. QED
  BY <1>3 DEF Init, IInv, TotalIsLastBalance, UnwrittenUnpaid, NoItem, NoExpense

LEMMA CreateItemInv ==
  ASSUME IInv, NEW i \in ItemIds, NEW quantity \in Openings,
         NEW d \in Dishes \cup {"none"}, NEW yield \in Yields,
         CreateItem(i, quantity, d, yield)
  PROVE  IInv'
<1>1. quantity \in Int /\ yield \in Nat
  BY ShelfAssumption
<1>2. items' \in [ItemIds -> ItemRow]
  BY <1>1 DEF CreateItem, IInv, TypeOK, ItemRow
<1>3. ledger' \in [ItemIds -> [sum : Int, last : Int]]
  BY <1>1 DEF CreateItem, IInv, TypeOK
<1>4. recipes' \in [Dishes -> [ItemIds -> Nat]]
  <2>1. CASE d \in Dishes
    <3>1. recipes' = [recipes EXCEPT ![d] = [recipes[d] EXCEPT ![i] = yield]]
      BY <2>1 DEF CreateItem
    <3>2. [recipes[d] EXCEPT ![i] = yield] \in [ItemIds -> Nat]
      BY <1>1, <2>1 DEF IInv, TypeOK
    <3>. QED
      BY <3>1, <3>2 DEF IInv, TypeOK
  <2>2. CASE d \notin Dishes
    BY <2>2 DEF CreateItem, IInv, TypeOK
  <2>. QED
    BY <2>1, <2>2
<1>5. TablesOK' /\ steady' \in BOOLEAN
  BY <1>2, <1>3, <1>4 DEF CreateItem, IInv, TypeOK, TablesOK
<1>6. TypeOK'
  BY <1>5, TypeNext, TypeParts DEF CreateItem, IInv
<1>7. TotalIsLastBalance'
  BY DEF CreateItem, IInv, TypeOK, TotalIsLastBalance, ItemRow
<1>. QED
  BY <1>6, <1>7 DEF CreateItem, IInv, UnwrittenUnpaid

\* The four handlers' first reads, each a Load of a session that fits.
LEMMA ItemStartInv ==
  ASSUME IInv, NEW p \in Requests, NEW i \in ItemIds, NEW kind \in ItemKinds,
         NEW d \in Dishes, ItemStart(p, kind, i, d)
  PROVE  IInv'
<1>. DEFINE v == [Idle EXCEPT !.pc = kind, !.item = i, !.shelf = items,
                    !.dish = IF kind = "recipe" THEN d ELSE "none",
                    !.line = IF kind = "recipe" THEN recipes[d][i] ELSE 0]
<1>1. recipes[d][i] \in Nat /\ items \in [ItemIds -> ItemRow]
  BY DEF IInv, TypeOK
<1>2. i \in Nat
  BY DEF ItemIds
<1>3. Fit(v)
  BY <1>1, <1>2, IdleFits, ZenonT(60)
  DEF Fit, Idle, Process, Points, AllKinds, ItemKinds,
     OrderKinds, ExpenseKinds, OnOrder
<1>4. /\ Load(p, kind, v)
      /\ UNCHANGED <<items, recipes, ledger, orders, net, expenses>>
  BY DEF ItemStart
<1>. HIDE DEF v
<1>. QED
  BY <1>3, <1>4, LoadStep

LEMMA PlaceStartInv ==
  ASSUME IInv, NEW p \in Requests, NEW o \in OrderIds,
         NEW lines \in [Dishes -> {0, 1}], PlaceStart(p, o, lines)
  PROVE  IInv'
<1>. DEFINE v == [Idle EXCEPT !.pc = "place", !.ord = o, !.shelf = items,
                    !.order = [status |-> "open", paid |-> FALSE,
                               lines |-> lines],
                    !.take = LinesFor(lines)]
<1>1. items \in [ItemIds -> ItemRow] /\ o \in Nat
  BY DEF IInv, TypeOK, OrderIds
<1>2. LinesFor(lines) \in [ItemIds -> Int]
  <2>1. LinesFor(lines) \in [ItemIds -> 0 .. MaxSum]
    BY DEF PlaceStart, Bounded
  <2>. HIDE DEF v
  <2>. QED
    BY <2>1
<1>3. Fit(v)
  BY <1>1, <1>2, IdleFits, ZenonT(60) DEF Fit, Idle, Process, Points, AllKinds,
     ItemKinds, OrderKinds, ExpenseKinds, OnOrder, OrderRow
<1>4. /\ Load(p, "place", v)
      /\ UNCHANGED <<items, recipes, ledger, orders, net, expenses>>
  BY DEF PlaceStart
<1>. HIDE DEF v
<1>. QED
  BY <1>3, <1>4, LoadStep

LEMMA OrderStartInv ==
  ASSUME IInv, NEW p \in Requests, NEW o \in OrderIds, NEW kind \in OrderKinds,
         OrderStart(p, kind, o)
  PROVE  IInv'
<1>. DEFINE v == [Idle EXCEPT !.pc = kind, !.ord = o, !.order = orders[o]]
<1>1. orders[o] \in OrderRow
  BY DEF IInv, TypeOK
<1>2. o \in Nat
  BY DEF OrderIds
<1>3. Fit(v)
  BY <1>1, <1>2, IdleFits DEF Fit, Idle, Process, Points, AllKinds, ItemKinds,
     OrderKinds, ExpenseKinds, OnOrder
<1>4. /\ Load(p, kind, v)
      /\ UNCHANGED <<items, recipes, ledger, orders, net, expenses>>
  BY DEF OrderStart
<1>. HIDE DEF v
<1>. QED
  BY <1>3, <1>4, LoadStep

LEMMA ExpenseStartInv ==
  ASSUME IInv, NEW p \in Requests, NEW e \in ExpenseIds,
         NEW kind \in ExpenseKinds, ExpenseStart(p, kind, e)
  PROVE  IInv'
<1>. DEFINE v == [Idle EXCEPT !.pc = kind, !.exp = e, !.bill = expenses[e]]
<1>1. expenses[e] \in ExpenseRow
  BY DEF IInv, TypeOK
<1>2. e \in Nat
  BY DEF ExpenseIds
<1>3. Fit(v)
  BY <1>1, <1>2, IdleFits DEF Fit, Idle, Process, Points, AllKinds, ItemKinds,
     OrderKinds, ExpenseKinds, OnOrder
<1>4. /\ Load(p, kind, v)
      /\ UNCHANGED <<items, recipes, ledger, orders, net, expenses>>
  BY DEF ExpenseStart
<1>. HIDE DEF v
<1>. QED
  BY <1>3, <1>4, LoadStep

LEMMA UpdateCommitInv ==
  ASSUME IInv, NEW p \in Requests, NEW level \in Levels, UpdateCommit(p, level)
  PROVE  IInv'
<1>1. level \in Nat
  BY ShelfAssumption
<1>2. proc' \in [Requests -> Process] /\ \A q \in Requests : Fit(proc'[q])
  BY FinishStep DEF UpdateCommit, IInv
<1>3. /\ items' \in [ItemIds -> ItemRow]
      /\ \A i \in ItemIds : items'[i].qty = items[i].qty
  <2>1. proc[p].item \in ItemIds /\ items \in [ItemIds -> ItemRow]
    BY DEF UpdateCommit, IInv, TypeOK, ItemKinds
  <2>2. \/ items' = items
        \/ items' = [items EXCEPT ![proc[p].item] =
                       [items[proc[p].item] EXCEPT !.level = level]]
    BY DEF UpdateCommit
  <2>3. LET row == [items[proc[p].item] EXCEPT !.level = level]
        IN  row \in ItemRow /\ row.qty = items[proc[p].item].qty
    BY <1>1, <2>1 DEF ItemRow
  <2>. QED
    BY <2>1, <2>2, <2>3
<1>4. TablesOK' /\ steady' \in BOOLEAN
  BY <1>3 DEF UpdateCommit, IInv, TypeOK, TablesOK
<1>5. TypeOK'
  BY <1>2, <1>4, TypeNext
<1>. QED
  BY <1>3, <1>5 DEF UpdateCommit, IInv, TotalIsLastBalance, UnwrittenUnpaid

LEMMA ArchiveCommitInv ==
  ASSUME IInv, NEW p \in Requests, ArchiveCommit(p)
  PROVE  IInv'
<1>1. proc' \in [Requests -> Process] /\ \A q \in Requests : Fit(proc'[q])
  BY FinishStep DEF ArchiveCommit, IInv
<1>2. /\ items' \in [ItemIds -> ItemRow]
      /\ \A i \in ItemIds : items'[i].qty = items[i].qty
  <2>1. proc[p].item \in ItemIds /\ items \in [ItemIds -> ItemRow]
    BY DEF ArchiveCommit, IInv, TypeOK, ItemKinds
  <2>2. items' = [items EXCEPT ![proc[p].item] =
                    [items[proc[p].item] EXCEPT !.status = "archived"]]
    BY DEF ArchiveCommit
  <2>. QED
    BY <2>1, <2>2 DEF ItemRow
<1>3. TablesOK' /\ steady' \in BOOLEAN
  BY <1>2 DEF ArchiveCommit, IInv, TypeOK, TablesOK
<1>4. TypeOK'
  BY <1>1, <1>3, TypeNext
<1>. QED
  BY <1>2, <1>4 DEF ArchiveCommit, IInv, TotalIsLastBalance, UnwrittenUnpaid

LEMMA MoveCommitInv ==
  ASSUME IInv, NEW p \in Requests, NEW delta \in Deltas,
         NEW received \in BOOLEAN, NEW cost \in Costs \cup {0},
         NEW paid \in BOOLEAN, MoveCommit(p, delta, received, cost, paid)
  PROVE  IInv'
<1>. DEFINE moves == [Nothing EXCEPT ![proc[p].item] = delta]
<1>1. cost \in Nat /\ delta \in Int
  <2>1. Deltas \subseteq Int /\ Costs \subseteq Nat
    BY ShelfAssumption
  <2>. QED
    BY <2>1
<1>2. moves \in [ItemIds -> Int]
  <2>1. Nothing \in [ItemIds -> Int]
    BY DEF Nothing
  <2>. QED
    BY <1>1, <2>1
<1>3. Moved(p, moves) /\ Finish(p)
  BY DEF MoveCommit
<1>. HIDE DEF moves
<1>4. /\ items' \in [ItemIds -> ItemRow]
      /\ ledger' \in [ItemIds -> [sum : Int, last : Int]]
      /\ TotalIsLastBalance'
  BY <1>2, <1>3, MovedFacts
<1>5. expenses' \in [ExpenseIds -> ExpenseRow] /\ UnwrittenUnpaid'
  <2>1. CASE received /\ cost # 0
    <3>1. PICK e \in ExpenseIds : expenses' = [expenses EXCEPT ![e] =
                 [status |-> "live", amount |-> cost, paid |-> paid]]
      BY <2>1 DEF MoveCommit
    <3>. QED
      BY <1>1, <3>1 DEF IInv, TypeOK, ExpenseRow, UnwrittenUnpaid
  <2>2. CASE ~(received /\ cost # 0)
    BY <2>2 DEF MoveCommit, IInv, TypeOK, UnwrittenUnpaid
  <2>. QED
    BY <2>1, <2>2
<1>6. proc' \in [Requests -> Process] /\ \A q \in Requests : Fit(proc'[q])
  BY <1>3, FinishStep DEF IInv
<1>7. TablesOK' /\ steady' \in BOOLEAN
  BY <1>4, <1>5 DEF MoveCommit, IInv, TypeOK, TablesOK
<1>8. TypeOK'
  BY <1>6, <1>7, TypeNext
<1>. QED
  BY <1>4, <1>5, <1>8 DEF IInv

LEMMA RecipeCommitInv ==
  ASSUME IInv, NEW p \in Requests, NEW quantity \in Yields,
         RecipeCommit(p, quantity)
  PROVE  IInv'
<1>1. quantity \in Nat
  BY ShelfAssumption
<1>2. recipes' \in [Dishes -> [ItemIds -> Nat]]
  <2>1. proc[p].item \in ItemIds /\ proc[p].dish \in Dishes
    BY DEF RecipeCommit, IInv, TypeOK, ItemKinds
  <2>2. \/ UNCHANGED recipes
        \/ recipes' = [recipes EXCEPT ![proc[p].dish] =
             [recipes[proc[p].dish] EXCEPT ![proc[p].item] = quantity]]
    BY DEF RecipeCommit
  <2>3. [recipes[proc[p].dish] EXCEPT ![proc[p].item] = quantity]
          \in [ItemIds -> Nat]
    BY <1>1, <2>1 DEF IInv, TypeOK
  <2>. QED
    BY <2>2, <2>3 DEF IInv, TypeOK
<1>3. ASSUME NEW q \in Requests
      PROVE  proc'[q] \in Process /\ Fit(proc'[q])
  <2>1. \/ proc'[q] = Idle \/ proc'[q] = proc[q]
        \/ proc'[q] = [proc[q] EXCEPT !.held = FALSE]
    BY DEF RecipeCommit
  <2>2. proc[q] \in Process /\ Fit(proc[q])
    BY TypeParts DEF IInv
  <2>3. Fit([proc[q] EXCEPT !.held = FALSE])
    BY <2>2 DEF Fit, Process
  <2>. QED
    BY <2>1, <2>2, <2>3, IdleFits DEF Fit
<1>4. proc' \in [Requests -> Process]
  <2>1. DOMAIN proc' = Requests /\ proc' = [q \in Requests |-> proc'[q]]
    BY DEF RecipeCommit
  <2>. QED
    BY <1>3, <2>1
<1>5. TablesOK' /\ steady' \in BOOLEAN
  BY <1>2 DEF RecipeCommit, IInv, TypeOK, TablesOK
<1>6. TypeOK'
  BY <1>3, <1>4, <1>5, TypeNext
<1>. QED
  BY <1>6 DEF RecipeCommit, IInv, TotalIsLastBalance, UnwrittenUnpaid

LEMMA PlaceCommitInv ==
  ASSUME IInv, NEW p \in Requests, PlaceCommit(p)
  PROVE  IInv'
<1>. DEFINE moves == [i \in ItemIds |-> -proc[p].take[i]]
            o == proc[p].ord
<1>1. proc[p] \in Process /\ o \in OrderIds
  BY DEF PlaceCommit, IInv, TypeOK, OnOrder
<1>2. moves \in [ItemIds -> Int]
  BY <1>1 DEF Process
<1>3. /\ Moved(p, moves) /\ Finish(p)
      /\ orders' = [orders EXCEPT ![o] = proc[p].order]
      /\ net' = [net EXCEPT ![o] = moves]
  BY DEF PlaceCommit
<1>. HIDE DEF moves, o
<1>4. /\ items' \in [ItemIds -> ItemRow]
      /\ ledger' \in [ItemIds -> [sum : Int, last : Int]]
      /\ TotalIsLastBalance'
  BY <1>2, <1>3, MovedFacts
<1>5. orders' \in [OrderIds -> OrderRow] /\ net' \in [OrderIds -> [ItemIds -> Int]]
  BY <1>1, <1>2, <1>3 DEF IInv, TypeOK, Process
<1>6. proc' \in [Requests -> Process] /\ \A q \in Requests : Fit(proc'[q])
  BY <1>3, FinishStep DEF IInv
<1>7. TablesOK' /\ steady' \in BOOLEAN
  BY <1>4, <1>5 DEF PlaceCommit, IInv, TypeOK, TablesOK
<1>8. TypeOK'
  BY <1>6, <1>7, TypeNext
<1>. QED
  BY <1>4, <1>8 DEF PlaceCommit, IInv, UnwrittenUnpaid

LEMMA ReverseReadInv ==
  ASSUME IInv, NEW p \in Requests, ReverseRead(p)
  PROVE  IInv'
<1>. DEFINE take == LinesFor(proc[p].order.lines)
            v == [proc[p] EXCEPT !.pc = "reverse", !.shelf = items,
                                 !.take = take]
<1>1. take \in [ItemIds -> 0 .. MaxSum] /\ items \in [ItemIds -> ItemRow]
  BY DEF ReverseRead, Bounded, IInv, TypeOK
<1>2. proc[p] \in Process /\ proc[p].ord \in OrderIds
  BY DEF ReverseRead, IInv, TypeOK, OnOrder, OrderKinds
<1>3. proc' = [proc EXCEPT ![p] = v]
  BY DEF ReverseRead
<1>. HIDE DEF take
<1>4. take \in [ItemIds -> Int]
  BY <1>1
<1>5. Fit(v)
  BY <1>1, <1>2, <1>4 DEF Fit, Process, Points, AllKinds, ItemKinds,
     OrderKinds, ExpenseKinds
<1>. HIDE DEF v
<1>6. proc' \in [Requests -> Process] /\ \A q \in Requests : Fit(proc'[q])
  BY <1>3, <1>5, SessionStep DEF IInv
<1>7. TablesOK' /\ steady' \in BOOLEAN
  BY DEF ReverseRead, IInv, TypeOK, TablesOK
<1>8. TypeOK'
  BY <1>6, <1>7, TypeNext
<1>. QED
  BY <1>8 DEF ReverseRead, IInv, TotalIsLastBalance, UnwrittenUnpaid

LEMMA CancelCommitInv ==
  ASSUME IInv, NEW p \in Requests, CancelCommit(p)
  PROVE  IInv'
<1>. DEFINE o == proc[p].ord
            back == [i \in ItemIds |-> net[o][i] + proc[p].take[i]]
<1>1. proc[p] \in Process /\ o \in OrderIds
  BY DEF CancelCommit, IInv, TypeOK, OnOrder
<1>2. proc[p].take \in [ItemIds -> Int]
  BY <1>1 DEF Process
<1>3. back \in [ItemIds -> Int]
  BY <1>1, <1>2 DEF IInv, TypeOK
<1>4. /\ Moved(p, proc[p].take) /\ Finish(p)
      /\ orders' = [orders EXCEPT ![o] = [orders[o] EXCEPT !.status = "cancelled"]]
      /\ net' = [net EXCEPT ![o] = back]
  BY DEF CancelCommit
<1>. HIDE DEF o, back
<1>5. /\ items' \in [ItemIds -> ItemRow]
      /\ ledger' \in [ItemIds -> [sum : Int, last : Int]]
      /\ TotalIsLastBalance'
  BY <1>2, <1>4, MovedFacts
<1>6. orders' \in [OrderIds -> OrderRow] /\ net' \in [OrderIds -> [ItemIds -> Int]]
  BY <1>1, <1>3, <1>4 DEF IInv, TypeOK, OrderRow
<1>7. proc' \in [Requests -> Process] /\ \A q \in Requests : Fit(proc'[q])
  BY <1>4, FinishStep DEF IInv
<1>8. TablesOK' /\ steady' \in BOOLEAN
  BY <1>5, <1>6 DEF CancelCommit, IInv, TypeOK, TablesOK
<1>9. TypeOK'
  BY <1>7, <1>8, TypeNext
<1>. QED
  BY <1>5, <1>9 DEF CancelCommit, IInv, UnwrittenUnpaid

LEMMA PatchCommitInv ==
  ASSUME IInv, NEW p \in Requests, NEW status \in {"open", "cancelled"},
         NEW writes \in BOOLEAN, PatchCommit(p, status, writes)
  PROVE  IInv'
<1>. DEFINE o == proc[p].ord
<1>1. o \in OrderIds
  BY DEF PatchCommit, IInv, TypeOK, OnOrder, OrderKinds
<1>2. \/ UNCHANGED orders
      \/ orders' = [orders EXCEPT ![o] = [orders[o] EXCEPT !.status = status]]
  BY DEF PatchCommit
<1>. HIDE DEF o
<1>3. orders' \in [OrderIds -> OrderRow]
  <2>1. orders \in [OrderIds -> OrderRow]
    BY DEF IInv, TypeOK
  <2>2. [orders[o] EXCEPT !.status = status] \in OrderRow
    BY <1>1, <2>1 DEF OrderRow
  <2>. QED
    BY <1>2, <2>1, <2>2
<1>4. proc' \in [Requests -> Process] /\ \A q \in Requests : Fit(proc'[q])
  BY FinishStep DEF PatchCommit, IInv
<1>5. TablesOK' /\ steady' \in BOOLEAN
  BY <1>3 DEF PatchCommit, IInv, TypeOK, TablesOK
<1>6. TypeOK'
  BY <1>4, <1>5, TypeNext
<1>. QED
  BY <1>6 DEF PatchCommit, IInv, TotalIsLastBalance, UnwrittenUnpaid

LEMMA PayOrderInv ==
  ASSUME IInv, NEW o \in OrderIds, PayOrder(o)
  PROVE  IInv'
<1>1. orders' = [orders EXCEPT ![o] = [orders[o] EXCEPT !.paid = TRUE]]
  BY DEF PayOrder
<1>2. orders' \in [OrderIds -> OrderRow]
  BY <1>1 DEF IInv, TypeOK, OrderRow
<1>3. TypeOK'
  BY <1>2, TypeNext, TypeParts DEF PayOrder, IInv, TypeOK, TablesOK
<1>. QED
  BY <1>3 DEF PayOrder, IInv, TotalIsLastBalance, UnwrittenUnpaid

LEMMA SpendInv ==
  ASSUME IInv, NEW e \in ExpenseIds, NEW amount \in Costs, Spend(e, amount)
  PROVE  IInv'
<1>1. amount \in Nat
  BY ShelfAssumption
<1>2. expenses' \in [ExpenseIds -> ExpenseRow] /\ UnwrittenUnpaid'
  BY <1>1 DEF Spend, IInv, TypeOK, ExpenseRow, UnwrittenUnpaid
<1>3. TypeOK'
  BY <1>2, TypeNext, TypeParts DEF Spend, IInv, TypeOK, TablesOK
<1>. QED
  BY <1>2, <1>3 DEF Spend, IInv, TotalIsLastBalance

LEMMA ExpenseCommitInv ==
  ASSUME IInv, NEW p \in Requests, NEW row \in ExpenseRow, ExpenseCommit(p, row)
  PROVE  IInv'
<1>. DEFINE e == proc[p].exp
            old == proc[p].bill
            new == [status |-> IF row.status # old.status THEN row.status
                               ELSE expenses[e].status,
                    amount |-> IF row.amount # old.amount THEN row.amount
                               ELSE expenses[e].amount,
                    paid |-> IF row.paid # old.paid THEN row.paid
                             ELSE expenses[e].paid]
<1>1. e \in ExpenseIds /\ old \in ExpenseRow
  BY DEF ExpenseCommit, IInv, TypeOK, ExpenseKinds, Process
<1>2. /\ expenses' = [expenses EXCEPT ![e] = new]
      /\ row # old => expenses[e].status = "live"
  BY DEF ExpenseCommit
<1>3. new \in ExpenseRow
  BY <1>1 DEF IInv, TypeOK, ExpenseRow
<1>4. new.status = "none" => ~new.paid
  <2>1. CASE row = old
    BY <1>1, <2>1 DEF IInv, UnwrittenUnpaid
  <2>2. CASE row # old
    <3>1. row.status # old.status => row.status = "deleted"
      BY <1>1 DEF ExpenseCommit, ExpenseRow
    <3>. QED
      BY <1>2, <2>2, <3>1
  <2>. QED
    BY <2>1, <2>2
<1>. HIDE DEF e, old, new
<1>5. expenses' \in [ExpenseIds -> ExpenseRow] /\ UnwrittenUnpaid'
  BY <1>1, <1>2, <1>3, <1>4 DEF IInv, TypeOK, UnwrittenUnpaid
<1>6. proc' \in [Requests -> Process] /\ \A q \in Requests : Fit(proc'[q])
  BY FinishStep DEF ExpenseCommit, IInv
<1>7. TablesOK' /\ steady' \in BOOLEAN
  BY <1>5 DEF ExpenseCommit, IInv, TypeOK, TablesOK
<1>8. TypeOK'
  BY <1>6, <1>7, TypeNext
<1>. QED
  BY <1>5, <1>8 DEF ExpenseCommit, IInv, TotalIsLastBalance

LEMMA AbandonInv ==
  ASSUME IInv, NEW p \in Requests, Abandon(p)
  PROVE  IInv'
<1>1. proc' \in [Requests -> Process] /\ \A q \in Requests : Fit(proc'[q])
  BY FinishStep DEF Abandon, IInv
<1>2. TablesOK' /\ steady' \in BOOLEAN
  BY DEF Abandon, IInv, TypeOK, TablesOK
<1>3. TypeOK'
  BY <1>1, <1>2, TypeNext
<1>. QED
  BY <1>3 DEF Abandon, IInv, TotalIsLastBalance, UnwrittenUnpaid

LEMMA NextInv ==
  IInv /\ [Next]_shelfVars => IInv'
<1>. SUFFICES ASSUME IInv, [Next]_shelfVars PROVE IInv'
  OBVIOUS
<1>1. CASE Arrive
  BY <1>1, CreateItemInv, ItemStartInv, PlaceStartInv, OrderStartInv,
     PayOrderInv, SpendInv, ExpenseStartInv DEF Arrive
<1>2. ASSUME NEW p \in Requests, Proceed(p)
      PROVE  IInv'
  <2>1. CASE \E amount \in Costs, paid \in BOOLEAN,
                status \in {"live", "deleted"} :
               ExpenseCommit(p, [status |-> status, amount |-> amount,
                                 paid |-> paid])
    <3>1. PICK amount \in Costs, paid \in BOOLEAN,
               status \in {"live", "deleted"} :
                 ExpenseCommit(p, [status |-> status, amount |-> amount,
                                   paid |-> paid])
      BY <2>1
    <3>2. Costs \subseteq Nat
      BY ShelfAssumption
    <3>3. [status |-> status, amount |-> amount, paid |-> paid] \in ExpenseRow
      BY <3>2 DEF ExpenseRow
    <3>. QED
      BY <3>1, <3>3, ExpenseCommitInv
  <2>. QED
    BY <1>2, <2>1, UpdateCommitInv, ArchiveCommitInv, MoveCommitInv,
       RecipeCommitInv, PlaceCommitInv, ReverseReadInv, CancelCommitInv,
       PatchCommitInv, AbandonInv DEF Proceed
<1>3. CASE UNCHANGED shelfVars
  BY <1>3 DEF shelfVars, IInv, TypeOK, TotalIsLastBalance, UnwrittenUnpaid,
     ItemIds, OrderIds, ExpenseIds, ItemRow, OrderRow, ExpenseRow, Process
<1>. QED
  BY <1>1, <1>2, <1>3 DEF Next

THEOREM Invariant == Spec => []IInv
BY InitInv, NextInv, PTL DEF Spec

\* Every table and every session keeps its type, however requests overlap.
THEOREM TypeCorrect == Spec => []TypeOK
BY Invariant, PTL DEF IInv

\* The running total of an item is the balance on its newest movement,
\* whatever was overwritten meanwhile.
THEOREM TotalIsBalance == Spec => []TotalIsLastBalance
BY Invariant, PTL DEF IInv

-----------------------------------------------------------------------------
(* A settled expense stays settled.                                        *)

LEMMA SettledStep ==
  IInv /\ [Next]_shelfVars =>
    \A e \in ExpenseIds : expenses[e].paid => expenses'[e].paid
<1>. SUFFICES ASSUME IInv, [Next]_shelfVars, NEW e \in ExpenseIds,
                     expenses[e].paid
              PROVE  expenses'[e].paid
  OBVIOUS
<1>1. expenses \in [ExpenseIds -> ExpenseRow] /\ expenses[e].status # "none"
  BY DEF IInv, TypeOK, UnwrittenUnpaid
<1>2. ASSUME NEW p \in Requests, NEW row, ExpenseCommit(p, row)
      PROVE  expenses'[e].paid
  <2>1. proc[p].bill \in ExpenseRow
    BY <1>2 DEF IInv, TypeOK, Process
  <2>2. row.paid # proc[p].bill.paid => row.paid
    BY <1>2, <2>1 DEF ExpenseCommit, ExpenseRow
  <2>. QED
    BY <1>1, <1>2, <2>1, <2>2 DEF ExpenseCommit, ExpenseRow
<1>3. ASSUME NEW p \in Requests, NEW delta, NEW received, NEW cost, NEW paid,
             MoveCommit(p, delta, received, cost, paid)
      PROVE  expenses'[e].paid
  BY <1>1, <1>3 DEF MoveCommit
<1>4. ASSUME NEW f \in ExpenseIds, NEW amount, Spend(f, amount)
      PROVE  expenses'[e].paid
  BY <1>1, <1>4 DEF Spend
<1>5. CASE Arrive
  BY <1>4, <1>5, ZenonT(60)
  DEF Arrive, CreateItem, ItemStart, PlaceStart, OrderStart,
     PayOrder, ExpenseStart
<1>6. ASSUME NEW p \in Requests, Proceed(p)
      PROVE  expenses'[e].paid
  BY <1>2, <1>3, <1>6, ZenonT(60)
  DEF Proceed, UpdateCommit, ArchiveCommit, RecipeCommit,
     PlaceCommit, ReverseRead, CancelCommit, PatchCommit, Abandon
<1>. QED
  BY <1>5, <1>6 DEF Next, shelfVars

\* Settling an expense is final: no update loaded before it takes it back.
THEOREM SettledIsFinal == Spec => SettledStaysSettled
BY Invariant, SettledStep, PTL DEF Spec, SettledStaysSettled

-----------------------------------------------------------------------------
(* The total and the ledger part company in stale commits only.            *)

\* The rows a session moves are there, and a row that is not there is empty.
Shelved ==
  \A p \in Requests :
    /\ proc[p].pc \in ItemKinds => items[proc[p].item].status # "none"
    /\ \A i \in ItemIds : proc[p].take[i] # 0 => items[i].status # "none"
UnwrittenEmpty ==
  \A i \in ItemIds : items[i].status = "none" =>
                       items[i].qty = 0 /\ ledger[i].sum = 0

DInv == IInv /\ Shelved /\ UnwrittenEmpty

\* Every step keeps totals and ledgers, creates an item, or is a request's
\* last, whose movements both were written from.
StepKinds ==
  \/ \A i \in ItemIds : /\ items'[i].qty = items[i].qty
                        /\ ledger'[i].sum = ledger[i].sum
                        /\ items'[i].status = "none" <=> items[i].status = "none"
  \/ \E i \in ItemIds, n \in Nat :
       /\ items[i].status = "none"
       /\ items' = [items EXCEPT ![i] = [status |-> "live", qty |-> n,
                                         level |-> 0]]
       /\ ledger' = [ledger EXCEPT ![i] = [sum |-> n, last |-> n]]
  \/ \E p \in Requests, moves \in [ItemIds -> Int] :
       /\ proc[p].pc # "idle"
       /\ proc'[p].pc = "idle"
       /\ Moved(p, moves)
       /\ \A i \in ItemIds : moves[i] # 0 => items[i].status # "none"

LEMMA StepIsOne ==
  ASSUME DInv, [Next]_shelfVars
  PROVE  StepKinds
<1>. USE DEF DInv
<1>1. items \in [ItemIds -> ItemRow] /\ proc \in [Requests -> Process]
  BY DEF IInv, TypeOK
<1>2. ASSUME UNCHANGED <<items, ledger>>
      PROVE  StepKinds
  BY <1>2 DEF StepKinds
<1>3. ASSUME NEW i \in ItemIds, NEW quantity \in Openings, NEW d, NEW yield,
             CreateItem(i, quantity, d, yield)
      PROVE  StepKinds
  <2>1. quantity \in Nat
    BY ShelfAssumption
  <2>. QED
    BY <1>3, <2>1 DEF CreateItem, StepKinds
<1>4. ASSUME NEW p \in Requests, NEW level, UpdateCommit(p, level)
      PROVE  StepKinds
  BY <1>1, <1>4 DEF UpdateCommit, StepKinds, ItemRow
<1>5. ASSUME NEW p \in Requests, ArchiveCommit(p)
      PROVE  StepKinds
  <2>1. /\ proc[p].item \in ItemIds /\ items[proc[p].item].status # "none"
    BY <1>5 DEF ArchiveCommit, IInv, TypeOK, Shelved, ItemKinds
  <2>2. items' = [items EXCEPT ![proc[p].item] =
                    [items[proc[p].item] EXCEPT !.status = "archived"]]
    BY <1>5 DEF ArchiveCommit
  <2>3. \A i \in ItemIds : /\ items'[i].qty = items[i].qty
                           /\ items'[i].status = "none" <=>
                                items[i].status = "none"
    BY <1>1, <2>1, <2>2 DEF ItemRow
  <2>. QED
    BY <1>5, <2>3 DEF ArchiveCommit, StepKinds
<1>6. ASSUME NEW p \in Requests, NEW moves \in [ItemIds -> Int],
             proc[p].pc # "idle", Finish(p), Moved(p, moves),
             \A i \in ItemIds : moves[i] # 0 => items[i].status # "none"
      PROVE  StepKinds
  <2>1. proc'[p].pc = "idle"
    BY <1>1, <1>6 DEF Finish, Idle
  <2>. QED
    BY <1>6, <2>1 DEF StepKinds
<1>7. ASSUME NEW p \in Requests, NEW delta \in Deltas, NEW received, NEW cost,
             NEW paid, MoveCommit(p, delta, received, cost, paid)
      PROVE  StepKinds
  <2>. DEFINE moves == [Nothing EXCEPT ![proc[p].item] = delta]
  <2>1. Nothing \in [ItemIds -> Int] /\ \A i \in ItemIds : Nothing[i] = 0
    BY DEF Nothing
  <2>2. delta \in Int
    BY ShelfAssumption
  <2>3. moves \in [ItemIds -> Int]
    BY <2>1, <2>2
  <2>4. items[proc[p].item].status # "none"
    BY <1>7 DEF MoveCommit, Shelved, ItemKinds
  <2>5. \A i \in ItemIds : moves[i] # 0 => items[i].status # "none"
    BY <2>1, <2>4
  <2>6. proc[p].pc # "idle" /\ Finish(p) /\ Moved(p, moves)
    BY <1>7 DEF MoveCommit
  <2>. HIDE DEF moves
  <2>. QED
    BY <1>6, <2>3, <2>5, <2>6
<1>8. ASSUME NEW p \in Requests, PlaceCommit(p)
      PROVE  StepKinds
  <2>. DEFINE moves == [i \in ItemIds |-> -proc[p].take[i]]
  <2>1. proc[p].take \in [ItemIds -> Int]
    BY <1>1 DEF Process
  <2>2. moves \in [ItemIds -> Int]
    BY <2>1
  <2>3. \A i \in ItemIds : moves[i] # 0 => items[i].status # "none"
    BY <2>1 DEF Shelved
  <2>4. proc[p].pc # "idle" /\ Finish(p) /\ Moved(p, moves)
    BY <1>8 DEF PlaceCommit
  <2>. HIDE DEF moves
  <2>. QED
    BY <1>6, <2>2, <2>3, <2>4
<1>9. ASSUME NEW p \in Requests, CancelCommit(p)
      PROVE  StepKinds
  <2>1. proc[p].take \in [ItemIds -> Int]
    BY <1>1 DEF Process
  <2>2. \A i \in ItemIds : proc[p].take[i] # 0 => items[i].status # "none"
    BY DEF Shelved
  <2>3. proc[p].pc # "idle" /\ Finish(p) /\ Moved(p, proc[p].take)
    BY <1>9, SMTT(30) DEF CancelCommit
  <2>. QED
    BY <1>6, <2>1, <2>2, <2>3
<1>10. CASE Arrive
  BY <1>2, <1>3, <1>10, ZenonT(60)
  DEF Arrive, ItemStart, PlaceStart, OrderStart, PayOrder,
     Spend, ExpenseStart
<1>11. ASSUME NEW p \in Requests, Proceed(p)
       PROVE  StepKinds
  BY <1>2, <1>4, <1>5, <1>7, <1>8, <1>9, <1>11, ZenonT(60)
  DEF Proceed, RecipeCommit,
     ReverseRead, PatchCommit, ExpenseCommit, Abandon
<1>. QED
  BY <1>2, <1>10, <1>11 DEF Next, shelfVars

\* A row that is there stays, and one that is not stays empty.
LEMMA RowsStay ==
  ASSUME DInv, StepKinds
  PROVE  /\ \A i \in ItemIds : items[i].status # "none" =>
                                 items'[i].status # "none"
         /\ UnwrittenEmpty'
<1>. USE DEF DInv
<1>1. /\ items \in [ItemIds -> ItemRow]
      /\ ledger \in [ItemIds -> [sum : Int, last : Int]]
  BY DEF IInv, TypeOK
<1>2. CASE \A i \in ItemIds :
             /\ items'[i].qty = items[i].qty
             /\ ledger'[i].sum = ledger[i].sum
             /\ items'[i].status = "none" <=> items[i].status = "none"
  BY <1>2 DEF UnwrittenEmpty
<1>3. CASE \E i \in ItemIds, n \in Nat :
             /\ items[i].status = "none"
             /\ items' = [items EXCEPT ![i] = [status |-> "live", qty |-> n,
                                               level |-> 0]]
             /\ ledger' = [ledger EXCEPT ![i] = [sum |-> n, last |-> n]]
  BY <1>1, <1>3 DEF UnwrittenEmpty
<1>4. ASSUME NEW p \in Requests, NEW moves \in [ItemIds -> Int],
             Moved(p, moves),
             \A i \in ItemIds : moves[i] # 0 => items[i].status # "none"
      PROVE  /\ \A i \in ItemIds : items[i].status # "none" =>
                                     items'[i].status # "none"
             /\ UnwrittenEmpty'
  <2>1. \A i \in ItemIds :
          /\ items'[i].status = items[i].status
          /\ moves[i] = 0 => items'[i] = items[i] /\ ledger'[i] = ledger[i]
    BY <1>1, <1>4 DEF Moved, ItemRow
  <2>. QED
    BY <1>4, <2>1 DEF UnwrittenEmpty
<1>. QED
  BY <1>2, <1>3, <1>4 DEF StepKinds

\* What one step may make of a session.
SessionMove(q) ==
  \/ proc'[q] = Idle
  \/ /\ proc'[q].take = proc[q].take
     /\ proc'[q].pc = proc[q].pc /\ proc'[q].item = proc[q].item
  \/ /\ UNCHANGED items
     /\ proc'[q].take = Nothing
     /\ proc'[q].pc \in ItemKinds => items[proc'[q].item].status # "none"
  \/ /\ UNCHANGED items
     /\ proc'[q].pc \notin ItemKinds
     /\ \E lines : proc'[q].take = LinesFor(lines)

LEMMA SessionKinds ==
  ASSUME DInv, [Next]_shelfVars, NEW q \in Requests
  PROVE  SessionMove(q)
<1>1. proc \in [Requests -> Process]
  BY DEF DInv, IInv, TypeOK
<1>2. ASSUME NEW p \in Requests, Finish(p)
      PROVE  SessionMove(q)
  BY <1>1, <1>2 DEF Finish, SessionMove
<1>3. ASSUME NEW p \in Requests, NEW i, NEW kind, NEW d, ItemStart(p, kind, i, d)
      PROVE  SessionMove(q)
  BY <1>1, <1>3 DEF SessionMove, ItemStart, Load, Idle
<1>4. ASSUME NEW p \in Requests, NEW o, NEW lines, PlaceStart(p, o, lines)
      PROVE  SessionMove(q)
  BY <1>1, <1>4 DEF SessionMove, PlaceStart, Load, Idle, ItemKinds
<1>5. ASSUME NEW p \in Requests, NEW o, NEW kind, OrderStart(p, kind, o)
      PROVE  SessionMove(q)
  BY <1>1, <1>5 DEF SessionMove, OrderStart, Load, Idle, ItemKinds, OrderKinds
<1>6. ASSUME NEW p \in Requests, NEW e, NEW kind, ExpenseStart(p, kind, e)
      PROVE  SessionMove(q)
  BY <1>1, <1>6 DEF SessionMove, ExpenseStart, Load, Idle, ItemKinds, ExpenseKinds
<1>7. ASSUME NEW p \in Requests, NEW quantity, RecipeCommit(p, quantity)
      PROVE  SessionMove(q)
  BY <1>1, <1>7 DEF SessionMove, RecipeCommit, Process
<1>8. ASSUME NEW p \in Requests, ReverseRead(p)
      PROVE  SessionMove(q)
  BY <1>1, <1>8 DEF SessionMove, ReverseRead, Process, ItemKinds
<1>9. CASE UNCHANGED proc
  BY <1>9 DEF SessionMove
<1>10. CASE Arrive
  BY <1>3, <1>4, <1>5, <1>6, <1>9, <1>10 DEF Arrive, CreateItem, PayOrder,
     Spend
<1>11. ASSUME NEW p \in Requests, Proceed(p)
       PROVE  SessionMove(q)
  BY <1>2, <1>7, <1>8, <1>11, ZenonT(60)
  DEF Proceed, UpdateCommit, ArchiveCommit,
     MoveCommit, PlaceCommit, CancelCommit, PatchCommit, ExpenseCommit, Abandon
<1>. QED
  BY <1>9, <1>10, <1>11 DEF Next, shelfVars

LEMMA ShelvedStep ==
  ASSUME DInv, [Next]_shelfVars
  PROVE  Shelved'
<1>1. ASSUME NEW q \in Requests
      PROVE  /\ proc'[q].pc \in ItemKinds => items'[proc'[q].item].status # "none"
             /\ \A i \in ItemIds : proc'[q].take[i] # 0 =>
                                     items'[i].status # "none"
  <2>1. CASE proc'[q] = Idle
    BY <2>1 DEF Idle, Nothing, ItemKinds
  <2>2. CASE /\ proc'[q].take = proc[q].take
             /\ proc'[q].pc = proc[q].pc /\ proc'[q].item = proc[q].item
    <3>1. proc[q].pc \in ItemKinds => proc[q].item \in ItemIds
      BY DEF DInv, IInv, TypeOK
    <3>. QED
      BY <2>2, <3>1, StepIsOne, RowsStay DEF DInv, Shelved
  <2>3. CASE /\ UNCHANGED items
             /\ proc'[q].take = Nothing
             /\ proc'[q].pc \in ItemKinds => items[proc'[q].item].status # "none"
    BY <2>3 DEF Nothing
  <2>4. CASE /\ UNCHANGED items
             /\ proc'[q].pc \notin ItemKinds
             /\ \E lines : proc'[q].take = LinesFor(lines)
    BY <2>4 DEF LinesFor
  <2>. QED
    BY <2>1, <2>2, <2>3, <2>4, SessionKinds DEF SessionMove
<1>. QED
  BY <1>1 DEF Shelved

LEMMA DInvInductive == (Init => DInv) /\ (DInv /\ [Next]_shelfVars => DInv')
<1>1. Init => DInv
  BY InitInv DEF Init, DInv, Shelved, UnwrittenEmpty, Idle, NoItem, Nothing,
     ItemKinds
<1>2. DInv /\ [Next]_shelfVars => DInv'
  BY NextInv, StepIsOne, RowsStay, ShelvedStep DEF DInv
<1>. QED
  BY <1>1, <1>2

LEMMA DriftStep ==
  ASSUME DInv, [Next]_shelfVars, NEW i \in ItemIds,
         items'[i].qty - ledger'[i].sum # items[i].qty - ledger[i].sum
  PROVE  \E p \in Requests : /\ proc[p].pc # "idle" /\ proc'[p].pc = "idle"
                             /\ proc[p].shelf[i].qty # items[i].qty
<1>. USE DEF DInv
<1>1. /\ items \in [ItemIds -> ItemRow]
      /\ ledger \in [ItemIds -> [sum : Int, last : Int]]
  BY DEF IInv, TypeOK
<1>2. CASE \A j \in ItemIds :
             /\ items'[j].qty = items[j].qty
             /\ ledger'[j].sum = ledger[j].sum
             /\ items'[j].status = "none" <=> items[j].status = "none"
  BY <1>2
<1>3. CASE \E j \in ItemIds, n \in Nat :
             /\ items[j].status = "none"
             /\ items' = [items EXCEPT ![j] = [status |-> "live", qty |-> n,
                                               level |-> 0]]
             /\ ledger' = [ledger EXCEPT ![j] = [sum |-> n, last |-> n]]
  BY <1>1, <1>3 DEF UnwrittenEmpty
<1>4. CASE \E p \in Requests, moves \in [ItemIds -> Int] :
             /\ proc[p].pc # "idle"
             /\ proc'[p].pc = "idle"
             /\ Moved(p, moves)
             /\ \A j \in ItemIds : moves[j] # 0 => items[j].status # "none"
  BY <1>4, MovedFacts
<1>. QED
  BY <1>2, <1>3, <1>4, StepIsOne DEF StepKinds

\* The total and the sum of the ledger part company only in a commit of a
\* request whose copy of the total was out of date.
THEOREM DriftIsStale == Spec => NoSilentDrift
<1>1. DInv /\ [Next]_shelfVars =>
        [\A i \in ItemIds :
           items'[i].qty - ledger'[i].sum # items[i].qty - ledger[i].sum =>
             \E p \in Requests : /\ proc[p].pc # "idle" /\ proc'[p].pc = "idle"
                                 /\ proc[p].shelf[i].qty # items[i].qty]_shelfVars
  BY DriftStep
<1>. QED
  BY <1>1, DInvInductive, PTL DEF Spec, NoSilentDrift

-----------------------------------------------------------------------------
(* While history is steady, what an order took is what its lines say.      *)

\* LinesFor, of any tables.
LinesOf(stock, cards, lines) ==
  [i \in ItemIds |->
     IF stock[i].status = "live"
     THEN SumOver([d \in Dishes |-> cards[d][i] * lines[d]], Dishes)
     ELSE 0]

LEMMA LinesForIs == \A lines : LinesFor(lines) = LinesOf(items, recipes, lines)
BY DEF LinesFor, LinesOf

LEMMA LinesNat ==
  ASSUME NEW stock, NEW cards \in [Dishes -> [ItemIds -> Nat]],
         NEW lines \in [Dishes -> {0, 1}]
  PROVE  LinesOf(stock, cards, lines) \in [ItemIds -> Nat]
<1>1. ASSUME NEW i \in ItemIds
      PROVE  SumOver([d \in Dishes |-> cards[d][i] * lines[d]], Dishes) \in Nat
  <2>. DEFINE f == [d \in Dishes |-> cards[d][i] * lines[d]]
  <2>1. \A d \in Dishes : f[d] \in Nat
    BY SMT
  <2>2. IsFiniteSet(Dishes)
    BY ShelfAssumption
  <2>. HIDE DEF f
  <2>3. SumOver(f, Dishes) \in Nat
    BY <2>1, <2>2, SumNat
  <2>. QED
    BY <2>3 DEF f
<1>. QED
  BY <1>1 DEF LinesOf

\* Only live items count, and an item no recipe speaks of counts nothing.
LEMMA LinesKept ==
  ASSUME NEW stock, NEW after, NEW cards, NEW lines \in [Dishes -> {0, 1}],
         \A i \in ItemIds : \/ after[i].status = "live" <=>
                                 stock[i].status = "live"
                            \/ \A d \in Dishes : cards[d][i] = 0
  PROVE  LinesOf(after, cards, lines) = LinesOf(stock, cards, lines)
<1>1. ASSUME NEW i \in ItemIds, \A d \in Dishes : cards[d][i] = 0
      PROVE  SumOver([d \in Dishes |-> cards[d][i] * lines[d]], Dishes) = 0
  <2>. DEFINE f == [d \in Dishes |-> cards[d][i] * lines[d]]
  <2>1. \A d \in Dishes : f[d] = 0
    BY <1>1
  <2>. HIDE DEF f
  <2>2. SumOver(f, Dishes) = 0
    BY <2>1, SumZero
  <2>. QED
    BY <2>2 DEF f
<1>2. ASSUME NEW i \in ItemIds
      PROVE  LinesOf(after, cards, lines)[i] = LinesOf(stock, cards, lines)[i]
  BY <1>1, <1>2 DEF LinesOf
<1>. QED
  BY <1>2 DEF LinesOf

\* The units that the orders took from item i, all in all.
Given(rows, i) == SumOver([o \in OrderIds |-> -rows[o][i]], OrderIds)

LEMMA OrdersFinite == IsFiniteSet(OrderIds)
BY FS_Interval, ShelfAssumption DEF OrderIds

LEMMA GivenNat ==
  ASSUME NEW i \in ItemIds, NEW rows \in [OrderIds -> [ItemIds -> Int]],
         \A o \in OrderIds : rows[o][i] <= 0
  PROVE  Given(rows, i) \in Nat
<1>. DEFINE f == [o \in OrderIds |-> -rows[o][i]]
<1>1. \A o \in OrderIds : f[o] \in Nat
  OBVIOUS
<1>. HIDE DEF f
<1>2. SumOver(f, OrderIds) \in Nat
  BY <1>1, OrdersFinite, SumNat
<1>. QED
  BY <1>2 DEF Given, f

LEMMA GivenNone ==
  ASSUME NEW i \in ItemIds, NEW rows, \A o \in OrderIds : rows[o][i] = 0
  PROVE  Given(rows, i) = 0
<1>. DEFINE f == [o \in OrderIds |-> -rows[o][i]]
<1>1. \A o \in OrderIds : f[o] = 0
  OBVIOUS
<1>. HIDE DEF f
<1>2. SumOver(f, OrderIds) = 0
  BY <1>1, SumZero
<1>. QED
  BY <1>2 DEF Given, f

\* One order's part changes.
LEMMA GivenUpdate ==
  ASSUME NEW i \in ItemIds, NEW rows \in [OrderIds -> [ItemIds -> Int]],
         NEW o \in OrderIds, NEW row \in [ItemIds -> Int],
         \A q \in OrderIds : rows[q][i] <= 0, row[i] <= 0
  PROVE  Given([rows EXCEPT ![o] = row], i) = Given(rows, i) + rows[o][i] - row[i]
<1>. DEFINE f == [q \in OrderIds |-> -rows[q][i]]
            after == [rows EXCEPT ![o] = row]
            g == [q \in OrderIds |-> -after[q][i]]
<1>1. \A q \in OrderIds : f[q] \in Nat
  OBVIOUS
<1>2. g[o] = -row[i] /\ g[o] \in Nat
  OBVIOUS
<1>3. \A q \in OrderIds \ {o} : g[q] = f[q]
  OBVIOUS
<1>4. f[o] = -rows[o][i]
  OBVIOUS
<1>. HIDE DEF f, g
<1>5. SumOver(g, OrderIds) = SumOver(f, OrderIds) - f[o] + g[o]
  BY <1>1, <1>2, <1>3, OrdersFinite, SumUpdate
<1>6. SumOver(f, OrderIds) \in Nat
  BY <1>1, OrdersFinite, SumNat
<1>7. SumOver(g, OrderIds) = SumOver(f, OrderIds) + rows[o][i] - row[i]
  BY <1>2, <1>4, <1>5, <1>6
<1>. QED
  BY <1>7 DEF Given, f, g

-----------------------------------------------------------------------------

\* No recipe speaks of an item before it is there.
UnusedRecipes ==
  \A i \in ItemIds, d \in Dishes : items[i].status = "none" => recipes[d][i] = 0

\* At most one request is in flight.
Solitary ==
  \A p, q \in Requests : proc[p].pc # "idle" /\ proc[q].pc # "idle" => p = q

\* The copies in p's session are the rows, and what it computed from them is
\* still what they say.
Undisturbed(p) ==
  LET v == proc[p] IN
  /\ v.pc \in {"place", "reverse"} =>
       /\ v.shelf = items
       /\ v.take = LinesOf(items, recipes, v.order.lines)
  /\ v.pc = "place" => /\ orders[v.ord].status = "none"
                       /\ v.order.status = "open"
  /\ v.pc \in {"cancel", "reverse"} =>
       /\ orders[v.ord].status = "open"
       /\ v.order.lines = orders[v.ord].lines

\* An open order took what its lines say; any other moved nothing, all in all.
Accounted ==
  \A o \in OrderIds, i \in ItemIds :
    net[o][i] = IF orders[o].status = "open"
                THEN -LinesOf(items, recipes, orders[o].lines)[i] ELSE 0

\* Without the orders no total would be below zero.
Covered == \A i \in ItemIds : items[i].qty + Given(net, i) >= 0

Steadily ==
  Solitary /\ (\A p \in Requests : Undisturbed(p)) /\ Accounted /\ Covered

KInv == DInv /\ UnusedRecipes /\ (steady => Steadily)

LEMMA TablesTyped ==
  ASSUME DInv
  PROVE  /\ items \in [ItemIds -> ItemRow]
         /\ recipes \in [Dishes -> [ItemIds -> Nat]]
         /\ orders \in [OrderIds -> OrderRow]
         /\ net \in [OrderIds -> [ItemIds -> Int]]
         /\ proc \in [Requests -> Process]
         /\ \A o \in OrderIds : orders[o].lines \in [Dishes -> {0, 1}]
         /\ \A p \in Requests : /\ proc[p].order.lines \in [Dishes -> {0, 1}]
                                /\ proc[p].take \in [ItemIds -> Int]
                                /\ proc[p].shelf \in [ItemIds -> ItemRow]
<1>1. TypeOK
  BY DEF DInv, IInv
<1>2. \A o \in OrderIds : orders[o].lines \in [Dishes -> {0, 1}]
  BY <1>1 DEF TypeOK, OrderRow
<1>3. \A p \in Requests : /\ proc[p].order.lines \in [Dishes -> {0, 1}]
                          /\ proc[p].take \in [ItemIds -> Int]
                          /\ proc[p].shelf \in [ItemIds -> ItemRow]
  BY <1>1 DEF TypeOK, Process, OrderRow
<1>. QED
  BY <1>1, <1>2, <1>3 DEF TypeOK

LEMMA NetNegative ==
  ASSUME DInv, Accounted
  PROVE  \A o \in OrderIds, i \in ItemIds : net[o][i] <= 0
<1>1. ASSUME NEW o \in OrderIds, NEW i \in ItemIds
      PROVE  net[o][i] <= 0
  <2>1. LinesOf(items, recipes, orders[o].lines) \in [ItemIds -> Nat]
    BY TablesTyped, LinesNat
  <2>2. LinesOf(items, recipes, orders[o].lines)[i] \in Nat
    BY <2>1
  <2>. QED
    BY <2>2 DEF Accounted
<1>. QED
  BY <1>1

LEMMA GivenTotal ==
  ASSUME DInv, Accounted, NEW i \in ItemIds
  PROVE  Given(net, i) \in Nat
BY TablesTyped, NetNegative, GivenNat

-----------------------------------------------------------------------------
(* A recipe line is written for an item that is there.                     *)

LEMMA UnusedRecipesStep ==
  ASSUME DInv, UnusedRecipes, [Next]_shelfVars
  PROVE  UnusedRecipes'
<1>1. \A i \in ItemIds : items'[i].status = "none" => items[i].status = "none"
  BY StepIsOne, RowsStay
<1>2. CASE UNCHANGED recipes
  BY <1>1, <1>2 DEF UnusedRecipes
<1>3. ASSUME NEW i \in ItemIds, NEW quantity, NEW d, NEW yield,
             CreateItem(i, quantity, d, yield)
      PROVE  UnusedRecipes'
  <2>1. items'[i].status = "live"
    BY <1>3, TablesTyped DEF CreateItem
  <2>2. \A j \in ItemIds \ {i}, e \in Dishes : recipes'[e][j] = recipes[e][j]
    BY <1>3, TablesTyped DEF CreateItem
  <2>. QED
    BY <1>1, <2>1, <2>2 DEF UnusedRecipes
<1>4. ASSUME NEW p \in Requests, NEW quantity, RecipeCommit(p, quantity)
      PROVE  UnusedRecipes'
  <2>. DEFINE i == proc[p].item
              d == proc[p].dish
  <2>1. i \in ItemIds /\ d \in Dishes /\ items[i].status # "none"
    BY <1>4 DEF RecipeCommit, DInv, IInv, TypeOK, Shelved, ItemKinds
  <2>2. \/ UNCHANGED recipes
        \/ recipes' = [recipes EXCEPT ![d] = [recipes[d] EXCEPT ![i] = quantity]]
    BY <1>4 DEF RecipeCommit
  <2>3. UNCHANGED items
    BY <1>4 DEF RecipeCommit
  <2>. HIDE DEF i, d
  <2>4. \A j \in ItemIds \ {i}, e \in Dishes : recipes'[e][j] = recipes[e][j]
    BY <2>1, <2>2, TablesTyped, SMTT(30)
  <2>. QED
    BY <2>1, <2>3, <2>4 DEF UnusedRecipes
<1>5. CASE Arrive
  BY <1>2, <1>3, <1>5, ZenonT(60)
  DEF Arrive, ItemStart, PlaceStart, OrderStart, PayOrder,
     Spend, ExpenseStart
<1>6. ASSUME NEW p \in Requests, Proceed(p)
      PROVE  UnusedRecipes'
  BY <1>2, <1>4, <1>6, ZenonT(60)
  DEF Proceed, UpdateCommit, ArchiveCommit, MoveCommit,
     PlaceCommit, ReverseRead, CancelCommit, PatchCommit, ExpenseCommit, Abandon
<1>. QED
  BY <1>2, <1>5, <1>6 DEF Next, shelfVars

-----------------------------------------------------------------------------
(* Each action keeps the steady part, as long as history stays steady.     *)

LEMMA AllIdle ==
  ASSUME \A q \in Requests : proc'[q].pc = "idle"
  PROVE  Solitary' /\ (\A q \in Requests : Undisturbed(q))'
BY DEF Solitary, Undisturbed

LEMMA FinishAlone ==
  ASSUME DInv, Solitary, NEW p \in Requests, proc[p].pc # "idle", Finish(p)
  PROVE  Solitary' /\ (\A q \in Requests : Undisturbed(q))'
<1>1. Idle.pc = "idle"
  BY DEF Idle
<1>2. \A q \in Requests : proc'[q].pc = "idle"
  BY <1>1, TablesTyped DEF Finish, Solitary
<1>. QED
  BY <1>2, AllIdle

\* A request that arrives while history stays steady is alone.
LEMMA LoadAlone ==
  ASSUME DInv, NEW p \in Requests, NEW point, NEW v, Load(p, point, v), steady'
  PROVE  /\ proc'[p] = v
         /\ Solitary'
         /\ Undisturbed(p)' => (\A q \in Requests : Undisturbed(q))'
<1>1. /\ proc' = [proc EXCEPT ![p] = v]
      /\ \A q \in Requests : proc[q].pc = "idle"
  BY DEF Load, NoneInFlight
<1>2. proc'[p] = v /\ \A q \in Requests \ {p} : proc'[q].pc = "idle"
  BY <1>1, TablesTyped
<1>. QED
  BY <1>2 DEF Solitary, Undisturbed

\* What orders took stays accounted for when lines, recipes and what is live
\* stay.
LEMMA AccountedKept ==
  ASSUME DInv, Accounted, UNCHANGED <<recipes, net>>,
         \A o \in OrderIds : /\ orders'[o].status = "open" <=>
                                  orders[o].status = "open"
                             /\ orders'[o].lines = orders[o].lines,
         \A i \in ItemIds : \/ items'[i].status = "live" <=>
                                 items[i].status = "live"
                            \/ \A d \in Dishes : recipes[d][i] = 0
  PROVE  Accounted'
<1>1. ASSUME NEW o \in OrderIds
      PROVE  LinesOf(items', recipes', orders'[o].lines)
               = LinesOf(items, recipes, orders[o].lines)
  <2>. DEFINE lines == orders[o].lines
  <2>1. lines \in [Dishes -> {0, 1}]
    BY TablesTyped
  <2>2. orders'[o].lines = lines /\ recipes' = recipes
    OBVIOUS
  <2>. HIDE DEF lines
  <2>3. LinesOf(items', recipes, lines) = LinesOf(items, recipes, lines)
    BY <2>1, LinesKept
  <2>. QED
    BY <2>2, <2>3 DEF lines
<1>. QED
  BY <1>1 DEF Accounted

\* Before any order is placed there is nothing to account for.
LEMMA AccountedNothing ==
  ASSUME DInv, Accounted, NothingPlaced, UNCHANGED <<orders, net>>
  PROVE  Accounted'
BY DEF Accounted, NothingPlaced

\* Totals that a step keeps, or leaves no lower than zero.
LEMMA CoveredKept ==
  ASSUME DInv, Accounted, Covered, UNCHANGED net,
         items' \in [ItemIds -> ItemRow],
         \A i \in ItemIds : items'[i].qty = items[i].qty \/ items'[i].qty >= 0
  PROVE  Covered'
<1>1. ASSUME NEW i \in ItemIds
      PROVE  items'[i].qty + Given(net', i) >= 0
  <2>1. Given(net, i) \in Nat /\ net' = net
    BY GivenTotal
  <2>2. items[i].qty + Given(net, i) >= 0
    BY DEF Covered
  <2>3. items'[i].qty \in Int
    BY DEF ItemRow
  <2>. QED
    BY <2>1, <2>2, <2>3
<1>. QED
  BY <1>1 DEF Covered

\* A request that only reads.
LEMMA ReadSteady ==
  ASSUME DInv, Steadily, NEW p \in Requests, NEW point, NEW v,
         Load(p, point, v), steady', Undisturbed(p)',
         UNCHANGED <<items, recipes, ledger, orders, net, expenses>>
  PROVE  Steadily'
<1>1. Solitary' /\ (\A q \in Requests : Undisturbed(q))'
  BY LoadAlone
<1>2. Accounted' /\ Covered'
  BY DEF Steadily, Accounted, Covered
<1>. QED
  BY <1>1, <1>2 DEF Steadily

LEMMA ItemStartSteady ==
  ASSUME DInv, Steadily, steady', NEW p \in Requests, NEW i \in ItemIds,
         NEW kind \in ItemKinds, NEW d \in Dishes, ItemStart(p, kind, i, d)
  PROVE  Steadily'
<1>. DEFINE v == [Idle EXCEPT !.pc = kind, !.item = i, !.shelf = items,
                    !.dish = IF kind = "recipe" THEN d ELSE "none",
                    !.line = IF kind = "recipe" THEN recipes[d][i] ELSE 0]
<1>1. v.pc = kind
  BY DEF Idle
<1>2. /\ Load(p, kind, v)
      /\ UNCHANGED <<items, recipes, ledger, orders, net, expenses>>
  BY DEF ItemStart
<1>. HIDE DEF v
<1>3. proc'[p] = v
  BY <1>2, LoadAlone
<1>4. Undisturbed(p)'
  BY <1>1, <1>3 DEF Undisturbed, ItemKinds
<1>. QED
  BY <1>2, <1>4, ReadSteady

LEMMA PlaceStartSteady ==
  ASSUME DInv, Steadily, steady', NEW p \in Requests, NEW o \in OrderIds,
         NEW lines \in [Dishes -> {0, 1}], PlaceStart(p, o, lines)
  PROVE  Steadily'
<1>. DEFINE v == [Idle EXCEPT !.pc = "place", !.ord = o, !.shelf = items,
                    !.order = [status |-> "open", paid |-> FALSE,
                               lines |-> lines],
                    !.take = LinesFor(lines)]
<1>1. /\ v.pc = "place" /\ v.ord = o /\ v.shelf = items
      /\ v.order.status = "open" /\ v.order.lines = lines
      /\ v.take = LinesFor(lines)
  BY DEF Idle
<1>2. /\ Load(p, "place", v)
      /\ UNCHANGED <<items, recipes, ledger, orders, net, expenses>>
      /\ orders[o].status = "none"
  BY DEF PlaceStart
<1>. HIDE DEF v
<1>3. proc'[p] = v
  BY <1>2, LoadAlone
<1>4. v.take = LinesOf(items, recipes, v.order.lines)
  BY <1>1, LinesForIs
<1>5. Undisturbed(p)'
  BY <1>1, <1>2, <1>3, <1>4 DEF Undisturbed
<1>. QED
  BY <1>2, <1>5, ReadSteady

LEMMA OrderStartSteady ==
  ASSUME DInv, Steadily, steady', NEW p \in Requests, NEW o \in OrderIds,
         NEW kind \in OrderKinds, OrderStart(p, kind, o)
  PROVE  Steadily'
<1>. DEFINE v == [Idle EXCEPT !.pc = kind, !.ord = o, !.order = orders[o]]
<1>1. v.pc = kind /\ v.ord = o /\ v.order = orders[o]
  BY DEF Idle
<1>2. /\ Load(p, kind, v)
      /\ UNCHANGED <<items, recipes, ledger, orders, net, expenses>>
      /\ orders[o].status # "none"
      /\ kind = "cancel" => orders[o].status # "cancelled"
  BY DEF OrderStart
<1>. HIDE DEF v
<1>3. proc'[p] = v
  BY <1>2, LoadAlone
<1>4. kind = "cancel" => orders[o].status = "open"
  BY <1>2, TablesTyped DEF OrderRow
<1>5. Undisturbed(p)'
  BY <1>1, <1>2, <1>3, <1>4 DEF Undisturbed, OrderKinds
<1>. QED
  BY <1>2, <1>5, ReadSteady

LEMMA ExpenseStartSteady ==
  ASSUME DInv, Steadily, steady', NEW p \in Requests, NEW e \in ExpenseIds,
         NEW kind \in ExpenseKinds, ExpenseStart(p, kind, e)
  PROVE  Steadily'
<1>. DEFINE v == [Idle EXCEPT !.pc = kind, !.exp = e, !.bill = expenses[e]]
<1>1. v.pc = kind
  BY DEF Idle
<1>2. /\ Load(p, kind, v)
      /\ UNCHANGED <<items, recipes, ledger, orders, net, expenses>>
  BY DEF ExpenseStart
<1>. HIDE DEF v
<1>3. proc'[p] = v
  BY <1>2, LoadAlone
<1>4. Undisturbed(p)'
  BY <1>1, <1>3 DEF Undisturbed, ExpenseKinds
<1>. QED
  BY <1>2, <1>4, ReadSteady

LEMMA CreateItemSteady ==
  ASSUME DInv, UnusedRecipes, Steadily, steady', items' \in [ItemIds -> ItemRow],
         NEW i \in ItemIds, NEW quantity \in Openings,
         NEW d \in Dishes \cup {"none"}, NEW yield \in Yields,
         CreateItem(i, quantity, d, yield)
  PROVE  Steadily'
<1>1. quantity \in Nat
  BY ShelfAssumption
<1>2. /\ UNCHANGED <<orders, net, proc>> /\ NoneInFlight
      /\ items' = [items EXCEPT ![i] = [status |-> "live", qty |-> quantity,
                                        level |-> 0]]
      /\ items[i].status = "none"
      /\ UNCHANGED recipes \/ NothingPlaced
  BY DEF CreateItem
<1>3. Solitary' /\ (\A q \in Requests : Undisturbed(q))'
  BY <1>2, AllIdle DEF NoneInFlight
<1>4. \A j \in ItemIds : items'[j].qty = items[j].qty \/ items'[j].qty >= 0
  BY <1>1, <1>2, TablesTyped
<1>5. Covered'
  BY <1>2, <1>4, CoveredKept DEF Steadily
<1>6. Accounted'
  <2>1. CASE UNCHANGED recipes
    <3>1. \A j \in ItemIds : \/ items'[j].status = "live" <=>
                                  items[j].status = "live"
                             \/ \A e \in Dishes : recipes[e][j] = 0
      BY <1>2, TablesTyped DEF UnusedRecipes
    <3>. QED
      BY <1>2, <2>1, <3>1, AccountedKept DEF Steadily
  <2>2. CASE NothingPlaced
    BY <1>2, <2>2, AccountedNothing DEF Steadily
  <2>. QED
    BY <1>2, <2>1, <2>2
<1>. QED
  BY <1>3, <1>5, <1>6 DEF Steadily

\* A payment changes neither an order's lines nor whether it stands.
LEMMA PayOrderSteady ==
  ASSUME DInv, Steadily, steady', NEW o \in OrderIds, PayOrder(o)
  PROVE  Steadily'
<1>1. /\ orders' = [orders EXCEPT ![o] = [orders[o] EXCEPT !.paid = TRUE]]
      /\ UNCHANGED <<items, recipes, net, proc>>
  BY DEF PayOrder
<1>2. \A q \in OrderIds : /\ orders'[q].status = orders[q].status
                          /\ orders'[q].lines = orders[q].lines
  BY <1>1, TablesTyped DEF OrderRow
<1>3. Solitary' /\ Covered'
  BY <1>1 DEF Steadily, Solitary, Covered
<1>4. Accounted'
  BY <1>1, <1>2, AccountedKept DEF Steadily
<1>5. ASSUME NEW p \in Requests
      PROVE  Undisturbed(p)'
  <2>1. proc[p].pc \in OnOrder => proc[p].ord \in OrderIds
    BY DEF DInv, IInv, TypeOK
  <2>. QED
    BY <1>1, <1>2, <2>1 DEF Steadily, Undisturbed, OnOrder, OrderKinds
<1>. QED
  BY <1>3, <1>4, <1>5 DEF Steadily

\* Steps that leave stock, recipes and orders as they are.
LEMMA TablesStaySteady ==
  ASSUME DInv, Steadily, NEW p \in Requests, proc[p].pc # "idle", Finish(p),
         UNCHANGED <<items, recipes, orders, net>>
  PROVE  Steadily'
<1>1. Solitary' /\ (\A q \in Requests : Undisturbed(q))'
  BY FinishAlone DEF Steadily
<1>. QED
  BY <1>1 DEF Steadily, Accounted, Covered

LEMMA UpdateCommitSteady ==
  ASSUME DInv, Steadily, items' \in [ItemIds -> ItemRow], NEW p \in Requests,
         NEW level, UpdateCommit(p, level)
  PROVE  Steadily'
<1>1. \A i \in ItemIds : /\ items'[i].qty = items[i].qty
                         /\ items'[i].status = items[i].status
  BY TablesTyped DEF UpdateCommit, ItemRow
<1>2. /\ proc[p].pc # "idle" /\ Finish(p)
      /\ UNCHANGED <<recipes, orders, net>>
  BY DEF UpdateCommit
<1>3. Solitary' /\ (\A q \in Requests : Undisturbed(q))'
  BY <1>2, FinishAlone DEF Steadily
<1>4. Accounted'
  BY <1>1, <1>2, AccountedKept DEF Steadily
<1>5. Covered'
  BY <1>1, <1>2, CoveredKept DEF Steadily
<1>. QED
  BY <1>3, <1>4, <1>5 DEF Steadily

LEMMA ArchiveCommitSteady ==
  ASSUME DInv, Steadily, steady', items' \in [ItemIds -> ItemRow],
         NEW p \in Requests, ArchiveCommit(p)
  PROVE  Steadily'
<1>1. /\ proc[p].pc # "idle" /\ Finish(p) /\ NothingPlaced
      /\ UNCHANGED <<recipes, orders, net>>
  BY DEF ArchiveCommit
<1>2. \A i \in ItemIds : items'[i].qty = items[i].qty
  <2>1. items' = [items EXCEPT ![proc[p].item] =
                    [items[proc[p].item] EXCEPT !.status = "archived"]]
    BY DEF ArchiveCommit
  <2>. QED
    BY <2>1, TablesTyped DEF ItemRow
<1>3. Solitary' /\ (\A q \in Requests : Undisturbed(q))'
  BY <1>1, FinishAlone DEF Steadily
<1>4. Accounted'
  BY <1>1, AccountedNothing DEF Steadily
<1>5. Covered'
  BY <1>1, <1>2, CoveredKept DEF Steadily
<1>. QED
  BY <1>3, <1>4, <1>5 DEF Steadily

\* A movement keyed in is refused where it would leave less than nothing.
LEMMA MoveCommitSteady ==
  ASSUME DInv, Steadily, items' \in [ItemIds -> ItemRow], NEW p \in Requests,
         NEW delta \in Deltas, NEW received, NEW cost, NEW paid,
         MoveCommit(p, delta, received, cost, paid)
  PROVE  Steadily'
<1>. DEFINE moves == [Nothing EXCEPT ![proc[p].item] = delta]
<1>1. /\ proc[p].pc = "move" /\ Finish(p) /\ Moved(p, moves)
      /\ NewTotal(p, proc[p].item, delta) >= 0
      /\ UNCHANGED <<recipes, orders, net>>
  BY DEF MoveCommit
<1>2. \A i \in ItemIds : moves[i] = 0 \/ (i = proc[p].item /\ moves[i] = delta)
  BY DEF Nothing
<1>. HIDE DEF moves
<1>3. \A i \in ItemIds : /\ items'[i].status = items[i].status
                         /\ items'[i].qty = items[i].qty \/ items'[i].qty >= 0
  BY <1>1, <1>2, TablesTyped DEF Moved, ItemRow
<1>4. Solitary' /\ (\A q \in Requests : Undisturbed(q))'
  BY <1>1, FinishAlone DEF Steadily
<1>5. Accounted'
  BY <1>1, <1>3, AccountedKept DEF Steadily
<1>6. Covered'
  BY <1>1, <1>3, CoveredKept DEF Steadily
<1>. QED
  BY <1>4, <1>5, <1>6 DEF Steadily

LEMMA RecipeCommitSteady ==
  ASSUME DInv, Steadily, steady', NEW p \in Requests, NEW quantity,
         RecipeCommit(p, quantity)
  PROVE  Steadily'
<1>1. /\ proc[p].pc = "recipe" /\ UNCHANGED <<items, orders, net>>
      /\ UNCHANGED recipes \/ NothingPlaced
  BY DEF RecipeCommit
<1>2. ASSUME NEW q \in Requests
      PROVE  proc'[q].pc = "idle"
  <2>1. CASE q = p
    BY <2>1 DEF RecipeCommit, Idle
  <2>2. CASE q # p
    <3>1. proc[q].pc = "idle"
      BY <1>1, <2>2 DEF Steadily, Solitary
    <3>. QED
      BY <2>2, <3>1, TablesTyped DEF RecipeCommit
  <2>. QED
    BY <2>1, <2>2
<1>3. Solitary' /\ (\A q \in Requests : Undisturbed(q))'
  BY <1>2, AllIdle
<1>4. Accounted'
  <2>1. CASE UNCHANGED recipes
    BY <1>1, <2>1 DEF Steadily, Accounted
  <2>2. CASE NothingPlaced
    BY <1>1, <2>2, AccountedNothing DEF Steadily
  <2>. QED
    BY <1>1, <2>1, <2>2
<1>5. Covered'
  BY <1>1 DEF Steadily, Covered
<1>. QED
  BY <1>3, <1>4, <1>5 DEF Steadily

\* What Moved makes of the shelf when p's copy of it is fresh.
LEMMA MovedFresh ==
  ASSUME DInv, NEW p \in Requests, proc[p].shelf = items,
         NEW moves \in [ItemIds -> Int], Moved(p, moves)
  PROVE  \A i \in ItemIds : /\ items'[i].status = items[i].status
                            /\ items'[i].qty = items[i].qty + moves[i]
<1>1. ASSUME NEW i \in ItemIds
      PROVE  /\ items'[i].status = items[i].status
             /\ items'[i].qty = items[i].qty + moves[i]
  <2>1. items[i] \in ItemRow /\ items[i].qty \in Int /\ moves[i] \in Int
    BY TablesTyped DEF ItemRow
  <2>2. CASE moves[i] = 0
    BY <2>1, <2>2 DEF Moved
  <2>3. CASE moves[i] # 0
    BY <2>1, <2>3 DEF Moved, NewTotal, ItemRow
  <2>. QED
    BY <2>2, <2>3
<1>. QED
  BY <1>1

\* One order's part becomes what its row says, and the shelf moves by as much.
LEMMA OrderMoved ==
  ASSUME DInv, Accounted, Covered, NEW o \in OrderIds,
         NEW row \in [ItemIds -> Int], \A i \in ItemIds : row[i] <= 0,
         net' = [net EXCEPT ![o] = row], UNCHANGED recipes,
         \A i \in ItemIds : /\ items'[i].status = items[i].status
                            /\ items'[i].qty = items[i].qty + row[i] - net[o][i],
         \A q \in OrderIds \ {o} : orders'[q] = orders[q],
         orders'[o].lines \in [Dishes -> {0, 1}],
         \A i \in ItemIds :
           row[i] = IF orders'[o].status = "open"
                    THEN -LinesOf(items, recipes, orders'[o].lines)[i] ELSE 0
  PROVE  Accounted' /\ Covered'
<1>1. \A q \in OrderIds : orders'[q].lines \in [Dishes -> {0, 1}]
  BY TablesTyped
<1>2. ASSUME NEW q \in OrderIds
      PROVE  LinesOf(items', recipes', orders'[q].lines)
               = LinesOf(items, recipes, orders'[q].lines)
  <2>. DEFINE lines == orders'[q].lines
              after == items'
  <2>1. lines \in [Dishes -> {0, 1}]
    BY <1>1
  <2>2. \A i \in ItemIds : after[i].status = "live" <=> items[i].status = "live"
    OBVIOUS
  <2>. HIDE DEF lines, after
  <2>3. LinesOf(after, recipes, lines) = LinesOf(items, recipes, lines)
    BY <2>1, <2>2, LinesKept
  <2>. QED
    BY <2>3 DEF lines, after
<1>3. ASSUME NEW q \in OrderIds, NEW i \in ItemIds
      PROVE  net'[q][i] = IF orders'[q].status = "open"
                          THEN -LinesOf(items', recipes', orders'[q].lines)[i]
                          ELSE 0
  <2>1. CASE q = o
    <3>1. net'[o] = row
      BY TablesTyped
    <3>. QED
      BY <1>2, <2>1, <3>1
  <2>2. CASE q # o
    <3>1. net'[q] = net[q] /\ orders'[q] = orders[q]
      BY <2>2, TablesTyped
    <3>. QED
      BY <1>2, <3>1 DEF Accounted
  <2>. QED
    BY <2>1, <2>2
<1>4. Accounted'
  BY <1>3 DEF Accounted
<1>5. ASSUME NEW i \in ItemIds
      PROVE  items'[i].qty + Given(net', i) >= 0
  <2>1. net \in [OrderIds -> [ItemIds -> Int]] /\ \A q \in OrderIds : net[q][i] <= 0
    BY TablesTyped, NetNegative
  <2>2. Given([net EXCEPT ![o] = row], i) = Given(net, i) + net[o][i] - row[i]
    BY <2>1, GivenUpdate
  <2>3. Given(net', i) = Given(net, i) + net[o][i] - row[i]
    BY <2>2
  <2>4. /\ Given(net, i) \in Nat /\ items[i].qty \in Int
        /\ net[o][i] \in Int /\ row[i] \in Int
    BY <2>1, GivenTotal, TablesTyped DEF ItemRow
  <2>5. items[i].qty + Given(net, i) >= 0
    BY DEF Covered
  <2>6. items'[i].qty = items[i].qty + row[i] - net[o][i]
    OBVIOUS
  <2>. QED
    BY <2>3, <2>4, <2>5, <2>6
<1>. QED
  BY <1>4, <1>5 DEF Covered

LEMMA PlaceCommitSteady ==
  ASSUME DInv, Steadily, NEW p \in Requests, PlaceCommit(p)
  PROVE  Steadily'
<1>. DEFINE o == proc[p].ord
            order == proc[p].order
            moves == [i \in ItemIds |-> -proc[p].take[i]]
<1>1. proc[p].pc = "place" /\ o \in OrderIds
  BY DEF PlaceCommit, DInv, IInv, TypeOK, OnOrder
<1>2. /\ proc[p].shelf = items
      /\ proc[p].take = LinesOf(items, recipes, order.lines)
      /\ orders[o].status = "none" /\ order.status = "open"
  BY <1>1 DEF Steadily, Undisturbed
<1>3. order.lines \in [Dishes -> {0, 1}]
  BY TablesTyped
<1>4. LinesOf(items, recipes, order.lines) \in [ItemIds -> Nat]
  BY <1>3, TablesTyped, LinesNat
<1>5. proc[p].take \in [ItemIds -> Nat]
  BY <1>2, <1>4
<1>6. /\ moves \in [ItemIds -> Int]
      /\ \A i \in ItemIds : moves[i] = -proc[p].take[i] /\ moves[i] <= 0
  BY <1>5
<1>7. /\ Moved(p, moves) /\ Finish(p) /\ UNCHANGED recipes
      /\ orders' = [orders EXCEPT ![o] = order]
      /\ net' = [net EXCEPT ![o] = moves]
  BY DEF PlaceCommit
<1>. HIDE DEF o, order, moves
<1>8. \A i \in ItemIds : /\ items'[i].status = items[i].status
                         /\ items'[i].qty = items[i].qty + moves[i]
  BY <1>2, <1>6, <1>7, MovedFresh
<1>9. \A i \in ItemIds : net[o][i] = 0
  BY <1>1, <1>2 DEF Steadily, Accounted
<1>10. \A i \in ItemIds : items'[i].qty = items[i].qty + moves[i] - net[o][i]
  <2>1. \A i \in ItemIds : items[i].qty \in Int
    BY TablesTyped DEF ItemRow
  <2>. QED
    BY <2>1, <1>6, <1>8, <1>9
<1>11. orders'[o] = order /\ \A q \in OrderIds \ {o} : orders'[q] = orders[q]
  BY <1>1, <1>7, TablesTyped
<1>12. \A i \in ItemIds :
         moves[i] = IF orders'[o].status = "open"
                    THEN -LinesOf(items, recipes, orders'[o].lines)[i] ELSE 0
  BY <1>2, <1>6, <1>11
<1>13. /\ net' = [net EXCEPT ![o] = moves] /\ UNCHANGED recipes
       /\ orders'[o].lines \in [Dishes -> {0, 1}]
       /\ \A i \in ItemIds : moves[i] <= 0
  BY <1>3, <1>6, <1>7, <1>11
<1>14. Accounted' /\ Covered'
  BY <1>1, <1>6, <1>8, <1>10, <1>11, <1>12, <1>13, OrderMoved DEF Steadily
<1>15. Solitary' /\ (\A q \in Requests : Undisturbed(q))'
  BY <1>1, <1>7, FinishAlone DEF Steadily
<1>. QED
  BY <1>14, <1>15 DEF Steadily

LEMMA ReverseReadSteady ==
  ASSUME DInv, Steadily, NEW p \in Requests, ReverseRead(p)
  PROVE  Steadily'
<1>. DEFINE v == [proc[p] EXCEPT !.pc = "reverse", !.shelf = items,
                                 !.take = LinesFor(proc[p].order.lines)]
<1>1. /\ proc[p].pc = "cancel" /\ proc' = [proc EXCEPT ![p] = v]
      /\ UNCHANGED <<items, recipes, orders, net>>
  BY DEF ReverseRead
<1>2. proc[p] \in Process
  BY TablesTyped
<1>3. /\ v.pc = "reverse" /\ v.shelf = items /\ v.order = proc[p].order
      /\ v.ord = proc[p].ord /\ v.take = LinesFor(v.order.lines)
  BY <1>2 DEF Process
<1>. HIDE DEF v
<1>4. proc'[p] = v /\ \A q \in Requests \ {p} : proc'[q] = proc[q]
  BY <1>1, TablesTyped
<1>5. Solitary'
  BY <1>1, <1>4 DEF Steadily, Solitary
<1>6. Undisturbed(p)
  BY DEF Steadily
<1>7. v.take = LinesOf(items, recipes, v.order.lines)
  BY <1>3, LinesForIs
<1>8. Undisturbed(p)'
  BY <1>1, <1>3, <1>4, <1>6, <1>7 DEF Undisturbed
<1>9. ASSUME NEW q \in Requests \ {p}
      PROVE  Undisturbed(q)'
  BY <1>1, <1>4, <1>9 DEF Undisturbed, Steadily
<1>10. Accounted' /\ Covered'
  BY <1>1 DEF Steadily, Accounted, Covered
<1>. QED
  BY <1>5, <1>8, <1>9, <1>10 DEF Steadily

LEMMA CancelCommitSteady ==
  ASSUME DInv, Steadily, NEW p \in Requests, CancelCommit(p)
  PROVE  Steadily'
<1>. DEFINE o == proc[p].ord
            take == proc[p].take
            back == [i \in ItemIds |-> net[o][i] + take[i]]
<1>1. proc[p].pc = "reverse" /\ o \in OrderIds
  BY DEF CancelCommit, DInv, IInv, TypeOK, OnOrder
<1>2. /\ proc[p].shelf = items
      /\ take = LinesOf(items, recipes, orders[o].lines)
      /\ orders[o].status = "open"
  BY <1>1 DEF Steadily, Undisturbed
<1>3. take \in [ItemIds -> Int] /\ net \in [OrderIds -> [ItemIds -> Int]]
  BY TablesTyped
<1>4. /\ Moved(p, take) /\ Finish(p) /\ UNCHANGED recipes
      /\ orders' = [orders EXCEPT ![o] = [orders[o] EXCEPT !.status = "cancelled"]]
      /\ net' = [net EXCEPT ![o] = back]
  BY DEF CancelCommit
<1>. HIDE DEF o, take
<1>5. \A i \in ItemIds : net[o][i] = -take[i]
  BY <1>1, <1>2 DEF Steadily, Accounted
<1>6. back \in [ItemIds -> Int] /\ \A i \in ItemIds : back[i] = 0
  BY <1>1, <1>3, <1>5
<1>. HIDE DEF back
<1>7. \A i \in ItemIds : /\ items'[i].status = items[i].status
                         /\ items'[i].qty = items[i].qty + take[i]
  <2>1. Moved(p, take) /\ proc[p].shelf = items
    BY <1>2, <1>4
  <2>. QED
    BY <1>3, <2>1, MovedFresh
<1>8. \A i \in ItemIds : items'[i].qty = items[i].qty + back[i] - net[o][i]
  <2>1. \A i \in ItemIds : items[i].qty \in Int
    BY TablesTyped DEF ItemRow
  <2>. QED
    BY <2>1, <1>3, <1>5, <1>6, <1>7
<1>9. \A i \in ItemIds : back[i] <= 0
  BY <1>6
<1>10. /\ orders'[o].status = "cancelled" /\ orders'[o].lines = orders[o].lines
       /\ \A q \in OrderIds \ {o} : orders'[q] = orders[q]
  BY <1>1, <1>4, TablesTyped DEF OrderRow
<1>11. \A i \in ItemIds :
         back[i] = IF orders'[o].status = "open"
                   THEN -LinesOf(items, recipes, orders'[o].lines)[i] ELSE 0
  BY <1>6, <1>10
<1>12. orders'[o].lines \in [Dishes -> {0, 1}]
  BY <1>1, <1>10, TablesTyped
<1>13. Accounted' /\ Covered'
  <2>1. \A i \in ItemIds : /\ items'[i].status = items[i].status
                           /\ items'[i].qty = items[i].qty + back[i] - net[o][i]
    BY <1>7, <1>8
  <2>2. /\ net' = [net EXCEPT ![o] = back] /\ UNCHANGED recipes
        /\ \A q \in OrderIds \ {o} : orders'[q] = orders[q]
    BY <1>4, <1>10
  <2>. QED
    BY <1>1, <1>6, <1>9, <1>11, <1>12, <2>1, <2>2, OrderMoved DEF Steadily
<1>14. Solitary' /\ (\A q \in Requests : Undisturbed(q))'
  BY <1>1, <1>4, FinishAlone DEF Steadily
<1>. QED
  BY <1>13, <1>14 DEF Steadily

LEMMA NextSteady ==
  ASSUME KInv, [Next]_shelfVars, steady'
  PROVE  Steadily'
<1>1. DInv /\ UnusedRecipes /\ DInv'
  BY DInvInductive DEF KInv
<1>2. items' \in [ItemIds -> ItemRow]
  BY <1>1 DEF DInv, IInv, TypeOK, ItemIds, ItemRow
<1>3. CASE UNCHANGED shelfVars
  <2>1. steady
    BY <1>3 DEF shelfVars
  <2>. QED
    BY <1>3, <2>1 DEF KInv, shelfVars, Steadily, Solitary, Undisturbed,
       Accounted, Covered
<1>4. ASSUME Arrive
      PROVE  Steadily'
  <2>1. steady
    BY <1>4, ZenonT(60)
    DEF Arrive, CreateItem, ItemStart, PlaceStart, OrderStart,
       PayOrder, Spend, ExpenseStart, Load
  <2>2. Steadily
    BY <2>1 DEF KInv
  <2>3. ASSUME NEW e, NEW amount, Spend(e, amount)
        PROVE  Steadily'
    BY <2>2, <2>3 DEF Spend, Steadily, Solitary, Undisturbed, Accounted, Covered
  <2>. QED
    BY <1>1, <1>2, <1>4, <2>2, <2>3, CreateItemSteady, ItemStartSteady,
       PlaceStartSteady, OrderStartSteady, PayOrderSteady, ExpenseStartSteady,
       SMTT(30)
       DEF Arrive
<1>5. ASSUME NEW p \in Requests, Proceed(p)
      PROVE  Steadily'
  <2>1. steady
    BY <1>5, ZenonT(60)
    DEF Proceed, UpdateCommit, ArchiveCommit, MoveCommit, RecipeCommit,
       PlaceCommit, ReverseRead, CancelCommit, PatchCommit, ExpenseCommit,
       Abandon
  <2>2. Steadily
    BY <2>1 DEF KInv
  <2>3. ASSUME NEW status, NEW writes, PatchCommit(p, status, writes)
        PROVE  Steadily'
    <3>1. /\ proc[p].pc # "idle" /\ Finish(p)
          /\ UNCHANGED <<items, recipes, orders, net>>
      BY <2>3 DEF PatchCommit
    <3>. QED
      BY <1>1, <2>2, <3>1, TablesStaySteady
  <2>4. ASSUME NEW row, ExpenseCommit(p, row)
        PROVE  Steadily'
    <3>1. /\ proc[p].pc # "idle" /\ Finish(p)
          /\ UNCHANGED <<items, recipes, orders, net>>
      BY <2>4 DEF ExpenseCommit
    <3>. QED
      BY <1>1, <2>2, <3>1, TablesStaySteady
  <2>5. ASSUME Abandon(p)
        PROVE  Steadily'
    <3>1. /\ proc[p].pc # "idle" /\ Finish(p)
          /\ UNCHANGED <<items, recipes, orders, net>>
      BY <2>5 DEF Abandon
    <3>. QED
      BY <1>1, <2>2, <3>1, TablesStaySteady
  <2>. QED
    BY <1>1, <1>2, <1>5, <2>2, <2>3, <2>4, <2>5, UpdateCommitSteady,
       ArchiveCommitSteady, MoveCommitSteady, RecipeCommitSteady,
       PlaceCommitSteady, ReverseReadSteady, CancelCommitSteady DEF Proceed
<1>. QED
  BY <1>3, <1>4, <1>5 DEF Next

LEMMA KInvInductive == (Init => KInv) /\ (KInv /\ [Next]_shelfVars => KInv')
<1>1. ASSUME Init
      PROVE  KInv
  <2>1. DInv
    BY <1>1, DInvInductive
  <2>2. /\ \A i \in ItemIds : items[i].status = "none" /\ items[i].qty = 0
        /\ \A o \in OrderIds : orders[o].status = "none"
        /\ \A o \in OrderIds, i \in ItemIds : net[o][i] = 0
        /\ \A d \in Dishes, i \in ItemIds : recipes[d][i] = 0
        /\ \A p \in Requests : proc[p].pc = "idle"
    BY <1>1 DEF Init, NoItem, NoOrder, Nothing, Idle
  <2>3. \A i \in ItemIds : Given(net, i) = 0
    BY <2>2, GivenNone
  <2>4. Steadily
    BY <2>2, <2>3 DEF Steadily, Solitary, Undisturbed, Accounted, Covered
  <2>. QED
    BY <2>1, <2>2, <2>4 DEF KInv, UnusedRecipes
<1>2. KInv /\ [Next]_shelfVars => KInv'
  BY DInvInductive, UnusedRecipesStep, NextSteady DEF KInv
<1>. QED
  BY <1>1, <1>2

THEOREM SteadyInvariant == Spec => []KInv
BY KInvInductive, PTL DEF Spec

\* Cancelling gives back exactly what placing took, as long as requests do not
\* overlap and neither recipes, shelf nor statuses change under a placed order.
THEOREM CancelRestores == Spec => []CancelledIsRestored
<1>1. KInv => CancelledIsRestored
  BY DEF KInv, Steadily, Accounted, CancelledIsRestored
<1>. QED
  BY <1>1, SteadyInvariant, PTL

\* Under the same conditions a total is below zero only where a sale took from
\* the item and was not given back.
THEOREM NegativeIsSold == Spec => []OnlySalesGoNegative
<1>1. KInv => OnlySalesGoNegative
  <2>. SUFFICES ASSUME KInv, steady, NEW i \in ItemIds, items[i].qty < 0,
                       \A o \in OrderIds : ~(net[o][i] < 0)
                PROVE  FALSE
    BY DEF OnlySalesGoNegative
  <2>1. DInv /\ Accounted /\ Covered
    BY DEF KInv, Steadily
  <2>2. \A o \in OrderIds : net[o][i] = 0
    <3>1. \A o \in OrderIds : net[o][i] \in Int /\ net[o][i] <= 0
      BY <2>1, TablesTyped, NetNegative
    <3>. QED
      BY <3>1
  <2>3. Given(net, i) = 0
    BY <2>2, GivenNone
  <2>4. items[i].qty \in Int
    BY <2>1, TablesTyped DEF ItemRow
  <2>5. items[i].qty + Given(net, i) >= 0
    BY <2>1 DEF Covered
  <2>. QED
    BY <2>3, <2>4, <2>5
<1>. QED
  BY <1>1, SteadyInvariant, PTL

=============================================================================
