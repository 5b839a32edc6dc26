----------------------------- MODULE MenuProofs -----------------------------
(***************************************************************************)
(* Machine-checked facts about Menu for every number of requests,          *)
(* categories, items and changes, and any set of requests that arrive.     *)
(***************************************************************************)
EXTENDS Menu, FiniteSetTheorems, TLAPS

-----------------------------------------------------------------------------
(* What a request in flight knows.                                         *)

\* A change that is to be committed has found its category and its item; only
\* an item that was sold is to be archived.
Prepared(r) ==
  r.pc = "commit" =>
    \/ /\ r.kind \in {"create_category", "update_category"}
       /\ r.category \in Categories /\ r.name \in Names
    \/ r.kind = "delete_category" /\ r.category \in Categories
    \/ /\ r.kind \in {"create_item", "update_item"}
       /\ r.item \in Items
       /\ r.new.status = "live" /\ r.new.category \in Categories
    \/ /\ r.kind = "delete_item"
       /\ r.item \in Items
       /\ \/ r.new = Deleted
          \/ /\ r.new.status = "archived" /\ r.new.category \in Categories
             /\ r.item \in sold

Directed(r) ==
  /\ r.pc = "count" => r.kind = "delete_category" /\ r.category \in Categories
  /\ r.pc = "order" => r.item \in Items

IInv ==
  /\ TypeOK
  /\ \A p \in Requests : Prepared(proc[p]) /\ Directed(proc[p])

\* A reader that no change has met so far has read the menu as it is.
ReadersAreCurrent ==
  orderly => \A p \in Requests :
    /\ proc[p].pc = "items" => proc[p].menu.names = categories
    /\ proc[p].pc = "fill" => proc[p].menu = Offered

CInv == IInv /\ ReadersAreCurrent /\ CachedIsCurrent

-----------------------------------------------------------------------------
(* Rows and menus.                                                         *)

LEMMA RowFields ==
  ASSUME NEW row \in ItemRow
  PROVE  DOMAIN row = {"status", "available", "category"}
BY DEF ItemRow

\* A commit writes the columns that changed.
WrittenRow(old, new, row) ==
  [c \in DOMAIN row |-> IF new[c] # old[c] THEN new[c] ELSE row[c]]

LEMMA WrittenFacts ==
  ASSUME NEW old \in ItemRow, NEW new \in ItemRow, NEW row \in ItemRow
  PROVE  /\ WrittenRow(old, new, row) \in ItemRow
         /\ WrittenRow(old, new, row).status \in {new.status, row.status}
         /\ WrittenRow(old, new, row).category \in {new.category, row.category}
         /\ new = old => WrittenRow(old, new, row) = row
<1>1. WrittenRow(old, new, row) \in ItemRow
  BY RowFields DEF WrittenRow, ItemRow
<1>2. WrittenRow(old, new, row).status =
        IF new.status # old.status THEN new.status ELSE row.status
  BY RowFields DEF WrittenRow, ItemRow
<1>3. WrittenRow(old, new, row).category =
        IF new.category # old.category THEN new.category ELSE row.category
  BY RowFields DEF WrittenRow, ItemRow
<1>4. new = old => WrittenRow(old, new, row) = row
  BY RowFields DEF WrittenRow, ItemRow
<1>. QED
  BY <1>1, <1>2, <1>3, <1>4

LEMMA ConstantRows ==
  /\ NoItem \in ItemRow /\ Deleted \in ItemRow
  /\ Deleted.status = Gone
  /\ NoMenu \in MenuType
<1>1. NoItem \in ItemRow /\ Deleted \in ItemRow /\ Deleted.status = Gone
  BY DEF NoItem, Deleted, ItemRow, Rows, NoName, Gone
<1>2. NoMenu \in MenuType
  BY DEF NoMenu, MenuType, Labels, NoName
<1>. QED
  BY <1>1, <1>2

LEMMA IdleType == Idle \in Process
<1>1. NoItem \in ItemRow /\ NoMenu \in MenuType
  BY ConstantRows
<1>. QED
  BY <1>1 DEF Idle, Process, Points, Kinds, Labels

\* What list_categories builds is a menu.
LEMMA MenuOfType ==
  ASSUME items \in [Items -> ItemRow], NEW names \in [Categories -> Labels],
         \A i \in Items : Live(i) => items[i].category \in Categories
  PROVE  MenuOf(names) \in MenuType
<1>1. ASSUME NEW c \in Categories
      PROVE  Cardinality({i \in ItemsOf(c) : Live(i)}) \in Nat
  <2>1. {i \in ItemsOf(c) : Live(i)} \subseteq Items
    BY DEF ItemsOf
  <2>2. IsFiniteSet({i \in ItemsOf(c) : Live(i)})
    BY <2>1, MenuAssumption, FS_Subset
  <2>. QED
    BY <2>2, FS_CardinalityType
<1>2. [c \in Categories |-> IF names[c] \in Names
         THEN Cardinality({i \in ItemsOf(c) : Live(i)}) ELSE 0]
        \in [Categories -> Nat]
  BY <1>1
<1>3. [i \in Items |->
         IF Live(i) /\ items[i].available /\ names[items[i].category] \in Names
         THEN items[i].category ELSE NoName] \in [Items -> Categories \cup {NoName}]
  OBVIOUS
<1>. QED
  BY <1>2, <1>3 DEF MenuOf, MenuType

-----------------------------------------------------------------------------
(* The rows after a commit.                                                *)

\* A commit that is possible leaves each item typed, where its category is,
\* and with its row if it was sold; and it archives only what was sold.
LEMMA CommitFacts ==
  ASSUME IInv, NEW p \in Requests, proc[p].pc = "commit", Possible(p)
  PROVE  /\ CategoriesAfter(p) \in [Categories -> Labels]
         /\ ItemsAfter(p) \in [Items -> ItemRow]
         /\ \A i \in Items : ItemsAfter(p)[i].status \in Rows =>
              /\ ItemsAfter(p)[i].category \in Categories
              /\ CategoriesAfter(p)[ItemsAfter(p)[i].category] \in Names
         /\ \A i \in Items : items[i].status \in Rows =>
              \/ ItemsAfter(p)[i].status \in Rows
              \/ ItemsAfter(p)[i].status = Gone /\ i \notin sold
         /\ \A i \in Items : ItemsAfter(p)[i].status = "archived" =>
              items[i].status = "archived" \/ i \in sold
<1>. DEFINE r == proc[p]
<1>0. r \in Process /\ r.old \in ItemRow /\ r.new \in ItemRow
  BY DEF IInv, TypeOK, Process
<1>1. /\ categories \in [Categories -> Labels]
      /\ items \in [Items -> ItemRow]
      /\ \A i \in Items : items[i].status \in Rows =>
                            items[i].category \in Categories
  BY DEF IInv, TypeOK
<1>2. Prepared(r)
  BY DEF IInv
<1>. DEFINE after(i) == ItemsAfter(p)[i]
\* What a commit leaves of one item.
<1>3. ASSUME NEW i \in Items
      PROVE  /\ after(i) \in ItemRow
             /\ after(i).status \in Rows => after(i).category \in Categories
             /\ items[i].status \in Rows => after(i).status \in Rows \cup {Gone}
             /\ after(i).status = "archived" =>
                  items[i].status = "archived" \/ i \in sold
  <2>0. /\ items[i] \in ItemRow /\ Deleted \in ItemRow /\ Deleted.status = Gone
        /\ Gone \notin Rows /\ Gone # "archived" /\ "live" # "archived"
        /\ NoName \notin Rows /\ "live" \in Rows /\ "archived" \in Rows
    BY <1>1, ConstantRows DEF Gone, Rows, NoName
  <2>1. CASE r.kind = "delete_category"
    <3>1. after(i) = IF i \in r.doomed THEN Deleted ELSE items[i]
      BY <2>1 DEF ItemsAfter
    <3>. QED
      BY <3>1, <2>0, <1>1
  <2>2. CASE r.kind = "create_item"
    <3>1. after(i) = IF i = r.item THEN r.new ELSE items[i]
      BY <2>2, <1>1 DEF ItemsAfter
    <3>2. r.new.status = "live" /\ r.new.category \in Categories
      BY <2>2, <1>2 DEF Prepared
    <3>. QED
      BY <3>1, <3>2, <2>0, <1>0, <1>1
  <2>3. CASE r.kind \in {"update_item", "delete_item"}
    <3>1. after(i) = IF i = r.item
                     THEN IF r.new = Deleted THEN Deleted
                          ELSE WrittenRow(r.old, r.new, items[i])
                     ELSE items[i]
      BY <2>3, <1>1 DEF ItemsAfter, WrittenRow
    <3>2. CASE i # r.item
      BY <3>1, <3>2, <2>0, <1>1
    <3>3. CASE i = r.item /\ r.new = Deleted
      BY <3>1, <3>3, <2>0, <1>1
    <3>4. CASE i = r.item /\ r.new # Deleted
      <4>1. /\ r.new.status \in Rows /\ r.new.category \in Categories
            /\ r.new.status = "archived" => i \in sold
        BY <2>3, <3>4, <2>0, <1>2 DEF Prepared
      <4>2. r.new # r.old => items[i].status \in Rows
        BY <2>3, <3>4 DEF Possible
      <4>. DEFINE w == WrittenRow(r.old, r.new, items[i])
      <4>3. /\ w \in ItemRow /\ w.status \in {r.new.status, items[i].status}
            /\ w.category \in {r.new.category, items[i].category}
            /\ r.new = r.old => w = items[i]
        BY <1>0, <2>0, WrittenFacts
      <4>4. after(i) = w
        BY <3>1, <3>4
      <4>. HIDE DEF w, after
      <4>5. CASE r.new = r.old
        BY <4>3, <4>4, <4>5, <1>1
      <4>6. CASE r.new # r.old
        BY <4>1, <4>2, <4>3, <4>4, <4>6, <1>1
      <4>. QED
        BY <4>5, <4>6
    <3>. QED
      BY <3>2, <3>3, <3>4
  <2>4. CASE r.kind \in {"create_category", "update_category"}
    <3>1. after(i) = items[i]
      BY <2>4 DEF ItemsAfter
    <3>. QED
      BY <3>1, <2>0, <1>1
  <2>. QED
    BY <1>2, <2>1, <2>2, <2>3, <2>4 DEF Prepared
<1>4. DOMAIN ItemsAfter(p) = Items
  BY <1>1 DEF ItemsAfter
<1>5. ItemsAfter(p) = [i \in Items |-> ItemsAfter(p)[i]]
  BY <1>1 DEF ItemsAfter
<1>6. ItemsAfter(p) \in [Items -> ItemRow]
  BY <1>3, <1>5
<1>7. CategoriesAfter(p) \in [Categories -> Labels]
  <2>1. Gone \in Labels /\ Names \subseteq Labels
    BY DEF Labels
  <2>. QED
    BY <1>1, <1>2, <2>1 DEF Prepared, CategoriesAfter
<1>8. \A i \in Items :
        /\ ItemsAfter(p)[i].status \in Rows =>
             CategoriesAfter(p)[ItemsAfter(p)[i].category] \in Names
        /\ ItemsAfter(p)[i].status = Gone => i \notin sold
  BY DEF Possible, Referenced
<1>. QED
  BY <1>3, <1>6, <1>7, <1>8

-----------------------------------------------------------------------------
(* The invariant.                                                          *)

LEMMA Initial == Init => IInv
<1>. SUFFICES ASSUME Init PROVE IInv
  OBVIOUS
<1>1. /\ NoItem \in ItemRow /\ NoMenu \in MenuType /\ Idle \in Process
      /\ NoItem.status \notin Rows
  BY ConstantRows, IdleType DEF NoItem, NoName, Rows
<1>2. proc \in [Requests -> Process] /\ items \in [Items -> ItemRow]
  BY <1>1 DEF Init
<1>3. cache \in [full : BOOLEAN, expires : BOOLEAN, menu : MenuType]
  BY <1>1 DEF Init, NoCache
<1>4. categories \in [Categories -> Labels] /\ sold \subseteq Items
      /\ orderly \in BOOLEAN
  BY DEF Init, Labels
<1>5. changes \in 0 .. MaxChanges
  BY MenuAssumption DEF Init
<1>6. \A i \in Items : items[i].status \notin Rows
  BY <1>1 DEF Init
<1>7. \A p \in Requests : Prepared(proc[p]) /\ Directed(proc[p])
  BY DEF Init, Idle, Prepared, Directed
<1>. QED
  BY <1>2, <1>3, <1>4, <1>5, <1>6, <1>7 DEF IInv, TypeOK

\* A step of one request that changes no category and no item.
LEMMA Quiet ==
  ASSUME IInv, NEW p \in Requests, NEW record \in Process,
         Prepared(record), Directed(record),
         proc' = [proc EXCEPT ![p] = record],
         UNCHANGED <<categories, items, changes>>,
         sold \subseteq sold', sold' \subseteq Items,
         cache' \in [full : BOOLEAN, expires : BOOLEAN, menu : MenuType],
         orderly' \in BOOLEAN
  PROVE  IInv'
<1>1. proc' \in [Requests -> Process]
  BY DEF IInv, TypeOK
<1>2. TypeOK'
  BY <1>1 DEF IInv, TypeOK
<1>3. ASSUME NEW q \in Requests PROVE Prepared(proc[q])' /\ Directed(proc[q])'
  <2>1. Prepared(proc'[q]) /\ Directed(proc'[q])
    BY DEF IInv, TypeOK
  <2>. QED
    BY <2>1 DEF Prepared, Directed
<1>. QED
  BY <1>2, <1>3 DEF IInv

LEMMA CommitKeeps == ASSUME IInv, NEW p \in Requests, Commit(p) PROVE IInv'
<1>. DEFINE done == [Idle EXCEPT !.pc = "invalidate"]
<1>1. done \in Process /\ done.pc = "invalidate"
  <2>1. Idle \in Process
    BY IdleType
  <2>. QED
    BY <2>1 DEF Process, Points
<1>2. proc' = [proc EXCEPT ![p] = done]
  BY DEF Commit
<1>. HIDE DEF done
<1>3. proc' \in [Requests -> Process]
  BY <1>1, <1>2 DEF IInv, TypeOK
<1>4. /\ categories' = CategoriesAfter(p) /\ items' = ItemsAfter(p)
      /\ sold' = sold /\ cache' = cache
  BY DEF Commit
<1>5. /\ CategoriesAfter(p) \in [Categories -> Labels]
      /\ ItemsAfter(p) \in [Items -> ItemRow]
      /\ \A i \in Items : ItemsAfter(p)[i].status \in Rows =>
           /\ ItemsAfter(p)[i].category \in Categories
           /\ CategoriesAfter(p)[ItemsAfter(p)[i].category] \in Names
  BY CommitFacts DEF Commit
<1>6. changes' \in 0 .. MaxChanges
  BY MenuAssumption DEF Commit, IInv, TypeOK
<1>7. orderly' \in BOOLEAN
  BY DEF Commit, IInv, TypeOK
<1>8. TypeOK'
  BY <1>3, <1>4, <1>5, <1>6, <1>7 DEF IInv, TypeOK
<1>9. ASSUME NEW q \in Requests PROVE Prepared(proc[q])' /\ Directed(proc[q])'
  <2>1. Prepared(proc'[q]) /\ Directed(proc'[q])
    BY <1>1, <1>2 DEF IInv, TypeOK, Prepared, Directed
  <2>. QED
    BY <1>4, <2>1 DEF Prepared, Directed
<1>. QED
  BY <1>8, <1>9 DEF IInv

\* A request that arrives has prepared what it is to commit.
LEMMA BeginKeeps == ASSUME IInv, NEW p \in Requests, Begin(p) PROVE IInv'
<1>0. /\ Idle \in Process /\ Idle.pc = "idle" /\ Deleted \in ItemRow
      /\ proc[p] \in Process /\ items \in [Items -> ItemRow]
  BY IdleType, ConstantRows DEF Idle, IInv, TypeOK
<1>. DEFINE keeps == /\ UNCHANGED <<categories, items, sold, cache, changes, orderly>>
<1>1. ASSUME NEW record \in Process, Prepared(record), Directed(record),
             proc' = [proc EXCEPT ![p] = record], keeps
      PROVE  IInv'
  BY <1>1, Quiet DEF IInv, TypeOK
<1>2. CASE Browse(p)
  <2>. DEFINE record == [proc[p] EXCEPT !.pc = "categories", !.kind = "browse"]
  <2>1. record \in Process /\ Prepared(record) /\ Directed(record)
    BY <1>0 DEF Process, Points, Kinds, Prepared, Directed
  <2>2. proc' = [proc EXCEPT ![p] = record] /\ keeps
    BY <1>2, <1>0 DEF Browse, IInv, TypeOK
  <2>. QED
    BY <1>1, <2>1, <2>2
<1>3. ASSUME NEW c \in Categories, NEW name \in Names, NEW kind \in WriterKinds,
             ChangeCategory(p, kind, c, name)
      PROVE  IInv'
  <2>. DEFINE record == [Idle EXCEPT !.pc = "commit", !.kind = kind,
                                     !.category = c, !.name = name]
  <2>1. record \in Process
    BY <1>0 DEF Process, Points, Kinds, Labels
  <2>2. Prepared(record) /\ Directed(record)
    BY <1>0, <1>3 DEF Process, Prepared, Directed, ChangeCategory
  <2>3. proc' = [proc EXCEPT ![p] = record] /\ keeps
    BY <1>3 DEF ChangeCategory, Arrive
  <2>. QED
    BY <1>1, <2>1, <2>2, <2>3
<1>4. ASSUME NEW i \in Items, NEW c \in Categories, NEW available \in BOOLEAN,
             CreateItem(p, i, c, available)
      PROVE  IInv'
  <2>. DEFINE row == [status |-> "live", available |-> available, category |-> c]
              record == [Idle EXCEPT !.pc = "commit", !.kind = "create_item",
                                     !.item = i, !.new = row]
  <2>1. row \in ItemRow
    BY DEF ItemRow, Rows
  <2>2. record \in Process
    BY <1>0, <2>1 DEF Process, Points, Kinds, WriterKinds
  <2>3. Prepared(record) /\ Directed(record)
    BY <1>0 DEF Process, Prepared, Directed
  <2>4. proc' = [proc EXCEPT ![p] = record] /\ keeps
    BY <1>4 DEF CreateItem, Arrive
  <2>. QED
    BY <1>1, <2>2, <2>3, <2>4
<1>5. ASSUME NEW i \in Items, NEW c \in Categories, NEW available \in BOOLEAN,
             UpdateItem(p, i, c, available)
      PROVE  IInv'
  <2>. DEFINE row == [items[i] EXCEPT !.available = available, !.category = c]
              record == [Idle EXCEPT !.pc = "commit", !.kind = "update_item",
                                     !.item = i, !.old = items[i], !.new = row]
  <2>0. items[i] \in ItemRow /\ items[i].status = "live"
    BY <1>0, <1>5 DEF UpdateItem, Live
  <2>1. row \in ItemRow /\ row.status = "live" /\ row.category = c
    BY <2>0 DEF ItemRow
  <2>. HIDE DEF row
  <2>2. record \in Process
    BY <1>0, <2>0, <2>1 DEF Process, Points, Kinds, WriterKinds
  <2>3. Prepared(record) /\ Directed(record)
    BY <1>0, <2>1 DEF Process, Prepared, Directed
  <2>4. proc' = [proc EXCEPT ![p] = record] /\ keeps
    BY <1>5 DEF UpdateItem, Arrive, row
  <2>. QED
    BY <1>1, <2>2, <2>3, <2>4
<1>6. ASSUME NEW i \in Items, DeleteItem(p, i)
      PROVE  IInv'
  <2>. DEFINE row == IF i \in sold
                     THEN [items[i] EXCEPT !.status = "archived",
                                           !.available = FALSE]
                     ELSE Deleted
              record == [Idle EXCEPT !.pc = "commit", !.kind = "delete_item",
                                     !.item = i, !.old = items[i], !.new = row]
  <2>0. items[i] \in ItemRow /\ items[i].category \in Categories
    BY <1>0, <1>6 DEF DeleteItem, Live, Rows, IInv, TypeOK
  <2>1. /\ row \in ItemRow
        /\ \/ row = Deleted
           \/ /\ row.status = "archived" /\ row.category \in Categories
              /\ i \in sold
    BY <1>0, <2>0 DEF ItemRow, Rows
  <2>. HIDE DEF row
  <2>2. record \in Process
    BY <1>0, <2>0, <2>1 DEF Process, Points, Kinds, WriterKinds
  <2>3. Prepared(record) /\ Directed(record)
    BY <1>0, <2>1 DEF Process, Prepared, Directed
  <2>4. proc' = [proc EXCEPT ![p] = record] /\ keeps
    BY <1>6 DEF DeleteItem, Arrive, row
  <2>. QED
    BY <1>1, <2>2, <2>3, <2>4
<1>7. ASSUME NEW i \in Items, Order(p, i)
      PROVE  IInv'
  <2>. DEFINE record == [Idle EXCEPT !.pc = "order", !.kind = "order", !.item = i]
  <2>1. record \in Process /\ Prepared(record) /\ Directed(record)
    BY <1>0 DEF Process, Points, Kinds, Prepared, Directed
  <2>2. proc' = [proc EXCEPT ![p] = record] /\ keeps
    BY <1>7 DEF Order
  <2>. QED
    BY <1>1, <2>1, <2>2
<1>8. ASSUME NEW c \in Categories, DeleteCategory(p, c)
      PROVE  IInv'
  <2>. DEFINE record == [Idle EXCEPT !.pc = "count", !.kind = "delete_category",
                                     !.category = c]
  <2>1. record \in Process /\ Prepared(record) /\ Directed(record)
    BY <1>0 DEF Process, Points, Kinds, WriterKinds, Prepared, Directed
  <2>2. proc' = [proc EXCEPT ![p] = record] /\ keeps
    BY <1>8 DEF DeleteCategory, Arrive
  <2>. QED
    BY <1>1, <2>1, <2>2
<1>. QED
  BY <1>2, <1>3, <1>4, <1>5, <1>6, <1>7, <1>8 DEF Begin

LEMMA ProceedKeeps == ASSUME IInv, NEW p \in Requests, Proceed(p) PROVE IInv'
<1>. DEFINE r == proc[p]
<1>0. /\ Idle \in Process /\ Prepared(Idle) /\ Directed(Idle)
      /\ r \in Process /\ r.menu \in MenuType
      /\ NoCache \in [full : BOOLEAN, expires : BOOLEAN, menu : MenuType]
      /\ cache \in [full : BOOLEAN, expires : BOOLEAN, menu : MenuType]
      /\ orderly \in BOOLEAN /\ sold \subseteq Items
  <2>1. Idle \in Process /\ Prepared(Idle) /\ Directed(Idle)
    BY IdleType DEF Idle, Prepared, Directed
  <2>2. r \in Process /\ r.menu \in MenuType
    BY DEF IInv, TypeOK, Process
  <2>3. NoCache \in [full : BOOLEAN, expires : BOOLEAN, menu : MenuType]
    BY ConstantRows DEF NoCache
  <2>. QED
    BY <2>1, <2>2, <2>3 DEF IInv, TypeOK
<1>1. CASE ReadCategories(p)
  <2>. DEFINE menu == [r.menu EXCEPT !.names = categories]
              record == [r EXCEPT !.pc = "items", !.menu = menu]
  <2>1. menu \in MenuType
    BY <1>0 DEF MenuType, IInv, TypeOK
  <2>2. proc' = [proc EXCEPT ![p] = record]
    BY <1>0, <1>1 DEF ReadCategories, IInv, TypeOK, Process, MenuType
  <2>. HIDE DEF menu
  <2>3. record \in Process /\ Prepared(record) /\ Directed(record)
    BY <1>0, <2>1 DEF Process, Points, Prepared, Directed
  <2>. QED
    BY <1>0, <1>1, <2>2, <2>3, Quiet DEF ReadCategories
<1>2. CASE ReadItems(p)
  <2>. DEFINE menu == MenuOf(r.menu.names)
              record == [r EXCEPT !.pc = "fill", !.menu = menu]
  <2>1. menu \in MenuType
    <3>1. r.menu.names \in [Categories -> Labels]
      BY <1>0 DEF MenuType
    <3>2. \A i \in Items : Live(i) => items[i].category \in Categories
      BY DEF IInv, TypeOK, Live, Rows
    <3>3. items \in [Items -> ItemRow]
      BY DEF IInv, TypeOK
    <3>. QED
      BY <3>1, <3>2, <3>3, MenuOfType
  <2>2. proc' = [proc EXCEPT ![p] = record]
    BY <1>0, <1>2 DEF ReadItems, IInv, TypeOK, Process
  <2>. HIDE DEF menu
  <2>3. record \in Process /\ Prepared(record) /\ Directed(record)
    BY <1>0, <2>1 DEF Process, Points, Prepared, Directed
  <2>. QED
    BY <1>0, <1>2, <2>2, <2>3, Quiet DEF ReadItems
<1>3. CASE Fill(p)
  <2>1. cache' \in [full : BOOLEAN, expires : BOOLEAN, menu : MenuType]
    BY <1>0, <1>3 DEF Fill
  <2>. QED
    BY <1>0, <1>3, <2>1, Quiet DEF Fill
<1>4. CASE Cascade(p)
  <2>. DEFINE record == [r EXCEPT !.pc = "commit", !.doomed = ItemsOf(r.category)]
  <2>1. ItemsOf(r.category) \subseteq Items
    BY DEF ItemsOf
  <2>2. r.kind = "delete_category" /\ r.category \in Categories
    BY <1>4 DEF Cascade, IInv, Directed
  <2>3. record \in Process /\ Prepared(record) /\ Directed(record)
    BY <1>0, <2>1, <2>2 DEF Process, Points, Prepared, Directed
  <2>4. proc' = [proc EXCEPT ![p] = record]
    BY <1>0, <1>4 DEF Cascade, IInv, TypeOK, Process
  <2>. QED
    BY <1>0, <1>4, <2>3, <2>4, Quiet DEF Cascade
<1>5. CASE Commit(p)
  BY <1>5, CommitKeeps
<1>6. CASE Invalidate(p)
  <2>1. /\ cache' \in [full : BOOLEAN, expires : BOOLEAN, menu : MenuType]
        /\ orderly' \in BOOLEAN
    BY <1>0, <1>6 DEF Invalidate
  <2>. QED
    BY <1>0, <1>6, <2>1, Quiet DEF Invalidate
<1>7. CASE OrderCommit(p)
  <2>1. r.item \in Items
    BY <1>7 DEF OrderCommit, IInv, Directed
  <2>2. sold \subseteq sold' /\ sold' \subseteq Items
    BY <1>0, <1>7, <2>1 DEF OrderCommit
  <2>. QED
    BY <1>0, <1>7, <2>2, Quiet DEF OrderCommit
<1>8. CASE Abandon(p)
  <2>1. orderly' \in BOOLEAN
    BY <1>0, <1>8 DEF Abandon
  <2>. QED
    BY <1>0, <1>8, <2>1, Quiet DEF Abandon
<1>. QED
  BY <1>1, <1>2, <1>3, <1>4, <1>5, <1>6, <1>7, <1>8 DEF Proceed

LEMMA Inductive == IInv /\ [Next]_menuVars => IInv'
<1>. SUFFICES ASSUME IInv, [Next]_menuVars PROVE IInv'
  OBVIOUS
<1>1. CASE Expire
  <2>1. cache' \in [full : BOOLEAN, expires : BOOLEAN, menu : MenuType]
    BY <1>1, ConstantRows DEF Expire, NoCache
  <2>2. TypeOK'
    BY <1>1, <2>1 DEF Expire, IInv, TypeOK
  <2>. QED
    BY <1>1, <2>2 DEF Expire, IInv, Prepared, Directed
<1>2. CASE UNCHANGED menuVars
  BY <1>2 DEF menuVars, IInv, TypeOK, Prepared, Directed
<1>. QED
  BY <1>1, <1>2, BeginKeeps, ProceedKeeps DEF Next

\* What requests prepare stays true until they commit it, and no item is left
\* without its category.
THEOREM Invariant == Spec => []IInv
<1>. QED
  BY Initial, Inductive, PTL DEF Spec

\* The rows stay typed, and every item's category is there, whatever deletions
\* and edits of items and categories overlap (models/menu.py).
THEOREM TypeCorrect == Spec => []TypeOK
<1>1. IInv => TypeOK
  BY DEF IInv
<1>. QED
  BY <1>1, Invariant, PTL

-----------------------------------------------------------------------------
(* What was sold.                                                          *)

\* A request that arrives changes nothing but what it knows.
LEMMA BeginSteps ==
  ASSUME IInv, NEW p \in Requests, Begin(p)
  PROVE  /\ proc[p].pc = "idle"
         /\ \E record : /\ proc' = [proc EXCEPT ![p] = record]
                        /\ record.pc \in {"categories", "commit", "order", "count"}
         /\ UNCHANGED <<categories, items, sold, cache, orderly>>
<1>0. /\ proc \in [Requests -> Process] /\ proc[p] \in Process
      /\ DOMAIN Idle = DOMAIN proc[p] /\ "pc" \in DOMAIN Idle
  BY IdleType DEF IInv, TypeOK, Process
<1>. DEFINE Known(record) ==
       /\ proc' = [proc EXCEPT ![p] = record]
       /\ record.pc \in {"categories", "commit", "order", "count"}
<1>1. CASE Browse(p)
  <2>1. Known([proc[p] EXCEPT !.pc = "categories", !.kind = "browse"])
    BY <1>0, <1>1 DEF Browse, Process
  <2>. QED
    BY <1>1, <2>1 DEF Browse
<1>2. ASSUME NEW c \in Categories, NEW name \in Names, NEW kind \in WriterKinds,
             ChangeCategory(p, kind, c, name)
      PROVE  /\ proc[p].pc = "idle" /\ \E record : Known(record)
             /\ UNCHANGED <<categories, items, sold, cache, orderly>>
  <2>1. Known([Idle EXCEPT !.pc = "commit", !.kind = kind, !.category = c,
                           !.name = name])
    BY <1>2 DEF ChangeCategory, Arrive, Idle
  <2>. QED
    BY <1>2, <2>1 DEF ChangeCategory, Arrive
<1>3. ASSUME NEW i \in Items, NEW c \in Categories, NEW available \in BOOLEAN,
             CreateItem(p, i, c, available) \/ UpdateItem(p, i, c, available)
      PROVE  /\ proc[p].pc = "idle" /\ \E record : Known(record)
             /\ UNCHANGED <<categories, items, sold, cache, orderly>>
  <2>. DEFINE row == [status |-> "live", available |-> available, category |-> c]
              kept == [items[i] EXCEPT !.available = available, !.category = c]
  <2>1. \/ Known([Idle EXCEPT !.pc = "commit", !.kind = "create_item",
                              !.item = i, !.new = row])
        \/ Known([Idle EXCEPT !.pc = "commit", !.kind = "update_item",
                              !.item = i, !.old = items[i], !.new = kept])
    BY <1>3 DEF CreateItem, UpdateItem, Arrive, Idle
  <2>. QED
    BY <1>3, <2>1 DEF CreateItem, UpdateItem, Arrive
<1>4. ASSUME NEW i \in Items, DeleteItem(p, i) \/ Order(p, i)
      PROVE  /\ proc[p].pc = "idle" /\ \E record : Known(record)
             /\ UNCHANGED <<categories, items, sold, cache, orderly>>
  <2>. DEFINE row == IF i \in sold
                     THEN [items[i] EXCEPT !.status = "archived",
                                           !.available = FALSE]
                     ELSE Deleted
  <2>1. \/ Known([Idle EXCEPT !.pc = "commit", !.kind = "delete_item",
                              !.item = i, !.old = items[i], !.new = row])
        \/ Known([Idle EXCEPT !.pc = "order", !.kind = "order", !.item = i])
    BY <1>4 DEF DeleteItem, Order, Arrive, Idle
  <2>. QED
    BY <1>4, <2>1 DEF DeleteItem, Order, Arrive
<1>5. ASSUME NEW c \in Categories, DeleteCategory(p, c)
      PROVE  /\ proc[p].pc = "idle" /\ \E record : Known(record)
             /\ UNCHANGED <<categories, items, sold, cache, orderly>>
  <2>1. Known([Idle EXCEPT !.pc = "count", !.kind = "delete_category",
                           !.category = c])
    BY <1>5 DEF DeleteCategory, Arrive, Idle
  <2>. QED
    BY <1>5, <2>1 DEF DeleteCategory, Arrive
<1>. QED
  BY <1>1, <1>2, <1>3, <1>4, <1>5 DEF Begin

LEMMA SalesNext ==
  ASSUME IInv, SalesKeepTheirItems, [Next]_menuVars
  PROVE  SalesKeepTheirItems'
<1>1. ASSUME UNCHANGED <<items, sold>> PROVE SalesKeepTheirItems'
  BY <1>1 DEF SalesKeepTheirItems
<1>2. ASSUME NEW p \in Requests, Commit(p) PROVE SalesKeepTheirItems'
  <2>1. /\ \A i \in Items : items[i].status \in Rows =>
             \/ ItemsAfter(p)[i].status \in Rows
             \/ ItemsAfter(p)[i].status = Gone /\ i \notin sold
        /\ \A i \in Items : ItemsAfter(p)[i].status = "archived" =>
             items[i].status = "archived" \/ i \in sold
    BY <1>2, CommitFacts DEF Commit
  <2>2. items' = ItemsAfter(p) /\ sold' = sold /\ sold \subseteq Items
    BY <1>2 DEF Commit, IInv, TypeOK
  <2>. QED
    BY <2>1, <2>2 DEF SalesKeepTheirItems
<1>3. ASSUME NEW p \in Requests, OrderCommit(p) PROVE SalesKeepTheirItems'
  BY <1>3 DEF OrderCommit, SalesKeepTheirItems
<1>4. ASSUME NEW p \in Requests, Proceed(p) PROVE SalesKeepTheirItems'
  <2>1. \/ Commit(p) \/ OrderCommit(p)
        \/ UNCHANGED <<items, sold>>
    BY <1>4 DEF Proceed, ReadCategories, ReadItems, Fill, Cascade, Invalidate,
                Abandon
  <2>. QED
    BY <1>1, <1>2, <1>3, <2>1
<1>5. ASSUME NEW p \in Requests, Begin(p) PROVE SalesKeepTheirItems'
  BY <1>1, <1>5, BeginSteps
<1>6. CASE Expire
  BY <1>1, <1>6 DEF Expire
<1>7. CASE UNCHANGED menuVars
  BY <1>1, <1>7 DEF menuVars
<1>. QED
  BY <1>4, <1>5, <1>6, <1>7 DEF Next

\* Whatever overlaps, an item that was ever sold keeps its row, and once
\* archived stays archived (delete_item, delete_category, create_order).
THEOREM SalesAreKept == Spec => []SalesKeepTheirItems
<1>1. Init => SalesKeepTheirItems
  BY DEF Init, SalesKeepTheirItems, NoItem, NoName
<1>2. IInv /\ SalesKeepTheirItems /\ [Next]_menuVars => SalesKeepTheirItems'
  BY SalesNext
<1>. QED
  BY <1>1, <1>2, Invariant, PTL DEF Spec

-----------------------------------------------------------------------------
(* What is cached.                                                         *)

LEMMA SameRowsSameMenu ==
  ASSUME UNCHANGED <<categories, items>>
  PROVE  Offered' = Offered
BY DEF Offered, MenuOf, ItemsOf, Live

\* A step that changes neither the menu nor the cached copy, of a request that
\* is not about to delete it, or the like while all is orderly.
LEMMA CacheQuiet ==
  ASSUME CInv, NEW p \in Requests, NEW record,
         UNCHANGED <<categories, items, cache>>,
         proc' = [proc EXCEPT ![p] = record],
         orderly' => orderly /\ proc[p].pc # "invalidate",
         orderly' => /\ record.pc = "items" => record.menu.names = categories
                     /\ record.pc = "fill" => record.menu = Offered
  PROVE  ReadersAreCurrent' /\ CachedIsCurrent'
<1>1. Offered' = Offered
  BY SameRowsSameMenu
<1>2. \A q \in Requests : proc'[q] = IF q = p THEN record ELSE proc[q]
  BY DEF CInv, IInv, TypeOK
<1>3. ReadersAreCurrent'
  BY <1>1, <1>2 DEF CInv, ReadersAreCurrent
<1>4. CachedIsCurrent'
  BY <1>1, <1>2 DEF CInv, CachedIsCurrent
<1>. QED
  BY <1>3, <1>4

\* A request that goes away, with a cached copy that is empty or current.
LEMMA CacheRenewed ==
  ASSUME CInv, NEW p \in Requests,
         UNCHANGED <<categories, items>>,
         proc' = [proc EXCEPT ![p] = Idle],
         orderly' => orderly,
         orderly' => ~cache'.full \/ cache'.menu = Offered
  PROVE  ReadersAreCurrent' /\ CachedIsCurrent'
<1>1. Offered' = Offered
  BY SameRowsSameMenu
<1>2. \A q \in Requests : proc'[q] = IF q = p THEN Idle ELSE proc[q]
  BY DEF CInv, IInv, TypeOK
<1>3. ReadersAreCurrent'
  BY <1>1, <1>2 DEF CInv, ReadersAreCurrent, Idle
<1>4. CachedIsCurrent'
  BY <1>1 DEF CachedIsCurrent
<1>. QED
  BY <1>3, <1>4

\* A change that met no reader half way has none to mislead, and is about to
\* delete the cached copy.
LEMMA CacheAfterCommit ==
  ASSUME CInv, NEW p \in Requests, Commit(p)
  PROVE  ReadersAreCurrent' /\ CachedIsCurrent'
<1>. DEFINE done == [Idle EXCEPT !.pc = "invalidate"]
<1>1. done.pc = "invalidate"
  BY DEF Idle
<1>2. proc' = [proc EXCEPT ![p] = done]
  BY DEF Commit
<1>. HIDE DEF done
<1>3. \A q \in Requests : proc'[q] = IF q = p THEN done ELSE proc[q]
  BY <1>2 DEF CInv, IInv, TypeOK
<1>4. orderly' => \A q \in Requests : proc[q].pc \notin {"items", "fill"}
  BY DEF Commit, HalfRead
<1>5. ReadersAreCurrent'
  BY <1>1, <1>3, <1>4 DEF ReadersAreCurrent
<1>6. CachedIsCurrent'
  BY <1>1, <1>3 DEF CachedIsCurrent
<1>. QED
  BY <1>5, <1>6

LEMMA CacheAfterProceed ==
  ASSUME CInv, NEW p \in Requests, Proceed(p)
  PROVE  ReadersAreCurrent' /\ CachedIsCurrent'
<1>. DEFINE r == proc[p]
<1>0. /\ r \in Process /\ r.menu \in MenuType /\ proc \in [Requests -> Process]
      /\ Idle.pc = "idle"
  BY DEF CInv, IInv, TypeOK, Process, Idle
<1>1. CASE ReadCategories(p)
  <2>. DEFINE menu == [r.menu EXCEPT !.names = categories]
              record == [r EXCEPT !.pc = "items", !.menu = menu]
  <2>1. menu.names = categories
    BY <1>0 DEF MenuType
  <2>2. proc' = [proc EXCEPT ![p] = record]
    BY <1>0, <1>1 DEF ReadCategories, Process, MenuType
  <2>. HIDE DEF menu
  <2>3. record.pc = "items" /\ record.menu = menu
    BY <1>0 DEF Process
  <2>. HIDE DEF record
  <2>. QED
    BY <1>1, <2>1, <2>2, <2>3, CacheQuiet DEF ReadCategories
<1>2. CASE ReadItems(p)
  <2>. DEFINE menu == MenuOf(r.menu.names)
              record == [r EXCEPT !.pc = "fill", !.menu = menu]
  <2>1. orderly => menu = Offered
    <3>1. orderly => r.menu.names = categories
      BY <1>2 DEF ReadItems, CInv, ReadersAreCurrent
    <3>. QED
      BY <3>1 DEF Offered
  <2>2. proc' = [proc EXCEPT ![p] = record]
    BY <1>0, <1>2 DEF ReadItems, Process
  <2>. HIDE DEF menu
  <2>3. record.pc = "fill" /\ record.menu = menu
    BY <1>0 DEF Process
  <2>. HIDE DEF record
  <2>. QED
    BY <1>2, <2>1, <2>2, <2>3, CacheQuiet DEF ReadItems
<1>3. CASE Fill(p)
  <2>1. orderly => r.menu = Offered
    BY <1>3 DEF Fill, CInv, ReadersAreCurrent
  <2>2. cache'.menu = r.menu
    BY <1>3 DEF Fill
  <2>. QED
    BY <1>3, <2>1, <2>2, CacheRenewed DEF Fill
<1>4. CASE Cascade(p)
  <2>. DEFINE record == [r EXCEPT !.pc = "commit", !.doomed = ItemsOf(r.category)]
  <2>1. proc' = [proc EXCEPT ![p] = record]
    BY <1>0, <1>4 DEF Cascade, Process
  <2>2. record.pc = "commit"
    BY <1>0 DEF Process
  <2>. HIDE DEF record
  <2>. QED
    BY <1>4, <2>1, <2>2, CacheQuiet DEF Cascade
<1>5. CASE Commit(p)
  BY <1>5, CacheAfterCommit
<1>6. CASE Invalidate(p)
  <2>1. CASE cache' = NoCache /\ orderly' = orderly
    <3>1. ~cache'.full
      BY <2>1 DEF NoCache
    <3>. QED
      BY <1>6, <2>1, <3>1, CacheRenewed DEF Invalidate
  <2>2. CASE orderly' = FALSE
    BY <1>6, <2>2, CacheRenewed DEF Invalidate
  <2>. QED
    BY <1>6, <2>1, <2>2 DEF Invalidate
<1>7. CASE OrderCommit(p)
  BY <1>0, <1>7, CacheQuiet DEF OrderCommit
<1>8. CASE Abandon(p)
  BY <1>0, <1>8, CacheQuiet DEF Abandon
<1>. QED
  BY <1>1, <1>2, <1>3, <1>4, <1>5, <1>6, <1>7, <1>8 DEF Proceed

LEMMA CacheNext ==
  ASSUME CInv, [Next]_menuVars
  PROVE  CInv'
<1>1. IInv'
  BY Inductive DEF CInv
<1>2. ASSUME NEW p \in Requests, Begin(p)
      PROVE  ReadersAreCurrent' /\ CachedIsCurrent'
  <2>1. /\ proc[p].pc = "idle"
        /\ UNCHANGED <<categories, items, sold, cache, orderly>>
    BY <1>2, BeginSteps DEF CInv
  <2>2. PICK record : /\ proc' = [proc EXCEPT ![p] = record]
                      /\ record.pc \in {"categories", "commit", "order", "count"}
    BY <1>2, BeginSteps DEF CInv
  <2>. QED
    BY <2>1, <2>2, CacheQuiet
<1>3. CASE Expire
  <2>1. /\ Offered' = Offered /\ categories' = categories
        /\ proc' = proc /\ orderly' = orderly
    BY <1>3, SameRowsSameMenu DEF Expire
  <2>2. ~cache'.full
    BY <1>3 DEF Expire, NoCache
  <2>. QED
    BY <1>1, <2>1, <2>2 DEF CInv, ReadersAreCurrent, CachedIsCurrent
<1>4. CASE UNCHANGED menuVars
  <2>1. /\ Offered' = Offered /\ categories' = categories /\ proc' = proc
        /\ cache' = cache /\ orderly' = orderly
    BY <1>4, SameRowsSameMenu DEF menuVars
  <2>. QED
    BY <1>1, <2>1 DEF CInv, ReadersAreCurrent, CachedIsCurrent
<1>. QED
  BY <1>1, <1>2, <1>3, <1>4, CacheAfterProceed DEF Next, CInv

\* While nothing was read half way and no deletion was lost, what is cached is
\* the menu, or the change that made the difference is about to delete it
\* (list_categories and the changes of menu.py, core/cache.py).
THEOREM CacheIsCurrent == Spec => []CachedIsCurrent
<1>1. Init => CInv
  <2>1. Init => ReadersAreCurrent /\ CachedIsCurrent
    BY DEF Init, Idle, NoCache, ReadersAreCurrent, CachedIsCurrent
  <2>. QED
    BY <2>1, Initial DEF CInv
<1>2. CInv /\ [Next]_menuVars => CInv'
  BY CacheNext
<1>3. CInv => CachedIsCurrent
  BY DEF CInv
<1>. QED
  BY <1>1, <1>2, <1>3, PTL DEF Spec

=============================================================================
