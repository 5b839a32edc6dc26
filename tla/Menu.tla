-------------------------------- MODULE Menu --------------------------------
(***************************************************************************)
(* The menu and its cache (app/routers/menu.py, app/core/cache.py,         *)
(* app/models/menu.py, and the lines of app/models/order.py that refer to  *)
(* menu items).                                                            *)
(*                                                                         *)
(* Staff browse one cached copy of the menu per restaurant.  A miss reads  *)
(* the database, in two queries, and fills the cache for a limited time;   *)
(* every change to the menu commits and then deletes the cached copy, and  *)
(* may stop in between.  A cache call that fails is logged and ignored.    *)
(***************************************************************************)
EXTENDS Integers, FiniteSets

CONSTANTS
  Requests,    \* slots for requests in flight
  Categories, Items,
  Names,       \* what a category may be called, sorted by and drawn with
  Writers,     \* which changes arrive, a subset of WriterKinds
  MaxChanges   \* bound on the commits that change the menu

WriterKinds == {"create_category", "update_category", "delete_category",
                "create_item", "update_item", "delete_item"}

ASSUME MenuAssumption ==
  /\ Writers \subseteq WriterKinds
  /\ MaxChanges \in Nat
  /\ IsFiniteSet(Items) /\ IsFiniteSet(Categories)

VARIABLES
  categories,  \* the rows of categories: their names
  items,       \* the rows of menu_items
  sold,        \* the items that order lines refer to
  cache,       \* the restaurant's key in Redis
  proc,        \* the requests in flight, with their sessions
  changes,     \* history: the commits that changed the menu
  orderly      \* history: no change met a reader half way, and none had the
               \* deletion of the cached copy fail or left out

menuVars == <<categories, items, sold, cache, proc, changes, orderly>>

\* Identities are never used again: a row that was deleted is gone.
NoName == "none"
Gone == "gone"
Rows == {"live", "archived"}
Labels == Names \cup {NoName, Gone}
ItemRow == [status : Rows \cup {NoName, Gone}, available : BOOLEAN,
            category : Categories \cup {NoName}]
NoMenu == [names |-> [c \in Categories |-> NoName],
           count |-> [c \in Categories |-> 0],
           shown |-> [i \in Items |-> NoName]]
MenuType == [names : [Categories -> Labels],
             count : [Categories -> Nat],
             shown : [Items -> Categories \cup {NoName}]]

Points == {"idle", "categories", "items", "fill", "count", "commit", "order",
           "invalidate"}
Kinds == WriterKinds \cup {"browse", "order"}

\* category and item are what the request is about, old the copy of the item
\* it loaded, new what it makes of it, name the new name of the category;
\* doomed are the items that go with a category, menu is what a reader built.
Process == [pc : Points, kind : Kinds, category : Categories \cup {NoName},
            item : Items \cup {NoName}, old : ItemRow, new : ItemRow,
            name : Labels, doomed : SUBSET Items, menu : MenuType]

TypeOK ==
  /\ categories \in [Categories -> Labels]
  /\ items \in [Items -> ItemRow]
  /\ sold \subseteq Items
  /\ cache \in [full : BOOLEAN, expires : BOOLEAN, menu : MenuType]
  /\ proc \in [Requests -> Process]
  /\ changes \in 0 .. MaxChanges
  /\ orderly \in BOOLEAN
  /\ \A i \in Items : items[i].status \in Rows =>
                        /\ items[i].category \in Categories
                        /\ categories[items[i].category] \in Names

NoItem == [status |-> NoName, available |-> FALSE, category |-> NoName]
Deleted == [NoItem EXCEPT !.status = Gone]
NoCache == [full |-> FALSE, expires |-> FALSE, menu |-> NoMenu]
Idle == [pc |-> "idle", kind |-> "browse", category |-> NoName,
         item |-> NoName, old |-> NoItem, new |-> NoItem, name |-> NoName,
         doomed |-> {}, menu |-> NoMenu]

Init ==
  /\ categories = [c \in Categories |-> NoName]
  /\ items = [i \in Items |-> NoItem]
  /\ sold = {}
  /\ cache = NoCache
  /\ proc = [p \in Requests |-> Idle]
  /\ changes = 0
  /\ orderly = TRUE

-----------------------------------------------------------------------------
(* What is on the menu, and what refers to what.                           *)

Live(i) == items[i].status = "live"
Exists(c) == categories[c] \in Names
ItemsOf(c) == {i \in Items : items[i].status \in Rows /\ items[i].category = c}

\* list_categories, from the names that its first query returned: live items
\* are counted, and shown if available.
MenuOf(names) ==
  [names |-> names,
   count |-> [c \in Categories |->
     IF names[c] \in Names THEN Cardinality({i \in ItemsOf(c) : Live(i)}) ELSE 0],
   shown |-> [i \in Items |->
     IF Live(i) /\ items[i].available /\ names[items[i].category] \in Names
     THEN items[i].category ELSE NoName]]

Offered == MenuOf(categories)

\* Mutant: order lines do not hold on to the row (ON DELETE SET NULL).
ReferencedLoosely(i) == i \in sold /\ FALSE

\* The foreign keys, which fail a commit: order lines refer to menu items.
Referenced(i) == i \in sold

HalfRead == \E q \in Requests : proc[q].pc \in {"items", "fill"}

-----------------------------------------------------------------------------
(* Browsing: list_categories, through cache_get and cache_set.             *)

\* A hit answers at once and changes nothing; a miss, an outage included, goes
\* to the database.
Browse(p) ==
  /\ proc[p].pc = "idle"
  /\ proc' = [proc EXCEPT ![p].pc = "categories", ![p].kind = "browse"]
  /\ UNCHANGED <<categories, items, sold, cache, changes, orderly>>

ReadCategories(p) ==
  /\ proc[p].pc = "categories"
  /\ proc' = [proc EXCEPT ![p].pc = "items", ![p].menu.names = categories]
  /\ UNCHANGED <<categories, items, sold, cache, changes, orderly>>

ReadItems(p) ==
  /\ proc[p].pc = "items"
  /\ proc' = [proc EXCEPT ![p].pc = "fill",
                          ![p].menu = MenuOf(proc[p].menu.names)]
  /\ UNCHANGED <<categories, items, sold, cache, changes, orderly>>

\* Mutant: the copy has no time to live.
FillForever(p) ==
  /\ proc[p].pc = "fill"
  /\ cache' = [full |-> TRUE, expires |-> FALSE, menu |-> proc[p].menu]
  /\ proc' = [proc EXCEPT ![p] = Idle]
  /\ UNCHANGED <<categories, items, sold, changes, orderly>>

\* cache_set, with its time to live.
Fill(p) ==
  /\ proc[p].pc = "fill"
  /\ cache' = [full |-> TRUE, expires |-> TRUE, menu |-> proc[p].menu]
  /\ proc' = [proc EXCEPT ![p] = Idle]
  /\ UNCHANGED <<categories, items, sold, changes, orderly>>

\* Redis drops the key when its time is up, or earlier.
Expire ==
  /\ cache.full /\ cache.expires
  /\ cache' = NoCache
  /\ UNCHANGED <<categories, items, sold, proc, changes, orderly>>

-----------------------------------------------------------------------------
(* Changing the menu.                                                      *)

\* A change arrives and loads what it is about.
Arrive(p, kind, record) ==
  /\ proc[p].pc = "idle"
  /\ kind \in Writers
  /\ proc' = [proc EXCEPT ![p] = record]
  /\ UNCHANGED <<categories, items, sold, cache, changes, orderly>>

ChangeCategory(p, kind, c, name) ==
  /\ kind \in {"create_category", "update_category"}
  /\ IF kind = "create_category" THEN categories[c] = NoName ELSE Exists(c)
  /\ Arrive(p, kind, [Idle EXCEPT !.pc = "commit", !.kind = kind,
                                  !.category = c, !.name = name])

\* create_item and update_item look the category up; only a live item can be
\* edited.
CreateItem(p, i, c, available) ==
  /\ items[i].status = NoName /\ Exists(c)
  /\ Arrive(p, "create_item",
       [Idle EXCEPT !.pc = "commit", !.kind = "create_item", !.item = i,
          !.new = [status |-> "live", available |-> available, category |-> c]])
UpdateItem(p, i, c, available) ==
  /\ Live(i) /\ Exists(c)
  /\ Arrive(p, "update_item",
       [Idle EXCEPT !.pc = "commit", !.kind = "update_item", !.item = i,
          !.old = items[i],
          !.new = [items[i] EXCEPT !.available = available, !.category = c]])

\* delete_item counts the order lines; an item that was sold is archived.
DeleteItem(p, i) ==
  /\ Live(i)
  /\ Arrive(p, "delete_item",
       [Idle EXCEPT !.pc = "commit", !.kind = "delete_item", !.item = i,
          !.old = items[i],
          !.new = IF i \in sold
                  THEN [items[i] EXCEPT !.status = "archived", !.available = FALSE]
                  ELSE Deleted])

\* delete_category refuses a category that holds items, archived ones included.
DeleteCategory(p, c) ==
  /\ Exists(c) /\ ItemsOf(c) = {}
  /\ Arrive(p, "delete_category",
       [Idle EXCEPT !.pc = "count", !.kind = "delete_category", !.category = c])

\* db.delete loads the items that the category's cascade is to delete with it.
Cascade(p) ==
  /\ proc[p].pc = "count"
  /\ proc' = [proc EXCEPT ![p].pc = "commit",
                          ![p].doomed = ItemsOf(proc[p].category)]
  /\ UNCHANGED <<categories, items, sold, cache, changes, orderly>>

-----------------------------------------------------------------------------
(* The commits.  Each is followed by the deletion of the cached copy.      *)

\* The rows of categories and of items as p's commit leaves them.
CategoriesAfter(p) ==
  LET r == proc[p] IN
  CASE r.kind \in {"create_category", "update_category"} ->
         [categories EXCEPT ![r.category] = r.name]
    [] r.kind = "delete_category" -> [categories EXCEPT ![r.category] = Gone]
    [] OTHER -> categories

ItemsAfter(p) ==
  LET r == proc[p]
      written(row) == [c \in DOMAIN row |->
                         IF r.new[c] # r.old[c] THEN r.new[c] ELSE row[c]]
  IN CASE r.kind = "delete_category" ->
            [i \in Items |-> IF i \in r.doomed THEN Deleted ELSE items[i]]
       [] r.kind = "create_item" -> [items EXCEPT ![r.item] = r.new]
       [] r.kind \in {"update_item", "delete_item"} ->
            [items EXCEPT ![r.item] =
               IF r.new = Deleted THEN Deleted ELSE written(@)]
       [] OTHER -> items

\* Mutant: the database lets items be without their category.
PossibleUnkeyed(p) ==
  LET r == proc[p] IN
  /\ r.kind = "create_category" => categories[r.category] = NoName
  /\ r.kind = "update_category" => Exists(r.category)
  /\ r.kind = "create_item" => items[r.item].status = NoName
  /\ r.kind \in {"update_item", "delete_item"} /\ r.new \notin {r.old, Deleted}
       => items[r.item].status \in Rows
  /\ \A i \in Items : ItemsAfter(p)[i].status = Gone => ~Referenced(i)

\* What a commit must find: the row that it inserts not there, one that it
\* updates still there, and no foreign key left without its row.
Possible(p) ==
  LET r == proc[p] IN
  /\ r.kind = "create_category" => categories[r.category] = NoName
  /\ r.kind = "update_category" => Exists(r.category)
  /\ r.kind = "create_item" => items[r.item].status = NoName
  /\ r.kind \in {"update_item", "delete_item"} /\ r.new \notin {r.old, Deleted}
       => items[r.item].status \in Rows
  /\ \A i \in Items : LET row == ItemsAfter(p)[i] IN
       /\ row.status \in Rows => CategoriesAfter(p)[row.category] \in Names
       /\ row.status = Gone => ~Referenced(i)

\* Mutant: an edited item does not invalidate.
CommitQuietly(p) ==
  /\ proc[p].pc = "commit"
  /\ Possible(p)
  /\ categories' = CategoriesAfter(p)
  /\ items' = ItemsAfter(p)
  /\ changes < MaxChanges
  /\ changes' = changes + 1
  /\ orderly' = (orderly /\ ~HalfRead)
  /\ proc' = [proc EXCEPT ![p] =
       IF proc[p].kind = "update_item" THEN Idle
       ELSE [Idle EXCEPT !.pc = "invalidate"]]
  /\ UNCHANGED <<sold, cache>>

Commit(p) ==
  /\ proc[p].pc = "commit"
  /\ Possible(p)
  /\ categories' = CategoriesAfter(p)
  /\ items' = ItemsAfter(p)
  /\ changes < MaxChanges
  /\ changes' = changes + 1
  /\ orderly' = (orderly /\ ~HalfRead)
  /\ proc' = [proc EXCEPT ![p] = [Idle EXCEPT !.pc = "invalidate"]]
  /\ UNCHANGED <<sold, cache>>

\* cache_delete, which may fail.
Invalidate(p) ==
  /\ proc[p].pc = "invalidate"
  /\ \/ cache' = NoCache /\ UNCHANGED orderly
     \/ orderly' = FALSE /\ UNCHANGED cache
  /\ proc' = [proc EXCEPT ![p] = Idle]
  /\ UNCHANGED <<categories, items, sold, changes>>

\* create_order: a live item, and later the order line that refers to it.
Order(p, i) ==
  /\ proc[p].pc = "idle"
  /\ Live(i)
  /\ proc' = [proc EXCEPT ![p] = [Idle EXCEPT !.pc = "order", !.kind = "order",
                                              !.item = i]]
  /\ UNCHANGED <<categories, items, sold, cache, changes, orderly>>
OrderCommit(p) ==
  /\ proc[p].pc = "order"
  /\ items[proc[p].item].status \in Rows
  /\ sold' = sold \cup {proc[p].item}
  /\ proc' = [proc EXCEPT ![p] = Idle]
  /\ UNCHANGED <<categories, items, cache, changes, orderly>>

\* A request ends early: an error, a lost process.  After its commit, that
\* leaves the cached copy where it is.
Abandon(p) ==
  /\ proc[p].pc # "idle"
  /\ orderly' = (orderly /\ proc[p].pc # "invalidate")
  /\ proc' = [proc EXCEPT ![p] = Idle]
  /\ UNCHANGED <<categories, items, sold, cache, changes>>

-----------------------------------------------------------------------------

Begin(p) ==
  \/ Browse(p)
  \/ \E c \in Categories, name \in Names, kind \in WriterKinds :
       ChangeCategory(p, kind, c, name)
  \/ \E i \in Items, c \in Categories, available \in BOOLEAN :
       CreateItem(p, i, c, available) \/ UpdateItem(p, i, c, available)
  \/ \E i \in Items : DeleteItem(p, i) \/ Order(p, i)
  \/ \E c \in Categories : DeleteCategory(p, c)

Proceed(p) ==
  \/ ReadCategories(p) \/ ReadItems(p) \/ Fill(p)
  \/ Cascade(p) \/ Commit(p) \/ Invalidate(p) \/ OrderCommit(p)
  \/ Abandon(p)

Next == Expire \/ \E p \in Requests : Begin(p) \/ Proceed(p)

Spec == Init /\ [][Next]_menuVars

\* Redis keeps time, and a request that was begun ends, one way or another.
Fairness == WF_menuVars(Expire) /\ \A p \in Requests : WF_menuVars(Proceed(p))

FairSpec == Spec /\ Fairness

-----------------------------------------------------------------------------

\* models/menu.py:42-48, routers/menu.py:284-288: an item that was ever sold
\* keeps its row, and only such an item is archived, whatever overlaps.
SalesKeepTheirItems ==
  /\ \A i \in sold : items[i].status \in Rows
  /\ \A i \in Items : items[i].status = "archived" => i \in sold

\* menu.py:29-31, "invalidated on any write below": while nothing was read half
\* way and no deletion was lost, what is cached is the menu, or the change that
\* made the difference is about to delete it.
CachedIsCurrent ==
  orderly /\ cache.full /\ cache.menu # Offered =>
    \E p \in Requests : proc[p].pc = "invalidate"

\* cache.py:8-9, menu.py:29-31: whatever failed and whoever filled the cache
\* late, once the changes end the cache comes to show the menu for good.
EventuallyCurrent == <>[](cache.full => cache.menu = Offered)

=============================================================================
