# Karibu POS: TLA+ models and proofs

Karibu is a multi-tenant restaurant point of sale: a FastAPI backend over
PostgreSQL (SQLite in development), several gunicorn workers, one process with
the scheduler, and Paystack for M-Pesa payments. The difficulty of the code is
not in its algorithms but in what happens when several requests, the scheduler
and the gateway work on the same rows: nearly every handler reads rows into its
own session, awaits, and writes back what it computed from them. These modules
model that, check it with TLC on small instances, and prove the most important
parts with TLAPS for instances of any size.

## 1. Inventory

| Component | State | Operations | What is hard |
|---|---|---|---|
| Subscription billing (`services/billing.py`, `routers/billing.py`, `models/subscription.py`, the writes of `routers/admin.py`) | `subscriptions`, `billing_charges`, `processed_callbacks` | pay, verify poll, webhook, sweep (reconcile, then charge), extend trial, comp month, suspend, reactivate | concurrent requests on one row; stale copies re-read under a lock; repeated, early, late or missing webhooks; replies lost after the gateway accepted; crash between prompt and commit |
| Gateway client (`services/paystack.py`) | none | charge, verify, webhook signature | a decline arrives as an error with a reference, a lost reply as an error without one |
| Orders, payments, debts (`routers/orders.py`, `routers/debts.py`, `models/order.py`, `models/debt.py`) | `orders`, `order_items`, `payments`, `debts` | place, change status, record payment or credit, repay a debt, cancel | checks made on unlocked reads; status derived from a stale list of payments; the status endpoint bypasses the cancel endpoint |
| Stock (`routers/stock.py`, `services/stock_deduction.py`, `models/stock.py`, `models/recipe.py`) | `stock_items` (running total), `stock_movements` (ledger), `recipe_lines` | create, update, archive, movement, set recipe, deduct on sale, give back on cancel | total and ledger written together but from an unlocked read; recipes, archiving and statuses change between a sale and its reversal |
| Expenses (`routers/expenses.py`, `models/expense.py`) | `expenses` | create, amend, settle, delete; written by a costed delivery | amendments and settlements overlap on one row |
| Accounts (`routers/auth.py`, `core/dependencies.py`, `core/security.py`, `models/user.py`), staff (`routers/staff.py`) and platform administrators (`create_admin.py`) | `users`: hash, token version, failed logins, lock, hashes of links, forced change, administrator's flag | register, verify, login, refresh, forgot, reset, change password, profile; invite, deactivate, reactivate, fresh code; appoint, promote, revoke | counter and version are read-modify-write around a slow hash; links are replaced and spent by different requests; several handlers issue tokens and several end them |
| Menu and cache (`routers/menu.py`, `core/cache.py`, `models/menu.py`) | `categories`, `menu_items`, one cached menu per restaurant | browse, create, edit, archive, delete | a reader fills the cache with what it read before the writer invalidated it; counts made before a deletion; the cascade; foreign keys |
| Analytics (`routers/analytics.py`, `core/timezone.py`) | none | dashboard, sales, accountability, exports | several queries per report while the till goes on; UTC timestamps, local days; one shilling in one column |
| Receipts (`routers/receipts.py`) | `orders.receipt_token` | issue and show a link | two first requests issue two links |
| Reports' layout, admin reads, e-mail, configuration, migrations, the seed script | none of their own | | read-only or generated: not modelled |

Interactions: every request runs in a session of its own (`core/database.py`)
that keeps the first copy of each row it loads, does not expire it on commit and
does not flush before queries. Requests interact only through committed rows and
row locks. Placing and cancelling an order calls `stock_deduction` in the same
transaction; a costed delivery writes an expense in the same transaction; every
point-of-sale route asks `Subscription.has_access` first. Paystack calls back
over HTTP; the sweep runs every 15 minutes in exactly one process.

## 2. Plan

1. **Billing** (`Billing`, `ChargeLifecycle`, `MCBilling`, `BillingProofs`): done, section 3.
2. **Till** (`Till`, `OrderAccount`, `MCTill`, `TillProofs`, `OrderAccountProofs`): done, section 4.
   `Sums`, with the laws in `SumTheorems`, is what a sum over rows means to this
   module and the next ones (section 9).
3. **Shelf** (`Shelf`, `MCShelf`, `ShelfProofs`): stock, recipes and expenses;
   done, section 5.
4. **Accounts** (`Accounts`, `MCAccounts`, `AccountsProofs`): accounts, sessions
   and staff; done, section 6.
5. **Menu** (`Menu`, `MCMenu`, `MenuProofs`): the menu and its cache; done, section 7.
6. **Books** (`Books`, `MCBooks`, `BooksProofs`): the reports; done, section 8.

Each module stands for one group of tables that requests share. Where two groups
meet in one transaction, the module that has the harder half keeps both: `Shelf`
has the statuses of the orders that move stock, `Menu` the order lines that
refer to items, `Books` the till's commits, each with the guard of the handler
that makes them. What a request does to the rest of an order is in `Till`.

Every safety property that a passing run checks is the subject of a theorem
(section 10). Worth proving next: the till's serial properties from a history
without overlap, as `steady` is in `Shelf`, instead of from a single slot; and
`PeriodsDisjoint` with administrators who act on current copies only.

## 3. Billing

### State and actions

Time is counted in days; `MaxDay` bounds the clock, `MaxCharges` the rows. The
idempotency key names a day in the code too (billing.py:157-158). The index
`uq_open_charge_per_period` compares timestamps: of two open charges whose periods
start on one day the model leaves open whether it refuses the second
(`PeriodOpen` is a guard of `InsertRefused` and not of `Insert`), so nothing here
rests on it.

| Model | Code |
|---|---|
| `sub` | the restaurant's row in `subscriptions`: status, trial_ends_at, current_period_end, failed_attempts, next_retry_at |
| `charges[c]` | a row of `billing_charges`: status, the start of the period it pays for, the attempt number in its idempotency key, whether it has a gateway reference. `"pending"` is a row flushed but not committed, `"lost"` one rolled back |
| `aged` | charges older than `CHARGE_STALE_MINUTES` |
| `ledger` | `processed_callbacks` |
| `gateway[c]` | what Paystack knows: nothing, waiting for the PIN, paid, declined |
| `proc[p]` | a request or the scheduler: where it is, its session's copy of the subscription, its charge, the gateway's answer |
| `PayStart`, `Proceed`, `ReuseOpen`, `ReuseKey`, `Insert`, `InsertRefused`, `ReplyPending`, `ReplyDecided`, `ReplyError` | `pay_now`, then `initiate_charge` cut at its awaits: lock and checks, flush, gateway call, commit |
| `PollStart`, `Verify`, `VerifyFails`, `Settle` | `verify_charge_now`; with `p = Sweeper`, `_expire_stale_charges` |
| `HookUnmatched`, `HookStart`, `HookApply`, `HookRefused` | `process_webhook` and the router that catches its IntegrityError |
| `SweepStart`, `SweepCandidates` | `run_billing_sweep`: reconciliation first, then the subscriptions that are due |
| `AdminStart`, `AdminCommit` | extend_trial, comp_month, suspend, reactivate |
| `Crash`, `Tick`, `Age`, `GatewayAccept`, `GatewayDecide` | the environment |

**Sessions.** `AsyncSessionLocal` has `expire_on_commit=False`, and no query uses
`populate_existing`. A row already in the session is therefore not refreshed by
`SELECT ... FOR UPDATE` or `db.get`: the request waits for the lock and then
works on the copy from before it. `proc[p].sub` is that copy. A commit writes
only the columns that differ from the copy (`Written`). The webhook and the
sweep's reconciliation load the subscription for the first time under the lock,
so they use the committed row. On SQLite (`RowLock = FALSE`) the row lock is a
no-op and only the first flush takes a lock (`Holding`).

**Merged steps.** Between two awaits on the gateway or on a lock nothing of
another session can be seen, except at the queries that are steps of their own
here. A webhook's reads come in one step (`HookStart`) and its writes in another
(`HookApply`), so two deliveries of one event overlap. One sweep step considers
one charge or one subscription: there is a single subscription.

### Abstract specification

`ChargeLifecycle` says what the charges promise: one prompt at a time is put to
the customer, each is recorded once and finally, with the outcome the gateway
decided. `ImplementsLifecycle` is the refinement: an uncommitted row is an open
prompt, a failure without a reference and a rollback are both "dropped".

### Runs

| Run | Bounds | What it shows |
|---|---|---|
| `billing_core` | 2 requests and the sweep, 2 charges, 2 days, everything but administrators, crashes at every point, lost replies | one open charge; no outcome against the gateway's; the lifecycle is implemented. Two charges are what the first property needs to fail; two concurrent requests and the sweep give every pair of paths |
| `billing_webhooks` | SQLite (no row lock): 2 requests, 3 charges, 5 days, periods of a day, 2 tries, Pay now and webhooks only, crashes at every point | the subscription's bookkeeping when nothing but webhooks settles charges: one open charge by the keys alone, periods of charges on record that were paid are disjoint, strikes are declines since the last payment, a payment never shortens the period, a suspension is lifted only by a payment. Three charges run through the whole dunning schedule and past it; five days let a trial and a period paid for lapse |
| `billing_live` | 1 request, the sweep, 2 charges, all kinds, the clock stopped | a payment for a charge on record is credited in the end, also beside administrators' unlocked writes |
| `billing_applied_twice` | 2 requests, 1 charge, Pay now, polls and webhooks | a disagreement with the documentation, section 11 |
| `billing_suspension` | 1 request, 1 charge, Pay now, webhooks and administrators | a disagreement with the documentation, section 11 |

The properties of `billing_webhooks` are claimed for that environment only:
polls beside the webhooks break `PeriodsDisjoint` and the count of strikes
(section 11), an administrator may move the period back or suspend, and without
the row lock a charge that outlives the day may meet a second. The theorems of
section 10 add the sweep's own charges, lost replies and any number of requests,
with or without the row lock. `PeriodsDisjoint` speaks of charges on record: a
prompt whose row was rolled back by a crash or failed by a lost reply has no
reference there, and section 11 says what happens when it is paid. `Overnight =
FALSE` makes the day end only when nothing is in flight, which stands for requests
that take seconds and prompts that take minutes; `billing_core` and `billing_live`
do without that assumption. Requests are interchangeable, and no property of the
runs that use symmetry tells them apart; `billing_live` uses none.

### Fairness

`_maybe_start_scheduler` (main.py:340-368) fires the sweep every 15 minutes in
one process: `WF` on `SweepStart` and `SweepCandidates`. Every HTTP call has a
timeout and every statement returns: `WF` on the replies and on the insert. A row
lock is granted in turn, but another holder can always come first for a moment:
`SF` on the sweep's steps that need it. The gateway answers verify if asked often
enough: `SF` on `Verify(Sweeper)`, with `VerifyFails` always possible. There is
none on requests, webhooks, the customer, the clock or crashes: nothing makes
them happen, and they may interfere for ever.

## 4. Till

### State and actions

| Model | Code |
|---|---|
| `orders[o]` | status (`"pending"` stands for pending, preparing and ready, which no handler here tells apart), payment status, total |
| `payments[o]` | the sum of the order's `payments` rows: no handler looks at one alone |
| `debts[d]` | order, amount_cents, paid_cents, status |
| `collected[d]` | an auxiliary: how much of the payments `pay_debt` recorded for this debt. The code keeps only a note |
| `proc[p]` | a request with its session: copies of the order, of the sum over its payments and of the debt; the row it will write |
| `PlaceStart`, `PlaceCommit` | `create_order` |
| `PatchStart`, `PatchCommit` | `update_status` |
| `PayStart`, `PayAccept`, `PayRefuse`, `PayFlush`, `PayCommit`, `CreditCommit` | `record_payment`, for money and for credit, cut where it queries the debts |
| `RepayStart`, `RepayCommit` | `pay_debt` |
| `CancelStart`, `CancelCommit` | `cancel_order` |
| `Abandon` | a session that ends without its commit |

No handler takes a lock. `_get_scoped_order` loads the order with its payments:
one step, its two queries being a few statements apart with nothing in between
that the code does. `record_payment` sums the outstanding debts in a query of its own,
before it accepts and again after the flush, so those sums are of what is committed
then, while the payments are of what was loaded (`Remaining`, `PayFlush`). In
`pay_debt` the new `paid_cents` is a literal computed from the copy
(`RepayCommit`), so a later commit overwrites an earlier one. The order's columns
are written when they differ from the copy.

Requests that are refused change nothing; except for `PayRefuse` (a step that
ends a request already under way) they are not steps of the model.

### Abstract specification

`OrderAccount` knows only a total, what was collected and what is still lent, and
never lets them exceed the total. The till implements it as long as requests do
not overlap (`till_serial`, and `AccountKept` for every size);
`till_overcollected` shows it does not when they do.

### Runs

| Run | Bounds | What it shows |
|---|---|---|
| `till_concurrent` | 2 requests of every kind, 1 order of 2, 2 debts, amounts 0 to 2 | what stale copies and lost updates cannot break: paid means collected, an order that collected is never called unpaid, a debt is never overstated, an outstanding debt can be repaid if it was lent for something, what completes an order was covered |
| `till_serial` | 1 request, 1 order of 3 with discounts up to more than that, 3 debts, amounts 0 to 2 | without overlap nothing is collected beyond the total, settled debts are repaid in full, and the account is implemented |
| `till_overcollected` | 2 requests, 1 order of 2, money and credit | a disagreement with the comments, section 11 |

One order is enough because no handler reads two; two debts of it are needed for
the sums, three for a sequence of credit and repayment. Amounts 1 and 2 against a
total of 2 give part, full and excessive payments, 0 what rounds to nothing; `MaxPaid` lets an
order collect more than its total, so the bound hides no overpayment.

## 5. Shelf

### State and actions

| Model | Code |
|---|---|
| `items[i]` | a row of `stock_items`: live or archived, quantity_milli, reorder_level_milli |
| `ledger[i]` | the item's `stock_movements`: the sum of delta_milli and the newest balance_after_milli, all that any handler or property looks at |
| `recipes[d][i]` | the recipe line of dish d and item i, 0 for none |
| `orders[o]` | which dishes, whether cancelled, whether paid: what decides about stock |
| `net[o]` | an auxiliary: what the order has moved of each item. The code keeps only a note |
| `expenses[e]` | a row of `expenses`: live or deleted, amount, whether settled |
| `proc[p]` | a request with its session: copies of the items, of the recipe line, of the order, of the expense |
| `steady` | history: no two requests overlapped, and neither recipes, shelf nor statuses were changed under a placed order |
| `CreateItem`, `ItemStart`, `UpdateCommit`, `ArchiveCommit`, `MoveCommit`, `RecipeCommit` | `create_stock_item`, `_get_item`, `update_stock_item`, `archive_stock_item`, `record_movement`, `set_recipe` |
| `PlaceStart`, `PlaceCommit` | `create_order` from its flush on: `apply_sale`, then the commit |
| `OrderStart`, `ReverseRead`, `CancelCommit`, `PatchCommit` | `cancel_order`, cut where `reverse_sale` reads the recipes; `update_status` |
| `PayOrder` | `record_payment`, for what it does to a cancellation's guard. When its copy is from before a cancellation it writes completed over that (orders.py:258-260), which is here a `PatchCommit` to `"open"` beside it |
| `Spend`, `ExpenseStart`, `ExpenseCommit` | `create_expense`; `update_expense`, `mark_expense_paid`, `delete_expense` |

`Moved` is the heart: the total a session commits is its copy's plus its own
movement, and the same number is the movement's balance. No handler takes a lock,
so totals of overlapping requests overwrite one another while the ledger keeps
every delta. Item, movement, order and expense of a request commit together.

### Run

`shelf` has two requests of every kind, one item, one order of up to two dishes
that share it, one expense, movements of one unit up or down. Two dishes are
needed for netting, one item because no handler relates two, one order because
no two orders share a row other than the item's, which movements stand in for.
`MaxSum` keeps totals between -2 and 2. `Apart` cuts histories with both an order
and an expense: no handler reads both.

`TotalIsLastBalance`, `NoSilentDrift` and `SettledStaysSettled` hold however
requests overlap. The first two together say what the comments in
`models/stock.py` promise and can be kept: the book is wrong only where a stale
copy was committed, and then the newest balance shows it.
`CancelledIsRestored` and `OnlySalesGoNegative` hold while history is steady;
section 11 says what breaks them otherwise.

## 6. Accounts

### State and actions

| Model | Code |
|---|---|
| `users[u]` | a row of `users`. `must` is must_change_password, `code` says that the password is one a manager issued, `mail` and `reset` the links whose hashes the row has, `lock` where now stands to locked_until, `admin` is is_platform_admin |
| `tokens[u]` | the versions that the tokens issued so far carry. `refresh` issues a token of the version that it was given, and so adds none |
| `minted`, `inbox` | links made, links delivered |
| `spent`, `streak`, `fresh` | history: what each link set, failed logins in a row, whether every commit so far found the row as its session had loaded it |
| `proc[p]` | a request: the accounts it loaded, what it makes of them, then where it goes |
| `Register`, `RegisterAgain`, `LoginFails`, `Login`, `VerifyEmail`, `ForgotPassword`, `ResetPassword`, `ChangePassword`, `UpdateMe` | the handlers of `routers/auth.py` up to their commit |
| `CreateStaff`, `Deactivate`, `Reactivate`, `ResetStaffPassword` | those of `routers/staff.py` |
| `Appoint`, `Promote`, `Revoke` | `create_admin.py`: a new, unconfirmed administrator; the flag on an account that is there; the flag off, with a new version |
| `Commit`, `Issue`, `Send`, `Abandon` | the commit of the columns that changed; `db.refresh` and the tokens; the mail; an error or a lost process |
| `LockEnds` | locked_until passes |

A login matches every account with the identifier typed, and a failed one counts
against all of them (`Identifiers`). Counters are literals computed from the copy,
so overlapping commits lose counts; that is what `fresh` is about. Handlers that
read the row again before they issue tokens (`Issue`) do so for whatever version is
there by then.

Login asks for a confirmed address unless the account is a platform administrator's
(auth.py:252). The other exemption of that line, of accounts without an e-mail
address, changes nothing: such accounts are staff, and staff are created confirmed
(staff.py:175). `NoSessionUnconfirmed` therefore says that whoever is signed in is
confirmed or an administrator, and rests on `Revoke` raising the version with the
flag (create_admin.py:61). A revocation that loaded the row before another commit
may write a version that is already there, or let a login that was already past its
check finish: `fresh` leaves that out.

`CodeIsForced` says that a password known to a manager always stands under a forced
change. What a session under a forced change may do is up to each route's dependency:
`get_settled_user` turns it away, but `GET` and `PATCH /auth/me` (auth.py:514, 519),
`change_password` and `refresh` take `get_current_user` or the token alone, and stay
open to it (section 11). A new password gets a fresh salt, so that its hash always
differs from the one loaded (user.py:155-158) and is always written: `Written` does
so with `code` for the commits that set one (`PasswordKinds`).

A restaurant has one manager account that signed up by mail, so the accounts that
`staff.py` acts on are those it created (`staff`).

### Run

`accounts` has two requests of every kind about one account, which may have
signed up, been invited or been made by `create_admin.py`, a lockout after two
failures, two links. The constraint `Shallow` follows a history while links made,
changes of the version, a lock and an administrator's flag, which counts twice, are
three together at most, or two while requests overlap; once a commit was stale, when only
`ForcedUntilChosen` and the types are claimed, it follows links and versions up to
two, without a lock or a flag. Two links make the newer replace the older; two
versions make a token die and could let it revive; a threshold of two tells a streak
from one failure. The theorems of section 10 have no such bounds.

## 7. Menu

### State and actions

| Model | Code |
|---|---|
| `categories[c]`, `items[i]` | the rows: a name (what a category is called, sorted by and drawn with), live or archived, available, category |
| `sold` | the items that `order_items` refer to |
| `cache` | the restaurant's key in Redis, with the menu as `list_categories` returns it |
| `proc[p]` | a request: what it loaded, what it will write, the menu that a reader built |
| `orderly` | history: no change met a reader half way, none lost its deletion of the key |
| `Browse`, `ReadCategories`, `ReadItems`, `Fill` | `list_categories` after a miss: `selectinload` makes two queries, then `cache_set` |
| `ChangeCategory`, `CreateItem`, `UpdateItem`, `DeleteItem`, `DeleteCategory`, `Cascade` | the writers up to their commit; `db.delete(cat)` loads the items that the cascade deletes |
| `Commit`, `Possible` | the commit, which foreign keys may refuse |
| `Invalidate`, `Expire` | `cache_delete`, which may fail; the time to live |
| `Order`, `OrderCommit` | `create_order`'s look-up of an item and its commit |

A cache hit changes nothing and is not a step. An outage of Redis is a miss for a
reader, a failed `cache_delete` for a writer and an expiry for the key.

### Run and fairness

`menu` has two requests of every kind, two categories and one item that may move
between them, four changes: enough to create both categories and an item and to
change or delete it while a reader or an order is half way. `CachedIsCurrent`
needs `orderly`: the comment in `menu.py` promises invalidation, and a reader that
overlaps a writer defeats it until the copy expires. `EventuallyCurrent` is what
remains whatever happens: once the menu no longer changes, the cache comes to show
it. It needs `WF` on `Expire` (every copy has a time to live, `cache.py:50`) and on
each request's next step (a request ends, or fails: database, Redis and mail calls
have timeouts); changes end because `MaxChanges` bounds them.

## 8. Books

### State and actions

| Model | Code |
|---|---|
| `now` | the clock, in hours of UTC; local time is `Offset` hours ahead |
| `orders`, `payments`, `debts` | the rows with their timestamps |
| `report` | the report being made: its bounds, its copies, the figures so far |
| `quiet` | history: since it was begun no local day began and nothing was recorded |
| `tasks[p]` | a request of the till between what it read and its commit: the order or debt, the amount, its copy of paid_cents |
| `PlaceOrder`, `UpdateStatus`, `Tick` | what is committed in one step, and the clock |
| `StartPayment`, `RecordPayment`, `RecordCredit` | `record_payment` up to its cap, and its commit of money or of a debt |
| `StartRepayment`, `PayDebt` | `pay_debt` up to its cap, and its commit: a payment on the order, paid_cents and status written from the copy |
| `Dashboard...`, `Sales...`, `Accountability...` | one action per reading of the clock and per query of `dashboard`, `sales_report` and `accountability` |
| `LocalHour`, `LocalDay`, `StartOfDay`, `DaysAgo` | `core/timezone.py`, for a zone without daylight saving, as Nairobi is |

### Run

`books` has days of two hours and a clock one hour ahead of UTC, so that UTC and
local days begin at different hours; four hours show three local days to a trend and
a report of two. One order, two payments and a debt let money be paid, lent, repaid
and reported across any of these. `FiguresAreOfLocalDays` compares the sums over UTC
bounds, the hourly and the daily buckets with the reference `TakingsOn`, for
reports that nothing crossed, and says that a payment that does cross a sales
report is never in the gross and missing from the split.

Requests of the till overlap as in `Till`: two of them may accept or lend the whole
balance each, or both repay from one copy of the debt, so that an order lends more
than it lacks and a debt is settled with less on record than was lent. `Till` reads
payments and debts apart; here a request's reading is one step, since what matters to
a report is only that the reading is not the commit. A request that writes completed
over a cancellation, or any status the status endpoint sets, is `UpdateStatus`.

`MoneyInOneColumn` is what the accountability report then still promises, if nothing
crossed it: an order of the window counts once, for what it lacks or for what was lent
on it, whichever is more, and every other debt for what is owed on it. Where no order
of the window was lent more than it lacked and no debt settled short, that is exactly
what those orders lack and what is owed on the others; the two conditions stand in the
formula, and requests that overlap break them (section 11).

`Followed` leaves out what no property speaks of: a dashboard or accountability report
once something crossed it (the till's next steps are explored without it, and a report
that begins then reads nothing of the one before), and a second request under way
beside a report (two overlap before one begins). Requests and the two methods of
payment are interchangeable. One debt and two payments are enough to lend beyond the
balance (a debt beside a payment) and to settle short (two repayments of one debt).
There are finitely many methods of payment (`BooksAssumption`), as in the code's
enumeration.

## 9. What is assumed about the database

The modules take PostgreSQL's READ COMMITTED for granted: a statement sees what
is committed when it starts, an UPDATE waits for a row another transaction has
written, unique indexes hold. Values written are those computed by the session.

`func.sum` over rows is `SumOver` of `Sums`: the number of units that the rows
hold, a cardinality. That is the usual sum of natural numbers (an assumption of
`MCTill`, which TLC evaluates, compares it with the community modules' fold) and
it has laws that can be proved without induction over a recursive definition.

## 10. Proofs

TLAPS proves these for every value of the constants that satisfies the modules'
assumptions (`BillingAssumption`, `TillAssumption`,
`ShelfAssumption`, `AccountsAssumption`, `MenuAssumption`, `BooksAssumption`).
Where a theorem has a further hypothesis, it is named below.

**`BillingProofs`.** The invariant is
`IInv = TypeOK /\ LockInv /\ (RowLock => OpenInv) /\ AgreeInv`.

- `LockInv`: one process at a time is between taking the lock and committing, and
  an uncommitted row belongs to the process that sent it. Without it a second
  process could insert while the first waits for the gateway.
- `OpenInv`: a process past the checks sees no open charge, and `OneOpenCharge`.
  The first half is why the check done before the insert is still true at it:
  every other way to open a charge needs the lock.
- `AgreeInv`: each row and each answer a process carries agrees with the gateway.
  Copies of the subscription may be stale; an answer cannot be, because a
  decision is final. That is why settling a charge twice, which the code does
  (section 11), never records a wrong outcome.

From it: `TypeCorrect` (type invariant), `AtMostOneOpen` (`OneOpenCharge`, assuming
`RowLock`), `RecordsAgree` (`SettledAsGateway`, with or without the lock) and
`Implementation` (`ImplementsLifecycle`, assuming `RowLock`): the initial state
maps to the initial state and every step to one of the lifecycle or a stutter.
There is one lemma per kind of step (quiet, settle, resolve, proceed, insert,
gateway), each proving `IInv'`.

The bookkeeping properties hold under `Daily`: work is Pay now, webhooks and the
sweep's own charges, and neither a request nor an open charge outlives the day.
Neither the row lock nor the absence of crashes and lost replies is needed. The
danger is a request that asks for a charge with a copy of the subscription from
before another charge was settled. `DInv` says why it is harmless
(`StaleIsTaken`): such a copy asks for the key of a charge already committed, so
`ReuseKey` or the unique index stops it; whatever gets past both works on the
row as it is. With that, the open charge is the newest one and the one that the
subscription asks for (`OpenIsNewest`), a webhook that settles it is the first to
(`HookIsFirst`), a paid charge starts after all that was paid for (`PaidUpTo`),
and a suspended subscription has used up its tries (`Exhausted`).
`DailyStep` shows besides that the subscription changes only where an open charge
is settled. From it: `OneOpenByKeys` (`OneOpenCharge` without the row lock),
`PaidOnceOnRecord` (`PeriodsDisjoint`: of charges on record, paid and credited or
paid and waiting to be), `StrikesAreDeclines` (`StrikesMatchDeclines`),
`PaymentLengthens` (`PaymentNeverShortens`) and `SuspensionNeedsPayment`
(`OnlyPaymentLiftsSuspension`).

**`SumTheorems`.** What `SumOver` is of no row, of one more row, of one row
changed, of part of the rows, of two columns added, and of rows bucketed by a key
(`SumGroups`). They follow from cardinalities of disjoint unions and from
`SubsetInduction`: a family of subsets that has the empty one and grows by single
elements has the whole set. It is about a set of subsets, not an operator, and
rests on a minimal element of the well-founded order of strict inclusion.

**`TillProofs`.** `IInv = TypeOK /\ OrdersInv /\ DebtsInv /\ \A p : Session(proc[p])`.
`Session` says how a copy may be stale: an order's total never changes and its
payments only grow, so a session knows of at most what was collected; a debt's
amount never changes and what was collected against it only grows. `Grows`
says what no step takes back, and carries every other session across it. From it:
`TypeCorrect`, `PaidIsCollected`, `UnpaidIsNothing`, `NeverOverstated` and `OutstandingIsOwed`.

`CompletedIsCovered` (`CompletedWhenCovered`, with overlap) needs `CInv`: a row
not written has no money on it (`BlankInv`), and a request that has decided to
complete an order saw it covered (`CoverNoted`); what is collected and lent, repaid
or not, only grows.

The rest is about requests that do not overlap. Their hypothesis is `Alone`: one
slot for requests, as the run `till_serial` has it, with any number of orders,
debts, amounts and requests one after another. `SInv` adds that a session's
copies are the rows (`Fresh`) and that between requests each order's money and
credit fit its total (`AccountsInv`). Each step keeps `SInv` and is a step of
`OrderAccount` or a stutter (`Kept`). From it: `NothingOvercollected`,
`SettledIsPaid`, `CollectedIsPaid` and the refinement `AccountKept`
(`ImplementsAccount`). `till_overcollected` shows that the hypothesis is needed.

**`OrderAccountProofs`.** `Overdraft`: the abstract account never exceeds a total.

**`ShelfProofs`.** `IInv = TypeOK /\ TotalIsLastBalance /\ UnwrittenUnpaid`: total
and balance are written by one operator, and a row that was never inserted is
neither paid nor counted, so that inserting cannot undo a settlement. From it:
`TypeCorrect`, `TotalIsBalance`, `SettledIsFinal`. `DriftIsStale` (`NoSilentDrift`)
needs `DInv`, which adds that an order's session has copied the shelf
(`Shelved`) and that what no row was written for is empty.

`CancelRestores` (`CancelledIsRestored`) and `NegativeIsSold`
(`OnlySalesGoNegative`) speak of steady histories. Their invariant `KInv` adds
that no recipe speaks of an item before it is there and that, while history is
steady: one request at most is in flight (`Solitary`), its copies are the rows
and what it computed from them is still what they say (`Undisturbed`), an open
order moved exactly what its lines take by the recipes as they are
(`Accounted`), and without the orders no total would be below zero (`Covered`).
The last is what makes the second property inductive: it counts together what
all sales took, where the property only asks for one.

**`AccountsProofs`.** `IInv` is `TypeOK` with, for each session, `CommitFits` and
`IssueFits` (what a request may have made of its copies: a link never unconfirms, only
change_password lifts `must`, tokens are issued for confirmed accounts and
administrators only) and that a row not inserted is blank and has no tokens (`Blank`,
`TokensKnown`). It carries the theorems that hold however requests overlap:
`TypeCorrect` and `ForcedChangeHolds`. `FInv` adds what holds while every commit was
fresh: an account's code is forced, its streak and its counter keep pace, no token is of
a version still to come or good for an account neither confirmed nor an administrator's.
From it `SessionsAreConfirmed`, `CodesAreForced`, `FailuresDoLock` and
`DeadTokensStayDead`. `LInv` says that a link is in one place: in the making, in one
column of one row, or spent; from it `LinksAreSpentOnce`.

**`MenuProofs`.** `IInv` is `TypeOK` with, for each session, `Prepared` and
`Directed`: a change at its commit names a category and an item, and only an item
that was sold is to be archived. Sold items stay sold, so what the count of order
lines told a request is still true when it commits, and the foreign key catches
the item that was sold after a count of none; that is `SalesAreKept`. `CInv`
adds `ReadersAreCurrent`: while all is orderly, a reader half way has read the
menu as it is, so that what it fills the cache with is current. From it
`CacheIsCurrent`. The theorems are about `Spec`, and hold with its fairness too.

**`BooksProofs`.** `IInv` is `TypeOK` with `Dated` (a row was written on an order
that was there, no later than now), `TasksFit` (a request's copy and its repayment
are together no more than the debt) and one conjunct per report that says what each of
its queries has left in it (`DashboardSoFar`, `SalesSoFar`,
`AccountabilitySoFar`). The lemmas before it relate hours of UTC to local days
for every offset and every length of the day, and show that bucketing by hour,
day or method loses nothing where every row has a bucket. From it: `TypeCorrect`,
`FiguresAreTrue` (`FiguresAreOfLocalDays`) and `EachShillingOnce`
(`MoneyInOneColumn`). The last goes by `CountedOnce`: the shortfall less the credit,
cut off at zero, and the credit are together the larger of the two, order by order;
`LackingOnly` and `OutsideOnly` turn that into what the orders lack where its two
conditions hold. Nothing assumes that requests come one at a time.

**Only model-checked:** `PaidIsCredited` and `EventuallyCurrent`, which are
liveness under fairness and so out of the prover's reach, and that `SumOver` is
the fold, which would need induction over data. The three properties that the code
breaks (section 11) have a counterexample instead.

## 11. Where the code and its documentation disagree

Three have a run that TLC ends with a counterexample:

| Run | What is said | What happens |
|---|---|---|
| `billing_applied_twice` | billing.py:511-512: a poll racing a webhook cannot apply the same payment twice | the poll's `db.get` after the lock returns its old copy; the outcome is applied twice, a decline counts two strikes |
| `billing_suspension` | admin.py:514: a manual suspension blocks the point of sale | a charge that was open is declined afterwards; the dunning sets past_due, which has access |
| `till_overcollected` | orders.py:191-194: the two paths cannot each be capped against the full balance | they can, when two requests overlap |

The others were seen while modelling; the behaviour is in the model, and where a
property excludes it, it says so.

Billing:

- SECURITY.md:37-39 and BILLING.md say that deterministic keys make a second charge
  impossible. With a decline counted twice (polls beside webhooks), a request that
  loaded the counter in between charges the period again under a key of its own:
  `PeriodsDisjoint` fails as soon as `Kinds` has polls.
- billing.py:249-250: fail cleanly so that a retry can create a fresh charge. The
  counter is part of the key and has not moved, so the retry is handed the failed
  charge (`ReuseKey`).
- Declined early payments during the trial count as strikes and suspend the
  restaurant before `trial_ends_at` (BILLING.md:25 promises full access until then).
- BILLING.md, "Why it can't double-charge". A process that dies between the prompt and
  the commit rolls the charge back, and a reply that is lost fails it without a
  reference. If the customer pays that prompt, no webhook, poll or sweep can match it:
  the payment is not credited and the days can be charged again, after the rollback at
  once, under the same key, after the lost reply when the key has moved on (while nothing
  was paid before, a day later). `PeriodsDisjoint` and `ImplementsLifecycle`
  are about charges on record.
- models/subscription.py:144-145: the partial index is the hard stop against two open
  charges. It compares timestamps, and a period that starts with the clock
  (billing.py:147) starts at another instant in each request; the row lock and the keys,
  which name the day, are what stops them (`OneOpenCharge`).

Till:

- debt.py:25: SETTLED is fully paid off. A partial repayment committed last lowers
  paid_cents and leaves SETTLED: `SettledMeansPaid` fails with two requests.
- orders.py:267: voiding is manager-only. The status endpoint accepts cancelled from
  anyone subscribed (`PatchCommit`).
- models/debt.py:24: outstanding is still owed. A credit of less than half a cent becomes
  a debt of zero that stays outstanding for good (orders.py:189; no repayment is small
  enough for debts.py:141-151): `OutstandingMeansOwed` leaves such debts out.
- A cancel that loaded the order before a payment completed it voids a paid order
  (orders.py:267-274 refuses that); a payment that loaded a served order writes
  completed over a cancellation.

Shelf:

- stock_deduction.py:8-10: cancelling restores the ingredients. Two cancellations that
  overlap restore them twice; a status set to cancelled restores nothing; a recipe
  edited or an ingredient archived since the sale restores something else.
  `CancelledIsRestored` is claimed for the remaining histories.
- models/stock.py:10 and :128-129: replaying the ledger reproduces the total. Not after
  two movements that overlap: `NoSilentDrift` says where they part.
- expenses.py:347: two settlements that overlap both succeed, and the later one's
  paid_at stands.

Accounts:

- auth.py:467, :581-583 and staff.py:263 say that every session dies. Two changes of
  password that overlap write the same version, so tokens issued after the first stay
  good after the second, and a stale commit can even lower the version.
  `DeadStaysDead` is claimed while every commit is fresh.
- A manager's fresh code that overlaps the staff member's own change leaves the code as
  the password with must_change_password false (dependencies.py:58-66 promises it is
  good for one thing only).
- dependencies.py:58-60: the session of a temporary code may reach change-password and
  nothing else. `/auth/me`, for reading and for editing, and `/auth/refresh` do not ask for
  a settled user (auth.py:514, 519), so it reaches these too; `UpdateMe` has no guard on
  `must`.
- create_admin.py:61: revoking kills any live session. A revocation that overlaps another
  commit of the row may write the version that is there already.
- change_password and verify_email read the row again after their commit and issue tokens
  for the version found there, which may be that of a later reset (auth.py:594-599).
- auth.py:458-459: a reset link is single use even if the request is delivered twice. Two
  deliveries that overlap both find it.
- auth.py:233-234: failures that overlap count as one.
- staff.py:44 says that a code "dies at first sign-in", :208 that it works once; it is
  good for signing in until the password is changed.
- auth.py:363 reads `body.email`, but the body is a `LoginRequest`, which has
  `identifier`: resend_confirmation always fails, although auth.py:79 and :101-107 point
  to it as the way out.

Menu:

- menu.py:165-171: a category that still holds items is refused. One that gets an item
  between the count and `db.delete` loses it through the cascade, if it was not sold.
- menu.py:302-303: an archived item must not linger as available. An edit that loaded the
  item before it was archived makes it available again (the row, not the menu).
- menu.py:29-31: a write invalidates. Not when `db.refresh` raises between commit and
  `cache_delete`, nor against a reader already half way (`CachedIsCurrent`).

Books:

- timezone.py:12-19: a day is the restaurant's. `sales_pdf` labels its days from
  `window_start`, which is UTC, so an extra day leads the table and today is missing from
  it (analytics.py:459-465); `sales_csv` prints UTC dates.
- The dashboard draws the hours 7 to 21 only (analytics.py:117-122), so its columns need not
  add up to the day.
- `day_bounds_utc` and `days_ago_utc` read the clock separately: a dashboard made across
  midnight compares two days that are not neighbours.
- analytics.py:541-551: an order's money is told apart, unpaid or on credit. Credit and a
  payment that overlapped may come to more than the order, and then all of the credit is
  counted although less is lacking. Once overlapping repayments leave a debt settled with
  less paid than lent, the difference is counted as unpaid (the credit on an order is of
  outstanding debts, analytics.py:562-567) and as outstanding (the query at
  analytics.py:608 takes debts of any status).

## 12. What is not modelled

Of billing: prices and phone numbers, the simulated gateway used without a key,
the `is_active` flag of restaurants (no access check reads it), several
subscriptions in one sweep (they share a session but no row), a gateway that
revises a final answer or that answers verify without a status (which the sweep
takes for a failure, billing.py:480-494), the hours within a day, notification mails and
audit rows. Of the till: order lines, names, references (and the race of two orders for
one reference, orders.py:33-39), due dates and who recorded what. Of the
storeroom: names, units, prices, suppliers, notes, and the recipe lines that go
when a dish that was never sold is deleted (`recipe.py:24`). Of the accounts:
the expiry of tokens and links, the rules for passwords, the addresses that a
profile changes, the restaurant made at sign-up, audit rows; `resend_confirmation`
fails before it changes anything (section 11). Of the menu: prices, pictures,
and `list_items` and `get_item`, which are read-only and not cached. Of the
reports: counts, rankings and averages, the CSV and PDF files and the
exports of expenses. Receipts are one column, written once or twice and read: a
module would restate the lines. Mail, configuration, migrations and the seed script
have no state of their own.

Left for later: extend_trial not resetting the strikes,
reactivate truncating a period already paid for, a granted month lost when an
older charge settles, and an exception other than PaystackError in verify
aborting the sweep.
