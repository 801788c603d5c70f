# MotoShop: a TLA+ model of the shop

MotoShop is a motorcycle shop management system: a FastAPI modular monolith
(`src/backend/app`) over PostgreSQL, a Next.js frontend (`src/frontend`) that keeps
much of its state in the browser, and the microservices the monolith replaced
(`src/backend/*_service`, `src/backend/shared`). This directory models the parts
whose correctness depends on concurrency, failure and ordering, on the server and in
the browser, checks them with TLC and proves what it can with TLAPS.

## Inventory of the system

| component | state | operations | hard behaviour | what makes it correct |
|---|---|---|---|---|
| Sales router (`modules/sales/router.py`) | `sales.transactions`, items, payments | `checkout`, `void_transaction`, reads, export | one database transaction that locks parts and a job order in cart order; errors of a line are swallowed | a sale and its deductions are all or nothing; concurrent sales behave as if one at a time; every request is answered |
| Inventory router (`modules/inventory/router.py`) | `inventory.items`, `stock_movements` | `create_item`, `update_item`, `delete_item`, `adjust_stock`, reads | `adjust_stock` locks the row, `update_item` and `delete_item` do not | stock equals what the movements add up to; movements are never changed |
| Idempotency decorator (`core/idempotency.py`) | `auth.idempotency_keys` | lookup, replay, save, around every mutating handler | three separate transactions around the handler's own | one effect per key; a cached answer is that of a committed effect |
| Audit (`core/audit.py`, `modules/audit`) | `audit.logs` | `log_audit_event`, ingest, list, export | own session, commits before the handler does, swallows errors | no sale without an audit row |
| Repairs router (`modules/repairs/router.py`) | `job_orders`, `repair_cart_items`, `commissions`, `motorcycles` | create, status, details, payment status, delete, cart items | unlocked read-check-write by several roles; three sources of commissions | no release before payment, no deletion after it, nothing outlives its job order, one commission per job order |
| Auth (`modules/auth`, `core/security.py`) | `users`, `user_sessions`, `revoked_tokens` | login, refresh, upgrade, logout, account administration | refresh rotation with reuse detection and a 15 second grace window; token versions; unlocked account updates | a session ends only for a reason; the shop keeps an administrator |
| API client, route guard, login page (`lib/api-client.ts`, `ProtectedRoute.tsx`, `login/page.tsx`) | access token, refresh promise, request queue, `user_role` | interceptors, silent refresh, sign in and out, denial | several 401s at once share one refresh; two tabs share one cookie | every call is answered once; the guard always decides |
| Counter, checkout, sales and receipt pages (`pos`, `sales`, `useCheckoutSaga.ts`) | the cart, carts saved per job, stock map, paid marks, sales log (localStorage) | select, add, pay, settle, list, void | handlers go on after their page is gone; any error becomes an invented COMPLETED sale | the log says what the server recorded; a paid job is not billed again |
| Workshop board (`repairs/board`) | job list, cashier's list, history, deleted ids (localStorage) | fetch, move, edit, create, delete | optimistic moves with whole-list rollback; lists captured before an await; offline orders | nothing released unpaid; lists agree |
| Job order page (`repairs/jobs/[id]`) | diagnosis log, paid mark (localStorage) | add, edit, delete notes, assign, delete the order | PUTs not serialised; decisions on a flag of when the page loaded | nobody's notes are changed by others; paid orders keep their traces |
| Inventory pages and bike registry (`inventory`, `motorcycles`) | own items, deleted ids and SKUs (localStorage) | list, create, edit, delete, register, archive | errors become local copies; answers arrive after deletions | deleted stays deleted; lists name an item once |
| Payroll pages (`payroll`, `payslip`) | page lists, payslip cache | filter, disburse, open and settle a payslip | a disbursement is a timer over the page's lists | what is counted is marked; a payslip agrees with its cache |
| Staff, settings, permissions (`settings`, `users`, `lib/permissions.ts`) | accounts, the permission matrix (localStorage) | matrix, profile, register, edit, delete | two administrators at a time; stale forms | roles change only on purpose; a refused page leads somewhere |
| Dashboards, reports, history, documents, gateway, deployment, legacy services | - | read, print, configure | - | - |

Components interact through PostgreSQL (row locks, transactions), HTTP and, within a
browser, localStorage. Pages call the API client, which adds an `Idempotency-Key` to
POST, PUT and PATCH (a new one for each call, kept when the call is retried after a
token refresh); the decorator calls the handler; handlers call `log_audit_event`;
checkout writes the inventory and repairs schemas directly, in its own transaction.
The board, the job page, the counter and the sales pages share the lists and marks one
of them writes.

## Modules

| module | what it is |
|---|---|
| `ShopData` | constants, record types and the balance of a movement ledger, shared by the two below |
| `AtomicShop` | abstract specification: every request that changes stock takes effect in one step |
| `PointOfSale` | the sales and inventory routers behind the idempotency decorator, statement by statement; implements `AtomicShop` |
| `PointOfSale_proofs` | in four parts: types, with the balance of the ledger and its immutability; a sale is all or nothing; saved receipts and one sale per key; that `PointOfSale` implements `AtomicShop` |
| `JobOrders` | the repairs router, the checkout's effect on a job order, the till's follow-up request |
| `JobOrders_proofs` | types, no orphans, no release before payment, the commission of a paid job order, and no second one from payment-status |
| `ServedCalls` | abstract specification: a call is answered once, unless its page is gone |
| `Session` | the auth service, the interceptors of `api-client.ts`, the route guard and the login page of two tabs; implements `ServedCalls` |
| `Till` | the counter, checkout, sales and receipt pages of one browser |
| `Board` | the workshop board |
| `JobCard` | the page of one job order |
| `Catalog` | the inventory pages and the bike registry |
| `Payroll` | the payroll page and the payslip page |
| `Staff` | accounts, roles, the permission matrix, the pages that edit them, and the account endpoints |
| `Session_proofs` | types, the queue and its leader, refresh tokens, the ends of sessions, and that `Session` implements `ServedCalls` |
| `Payroll_proofs` | types, payslips and their cache, what a disbursement marks |
| `Staff_proofs` | types, the last administrator, one's own profile, the role a tab goes by |
| `Till_proofs` | types, the customer of a cart, the sales log and the receipt, one row for an invoice, paid jobs that do not come back |
| `Board_proofs` | types, release after payment, the list of the counter, how a deleted order can come back |
| `JobCard_proofs` | types, other people's notes, the traces of a paid order |
| `MC...` | small instances for TLC |

`PointOfSale` and `JobOrders` meet in the checkout. `PointOfSale` shows that a checkout
takes effect on its job order and on its parts together or not at all (`SaleIsAtomic`,
proved); this is what lets `JobOrders` take a checkout's lock of the job order and its
commit as two steps, and `Till` take a checkout as one. Elsewhere the page modules take the
server's handlers as single steps with the outcomes the routers have (done, refused,
lost answer), and the modules of the routers say what happens inside. Two kinds of handler
are split in the page modules too, because what the page promises depends on it:
`delete_job_order` in `JobCard` (`CheckDelete`, `CommitDelete`, no lock between them) and the
account endpoints in `Staff`.

### PointOfSale: state and actions

| variable | code |
|---|---|
| `row` | committed `inventory.items`: `current_stock`, `is_active`, and the item's `stock_movements` |
| `sale`, `jobs` | committed `sales.transactions.status`; `job_orders.is_paid` with its commissions |
| `audit`, `reply` | `audit.logs`; `auth.idempotency_keys` |
| `lock` | PostgreSQL row locks (`SELECT ... FOR UPDATE`) |
| `draft` | what the lock holder's transaction has written to an item and not committed |
| `aborted` | transactions PostgreSQL has aborted while the handler runs on |
| `pc`, `next`, `form` | where a handler is, its next cart line, the stock value an edit form submits |
| `key`, `body` | the `Idempotency-Key` a request carries and the body sent under a key |

A handler runs `lookup` (decorator) to `lines` / `settle` / `load` (handler), `audit`,
`commit`, `save` (decorator). `DeductLine`, `LockService` and `SkipLine` are the three
kinds of cart line of `checkout`; `SettleJob` locks the job order; `CommitCheckout`
publishes everything. `DeadlockVictim` is the exception PostgreSQL raises in one of a
cycle of waiters: `checkout` swallows it and runs to its commit, where `CommitRefused`
stops it. `AdjustStock` locks and computes; `LoadItem` and `CommitItemUpdate` or
`CommitItemDelete` read and write without a lock. `LogAudit` may fail silently.
`Replay`, `StartHandler` and `SaveReply` are the decorator. `Fault` kills a handler at
any step. Uncommitted drafts are visible to their lock holder only, which is READ
COMMITTED as far as these handlers can tell.

### JobOrders: state and actions

| variable | code |
|---|---|
| `job` | committed `repairs.job_orders`: existence, `status`, `is_paid`, whether `mechanic_id` is set |
| `commissions`, `cartItems` | committed `repairs.commissions`, `repairs.repair_cart_items`, and the request that wrote each |
| `sale` | requests whose checkout has committed |
| `lock` | row locks on job orders |
| `op`, `pc`, `seen`, `body` | the handler a request runs, where it is, the row it has read, its arguments |

`FindJobOrder` is the unlocked read and the checks made on it. The `Commit...` actions
write the columns that differ from what was read, as the ORM does, and wait for row
locks. `FlushPayment` is the autoflush of the session: the query for commissions in
`update_job_payment_status` first sends the UPDATE, which locks the row. That UPDATE is
the only thing that keeps two settlements apart, and there is none if the row is paid
and COMPLETED already. `LockJobOrder` and `CommitCheckout` are the checkout.
`SettleAtTill` is the page `pos/checkout`, which sends `PATCH .../payment-status` after
every checkout, including one that failed: the hook `useCheckoutSaga` answers an error
with a made-up transaction. The database's foreign keys keep the commissions and items
of a deleted job order out; `CanReference` is the key-share lock of that check, which
`FOR UPDATE` excludes and an ordinary UPDATE does not.

### Session: state and actions

`cur`, `revoked`, `aged`, `lapsed` are the rows of `user_sessions` and `revoked_tokens`
(`aged`: revoked more than 15 seconds ago); `cookie`, `role` and `legacy` belong to the
browser, `token`, `page`, `refreshing`, `refresh`, `upgrade`, `login`, `logout` to a tab,
`call[c]` to a caller. `RefreshRead` and `RefreshWrite` are the two halves of
`rotate_refresh_token`, between which another refresh may run; `RefreshAnswer` and
`RefreshFail` settle everybody who shares the promise, the guard and the leader of the
queue among them; `Reject` is the end of the response interceptor, `Verify` the guard
when a page is opened and `Revisit` the guard after a change of path: a page that is shown
has a token in memory, so only a role that is gone makes a difference. `SignOut` ends the
session of the cookie, and that of the token if it can still be decoded.
`Expire`, `Age`, `Lapse`, lost answers and `Reload` are the environment.

### Till, Board, JobCard, Catalog, Payroll: the browser's state

These modules share a shape. What localStorage holds is a variable per key (`saved`,
`paid`, `deleted`, `cached`, `log` of `Till`; `stored`, `active`, `marks`, `past`,
`deleted` of `Board`; `log`, `cache` of `JobCard`; `own`, `gone` of `Catalog`; `cache` of
`Payroll`), the mounted page is a record of its React state, the server's rows are what
its router keeps of them. A handler that awaits the server is one record in a set
(`asked`, `pay`, `calls`, `puts`, `timers`) with what its closure holds, because in React
that is what it goes on with: the list it was created with, not the list on the screen.
Its server step and its continuation are separate actions; the page may be left, reloaded
or changed in between, and the continuation then writes localStorage all the same.
Where the router checks without a lock, the check and the commit are two actions too:
`CheckDelete` and `CommitDelete` of `Board` and `JobCard` are `delete_job_order`, between which
the order may be paid. A deletion then fails, is lost, or is answered by an error other
than 400 and 403 (`FailDelete`), and the page goes on all the same. In `Till` a checkout that
the page has given up on may still commit (`Commit` after `Unanswered`), and the settlement is
a step of its own (`Patch`) before the marks and the receipt (`Finish`).
In `Payroll` a slip is cached under an id: the name when the list opened it, the user id when
the payslip page made it up (`ByName`, `ByUser`).
Effects that follow a state change run with the action that changes the state.

### Staff: state and actions

`account` holds role and `token_version` of every user, `cookie`, `token`, `seen` and
`matrix` belong to the one browser that is followed, `call` has at most one request that
changes accounts from it and one from another administrator's. A request is admitted
(`Admit`: `get_current_user` and `require_roles`, in a session of their own), loads the
account (`Load`: the checks of `update_user` and `delete_user`) and commits what it
changed (`Commit`: the ORM writes the columns that differ from the row as it was loaded).
`crossed` is history: the accounts on which two changes crossed. `Verify`, `Show`, `Deny` and
`Redirect` are `ProtectedRoute`; `Landing` is `getEffectiveLandingPage` under the matrix saved
in this browser. A page that is typed or reloaded is hidden until the guard has decided
(`Goto`); one that is reached by a link within the app is rendered at once, and its
effects run, since the guard stays mounted and keeps `isAuthorized` (`Render`).

## Runs

Passing runs; each property also fails on a mutated definition (`PROJECT.json`,
`mutants`), so none of them holds by construction. The type invariants are checked in
`PosRetry`, `JobsFloor` and `Staff`; the other modules state theirs as `TypeOK` too (proved
for all but `Catalog`), and it holds in their runs when it is added to the `.cfg`. So do the
inductive invariants of the proofs: `Board!IInv` on the instance of `Board`, `Till!IInv` on that
of `Till`, `JobCard!IInv` on that of `JobCard`, `Payroll!IInv` on that of `Payroll`,
`Staff!TInv` on that of `Staff`, `Session!QueueInv` on that of `Session`.

| run | question | instance | distinct states |
|---|---|---|---|
| `PosAtomic` | does the server implement `AtomicShop`; do movements balance and stay; are sales all or nothing and saved receipts real | 3 requests under 2 keys, carts in opposite order, a part twice in a cart, a job cart, adjustments, deletions, voids; 1 fault at any step | 133,514 |
| `PosRetry` | one sale per key for a client that waits for answers, without a fault while the response is saved, beside edit forms; is every accepted request answered; types | 3 requests under 2 keys, opposite carts, a recount of 5, 2 faults | 623,382 |
| `JobsFloor` | types, release after payment, no orphans, a commission for every paid mechanic's job, payment-status adds only the first one, the proof's invariant | 3 requests of 12 kinds on an open and a new job order, 1 fault | 509,018 |
| `Session` | do the interceptors keep the promise of `ServedCalls`, safety and liveness; when may a session end; does the guard decide | 2 tabs, 2 calls of one of them, 1 session, 2 faults | 396,684 |
| `Till` | customer and cart, what the log says, late lists, duplicate rows | 2 customers, 1 part with 1 unit, 1 payment, 1 loss, sync or step of others | 4.0 million |
| `Board` | release, agreement of lists, deleted orders | 1 server order, 1 made up offline, 2 waiting handlers, 2 losses or steps of others | 9.6 million |
| `JobCard` | notes of others, traces of paid orders | 2 authors, 2 mechanics, 2 texts, 1 PUT on its way, budget 2 | 2.2 million |
| `Catalog` | deleted items, own list, duplicates, registry | 2 items, 2 SKUs, 1 stand-in, 1 bike model, 2 waiting handlers, budget 2 | 2.4 million |
| `Payroll` | what a disbursement counted is marked; payslips | 2 commissions in different periods, 1 cashier, 2 timers, budget 3 | 1,748,960 |
| `Staff` | types, last administrator, own profile, the role a tab goes by, denied pages | 2 accounts, 3 switches of the matrix, 2 requests that change accounts | 1,788,416 |

Runs that refute what a document says (`findings`):

| run | what the code does |
|---|---|
| `PosDoubleSubmit` | two concurrent requests with one key both sell |
| `TillVoidUnheard` | the receipt page voids with PUT where the service has POST, swallows the 405 and shows VOIDED; the server keeps the invoice |

**Refuted statements.** The modules also state what other documents and comments say and
the code does not do. Each definition below is violated when it replaces the properties
of the named configuration (with the changed constants, where there are any):

| definition | configuration | what the code does | what is said |
|---|---|---|---|
| `PointOfSale!LedgerBalances` | `PosRetry` | the edit form writes back the stock the page loaded, without a movement | `docs/SYSTEM_DOCUMENTATION.md:264` |
| `PointOfSale!StockNeverNegative` | `PosAtomic` | a checkout is not compared with the stock | `docs/specs/02-database-and-state-spec.md:324` |
| `PointOfSale!EverySaleAudited` | `PosAtomic` | a failing audit insert is swallowed | `docs/SYSTEM_DOCUMENTATION.md:713` |
| `JobOrders!CompletionPaysOnce` | `JobsFloor` | completing a job order paid by a checkout earns a second commission | `repairs/router.py:301` |
| `JobOrders!PaidIsKept` | `JobsFloor` | a job order paid during its deletion is deleted | `repairs/router.py:365` |
| `JobOrders!PaidHasSale` | `JobsFloor` | after a failed checkout the till settles the job order | `docs/SYSTEM_DOCUMENTATION.md:59` |
| `Session!ConcurrentRefreshHonoured` | `Session`, `Owner <- TwoTabs` | of two concurrent refreshes with one token one may be refused | `modules/auth/service.py:77-87` |
| `Till!SavedByHand` | `Till` | switching customers saves one customer's parts under another job | `pos/page.tsx`, comment of the save effect |
| `Till!ReceiptHasSale` | `Till` | the hook invents a sale for any error | `docs/SYSTEM_DOCUMENTATION.md:59` |
| `Board!OfflineJobKept` | `Board`, `Job = {a, b}`, `Existing = {a}`, `Target = {"ONGOING"}` | a handler that waits puts back a list without the order made up meanwhile | - |
| `JobCard!PaidTracesKept` | `JobCard` | an order that is paid between the check and the commit of its deletion is deleted, and the page purges it | `repairs/router.py:366` |
| `JobCard!NoteSettles` | `JobCard`, `Budget = 0`, `MaxPut = 2` | the PUTs of two notes may be served in the other order, and the server keeps the older one | - |
| `Staff!HonouredKnowsRole` | `Staff` | of two role changes that cross, both write the same `token_version`: a token issued between them is honoured after the second | `docs/SYSTEM_DOCUMENTATION.md:597` |
| `Staff!RefusedUnseen` | `Staff` | a page reached by a link is rendered, and fetches, before the guard refuses it | - |
| `Payroll!PaidOutOnce` | `Payroll`, `MaxReleased = 2`, `Budget = 4` | a reload shows disbursed records as pending and pays them again | `payroll/page.tsx:1174` |

Three places where texts of the repository disagree with its code, without a behaviour of a model
behind them. `backend/tests/test_rbac_security.py:37` calls the audit log "Admin/Manager
only", and `users/register/page.tsx:52` lists "Audit staff transaction records and
operational activity logs" among a manager's duties; `audit/router.py:64,150` and
`lib/permissions.ts:102,151` admit administrators only. The board asks "Release Unpaid Job
Order?" and offers "Confirm Release (Unpaid)" (`board/page.tsx:2030`), but `executeMoveJob`
refuses every unpaid release (403-411), which is what `Board` models. The password dialog
cannot succeed (see the last section but one).

Three more behaviours the models have are kept out of the passing runs by what the runs
assume, and a reader who changes the assumption sees them: a failure between a
checkout's commit and the saving of its response lets the retry sell again
(`FaultSteps <- WhileSaving` in `PosRetry.cfg`); the edit endpoint releases unpaid job orders
(a body of `update_job_details` with `RELEASED`, against `ByTheBoard`); and two settlements
of a job order without a mechanic can add two commissions when a status move comes
between them, for which reason `PaymentAddsOnlyTheFirst` speaks of job orders with one.

**Bounds.** On the server, three concurrent requests give two that race and a third that
observes or disturbs them; a cycle of two lock waiters needs two parts and two carts; two
keys let a key be reused while another request is in progress. One fault is placed at every
step of every request. Two commissions need two writers and one that changes the row
between them. The proofs remove these bounds for the properties they cover.
In the browser, the hazards are pairs: a handler that waits and a step that changes what
it closed over, or an answer and the loss of another. `MaxCall`, `MaxPut`, `MaxTimer` and
`MaxFetch` bound the handlers that wait, `Budget` the steps the user does not take: losses,
syncs and steps of other users (in `Staff` the requests that change accounts). User steps
are never counted. `MaxPay = 1` in `Till.cfg`: with `MaxPay = 2`, `MaxQty = 1` and `Budget = 0`
its properties hold too (7.9 million states). `MaxText`, `MaxQty`, `MaxSession` and `MaxReleased`
bound data. `SYMMETRY` is used where no property is about liveness.

**Fairness.** `PosRetry`: weak fairness of `ServerStep(r)` for each request. The event loop
schedules a coroutine that can run, and PostgreSQL grants a free lock and runs its
deadlock detector. Since each request is sent once, a waiter cannot be overtaken for ever;
under endless new traffic PostgreSQL's queue of lock waiters would have to be modelled to
say the same. `Session`: weak fairness of what a tab does without anybody's decision
(`Progress(t)`: the service works on a request, the browser delivers an answer or an error,
the guard's effect runs) and of the answer to each call. `Staff`: pages load, the countdown
of the denied page runs, a refresh is answered. Users, failures, time and other people's
steps are not fair anywhere.

**Deadlock** is checked in the runs of `PointOfSale`, `JobOrders` and `Staff` (`Quiet` marks
the states of the first two in which nothing is in flight). The browsers of the other runs
may be left for good once the budget is spent.

## Proofs

All theorems hold for every finite or infinite set of products, jobs, requests, keys and
bodies, tabs, calls, users, commissions, job orders, parts and notes, and every value of
the bounds, under the assumptions the modules declare: ids of different kinds are
different, `Opening` gives each product a stock, inventory requests name one product, a
status request carries a status.

- `TypeCorrect` (`Spec => []TypeOK`), one step per action.
- `LedgerBalanced` (`Spec => []LedgerBalances`), assuming `NoItemEdits`: no one submits the
  edit form, which the first of the refuted statements shows is needed. Committed rows alone are not inductive:
  a commit publishes a draft, so the invariant `BalanceInv` has drafts balance too, and
  `ItemSteps` shows that every action appends one movement computed from the draft,
  publishes it, or takes it back.
- `LedgerImmutable` (`Spec => LedgerOnlyGrows`), from `DraftExtendsRow`.
- `SaleAtomic` (`Spec => []SaleIsAtomic`). Inductive invariant `IInv`: only a running checkout
  or adjustment holds locks (`LocksHeldByHandlers`); drafts extend rows; a handler's `pc`,
  cart position and sale agree (`HandlerProgress`); a checkout still holds the locks of the
  lines it has handled and their deductions are in the drafts, once (`DeductionsSoFar`);
  every movement in a draft belongs to a handled line, and one of an uncommitted sale is in
  a draft only (`MovesAccountedFor`); committed sales keep their movements and settled job
  orders (`SalesRecorded`, `JobsSettled`). The checkout that loses a deadlock is why
  `aborted` is part of it: its drafts and locks are gone, so it must not reach the commit.
- `AtomicShopImplemented` (`Spec => ImplementsAtomicShop`), assuming `NoItemEdits`: no one
  submits the edit form, whose overwrite of the stock `AtomicShop` does not allow. A commit
  is the request taking effect in one step; every other step changes no committed data. The
  invariant `ShopInv` adds to `IInv` and `BalanceInv` that a draft is the committed row and
  one movement for each line its handler has done, in line order (`DraftsAddLines`), that an
  adjustment holds its lock until it commits, that its movement is committed only when it
  is over (`AdjustmentsHoldLocks`, `AdjustmentsAccountedFor`), and that a draft keeps
  `is_active`.
- `CachedReceiptHolds` (`Spec => []CachedReceiptIsCommitted`): a handler that is about to save
  a response has committed (`SavesAfterCommit`), and no later step takes the sale away.
- `OneSalePerKeyHolds` (`Spec => []OneSalePerKey`), assuming `RetriesAfterAnswer`: clients
  wait for an answer before they resend a key and no fault falls between the commit and the
  saving of the response. Both parts are needed: `PosDoubleSubmit` shows two sales under
  one key without the first, and the decorator has no defence against the second. The
  invariant `PatienceInv` says that one attempt per key is in flight, that a handler that
  runs has found no response, and that a sale is known by its response once answered.
- `JobsTypeCorrect`, `NoOrphansHold` (`Spec => []NoOrphans`). The invariant adds that a locked
  job order exists and is locked by a settlement: a deletion waits for the lock, so a
  checkout that locked the row cannot insert a commission for a deleted job order.
- `NoReleaseUnpaid` (`Spec => []ReleasedIsPaid`), assuming `ByTheBoard`: job orders are released
  by the status endpoint only and no edit sets `is_paid` to false. The handler's check is not
  protected by a lock, so the invariant `ReleaseIsCleared` relates what a handler has
  read to the row as it is now: once read as paid, a row stays paid, because every other
  handler writes only the columns it changed; the mutant `WriteEveryColumn` shows that the
  argument rests on the ORM's partial UPDATE. The pages edit notes, the mechanic's name and
  charges only, which is what `ByTheBoard` asks of edits.
- `PaidHasCommissionHolds` (`Spec => []PaidHasCommission`), assuming `PaidAtTheTill`: no create or
  edit sets `is_paid`, and no edit sets `mechanic_id`. No page does either: the board opens a job
  order with `mechanic_name` only (`board/page.tsx:869-876`), and `create_job` stores the body as
  it is, so `mechanic_id` comes from other clients of the API. The invariant `CommissionInv` says that a commission payment-status has found
  is still there when it commits, or gone with its job order (`CommissionFound`), and that
  a checkout settles with the mechanic the locked row has (`MechanicRead`). Without the
  assumption a mechanic assigned to a paid job order has no commission.
- `ClearedReleases` (`Spec => []ReleaseInv`): the invariant of `NoReleaseUnpaid` in full, which
  `JobsFloor` checks, under the same assumption.
- `PaymentAddsOnlyTheFirstHolds` (`Spec => PaymentAddsOnlyTheFirst`), assuming `PaidAtTheTill`.
  `update_job_payment_status` looks for a commission and inserts one later. What keeps two
  settlements apart is the lock its own UPDATE takes at the flush (`SettlesAlone`): from then on
  no other settlement, and no handler with columns to write, can add a commission. A settlement with nothing to
  write has no lock, but it has then read the job order as paid, and a paid job order with a mechanic
  has its commission (`PaidSeen`, with `CommissionInv`), so that it finds one. The invariant
  is `SettleInv`.
- `SessionTypeCorrect`; `TokensAccountedForHolds` and, from its invariant,
  `EndsForAReasonHolds` (`Session`). Inductive invariant `AccountInv`: every token held by the
  browser or carried by a refresh names a session created before (`Numbered`) and is the
  session's current token or on record. A rotation keeps it for every other holder of the
  session because the token it trades in goes on record in the transaction that replaces
  it, and a token that is on record already makes the INSERT fail.
- `QueueHasLeaderHolds`. Inductive invariant `QueueInv`: who leads is who holds the mutex
  (`Led`), the leader waits for one thing only, and while a token of the former release is
  left, a tab waits for a refresh or for the upgrade and not for both (`Waiting`), because a
  failed refresh starts the upgrade anew and would drop whoever waits for the old one.
- `KeepsPromiseHolds` (`Spec => KeepsPromise`): `Session` implements `ServedCalls`. Under the
  mapping `Status` every action leaves the calls alone, makes one, answers the leader and
  the queue together, or unloads those of a page.
- `PayrollTypeCorrect`, `SlipAgreesHolds`, `CountedIsMarkedHolds`. Inductive invariant
  `Payroll!IInv`: a slip is cached under its id and shown on its page only
  (`CacheById`, `SlipOnPage`), and what a timer of the mounted page counted is still in
  the page's list (`CountedIsListed`), which never loses a record while its page stays.
- `LastAdminFallsToACrossingHolds`, `OwnSaveKeepsRoleHolds`, `GuardKnowsRoleHolds`
  (`Staff`). Inductive invariant `Staff!IInv`: what `update_user` and `delete_user` checked
  when they loaded an account still holds at their commit (`LoadedChecked`), as neither the
  sender nor the body of a request changes. For the third theorem, a token of the browser or of
  a request is never newer than its account (`Signed`), an account is registered with a version
  no token names (`RegistersNew`), and a token with the version of its account carries its
  role (`TokenKnows`), unless two changes of that account have crossed.
- `StaffTypeCorrect` (`Spec => []TypeOK`). `TypeOK` is not inductive: a redirect goes to the
  page that the denial chose, so `TInv` adds that a refused screen knows one; and an update writes
  the role the request was loaded with or sends, so it takes `LoadedChecked` to know that no
  update leaves an account without a role.
- `BoardTypeCorrect`, `ReleasedOnlyPaid` (`Spec => []PaidBeforeRelease`), `CounterListAgrees`
  (`Spec => []CashierListAgrees`), `GhostsOnlyFromOldLists` (`Spec => GhostsAreStale`). A handler
  of the board takes a list before its await and writes the whole list back after it, so
  the invariant `Board!IInv` has every list that can be written sound (`Sound`): the caches, the
  page, the answers on their way and what the closures hold (`ListsSound`), and the
  server's rows (`RowsSound`). A list stays sound while it waits because the ids that exist
  (`Known`) and the reasons to count an order as paid (`WhyPaid`) only grow, which is all
  the argument needs of the steps in between.
- `TillTypeCorrect`, `CartAlwaysHasCustomer` (`Spec => []CartHasCustomer`), `LogAgreesWithServer`
  (`Spec => []LogIsTrue`), `InvoiceListedOnce` (`Spec => []ListedOnce`), `PaidStaysAway` (`Spec =>
  PaidNotOffered`). The payments carry the invariant `Till!IInv`, and not the pages, which may
  be left or reloaded while a payment waits: a payment keeps its job, lines and amount, the sale
  the server recorded for it has the same ones, however late it commits, and once it is past
  the service it is in the log (`Recorded`). An entry of the log leads back to the payment that wrote it
  (`Payer`), under an id that no other payment has, so no id is logged twice (`LogAgrees`). The
  counter keeps its customer because the effects that follow each change of the list
  or the selection put it right again (`CustomerKept`).
- `JobCardTypeCorrect`, `OthersNotesStay` (`Spec => OthersNotesKept`), `PaidTracesStay` (`Spec =>
  PaidNotPurged`). The handlers address an entry by its place in the log. `JobCard!IInv` says that
  the page shows the log which is stored, until the order is deleted (`LogShown`), and that the
  entry being edited and the one about to be deleted are two entries of the
  reader's own (`Opened`), which a deletion before them must keep true; the lemmas
  `AppendOwn`, `EditOwn` and `RemoveOwn` say that changing one's own entries leaves those of
  others alone, in order. For the traces, an order that was paid when its deletion was
  confirmed is still paid when the server looks, so the deletion never passes the check
  (`PaidStopped`); one that is paid later is out of its reach, as `PaidTracesKept` shows.

Model-checked only:
- the properties of `Catalog` (`GoneNotListed`, `OwnNotRevived`, `FreshListOnce`,
  `RegistryAgrees`). Its lists are filtered and merged sequences (`SelectSeq`, `SetToSeq`), whose
  definitions take an operator or a recursion over the sequence, so that nothing about
  their elements can be derived without induction over data;
- liveness under fairness (`EventuallyAnswered`, `CallsSettle`, `GuardDecides`, `DeniedSettles`) and
  ENABLED, which are beyond the prover.

The other properties of the passing runs are theorems. No module declares a RECURSIVE
operator.

## What is abstracted, and what is not modelled

- Prices, discounts, totals, invoice numbers, customer fields, charges and commission
  amounts: no property tells them apart. `payment_status` is written with `is_paid` by every
  handler but the edit endpoint, and is left out. `Till` keeps one price, so that cash and
  discounts can disable the button.
- The 24 hour expiry and the request hash of idempotency rows. The requests of one key carry
  one body. The pages use a new key for each call, so two requests with one key are those
  of an API client that retries, as `tests/test_sales.py` does.
- `create_motorcycle` and the audit endpoints: they interact with nothing here. `patch_user`
  changes names, e-mail and avatar. `change_password` ends the sessions of its user and raises
  `token_version` (`auth/router.py:315`), as a logout elsewhere would; it is left out because no
  page gets it to succeed (see the password dialog below). Adjusting an item that is no PRODUCT.
- `Session`: a refresh that failed is followed by one upgrade for all who waited for it, where the
  interceptor and the guard send one each. `Staff` follows no expiry of tokens, which
  `Session` does.
- `Board`, `JobCard`: a payment at the counter in another tab marks the order and settles it, or
  fails to, in one step; the counter's own steps are in `Till`.
- The audit insert may fail at any time (`LogAudit`), whatever the reason. `core/audit.py`
  writes its parameter as `:details::jsonb`; whether the driver accepts that is outside
  this model.
- The password dialog sends `old_password` without a confirmation, which the endpoint's
  schema refuses, so it always ends in an error.
- Dashboards, reports, customer history and the audit log page fetch, filter, add up and
  print; they change no state that another part reads. The documents, the theme, the
  legal pages, the layout and the client's audit posts are the same.
- General preferences, avatars, the staff list and the audit tab of the settings page.
- Two tabs on one page: but for the refresh cookie (`Session`), one tab at a time is followed,
  so two tabs that overwrite each other's localStorage are not.
- The legacy services and their outbox: `docker-compose.yml` and `template.yaml` start
  `app.main` only, which serves every route.

## Plan

1. Done: the server (`PointOfSale`, `JobOrders`), sessions (`Session`), the browser's pages
   (`Till`, `Board`, `JobCard`, `Catalog`, `Payroll`, `Staff`).
2. Done: proofs of every safety and action property that a passing run checks outside
   `Catalog`, and of both refinements.
3. Open: `RegistryAgrees` and `OwnNotRevived` of `Catalog`, which need its lists as functions on
   ids rather than sequences.
