# A verification model of REVA One-Tap Menu

REVA One-Tap Menu is a multi-restaurant QR ordering system: guests scan the code
on their table, order rounds from their phones and ask for the bill; waiters,
kitchen, counter and administrators work on dashboards; a FastAPI backend keeps
everything in PostgreSQL and pushes events to browsers over WebSockets. This
directory holds TLA+ modules translated from its source, the TLC configurations
that check them on small instances, and proofs checked by TLAPS.

All paths below are relative to `src/`; `services/`, `api/`, `models/`, `core/`,
`jobs/`, `realtime/` and `payments/` stand for the directories of that name in
`backend/app/`.

## 1. The system

### Components

| Component | State it keeps | Operations | What makes it correct | Here |
|---|---|---|---|---|
| Orders (`services/order_service.py`, `order_state.py`) | `orders`, `order_items` | place/append, request bill, start billing, finish meal, reopen, approve, reject, item transitions, ticket reprint | one live order per table; a ticket per accepted item; finished items stay finished; appends only where allowed | `TableOrders` |
| Table sessions (`services/session_service.py`, `api/scan.py`, `api/session.py`, `core/deps.py`) | `table_sessions`, `tables` | scan, check, expire, invalidate, (de)activate a table | one usable session per table; a table switched off takes nothing | `TableOrders` |
| Invoices and payments (`services/invoice_service.py`, `payment_service.py`, `payment_state.py`) | `invoices`, the order's status | generate, one-tap bill, counter payment, gateway intent and callback, override, close unpaid | settled once, for good; the books match the floor; no lock is kept for ever | `Billing` |
| Numbering (`services/numbering_service.py`) | `restaurant_counters` | next number in the caller's transaction | distinct and gapless | `Numbering` |
| Gateways (`payments/`, `api/webhooks.py`) | external | create intent, verify callback | reports come late, twice or never | environment of `Billing` |
| Offers and prices (`services/pricing_service.py`, `offer_service.py`) | `offer_windows`, their products | resolve a price; create, edit, switch and delete an offer | the best offer wins; an offer has something to price | `Pricing`, `Offers` |
| Kitchen-ticket queue (`services/kot_print_service.py`, `api/printworker.py`) | `kot_print_jobs`, the worker's token | enqueue, fetch, acknowledge, rotate | marked printed means taken by a printer; every ticket gets there | `TableOrders` (enqueueing), `KotQueue` |
| Waiter calls (`services/waiter_call_service.py`) | `waiter_calls` | call, attend | a tap gets a call that is open after it; a call is credited once | `WaiterCalls` |
| Staff sessions and accounts (`services/auth_service.py`, `staff_service.py`, `superadmin_service.py`) | `users`, refresh and reset tokens | log in, rotate, log out, reset; create, switch off and on, re-role, rename | one session per account; a link is used once | `Accounts` |
| Push (`services/push_service.py`) | `device_tokens` | register, log out, send, retire | the retry finds the winner's row | `PushDevices` |
| Menu (`services/menu_service.py`) | `categories`, `products` | create, move, hide, show, delete; the guests' page | the tree shows what is live, whatever it has become, and the page beside it only specials | `Menu` |
| Menu import (`services/product_import_service.py`) | the same rows | plan, commit | all or nothing | `ProductImport` |
| Settings and pictures (`services/menu_service.py`, `image_service.py`, `api/settings.py`, `admin_menu.py`) | `restaurant_settings`, files | upload, remove, geofence | a URL names a file that is there | `MenuSettings` |
| Realtime (`realtime/`, `api/ws.py`, `frontend/src/features/realtime/ws.ts`) | tickets and sockets in memory, the page's client | issue, redeem, register, broadcast, heartbeat, reconnect, destroy | no ghosts; one socket per page; pages come back | `Realtime` |
| Nightly report (`jobs/nightly_report.py`) | `daily_report_sends` | claim, send, record, give up | a report a day, and one more per outage at most; the day is settled | `NightlyReport` |
| AR pipeline (`services/ar_pipeline.py`, `ar_service.py`) | `generation_jobs`, product model, annotations | upload, click, run, converge, fail, verify, publish | no product stays in progress | `ArModels` |
| Contact and receipt (`services/customer_service.py`, `receipt_email.py`) | links on order and invoice, `receipt_sent_at` | capture, send | the visit's bill; whoever completes the pair mails; repeats only in overlap; the payer stays | `Receipts` |
| Browser state (`frontend/src/features`) | cart, print queue, API client | refresh, print | - | its realtime client only |
| Plans, dashboards, reports' figures, e-mail layout, tenancy, limits, deployment | - | - | - | not modelled |

### How they interact

Everything shared is a PostgreSQL row, at READ COMMITTED. A scan and an append
lock the TABLE row. Staff handlers lock the ORDER row (or one ITEM row).
Payments lock the INVOICE row and then the order; `close_unpaid` locks the order
and then its invoices. A transaction that creates an order or an invoice also
locks the restaurant's counter row. Closing an order, by any path, clears the
bill request and invalidates the table's sessions
(`_close_order_and_reset_table`); the session's end opens the grace window in
which a contact may still be left. Events, e-mails and pushes are sent after the
commit. The kitchen ticket is a row inserted in the transaction that accepts the
items; the printer worker, a program of its own, polls it over HTTP. Login locks
the USER row, rotation the TOKEN row. Menu, offer and settings handlers lock
nothing: a request writes the columns it changed relative to what it read.

### What is hard

- A guest's request decides on rows read without a lock: its session, the
  order's status, the approval setting. Staff move the order meanwhile.
- Two lock orders meet (payment and close).
- Gateway callbacks arrive late, twice, in any order, or never.
- Staff clients retry with an idempotency key; workers retry acknowledgements.
- The first row of a counter, the first session, order and call of a table, the
  settings row, a device and a ledger row are inserted by whoever comes first;
  the others must notice, by a lock, a unique index or a second read.
- An UPDATE sees the rows of its snapshot; what is inserted meanwhile escapes.
- An order can be reopened, which runs it through its states again.
- Any transaction may roll back, any process may be restarted, and what happens
  outside the database (paper, mail, files, sockets) does not roll back with it.
- A half-open connection tells neither end.

`PROJECT.json` lists the hazards one by one, with the source line and the
property that would catch each, and says of those without a property why.

## 2. The modules

| Module | Kind | Content |
|---|---|---|
| `OrderLifecycle` | abstract | the orders of one table, seen from outside |
| `Settlement` | abstract | an order is paid once or written off once |
| `TableOrders` | component | sessions, rounds, gate, items, tickets and billing states of one table |
| `Billing` | component | bills, payments, gateway callbacks and closes of several orders |
| `Numbering` | component | the gapless counter |
| `WaiterCalls`, `Receipts`, `Pricing`, `Offers` | components | what guests meet beside ordering |
| `Accounts`, `PushDevices`, `Menu`, `ProductImport`, `MenuSettings` | components | what administrators and staff work on |
| `Realtime`, `ArModels`, `KotQueue`, `NightlyReport` | components | services that run on by themselves |
| `TableOrdersProofs`, `BillingProofs`, `NumberingProofs`, `WaiterCallsProofs`, `ReceiptsProofs` | proofs | one component each, section 6 |
| `MenuProofs`, `BackofficeProofs`, `ServicesProofs` | proofs | `Menu`, `Offers` and `Pricing`; `PushDevices`, `ProductImport`, `MenuSettings` and `Accounts`; `KotQueue`, `NightlyReport`, `Realtime` and `ArModels` |
| `MCTableOrders`, `MCBilling` | TLC | one component, with symmetry |
| `MCGuests`, `MCRowLocks`, `MCBackoffice`, `MCServices` | TLC | several components side by side |

`TableOrders` instances `OrderLifecycle` with the status column; `Billing`
instances `Settlement` with a function of order and invoice statuses, and
`OrderLifecycle` for each order. Operators commented "Mutant" are not part of any
specification: each is a definition as a plausible bug would have it, for
checking that the property named for it in `PROJECT.json` would notice.

The last four MC modules put components side by side that share no row. A
selector (`guests`, `locked`, `office`, `service`) is chosen in the initial state;
the chosen component moves, the others keep their initial state, so one run
explores the disjoint union of the state spaces, and each component's fairness is
stated for the behaviours that are its own. Components that do share rows are in
one module: sessions, orders, items and tickets in `TableOrders`; orders, invoices
and payments in `Billing`; tokens, links and accounts in `Accounts`; pages,
tickets, handlers, registry and sweeps in `Realtime`.

What holds of all of them: a handler that locks its row in its first statement
and holds it to its commit is one action; one that reads, decides and writes
later is several, with what it has read kept in its own variable; a commit
together with the constraint checks that may refuse it is one action. A refusal
that changes nothing and that a client can only repeat is left out, except those
that end a request under way. Names, texts, times and amounts are model values or
booleans unless a property is about them.

### TableOrders

One table. Tables share no row but the counter, so one is enough. State: the
`orders` rows (status, whether `bill_requested_at` is set, the session that
opened it), the `order_items` rows (status, order, number of first tickets), the
`table_sessions` rows and which of them have outlived `expires_at`, the approval
setting, `tables.is_active`, the items listed on reprints, and for every guest
request under way what it has read so far (`req`).

| Code | Actions |
|---|---|
| `scan_qr`, `create_or_reuse_session` | `ScanTable` (active check, no lock), `FindSession` (table lock, then answer or go on), `CreateSession` |
| `get_current_session` | `Admit`, or `FindExpired` then `MarkExpired` |
| `invalidate_session_endpoint` | `InvalidateSession` |
| `place_or_append` | `LockTable` (table lock, order read) or `RefusePlace`; `CommitPlace`; `Abort` |
| `request_bill` | `ReadForBill`, `StampBill` |
| `staff_start_billing` | `StaffStartBilling` |
| `transition_order` | `FinishMeal`, `Reopen` |
| `approve_/reject_pending_items` | `ApprovePendingItems`, `RejectPendingItems` |
| `transition_item` (kitchen, waiter) | `TransitionItem` |
| `request_kot_print` | `RequestKotPrint` |
| `close_unpaid`, any payment, `quick_bill_and_close` | `CloseUnpaid`, `Settle`, `QuickBill`, all through `CloseOrderAndResetTable` |
| `update_settings`, `update_table` | `ToggleApproval`, `ToggleTable` |

Details that are easy to miss. The insert of an item takes a key-share lock on
its order, which waits for a staff handler holding the row but does not look at
the status that handler wrote: hence `CommitPlace` has no guard on the order.
The gate is read in `CommitPlace`: the code reads it somewhat earlier, under the
table lock, and nothing but another append of the table reads it, so a toggle in
between could as well come after the commit. Staff may invalidate a session
that has expired. Items move on whatever the state of their order. Worker mode
of the kitchen printer is assumed (`print_kot_enabled`, `kot_print_mode =
"worker"`); in browser mode tickets are events, not rows. `order_enabled` is
assumed.

### Billing

Several orders, each with the items, invoices and callbacks it gets. An order
starts OPEN; how it came about is `TableOrders`. An append is two actions
(`BeginAppend` reads OPEN, `FinishAppend` inserts later). A transaction that locks
one row is one action; one that locks two is two actions with the first lock held
in between (`proc`): `LockInvoice` (for `RecordCounterPayment`, `ManualOverride`,
`HandlePaid`) then `CommitPayment` or `RefusePayment`, and `LockOrder` then
`CommitClose`. `AbortDeadlock` is PostgreSQL's: of a payment and a close that wait
for each other either may be the victim. `Crash` rolls a thread back. Amounts are
abstracted away; an invoice keeps the set of items it was computed from.
A gateway may be asked to collect a bill whose status update then fails
(`CreatePaymentIntent`), reports any outcome for it (`GatewayReports`), and a
report is delivered any number of times (`HandlePaid`, `HandleFailed`). Replays
that the code answers without a change have no action.

### Numbering

One counter row and its callers. `SelectNothing` and `InsertFirst` are separate,
so that two callers may both find no row; the unique constraint makes the second
insert wait (`holder`) and then either succeed, if the first rolled back, or go
through `InsertConflict` and `RelockAndIncrement`. `Commit` and `Rollback` are the
caller's.

### What guests meet

| Module | Code | Actions and operators |
|---|---|---|
| `WaiterCalls` | `create_call` | `FindCall` (reuse the open call or go on), `InsertCall` (the unique index may refuse), `RereadCall` (`scalar_one`, which fails if the call is answered meanwhile: the tap is an error), `AnswerTap` |
| | `attend_call` | `OpenCall` (row lock), `AttendCall`, `AttendAborts` |
| `Receipts` | the visit, as far as it matters here | `Sit`, `OrderMeal`, `MakeBill`, `PayAtCounter`, `QuickBillAndClose`, `PayElsewhere` (gateway and override, which mail nothing), `WriteOffMeal`, `GraceEnds` |
| | `capture_contact` | `Submit` (session check, grace window), `FindBill`, `LockBill`, `BillWasVoided` (the locked row no longer matches), `RefuseSecondPayer` (409), `Attach` |
| | `send_receipt` | `Reload` (the invoice as the request has it, loaded after its own commit), `LockReceipt` (waits for the row, judges what was loaded), `StampReceipt`, `Dispatch`, and `ServerDies` anywhere |
| `Pricing` | `build_price_book`, `PriceBook.resolve`, `apply`, `is_live` | `Live`, `IsLive`, `Apply`, `Resolve`: pure operators, asked for every anchor price under every book of the bounds |
| `Offers` | `create_`, `update_`, `set_enabled`, `soft_delete` | `ReadOffer`, then `UpdateOffer`, `SetEnabled` or `SoftDeleteOffer`, which write the columns that differ from what was read and delete the product rows that were read |

`Pricing` rounds half up on integers (a price in paisa, a rate in per cent), as
`quantize(Decimal("0.01"))` does; it has fixed and percentage discounts, floors,
days, hours, and items by product and by category. The menu and the order ask one
`PriceBook` for the same anchors (a product's base price and its variants' prices), so
that the two agree given one book needs no property.

`Receipts`: `send_receipt` selects the invoice FOR UPDATE, without `populate_existing`.
The session of the request holds the invoice already (`payment_service.py:223` and `:580`
refresh it for the events, `customer_service.py:248` reloads it to look at its status),
and SQLAlchemy does not overwrite a loaded object with the row a query returns; so the
lock makes the request wait, and what it decides on is what it had loaded. `forgone`
records the bills whose receipt a crash dropped, or a payment that mails nothing.

### What administrators and staff work on

| Module | Code | Actions |
|---|---|---|
| `Accounts` | `authenticate`, `issue_tokens` | `Authenticate`, `LockAccount` (row lock; what tokens it will revoke), `IssueTokens` |
| | `rotate_refresh`, `revoke_refresh` | `LockToken`, `Rotate` or `Eject`; `Logout` |
| | `request_password_reset`, `reset_password` | `Forget`, `MailLink`; `LockLink`, `RevokeSessions`, `SetPassword`; `LinkExpires` |
| | `staff_service`, `superadmin_service` | `CreateRestaurant`, `CreateStaff`, `DeactivateStaff`, `ReactivateStaff`, `ChangeRole`, `ChangeEmail`, `SwitchRestaurant` |
| | PostgreSQL | `AbortDeadlock` |
| `PushDevices` | `register_device`, `deactivate`, `notify` | `LookUp`, `SaveDevice`, `InsertDevice`, `Reread`; `LogOutDevice`; `Notify`, `Retire`, `SendEnds` |
| `Menu` | `menu_service` on categories and products | `CreateCategory`, `CheckMove`, `CommitMove`, `HideCategory`, `ShowCategory`, `DeleteCategory`, `CreateProduct`, `UpdateProduct`, `DeleteProduct`; the tree is `MenuTree` and `MenuProducts`, the page also has `Specials` (`PageProducts`) |
| `ProductImport` | `commit_import` | `Plan`, `ReadCategories`, `BuildProduct`, `CommitImport`, `RollBack`, beside `EditCategory` and `DropCategory` |
| `MenuSettings` | uploads, removals and the geofence | `StoreUpload` (the disk first), `OpenSettings`, `CreateSettings` (the unique index), `WritePicture`, `DeleteFile`, `SetPhoto`, `RemovePicture`, `PutFence`, `WriteFence`, `DieInRequest` between any two |

A row inserted by another transaction escapes an UPDATE whose snapshot is older:
`Accounts` keeps for each request the rows its UPDATE has seen. That a rotation
cannot insert a token while a login holds the user row comes from the foreign key,
whose check takes a KEY SHARE lock that FOR UPDATE excludes; without it the
account would end with two sessions.

The guests' page is a function of the tables at one moment. The code loads it with several
statements (`get_customer_menu`, `get_todays_specials`, settings), each with its own
READ COMMITTED snapshot, so a page loaded during a commit may mix two moments; it is a
read that decides nothing, and the property is about the tree it finds.

### Services

| Module | Code | Actions |
|---|---|---|
| `Realtime` | `ws.ts` | `Mount`, `Mint`, `MintFails`, `Reconnect`, `OnClose`, `ForceReconnect`, `Destroy` |
| | `tickets.py`, `auth.py`, `ws.py` | `AcceptTicket`, `RefuseTicket`, `TicketExpires`, `Deregister` |
| | `manager.py` | `StartSweep`, `Send`, `SendFails`, `EndSweep`, for the heartbeat and for a broadcast |
| | environment | `Cut`, `Restart`, `ChangeBucket`, `Invalidate` |
| `ArModels` | `ar_service`, `ar_pipeline` | `UploadView`, `Click`, `PickGeneration`, `LockGeneration`, `Generated`, `GenerationFails`, `PickMarking`, `FlushMarking`, `Marked`, `MarkingFails`, `Converge`, `FailProduct`; `AddTag`, `VerifyTag`, `DeleteTag`, `Publish`; `RestartBackend` |
| `KotQueue` | `enqueue`, `fetch_pending`, `ack_jobs`, token handling | `EnqueueJob`, `FetchPending`, `AckJobs`, `RotateToken`, `SuspendRestaurant`; the worker's `PrintTicket`, `SwallowTicket`, `Jam`, `AckLost`, `Crash`, `Configure` |
| `NightlyReport` | `run_once` and below | `BuildReport`, `InsertLedgerRow`, `LockLedgerRow`, `SkipDay`, `LeaveSettled`, `MailReport`, `MarkSent`, `RecordFailure`; `Midnight`, `ClosingTime`, `SwitchReport`, `SettleBill`, `RestartReplica` |

`Realtime`: code between two awaits is one step. The printer worker is not in the
repository; `KotQueue` models it from the endpoints' contract and from what
`docs/KOT_PRINTER_SETUP.md` says of it: it may acknowledge what its printer took and
never put on paper (`:145`, `SwallowTicket`). A page that has no
credential waits for one and is not modelled. In `Receipts` a session ends with the
closing of its order only; staff's invalidation of it is in `TableOrders`.

## 3. What the runs show

| Run | Instance | Shows |
|---|---|---|
| `table_rounds` | 2 orders, 2 items, 1 session, 2 requests | types, `OneLiveOrder`, `TicketedOnce`, `InactiveTableTakesNothing`, `ItemsSettle`, `TableOrders` implements `OrderLifecycle` |
| `billing` | 2 orders, 2 items, 2 invoices, 2 threads, 1 key, 2 transactions | `OneActiveInvoice`, `BooksMatchFloor`, `CreditsAreReported`, `SettledForGood`, `Billing` implements `Settlement` and takes only `OrderLifecycle`'s steps |
| `guests` | scans: 2 sessions, 2 requests; calls: 3 rows, 2 taps, 2 waiters; receipts: 2 parties, 2 servers; prices: prices to 3, 2 offers; offers: 2 products, 1 category, 2 editors | `OneLiveSession`, `CreditedOnce`, `TapRingsForThisGuest`, `RepeatsOverlap`, `PairCompleted`, `PayerStays`, `BestOfferWins`, `OfferHasTarget` |
| `row_locks` | table: 2 requests; bills: 1 order, 2 invoices, 2 threads; counter: 3 callers, 6 documents; fair | `Gapless`, `RequestsAnswered`, `LocksReleased`, `EveryoneDraws` |
| `backoffice` | accounts: 2 users, 2 addresses, 3 tokens, 1 link, 2 requests; 2 phones; menu: 3 categories, 1 product, 2 movers; import: 2 files at once; settings: 2 slots, 3 files, 2 requests | `OneSession`, `LinkUsedOnce`, `RetryFindsDevice`, `MenuShowsWhatIsLive`, `AllOrNothing`, `PicturesExist` |
| `services` | realtime: 1 page, 2 sockets, 2 buckets, 2 faults; AR: 2 tasks, 2 pairs of jobs, 1 restart; 3 tickets, 2 workers, 2 mishaps; 2 replicas, 2 days, 2 attempts, 1 outage; fair | `NoGhosts`, `OneSocketPerPage`, `PrintedWasTaken`, `OneMailPerOutage`, `GenerationAttended`, `PagesRecover`, `GenerationEnds`, `TicketsReachKitchen`, `DaySettles` |

The four composed runs have between seventy thousand and two million distinct
states, and take one to three minutes with two workers.

What the properties mean, where the name does not say it:

- `OneSession`: logins, rotations and resets that overlap in any order leave at
  most one live token, and of two tabs that present one token one gets a successor.
- `TapRingsForThisGuest`: a guest who is told that the waiter is called was given
  a call that was open after the tap.
- `MenuShowsWhatIsLive`: a product is in the tree exactly when it and all above it,
  up to a root, are live; the tree may have become a cycle meanwhile. The page has
  beside it only today's specials, which need be live themselves, not above.
- `PicturesExist`: deleting the file an upload replaced never takes the one that
  another upload has put there, wherever a request dies.
- `RepeatsOverlap`: a bill's receipt is mailed no more often than requests are served
  at the same time: who loads the bill after a claim was committed does not repeat it.
- `PairCompleted`: a paid bill with an address has had its receipt mailed, or a request
  is on its way to send it, unless a crash or a payment that mails nothing dropped it.
  Neither the payment nor the capture may leave it to the other.
- `SettledForGood`: PAID, FAILED and VOID are final for every path, the override too
  (section 4).
- `PrintedWasTaken`: a ticket marked printed was taken by a printer, and is on paper
  unless that printer swallowed it; none is on paper twice before the first mishap
  (a crash, a jam, a swallowed ticket, a lost acknowledgement, a shared token).
- `OneMailPerOutage`: one message a day, and one more at most for each restart between
  sending and committing and each lost answer of the provider.
- `GenerationEnds`: a product in progress leaves that state, unless the process
  was restarted and nobody has clicked since.
- `PagesRecover`: a page that is connecting, open or waiting is connected again
  and again, unless its credential ended or the client stopped.

Bounds. The constants are sets of row identities: the runs stop when rows run
out. Two orders are needed for a second party (its first round is then one a
request of the first session was admitted for, or one of a session still live
after the first order closed), two items for a batch that is split between two
rounds, two sessions for one that replaces another, two requests or threads for
a race. No property relates three rows of a kind; two invoices let an order be
billed, fail or be voided, and be billed again, and two transactions let a
failed attempt be followed by a paid one. `MaxDocuments` bounds the counter; it
comes after the race for the first row, which needs three callers so that one can
lose to another that rolls back. Three tokens let two successors of one exist;
three waiter calls let a tap meet an answered one, an open one and a new one;
three categories are enough for a cycle, a branch and a depth beyond `MaxDepth =
2`; three files let two uploads replace one. `FetchLimit` is 2 for three tickets
where the code has 20, so that a batch leaves one behind. `Copies` bounds the ids
of an offer's product rows. `MaxFaults`, `MaxRestarts`, `MaxMishaps` and
`MaxOutages` bound the faults: each is enough for a fault to hit the recovery
from another or, where it is 1, every step. Prices run to 3 paisa, so that rounding
of a percentage and the floor both decide. Where two parts of a run use sets of the
same size they are given the same values, so one small symmetry group serves both;
symmetry is used in safety runs only, and no run with a liveness property has it.

`CHECK_DEADLOCK FALSE` is set where the system really comes to rest: every order
is closed (`Billing` and its runs, `row_locks`), every row that may be inserted
is (`guests`, `backoffice`), the bounds on faults and days are used up
(`services`, `report_twice`), every party has left (`receipts_visit`,
`receipts_twice`).

Runs that must fail, each for a sentence of the repository the code does not keep:

| Run | Sentence | What TLC finds |
|---|---|---|
| `table_late_item` | `order_service.py:17` "Appending items is only allowed when the order is OPEN." | an append that read OPEN inserts after the order moved on |
| `billing_reopen` | `payment_service.py:423` "no active invoice should exist on an OPEN order" | reopening keeps the invoice |
| `billing_own_invoice` | `api/invoices.py:77` "the most-recent non-VOID invoice" | `scalar_one_or_none()` over a FAILED and a new one |
| `receipts_visit` | `customer_service.py:147` "The invoice belonging to THIS session's visit" | until the visit's bill is made the newest is the previous party's, and its receipt is mailed to the new guest |
| `receipts_twice` | `receipt_email.py:61-62` "Two concurrent callers cannot both get past it" | the second waits for the row and judges the invoice it had loaded before |
| `report_twice` | `nightly_report.py:13-14` "a restart can never double-send"; so `main.py:59-60`, `models/daily_report_send.py:23-24` "makes a second send impossible" | a restart between the mail and the commit of its row; the next tick mails again |

## 4. What else the modelling showed

Behaviour of the code, visible in the models or met while writing them, that no
run carries as a finding; a maintainer may want to decide on each.

- `payment_service.py:82-84` says that clearing `bill_requested_at` on close cures
  that "a reopened order came back still flagged". Closed orders are not reopened
  (`order_state.py:26`); an order reopened from MEAL_FINISHED keeps its stamp
  (`Reopen` in `TableOrders`) and passes the billing gates without a fresh request.
- `api/invoices.py:77` "for the current table's order": lines 80-86 select every
  MEAL_FINISHED or CLOSED order the table ever had with `scalar_one_or_none()`, which
  raises for the second party at a table, without any race.
- `payment_service.py:24` and `:899-901` say that the override marks "any non-PAID
  invoice" PAID. It asks `assert_valid_invoice_transition`, which has no way out of
  FAILED or VOID (`payment_state.py`): those are refused. `SettledForGood` is about
  the code.
- `auth_service.py:288-289` "forcing re-login everywhere": a login or a rotation
  that commits while a reset runs keeps its token. Two reset requests at once
  leave two live links. A deactivated user's tokens are alive again on
  reactivation. `update_admin_email` looks for a conflict among inactive users
  too. Two administrators can switch each other off (`staff_service.py:97`).
- A tap whose race was won by a call that is answered at once ends in
  `scalar_one()`'s error.
- Receipts are mailed for counter payments and one-tap bills, not for gateway
  payments and overrides. A contact that races the making of the bill may be
  acknowledged and attached to nothing that reaches it. A token in its grace window attaches its
  contact to the next party's live order. A new party is refused (409) when the
  previous party's bill has a payer.
- Two moves of categories, each checked, can close a cycle, which then drops out
  of the page; the depth of a moved subtree is not counted (`menu_service.py:295`).
- Overlapping edits of an offer mix the columns of one form and the products of
  another; a mixture the CHECK refuses is a 500. A retired offer may stay enabled.
  The floor warning looks at `base_price` only.
- `pricing_service.py:27` "A badge means a real saving": `menu_service.py:1191-1196`
  takes the badge from the base price first, also for a product with variants, which is
  never charged at it; such a product may have a badge though no variant is cheaper.
  Menu and bill are computed at different times, so that they agree is a statement
  about one book.
- `get_todays_specials` (`menu_service.py:1234-1262`) looks at no category: a special of
  a deleted category, or below a hidden one, stays on the page though its category is
  not.
- Two imports of one file at once both insert: the second is a no-op only when it
  starts after the first has committed.
- The loser of the settings row's first insert gets a 500; a replaced or abandoned
  picture may stay on the disk, and a product's replaced photo always does.
  `schemas/menu.py:228` "set back to null" is not what `update_settings` does.
- `docs/KOT_PRINTER_SETUP.md:130-131` "each ticket still prints exactly once" does
  not hold for two workers that share a token, nor over a lost acknowledgement; and
  `printed_at` is the worker's word: with a wrong printer name it acknowledges what is
  on no paper (`:145`), and nothing tells the kitchen.
- The nightly report of a day that was not settled by midnight is never sent; a
  restaurant that closes after midnight is sent the new day; bills settled after
  the tick are missing; a test send bypasses the ledger.
- A second pipeline may run the jobs of another and redo or clear its drafts; a
  process that dies between the two commits of a failure needs two clicks.
- A client refused with 1008 gives up, also when its ticket was lost by a restart.
  Sockets of ended sessions and deactivated staff keep receiving until they close.

## 5. Fairness

`TableOrders`: a request that is not waiting runs on to its answer (weak fairness
of the reads, writes and releases); PostgreSQL queues the waiters of a row lock,
so a request for which the table row is free again and again gets it (strong
fairness of `LockTable \/ RefusePlace`). Nothing is assumed of guests, staff or
the administrator. `Billing`: a thread that holds its locks runs to its commit or
answer, and the deadlock detector runs; no thread is assumed to start.
`Numbering`: as `TableOrders`, for the counter row.
`Realtime`: timers fire, the event loop runs what is ready, and a whole connection
delivers (weak fairness of each page, each socket's handler and each sweep); pages
are not assumed to mount, nor sweeps to start. `ArModels`: a background task that
was started runs on, and gets the lock another pipeline lets go again and again
(strong fairness of each task's steps); providers answer or time out. `KotQueue`: a
configured worker polls, prints and acknowledges (weak fairness); that its
acknowledgements are lost for ever is excluded by the bound on mishaps.
`NightlyReport`: each replica's tick loop runs (weak fairness); its steps are
refused only by a lock whose holder runs as well. Clicks, restarts, faults, orders
and the clock have no fairness.

## 6. What is proved

Every safety invariant and action property the passing runs check, and both
refinements, for every value of the constants that satisfies the named
assumptions of the modules. These say that the value standing for "none"
(`Null`, `None`, `NoCall`, `NoGuest`, `NoReplica`, `Nobody`, `NoStaff`, `NoFile`,
`NoOffer`, `NoCat`, and `Editor` among the importers) is not one of the things it
is absent from, and: there is a first day (`ReportAssumption`), a page and a bucket
(`RealtimeAssumption`); the slots are pictures the code has (`SettingsAssumption`);
`Copies` is positive (`OffersAssumption`); there are finitely many requests at a time
(`ServersAssumption`); the bounds of the questions are naturals
(`PricingAssumption`); there are finitely many category rows (`MenuAssumption`).
In each module an inductive invariant (`...Inv`) is established by the initial
states, kept by every action, and implies the property. What the strengthening is for:

- `TableOrdersProofs`: `TypeOK`, `OneLiveOrder`, `OneLiveSession`, `TicketedOnce`,
  `ItemsSettle`, `InactiveTableTakesNothing`, and that `TableOrders` implements `OrderLifecycle`.
  `OneLiveOrder` is not inductive: between the read and the insert of an append
  the database says nothing of what the request is about to do. The
  strengthening adds `OneHolder` (at most one request is past the table lock),
  `PlacingReads` (while a request that saw no live order holds the lock there is
  none: only an append makes one) and `CreatingReads` (the same of sessions: a
  scan that saw none). `PlacingReads` survives every other action because no
  staff action makes a live order out of one that is not live; `CreatingReads`
  because a session is created under the lock only, and none is revived. The
  same invariant shows that `CommitPlace` is the abstract `Open`, whose guard is
  that no order is live. `TicketedOnce` is inductive beside `TypeOK`. For
  `InactiveTableTakesNothing` the invariant is that the table is active while an
  append holds its row, for the switch waits for the row.
- `NumberingProofs`: `TypeOK` (no run lists it; it is the base of the other) and
  `Gapless`. The strengthening says that whoever has drawn a number holds the row
  and has drawn `value + 1` (`DrawnHolds`), and that the value is the number of
  documents.
- `WaiterCallsProofs`: `CreditedOnce` and `TapRingsForThisGuest`. The first
  follows from `AttendingHolds` (who is about to attend a call holds its row, and
  it is open) with `OpenIsUncredited`; the second from `OverIsOver` (an attended
  call stays attended).
- `BillingProofs`: `TypeOK` (proved; no run lists it), `OneActiveInvoice`, `BooksMatchFloor`,
  `CreditsAreReported`, `SettledForGood`, that `Billing` implements `Settlement`, and that
  it takes only `OrderLifecycle`'s steps. A payment and a close are judged at the
  lock and written at the commit, so `BillInv` carries the judgement: `PayHolds` (who
  pays an invoice is alone with it, and it is still collectible), `CloseHolds` (who
  closes an order is alone with it, and it is still live) and `KeyOfPayment` (a webhook
  carries a transaction the gateway reported paid, staff a key of theirs).
  `BooksMatchFloor` and `OneActiveInvoice` are needed for each other: a payment
  closes its order, and no second active invoice is left on it. Attempting the
  proof showed that `CreditsAreReported` must be about transactions that are not
  client keys: both live in `gateway_transaction_id` (`payment_service.py:169-171`,
  `:771`, `:807`), and a key equal to a transaction id would look like one. The
  client's keys are random (`frontend/src/features/counter/counterApi.ts`).
- `ReceiptsProofs`: `PayerStays`, `RepeatsOverlap` and `PairCompleted`. What a capture
  finds under the bill's row lock is still so when it is written (`WriterHolds`). For the
  receipts: once the stamp is committed nobody new becomes due, so what was mailed and
  who is on the way to mail (`OnTheWay`) are together no more than the requests
  (`FewOnTheWay`); a committed claim is mailed, about to be, or lost to a crash
  (`ClaimIsKept`). `MailFrame` is what the steps that neither claim nor
  mail keep of this, `CarryOn` what the others keep for the other requests.
- `MenuProofs`, the menu: `MenuShowsWhatIsLive`, for a menu of any size and shape. The
  invariant is the types; the work is in the walks. A walk that only adds, in a
  finite set, ends after as many steps as there are elements with the least set that a
  step leaves alone (`ReachedIsLeast`). The library's induction theorems
  cannot be used here; `StepByStep` gets induction up to a bound from the
  existence of a least number (well-foundedness of `<`). What the walk down from
  the roots visits is then exactly what is open on the way up (`BuiltIsOpen`),
  and what is above an open category is open (`AboveOpenIsOpen`). Nothing of
  this needs the tree to be free of cycles, which overlapping moves may
  make. For the page it takes in addition that an active
  product has a category (`TreeTypes`).
- `MenuProofs`, offers: `OfferHasTarget` is not inductive. `ProductOutOfReach` says that
  a PRODUCTS offer has a product which no form has read that could delete it and
  leave the target alone; `RowsAreChecked` is the CHECK constraint, for the row and
  for all that was read of it.
- `MenuProofs`, prices: `BestOfferWins`, for prices of any size
  and books of any length. The invariant is the types. A lowest price exists,
  and among the offers that have it an oldest, so `Resolve`'s choice is theirs;
  rounding and clamping keep a price between floor and anchor.
- `BackofficeProofs`: `RetryFindsDevice`; `AllOrNothing` (what an import has built
  so far is of its plan, and what bears its name came with its commit);
  `PicturesExist` (an upload's file is its own until its URL is committed,
  `UploadsApart`; the file a request is going to delete was in its slot only and has
  left it, `OldsLeave`; a free name is nowhere, `FreeUnknown`); `OneSession` and
  `LinkUsedOnce` (per request: the rows its locks are on, and what they keep true - a
  login has seen every session of its account, a rotation's token is still
  good, a reset's link is unused; globally: a token with a successor is revoked
  and has no other).
- `ServicesProofs`: `PrintedWasTaken` (until the first mishap one worker alone holds the
  token, and what is on paper and not marked is in its hands, `Undisturbed`);
  `OneMailPerOutage` (who sends holds the day's row and the day is not settled; beyond the
  outages there is one message, recorded or about to be); `NoGhosts`
  and `OneSocketPerPage` (the page behind a socket that is listened to is connecting
  until the upgrade and open afterwards, and a connecting or open page listens to
  one socket, `Listening`); `GenerationAttended`, the safety half of `GenerationEnds`.
  Alone it is not inductive: a pipeline that finds nothing QUEUED goes on
  without knowing how the jobs ended. `Attended` adds that, unless a failure is just
  about to be written, neither job of the newest pair has failed (`NewestLives`),
  so what is not QUEUED there is DONE; `DoneHasFile` keeps the last step
  from finding the jobs DONE and the model's file missing.

Each proof has a lemma per action or group of actions and a step per conjunct; the
leaves name the definitions they expand.

## 7. Only model-checked, and why

- Liveness (`RequestsAnswered`, `LocksReleased`, `EveryoneDraws`, `PagesRecover`,
  `GenerationEnds`, `TicketsReachKitchen`, `DaySettles`): the prover does not
  reason about fairness.
- That the runs' bounds are enough: the proofs replace that argument where there is
  one; for the liveness properties it stands as in section 3.

## 8. Not modelled, and why

- The invoice's arithmetic (sums of rounded decimals, without state), offer
  suggestions, dashboards and report figures (read-only queries), printed and
  e-mailed layout (formatting).
- Variants, addons and their mappings, the AR viewer's images: rows
  edited like products, without a protocol of their own.
- Plans and feature switches: flags that switch endpoints on and off.
- The pages, the cart and the print station's duplicate filter: state of one
  browser. The page's realtime client is in `Realtime`.
- Signatures, hashing, cookies and the amount check of the gateways are taken to
  hold. Row-level security, rate limits and deployment are PostgreSQL's, slowapi's
  and Caddy's; one restaurant is modelled at a time.
- The model converter, a stateless subprocess.

## 9. Plan

1. Proofs: who may write a product's drafts (`ArModels`); the types of the composed
   runs.
2. Models: the print station's duplicate filter and the single-flight token
   refresh of the browser; variants and addons; the invoice's arithmetic.
