# The restaurant application in TLA+

TLA+ models, TLC configurations and TLAPS proofs for the restaurant application:
the NestJS API under `src/apps/api` (the order desk, with the services it calls
and the accounts of those who use it) and the two screens of the web application
under `src/apps/web` that keep state of their own between calls, the till and the
kitchen board. Paths of services are relative to `src/apps/api/src/modules/`,
those of screens to `src/apps/web/src/app/dashboard/`, unless they start with
`src/`.

## 1. The system

One PostgreSQL database, any number of API processes, and browsers: tills, a
kitchen screen, an owner's dashboard. A handler is an async function that runs
one or more database transactions (`PrismaService.tx`, isolation READ
COMMITTED) and some post-commit work. There is no lock manager besides
PostgreSQL: what keeps two requests apart is a unique index, a row lock a
handler took, a CHECK, or nothing. A screen is one thread of JavaScript: its
handlers run to completion between two awaits, and what it waits for arrives
late, in another order, or not at all.

| Component | State it keeps | Operations | What makes it correct |
|---|---|---|---|
| Orders (`orders/`) | orders, items, events, payments, refunds | create, updateStatus, recordPayment, recordRefund | one order per idempotency key; consecutive numbers; money within its ceilings; endings are final; the timeline tells the status |
| Order pricing (`orders/`, `marketing/`, `loyalty/loyalty.rules.ts`) | nothing | prices of lines, modifiers, combos; tax; three kinds of discount; points and their worth | what the till offers is what the API accepts |
| Inventory (`inventory/`) | append-only stock ledger, recipes | recordMovement, recordAdjustment, setRecipe, depleteForOrder, restockForReversedOrder | a sale takes its stock once, a reversed sale gives back exactly what it took, a retried movement is written once |
| Prepared items (`inventory/prep*`) | batches as slices of the ledger | createBatch, wasteBatch, FEFO allocation | no batch below zero, the earliest expiry first, never an expired one |
| Stock counts (`inventory/stock-count*`) | a count with its lines | start, submit, cancel | submitting sets live stock to what was counted, once; a cancelled count books nothing |
| Procurement (`procurement/`) | purchase orders | create, transition | stock is booked once per order, endings are final |
| Loyalty (`loyalty/`) | append-only points ledger, settings | earn, reverse, redeem, restore, adjust, updateSettings | nobody spends points they do not have; each effect of a sale once |
| Marketing (`marketing/`) | coupons, redemptions | validate, redeem in a sale | a coupon is used maxRedemptions times, or how often it can be exceeded |
| Cash (`cash/`) | till sessions, movements | open, movement, close, report | one open session; a closed session's figures never change |
| Sessions (`auth/`) | refresh tokens in families, a per-user epoch, single-use links | register, login, refresh, logout, logout-all, select restaurant, verify, reset password | one use per refresh token, a reuse ends the family, nothing outlives sign-out everywhere |
| Realtime (`realtime/`) | sockets per user, one room per tenant | connect, join, disconnect, emit, drop at a sign-out | no socket outlives its revocation; the room hears of what was committed |
| Staff (`staff/`) | invites, memberships, attendance | invite, accept, revoke, deactivate, clock, timesheet | an invite admits once; hours pair a clock-in with its clock-out |
| Kitchen screen (`kitchen/kitchen-client.tsx`) | rows on a board, a socket, calls in flight, `busyRef` | load, hear events, move a ticket at once and roll back | a ticket stands where its order is |
| Till (`pos/pos-client.tsx`) | a cart, an order key, a leg key, a panel, calls in flight | fill, charge, hold, resume, split | a cart becomes one order, a tapped leg is recorded once |
| Catalogue, customers, restaurants, menu import | plain rows | maintenance | unique names and phones |
| Reports, analytics, AI assistant, mail | nothing | reads, fire-and-forget sends | |
| The rest of `src/apps/web` | forms | single calls, each followed by a reload | |

Interaction: `OrdersService.create` and `updateStatus` call inventory, coupons
and point redemption *inside* the order's transaction; points are earned and
reversed *after* the commit, best effort, and by recovery endpoints; realtime
events are emitted after the commit, and the kitchen screen hears them through
the gateway's room. A sign-out everywhere (`AuthService`, `StaffService`) tells
the gateway to drop the user's sockets. The till repeats its requests with keys
that the API's unique indexes recognise. Everything else meets in the tables.

Hard to test, and therefore the subject of this project (the list with a line
for each is in `PROJECT.json`, "hazards"): two requests that check the same
rows and both write; a status validated and then overwritten; a retry that
overlaps the request it repeats; post-commit work that is late or never runs;
long sequences of legal calls (hold, resume, pay, void, refund); a sign-out that
crosses a refresh, a selection or a socket on its way in; answers and events
that reach a screen late, twice, in another order or never.

## 2. Modules

| Module | What it is |
|---|---|
| `Sale` | What one order promises, whoever handles it: the abstract specification |
| `Orders` | The order desk: every writing operation of `orders/`, with the inventory and loyalty calls made in and after its transactions |
| `MCOrders`, `OrdersProofs` | Instances for TLC: the drafts the tills send, symmetry; theorems, among them that the order desk implements `Sale` when requests do not overlap |
| `Loyalty` | The points ledger, transactions statement by statement with their locks |
| `MCLoyalty`, `LoyaltyProofs` | Instances for TLC; theorems |
| `StockRules` | The stock arithmetic of `prep.ts` and `stock-count.ts` as operators |
| `Stock` | The stock ledger with all who write it: movements, sales, batches, counts, purchase orders |
| `MCStock`, `StockProofs` | Instances for TLC; theorems |
| `Pricing` | The money rules of a sale as operators: lines, modifiers, combos, coupons, points |
| `Counter` | The counter for one day: sales with discounts, the coupon, the loyalty settings, the cash drawer; extends `Pricing` |
| `MCCounter`, `CounterProofs` | Instances for TLC; theorems |
| `Sessions` | The sessions of one person: token families, the epoch, links, sockets |
| `Staff` | The same person on the staff: invitation, membership, hours; extends `Sessions` |
| `MCStaff`, `StaffProofs` | Instances for TLC; theorems about `Sessions` and `Staff` together |
| `Kitchen` | A kitchen screen and the API it is fed by: commits, announcements, the socket, calls and their answers |
| `MCKitchen`, `KitchenProofs` | Instances for TLC; theorems |
| `Till` | A till and the API it rings orders up with: cart, keys, calls, panel |
| `MCTill`, `TillProofs` | Instances for TLC; theorems |
| `SumLemmas` | Lemmas about sums over finite sets, for the proofs about ledgers and hours |

A model is cut where the code can be interrupted: in the services at the reads
whose answers are relied on later and at every statement that commits by itself,
on the screens at every await. A definition whose name begins with `Mutant` is a
plausible bug in the definition below it; no action uses it. `PROJECT.json`
pairs each checked property with the mutant that breaks it.

### Orders

A request is a record held by one `Worker`; its `pc` names the point where the
handler stands between two database accesses. A handler is cut exactly at the
reads whose answers it relies on later:

| Handler | Steps |
|---|---|
| `create` | `CreateArrive` (validation, replay lookup), or `CreateReplay`; `CreateNumber` (reads max order number); `CreateInsert` (the commit: order, redemption, payment, depletion, CREATED event), or `CreateRetry` (number lost: roll back, again or give up), or `CreateKeyLost` then `CreateLookup` (answer with the winner) |
| `updateStatus` | `StatusRead` (status, whitelist); `StatusWrite` (UPDATE by id, depletion on resume, event, restock on a reversal; the row lock makes it one step) |
| `recordPayment` | `PayRead` (replay, status); `PaySum` (ceiling); `PayInsert` (commit; a settling leg goes on to earn), or `TenderKeyLost` |
| `recordRefund` | `RefundRead`, `RefundSum`, `RefundInsert` (then reverses and restores points), or `TenderKeyLost` |
| `creditLoyalty`, `earnForOrder` | `EarnArrive` (recovery endpoint), `EarnRead`, `EarnWrite` |
| `reverseLoyalty` | `Reverse` (may fail), `Restore`; `ReverseArrive` is the recovery endpoint |
| any | `Abort`: refused by a table that is not modelled, a lost connection, a crash; the open transaction rolls back, committed ones stay |

State: `orders` is the table (status, total, key, number, member, basket);
`captured` and `refunded` are the sums the code computes with aggregates;
`payKey` and `refundKey` are the unique indexes of payments and refunds;
`used` and `returned` are the order's CONSUMPTION and ADJUSTMENT rows in the
stock ledger; `points` its loyalty rows by type (each type at most once, by the
unique index on order and type); `trail` its CREATED and STATUS_CHANGED events.
`answered` is the one history variable: which orders `create` ever returned for
a key.

Abstracted: prices (a draft has a total), which products (a basket counts
units of products and of combos), methods and reasons of payments, permissions,
the audit log and realtime emits (written or sent beside the modelled rows and
never read back), tenants (row-level security separates them: one tenant).
Points are counted in `Orders` by entry type only, with loyalty switched on and
every order worth a point.

### Loyalty

`Orders` takes a transaction that writes under a row lock or a unique index as
one step. `Loyalty` opens it: what keeps a balance honest are PostgreSQL's
locks, so each statement is a step and the locks are state. `locker` is who
holds a customer's row FOR UPDATE (`lockCustomer`), `sharers` who holds the
key-share lock of a foreign key check (an order or a ledger row that names the
customer was inserted), `claim` the index entries of uncommitted inserts and
`index` the committed ones. A statement waits for `Blockers(w)`; commit and
rollback release everything (`Release`).

| Handler | Steps |
|---|---|
| `redeem`, `adjust` | `Redeem`/`Adjust` (arrival), `Lock` (FOR UPDATE), `Balance` or `BalanceRefused` (replay, rules, balance), `Append` or `AppendLost` (unique key), `Commit` |
| `create` with a customer | `Sale`, `SaleNumber` or `SaleRefused` (configuration, number), `SaleInsert` or `SaleRetry` (number index), `Foreign` (key-share), then for a redemption `Lock`, `Balance`, `Append`; `Commit` |
| `earnForOrder`, `reverseForOrder`, `restoreRedeemedForOrder` | `Earn`/`Reverse`/`Restore` (first transaction: read), `Read` (second: is it there, what is it worth), `Append` or `AppendLost`, `Foreign`, `Commit` |
| `updateSettings` | `UpdateSettings`: the rate changes at any time |
| any | `Abort`: refused by what is not modelled, timed out (Prisma ends a transaction after five seconds), crashed |

`balance`, `booked`, `clawed` and `applied` are sums over the committed rows of
the append-only ledger. Abstracted: reward thresholds and currency values (a
redemption is an amount of points), tiers, the activity events. Whether an
order is paid or reversed when it is credited belongs to `Orders`.

### Stock

`Orders` counts the stock an order took and gave back. `Stock` is about what
that stock is: ingredients and batches, and the other services that write the
same ledger. The ledger is append-only and the code reads nothing of it but
sums, so the sums are the state: `stock` (`stockByIngredient`), `left` of a
batch (`remainingByBatch`, which leaves PREP_BATCH rows out), `wasted`, the
CONSUMPTION rows of each sale (`taken`) and how many movements carry a key
(`rows`, under the unique index). `applied`, how often a count or a purchase
order was booked, is the one history variable.

| Handler | Steps |
|---|---|
| `recordMovement`, `recordAdjustment` | `Move` (lookup of the key), `MoveWrite`, or `MoveLost` (the index refuses: answer with the winner) |
| `depleteForOrder` | `Sell` (recipe, batches, FEFO), `SellWrite` |
| `restockForReversedOrder` | `Reverse`: the order's own rows, back to where they came from |
| `createBatch` | `Prepare` (lookup), `PrepareRead` (recipe, scaling, shortfall), `PrepareWrite`, or `PrepareLost` (the key or the code is taken: answer, again or give up) |
| `wasteBatch` | `Waste` (lookup), `WasteRead` (what is left), `WasteWrite` or `WasteLost` |
| stock count | `StartCount` (snapshot), `Submit` (FOR UPDATE, status, live stock), `SubmitWrite`, `CancelCount` |
| purchase order | `Draft`, `Transition` (FOR UPDATE, whitelist), `TransitionWrite` (status, receipt into the ledger) |
| recipes, time | `SetRecipe`, `SetFormula`, `Tick` |
| any | `Abort` |

A row that is locked FOR UPDATE is kept by the request that has it (`Held`);
others that want it wait. Reads that no lock covers are steps of their own. A
reversal is one step and happens once to a sale, since `Orders` is where a sale
is reversed and tells when. Batches are numbered in the order they were
inserted, which stands for `createdAt` in the FEFO tie-break; a batch without
an expiry has one after the end of the clock. Batch codes are numbers the
handler picks and may lose, so `PrepareLost` may happen as soon as there is a
batch. Left out: costs, reasons and notes, suppliers, the archiving of items.
`SetFormula` takes `setRecipe`'s check and write together.

### Sale

`Orders` is shown to implement `Sale` by `ImplementsSale`, with the refinement
mapping at `S == INSTANCE Sale WITH ...`: status, timeline, money and stock are
the tables' values, what the lines call for is the basket, and every other step
(reads, retries, loyalty) stutters. `Sale` is the place of the money ceilings,
of the lifecycle (`Rank`: a status only moves forward and an ending is final),
of the timeline that is the chain of the moves (`story`), and of the stock that
is taken once, at most what the lines call for (`demand`), and given back once.

### Pricing and Counter

`Pricing` is what a sale costs, as operators over drafts, coupons and loyalty
configurations: `SelectionAllowed`, `UnitPrice` and `LineTax` of a line, the
refusals and the discount of a coupon, points and their worth, the reward the
till offers. Callers pass what they read. `Counter` puts them between the reads
and writes of a day at the counter. `redeemed` is the coupon's redemptions
counted, `payments` and `refunds` the committed rows by time and method,
`session` the till sessions, `moved` the sum of a session's movements.

| Handler | Steps |
|---|---|
| `create` | `SaleArrive`; `SalePrice` (lines, discount, coupon counted) or `SaleRefused`; `SaleNumber`; `SaleInsert` (the rows get their time), or `SaleRetry` (number lost: all over again, or give up); `SaleCommit` |
| `recordPayment`, `recordRefund`, as the drawer sees them | `Tendered` (the row gets its time), `TenderCommit` |
| `setCouponActive`, `updateSettings` | one step each; `updateSettings` after `validateConfig` |
| `CashService.open` | `Open`, `OpenWrite` (one open session, by a partial unique index) |
| `recordMovement` | `Move` (reads the status), `MoveWrite` |
| `close` | `Close` (status, instant, sums), `CloseWrite` (UPDATE by id, a second instant) |
| any | `Abort` |

A row carries the time at which its statement was sent and is seen when its
transaction commits: that is why a step that writes money is two. The clock
counts stamps, so that no two are taken in the same millisecond. `overlapped`
and `quiet` are history: the requests that met another one on their way, the
sessions whose last closing met none. Left out: what a payment or a refund is
checked against, which belongs to `Orders`, and notes.

### Sessions and Staff

`Sessions` is one person's sessions. Statements outside a transaction commit one
by one, so every handler is cut at each of them. `tokens` is the table of
refresh tokens, each with its family; `validFrom` the sign-out epoch; `access`
the access tokens ever handed out, which carry whole seconds (`Second`) while the
epoch has milliseconds; `sockets` those registered with the gateway. `Staff`
extends it with the invitation by which the person joins, the membership that is
taken away again, and the hours.

| Handler | Steps |
|---|---|
| `register`, `login` | `Register`, or `Login` and `Claims` (the membership); `Mint` (access token signed, INSERT sent); `Insert` |
| `refresh` | `Refresh` (the token is looked up); `Epoch` (`assertSessionNotRevoked`); `Claim` (the conditional UPDATE), or `Refuse` (`revokeFamily`); then as `login` |
| `selectRestaurant` | `Select` (access token fresh), `SelectMember`, `Reissue` (the cookie's token is looked up), `Retire` (UPDATE by id), `Mint`, `Insert` |
| `logout`, `logoutAll` | `Logout`; `LogoutAll`, `Sweep` (the instant), `Everywhere` (one transaction), `Notify` (the gateway drops what it knows) |
| reset, verification | `RequestLink` (older links are spent), `CreateLink`; `UseLink`, `Redeem`; a new password goes on to `Sweep` |
| `handleConnection`, `handleDisconnect` | `Connect`, `Join`; `Disconnect` |
| `createInvite`, `revokeInvite`, `acceptInvite` | `InviteRead`, `InviteWrite`; `WithdrawRead`, `WithdrawWrite` (by id); `AcceptRead` (then the password is hashed), `AcceptWrite`, and on to `Mint` |
| `updateMember` | `Deactivate` (on to `Sweep`), `Reactivate` |
| `clock`, `timesheet` | `Clock` or `ClockBack` (a manager, for a moment in the past), `ClockWrite`; `Timesheet`, which takes the events one by one with `Tally`, instant by instant: no two share one, so that is the order of `orderBy: { at: 'asc' }` |
| any | `Abort`; `Crash`: the process and its sockets are gone, the tables stay |

History: `since` of a refresh is the epoch when it came in, `regressed` whether a
sign-out has put the epoch back, `forked` the families of which a consumed token
was consumed again, `raced` of a socket that the gateway was told of a sign-out
while it was on its way in, `effects` and `admitted` how often a link or an
invitation took effect. Left out: expiries and rate limits (any request may
`Abort` instead), the hashing of tokens and passwords, roles and permissions,
`User.isActive` (nothing sets it to false), and the sixty seconds by which a
recorded hour may lie ahead.

### Kitchen

`Kitchen` is one screen together with the API. An order's `history` is the
sequence of statuses it has been through; a message or an answer names a place
in it, so how old a piece of news is can be told. `news` are changes committed
and not announced yet, `wire` what is on the socket, `board` the rows, `calls`
the screen's HTTP calls, `busy` is `busyRef`.

| Code | Actions |
|---|---|
| `OrdersService`, elsewhere | `CreateHeld`, `CreatePlaced`, `MoveElsewhere` (each a commit), `Announce` (`emitToTenant`, afterwards and in any order) |
| socket.io and the gateway | `Connect` (the screen sends for the list), `Join` (only now in the room), `Refuse` (final for the socket), `Drop`, `NewToken` (the effect closes and reopens) |
| the calls at the API | `ServeList`, `ServeGet`, `ServeMove` (commits; the answer waits for the announcement), `RefuseMove`, `FailCall` (on its way there or back), `Crash` (nothing is answered or announced any more) |
| event handlers | `HearCreated`, `HearUnknown` (fetch), `HearChanged` (rewrite the row), `HearNothing` |
| answers | `TakeList` (replaces every row), `TakeRow`, `TakeLoss` |
| `advance` | `HandOver` on a ticket, `PickMove` on the order's sheet: the row moves now; `Granted`, or `RollBack` to where it was before the tap |

`told` (the latest place the screen has heard of), `lost`, `astray` (rows last
written by a late or failed call) and `doubled` (orders two of whose moves have
been out at once) are history. Left out: the page of 100 orders that `GET
/orders` answers, the cap of 150 rows, the clock of a ticket, and a socket that
is registered after its client is gone (`handleConnection` does not look), which
no screen sees.

### Till

`Till` is one till together with the API, which takes one step to a request
here: `Orders` is about what goes on inside. `cart` is what is in it, as one
value; `idemKey` the key of the order attempt and `legKey` that of the leg being
recorded, with its order; `panel` the order on the panel as last answered;
`recorder` the call the mounted `SplitRecorder` waits for; `gone` the calls
nobody waits for any more, which may still be served.

| Code | Actions |
|---|---|
| the API | `ServeCreate` (a known key answers with its order), `ServeResume`, `ServeFetch`, `ServeLeg` (a known key answers, a new leg stays within what is outstanding) |
| other tills | `PlaceElsewhere`, `PayElsewhere` |
| the cart | `Edit` (the key stays), `Charge`, `Hold`, `ClearTap`; answers `TakeCharged`, `TakeHeld` (both clear the cart) |
| the tray and the panel | `Resume` and `TakeFetched`, `RecordLeg` and `TakeRung`, `NewOrder` |
| the network, the browser | `FailCall` (refused, cut off, or given up while the request goes on), `Leave` (the page is left and opened again) |

`Charge` has no guard on the panel or on a hold that is out, because the
keyboard shortcut has none. A request that the client repeats after a 401 is
refused before the handler, so it is the same call. The rail and the sheet
render the panel twice and one is visible: one recorder. History: `visit`,
`touched`, `parked`, the orders' `of` and `told`, a leg's `seen` (the legs its
cashier saw), and `blind` (orders whose leg key was given up, or whose panel was
put back). Left out: the menu, the customer search, the receipt, and the ways a
cart is filled.

## 3. Runs

| Run | Instance | Shows |
|---|---|---|
| `orders_serial` | 1 order, 1 worker, 4 drafts, tenders 1 and 2 on a total of 2, 6 requests, all operations | one request at a time: `ImplementsSale` (money ceilings, lifecycle with final endings, chained timeline, stock taken and given back), `ReversedSaleEarnsNothing` |
| `orders_tills` | 2 orders, 2 workers, drafts held, for a member, paid, free and repeated under 1 key, tender 1, 5 requests, 2 attempts | what survives any interleaving: `TrailTellsStatus`, `RefundsFollowAnEnding`, `PointsAreForPaidSales`, `ReversalsHaveACause`, `KeyNamesOneOrder`, `NumbersRunOn` |
| `loyalty_balance` | 1 customer, 1 order, 2 workers, 1 key, 3 configurations, 6 requests of all kinds | `SpendingLeavesNoDebt`, `EffectsHappenOnce` |
| `loyalty_locks` | 2 customers, 2 orders, 3 workers, 1 key, 3 requests, weak fairness | `NoWaitCycle`, `KeysApplyOnce`, `EveryRequestEnds` |
| `stock_serial` | 1 raw ingredient, 1 dish, 2 sales, 1 count, 1 worker, 4 requests, 2 formulas of the dish, a clock of one tick | one request at a time: `BatchWithinYield`, `SalesDrawTheSoonest`, `BatchesTakeWhatIsThere`, `SubmitSetsStock` |
| `stock_kitchen` | the same items, 1 sale, 1 count, 1 purchase order, 2 workers, 1 key, 4 requests, 2 recipes | what survives any interleaving: `BatchAddsUp`, `KeysWriteOnce`, `BookedOnce` |
| `counter` | 2 workers, 5 drafts (3 of which are refused), 1 coupon that may be used once, 5 configurations (2 of which cannot be saved), tender 7, float 3, 2 sessions, 9 stamps, 5 requests | `OveruseIsBounded`, `QuietClosingsReprint`, `OfferedRewardsApply` |
| `accounts` | 1 person, 2 workers, seconds of 2 stamps, 6 stamps, 5 requests of all kinds, hours recorded for 0 and 1, crashes | `SignedOutStaysOut`, `FamilyStaysSingle`, `StaleSocketsWereJoining`, `GrantsWorkOnce`, `TimesheetPairsNeighbours` |
| `kitchen` | 1 order of 4 statuses, 2 calls, 1 tap, 1 fault, any number of disconnections | `WrongTicketsAreExplained`, `TicketsHaveHappened`, and `ReconnectsReconcile` under fairness |
| `till` | 2 calls, 3 keys, 2 carts, prices 1 and 2, 1 fault | `CartsBecomeOneOrder`, `LegsRingOnce` |

Every run of a module checks its `TypeOK` once.

Why the bounds suffice. Orders of a tenant meet only in numbers and keys, so
everything else needs one order; a race needs two workers, and one key that two
creations share needs two orders to name; a total of 2 with tenders 1 and 2 has
partial, exact and excessive legs; six requests reach
hold-resume-pay-complete-refund with one to spare, five reach a race of two
tills after creation and payment; two attempts reach both the retry and giving
up. A wait cycle has two or three transactions in it; two customers let one key
name both; six requests reach sale, credit, reversal and restore with a
redemption and an adjustment between them. In `Stock`, two batches that expire
at different times are what FEFO needs to tell them apart, and a clock of one
tick lets one of them expire; four requests reach prepare, prepare, sell and
reverse or waste. At the counter, a coupon that may be used once needs two sales
to be exceeded; opening, closing, and a payment or a movement around it take
three requests and six stamps, and the two that are left are a second closing or
another sale. Of the person, the shortest way round a sign-out is register,
refresh, sign out everywhere, with a selection or a socket beside them; seconds
of two stamps let a token be younger than the epoch it is compared with and look
older. On the board, one order suffices because rows do not interact except
through `busyRef` and the list; `PickMove` on a second ticket would let the first
be tapped again, which `TicketsHaveHappened` leaves to its `doubled` case and
`KitchenProofs` proves for any number of orders and taps. At the till, two calls
out at once are a try and its repetition, or a hold and a charge; three keys are
a cart, a leg and another leg. One history needs more than TLC's three keys: a
second call for a leg, answered late, drops the key of the next leg. It is
covered by the theorem about `LegsRingOnce`, which holds for every number.

`MaxRequests`, `MaxAttempts` (5 in the code), `MaxBatches`, `MaxSessions`,
`MaxTime`, `MaxTaps`, `MaxFaults`, `MaxKeys` and `MaxCarts` are the only bounds in
guards; the sets (`Amount`, `Yield`, `Tally`, `Lines`, `Expires`, `Tender`,
`Draft`, `Config`, `Backdated`, `Content`) and the `Opening` stock are what the
clients send and what was booked before. Deadlock checking is off because the
clients stop: after `MaxRequests`, or when orders, calls and faults are used up.

`BatchWithinYield`, `BatchesTakeWhatIsThere` and `SubmitSetsStock` hold for one
request at a time only: what is left of a batch, the stock a batch is checked
against and the stock a count is reconciled with are sums that no lock covers,
and another request may commit between the sum and the write. For a batch that
means drawing what is no longer there. For a count it is harmless: the
correction is a difference, so a sale that commits in between is subtracted from
what was counted, as if it came after the submit.

Two facts the runs rest on are worth knowing. `NoWaitCycle` holds because
numbers are read as max + 1: two orders of one restaurant that are both
inserted and uncommitted would carry the same number, so the second waits at
the index before it can hold a key-share lock, and the upgrade to FOR UPDATE
never meets its like. Numbers from a sequence would deadlock, which is the
mutant of that property. `KeysApplyOnce` needs the unique index and not only the
replay check, because a retry that names another customer locks another row.

### Fairness

`loyalty_locks` assumes weak fairness of each worker's `Step`, that is, a
statement that need not wait is executed. A handler awaits one statement after
another, the event loop and PostgreSQL run what is ready, and PostgreSQL wakes
who waits for a transaction when it ends. Arrivals, aborts and changes of the
configuration are not fair. The run shows that locks never wait in a cycle, that
every path through the handlers releases them and that the number retry is
bounded; that nobody is starved by an endless stream of new requests is not
shown, since the stream is cut at `MaxRequests`.

`kitchen` assumes weak fairness of what happens by itself: a committed change is
announced (`Announce`), socket.io reconnects (`Connect`), the gateway finishes
what it began (`Join`), the API serves the calls, and the browser hands over what
has arrived. Taps, tills, faults and disconnections are not fair.
`ReconnectsReconcile` says that a screen whose socket keeps going down and coming
back shows, from some moment on, the orders as they are. A screen that stays
connected has no such promise: `WrongTicketsAreExplained` lists what can leave a
ticket in the wrong column until the next reconnection, and a socket the gateway
refused stays closed until the access token changes.

### What the properties leave out, and why

Several invariants name the histories in which the code does not keep the
promise. Each is a behaviour TLC reaches, and the property says that there is no
other:

- Two sign-outs of one user that overlap can put the epoch back
  (`auth/token.service.ts:247` writes the instant it took earlier): `regressed`.
- `selectRestaurant` retires the token of the cookie by its id; if a refresh has
  consumed it in the meantime, the family has two live branches: `forked`.
- A socket whose token was checked before a sign-out and which joins after the
  gateway was told streams on: `raced`. A reset of a password, or a deactivation,
  commits before `revokeAllForUser` begins; after a crash in between nobody is
  signed out (`Crash` after `Redeem` or `Deactivate`).
- `revokeInvite` and `acceptInvite` that overlap leave an invitation both
  accepted and revoked; it admitted one person, which is what `GrantsWorkOnce`
  says.
- Hours recorded for the past (`staff/staff.service.ts:472`), and two clock-ins at
  once, break the alternation of attendance. `TimesheetPairsNeighbours` says what
  the timesheet makes of it; a shift that crosses the border of the period asked
  for is not in it.
- Concurrent sales exceed `maxRedemptions` of a coupon. `OveruseIsBounded` says by
  how much: by fewer than there are requests in flight.
- A closed drawer's report is computed again from rows. A movement, a payment or a
  second closing that overlaps the closing changes it afterwards:
  `QuietClosingsReprint` ("The Z-report reprints identically forever",
  `cash/cash.service.ts:107`) holds for a closing that met no other request.
- On the board, a list or a row read before an event and arriving after it
  overwrites what the event wrote; a rollback overwrites it too; what is announced
  while the gateway still checks the token is missed
  (`kitchen/kitchen-client.tsx:279`): `astray` and `lost`. A tap on another ticket
  lets the first be tapped again: `doubled`.
- At the till the order key survives edits: a cart that was changed after a lost
  answer gets the order of the first try (`touched`), and one that was charged
  after a hold whose answer was lost, or is out, shows a held order on the panel
  (`parked`). An answer that comes after `ClearTap` clears the next cart.
- A leg's answer drops whatever leg key is there and shows its own order, so the
  key of another order's unresolved leg is lost; the tray, or an older answer, can
  put the panel back to before a leg. A cashier then taps a leg that has been
  recorded: `blind`. The code says that a retry "can never ring up twice"
  (`pos/pos-client.tsx:267`); it cannot, in all other histories.

### Where the code disagrees with its comments

Each run below checks one property that a comment or document states, and TLC
finds the counterexample; the second needs no concurrency.

| Run | Property | The statement |
|---|---|---|
| `orders_overrefund` | `RefundedWithinCaptured` | `orders.service.ts:828` "never more than was actually captured" |
| `orders_held_combo` | `LiveSaleIsDepleted` | `orders.service.ts:639` "exactly what creation does for a non-held order" |

The first holds with one worker, as part of `ImplementsSale`: there the code is
right as long as the requests on one order do not overlap. The same two windows (a
sum or a status is read, another request commits, the write does not look again)
let an ending be overwritten although `order-status.ts:11` says "Terminal states
are deliberately dead ends", let two legs pass the ceiling of the total, which
`orders.service.ts:730` concedes, let two reversals both return the stock, and let
a payment or a credit land on a sale that was voided meanwhile. Without any
overlap, `recordPayment` takes money for a held order, which
`orders.service.ts:51` says "takes no money": line 765 refuses endings only, and
`Sale` allows it accordingly (`Receive`).

## 4. Proofs

Every theorem is about arbitrary sets of orders, workers, keys, drafts, batches,
tokens, calls and so on, and arbitrary bounds. What is assumed of the constants
is stated where they are declared: `OrdersAssumption`, `LoyaltyAssumption`,
`StockAssumption`, `CounterAssumption`, `SessionsAssumption`, `StaffAssumption`,
`KitchenAssumption`, `TillAssumption`. Each says that the "none" values are not
among the others and that amounts, times and bounds are natural numbers;
`CounterAssumption` also that the workers are finitely many and the default
configuration passes its validation, `KitchenAssumption` that a lifecycle stays
within the statuses.

### `OrdersProofs`: any number of requests at once

| Theorem | Statement |
|---|---|
| `Typing` | `Spec => []TypeOK` |
| `RequestsStandOnRows` | `Spec => []RequestsHaveOrders` |
| `OneOrderPerKey` | `Spec => []KeyNamesOneOrder` |
| `BlankUntilInserted` | `Spec => []AbsentIsBlank` |
| `NumbersHaveNoGaps` | `Spec => []NumbersRunOn` |
| `TimelineTells` | `Spec => []TrailTellsStatus` |
| `RefundsAfterEndings` | `Spec => []RefundsFollowAnEnding` |
| `PointsFollowMoney` | `Spec => []PointsAreForPaidSales` |
| `ReversalsAreCaused` | `Spec => []ReversalsHaveACause` |

The argument. Lemmas about what a step can do come first: who writes a table
(`OrdersWriters`, `TrailWriters`, `RefundWriters`, `PointsWriters`), what an
insert and a status change do (`InsertEffect`, `StatusEffect`), that rows only
grow (`OrdersOnlyGrow`), and where a request comes from (`OwnSteps`, `Origins`).
`TypeOK` is inductive by itself; `RequestsHaveOrders` because rows are never
deleted; `KeyNamesOneOrder` because an insert with a taken key is impossible and
every answer is a row with that key; `TrailTellsStatus` because the row and its
event are written in one transaction. The others need to know what a request in
flight has seen:

- `NumbersRunOn` needs `PickedNumbersRunOn`: the number a worker picked is 1 or
  follows one that is taken, and taken numbers stay taken.
- `RefundsFollowAnEnding` needs `RefundersSawAnEnding`: the status a refund saw
  may be overwritten, but the timeline it stands for keeps its ending.
- `PointsAreForPaidSales` needs `CreditorsArePaid`: the leg that settles knows the
  sum it read, and what was captured only grows.
- `ReversalsHaveACause` needs `ReversersRefunded`; neither points nor refunds are
  ever taken away.

### `OrdersProofs`: one request at a time

These theorems assume `OneAtATime` (one worker), for any number of orders, keys,
drafts and tenders. The assumption is needed: `orders_overrefund` is the
counterexample with two.

| Theorem | Statement |
|---|---|
| `OrderDeskIsASale` | `Spec => ImplementsSale` |
| `ReversedSalesEarnNothing` | `Spec => ReversedSaleEarnsNothing` |
| `RefundCeiling` | `Spec => []RefundedWithinCaptured` |

The argument. `TableWriters` names the four commits that write an order, its
money, its stock or its timeline, and `WritersAreDone` says that whoever writes
relies on nothing it has read any more. With one worker it follows that while a
request waits between a read and a write, nobody writes (`NobodyElse`), which
makes `ReadsAreFresh` inductive: what was read still holds. `StockFollowsStatus`
(a held order has taken nothing, a live one given nothing back) and
`DraftsAreSound` complete `SerialInv`. Under it each of the four commits is a step
of `Sale` (`InsertOpens`, `WriteMoves`, `PaymentReceives`, `RefundHandsBack`), and
everything else leaves the sale's variables alone.

### `LoyaltyProofs`

| Theorem | Statement |
|---|---|
| `Typing` | `Spec => []TypeOK` |
| `SpendingIsCovered` | `Spec => SpendingLeavesNoDebt` |
| `KeysAreAppliedOnce` | `Spec => []KeysApplyOnce` |
| `EffectsAreBookedOnce` | `Spec => []EffectsHappenOnce` |
| `NoDeadlock` | `Spec => []NoWaitCycle` |

The argument. `TypeOK` is not inductive: that a reversal takes points and a
restore gives them depends on what is booked having the sign of its type, and
that an entry has a customer depends on its order being committed (`Sound` adds
`SignsAreRight` and `RowsAreOwned`). `SpendingLeavesNoDebt` follows from
`LockInv`: who holds a row FOR UPDATE is alone with it (`LockExcludes`), a
debit past `lockCustomer` still holds it (`LockersHold`), every commit holds
the row in some mode (`SharersHold`), hence nobody else commits on that
customer and the checked balance is still there (`DebitsAreCovered`).
`KeysApplyOnce` follows from `ClaimInv`: index entries are claimed by one open
transaction or committed, and a key's entry is in the index exactly when the
key is applied. `EffectsHappenOnce` rests on the same index: who is about to
commit an entry for an order holds the claim on its tie, so nothing was booked
under it, and the amount it read for the order is still right
(`BookingsAreRight`).

`NoDeadlock` is about every set of transactions. A worker's locks and claims
belong to what it is doing (`LocksAreOwn`, `ClaimsAreOwn`), and order numbers in
the index or claimed run on (`NumbersFollow`). Hence two sales cannot both be past
their insert: they would have claimed one number (`OneSale`). A lock upgrade thus
meets at most entries that wait for nothing, whoever claims a key is about to
commit, and among the workers of any set one waits for none of the others
(`SomebodyGoesOn`). The lemmas `Begins`, `Numbered`, `Inserted`, `Retried`,
`Shared`, `Locked`, `Checked`, `ReadOn`, `Appended`, `Committed` and `EndsSo` say
what each statement does, once, and `ByStep` puts them together.

### `StockProofs`

| Theorem | Statement |
|---|---|
| `Typing` | `Spec => []TypeOK` |
| `BooksAreBookedOnce` | `Spec => []BookedOnce` |
| `KeysAreWrittenOnce` | `Spec => []KeysWriteOnce` |
| `DrawnWithinLeft` (lemma) | FEFO draws from a batch at least 0 and at most what it has left |
| `BatchesAddUp` | `Spec => []BatchAddsUp` |
| `SalesDrawSoonestFirst` | `Spec => SalesDrawTheSoonest` |
| `SerialBatchesTakeWhatIsThere` | `OneAtATime` implies `Spec => BatchesTakeWhatIsThere` |
| `SerialSubmitSetsStock` | `OneAtATime` implies `Spec => SubmitSetsStock` |
| `SerialBatchWithinYield` | `OneAtATime` implies `Spec => []BatchWithinYield` |

The argument. `TypeOK` is inductive; the only part that is not a matter of
reading the action is that FEFO and the scaling of recipes give natural numbers
(`DrawnNowTyped`, `ScaledTyped`). `BookedOnce` is not inductive, since the write
relies on a status read when the row was locked. The strengthening is
`LocksKeepTheStatus`: who has a count or a purchase order locked still finds it
in the status it read, and is alone with it. `Bystanders` says that nobody else
touches those rows, `WritesBookOnce`, `LocksAreTaken` and `UnlockedWrites` are
the steps that do. `KeysWriteOnce` is inductive once `KeysEnterOnce` is known: a
row or batch enters the ledger only with a key that is not there at that moment,
whatever the lookup had seen before.

`BatchAddsUp` is about a sum over the sales that stand. It is inductive with
`BookInv`: a sale or a waste in flight draws amounts from batches that are there
(`SalesInFlight`, `WastesInFlight`), an order without a sale has taken nothing
(`UnpreparedIsUntouched`), and only finitely many sales stand. A sale then adds
one summand and a return takes the same one away (`SumLemmas`). No assumption
about overlap is needed: every write to a batch is an increment.
`SalesDrawTheSoonest` is about the allocation itself. Each batch gives what the
sooner ones cannot (`DrawnIsAllocated`); the batches up to any point then give all
that is needed or all they hold (`GivenTogether`), hence a batch gives something
only after the sooner ones are emptied, no more is drawn than is needed, and what
falls short has emptied them all (`SoonestIsDrawn`).

The last three hold while one request is in flight (`OneAtATime`), as their run
does: `createBatch`, `reconcileCount` and `wasteBatch` check what they read before
the write. `ReadsAreFresh` says that what a request read still holds, because
nobody else writes; `NoneOverdrawn` follows from it. That a batch never holds more
than it yielded (`NoMoreThanItYielded`) follows from `BookInv` alone.

### `CounterProofs`

| Theorem | Statement |
|---|---|
| `Typing` | `Spec => []TypeOK` |
| `SalesTyping` | `Spec => []SalesOK`, the sales part of `TypeOK`: no total is negative |
| `OveruseBound` | `Spec => []OveruseIsBounded` |
| `RewardsApply` | `Spec => []OfferedRewardsApply` |
| `QuietClosings` | `Spec => []QuietClosingsReprint` |

The argument. The bound on a coupon's overuse needs `Reserved`: the redemptions
booked, and the requests that have counted and not yet redeemed (`Counting`),
together stay within the limit and the number of requests in flight; a request
that counts saw fewer redemptions than the limit, and redemptions are never taken
back. The offered reward is a fact of arithmetic once `SettingsOK` is known: only
configurations that pass the validation are ever in force.

`QuietClosingsReprint` needs `ReprintInv`. Rows are stamped before they are
committed, so a payment may enter a ledger later than its own time. A closing that
met no other request has nothing of that kind beside it (`Unmet`): the settlement it
computed is still the settlement when it stores it (`ClosingsAreFresh`), and every
row committed afterwards is stamped later than the closing (`QuietOnesReprint`,
with `RowsArePast`). Nobody moves cash in or closes such a session again
(`DrawersInFlight`). The settlement is three sums; that they are numbers, and equal
when their rows are, comes from `SumLemmas`.

### `StaffProofs`: `Sessions` and `Staff` together

| Theorem | Statement |
|---|---|
| `Typing` | `Spec => []TypeOK` |
| `SigningOut` | `Spec => []SignedOutStaysOut` |
| `OneWinner` | `Spec => []FamilyStaysSingle` |
| `SocketsDropped` | `Spec => []StaleSocketsWereJoining` |
| `Once` | `Spec => GrantsWorkOnce` |
| `NeighboursArePaired` | `Spec => []TimesheetPairsNeighbours` |

The argument. A family is known by the instant of its first token, which the
table keeps (`Roots`). What a refresh saw of the epoch still holds unless two
sign-outs overlapped, and what passed the check began after it (`Epochs`): a
replacement inserted after the sweep belongs to a family that the next refresh
refuses. `FamilyStaysSingle` is inductive with `Roots`, because the conditional
update that consumes a token is where two refreshes are decided. A socket that
outlives a sign-out was being checked when the gateway was told (`Joining`).
`GrantsWorkOnce` is a property of the steps on links and invitations
(`LinksStep`, `InvitesStep`).

A timesheet is a function defined by its own values at earlier instants.
`SheetExists` shows that there is one and `SheetExplains` that after every instant
its shifts are the neighbouring pairs among the events taken so far, each once, and
that what is open is the last event, if that is a clock-in (`Explains`); both by the
least instant for which it would fail. `TallyExplains` is the step. What the state
has to contribute is `EventsDiffer`: no two events, recorded or about to be, are for
one instant.

### `KitchenProofs`

| Theorem | Statement |
|---|---|
| `Typing` | `Spec => []TypeOK`, with `CallsReached`: no answer is ahead of the order's history |
| `NoPhantoms` | `Spec => []TicketsHaveHappened` |
| `TicketsAreExplained` | `Spec => []WrongTicketsAreExplained` |

The argument for the second is `Happened`: an order that was never tapped twice at
once has at most one move out; the status its rollback would put back is one the
order had; and its row shows one the order had, or the one that move asks for.

The third needs two more facts. `UnheardIsOnTheWay`: every place of an order's
history later than what the screen has heard has its announcement among those to
be sent, on the wire or lost, except the first place of a held order, which nobody
announces and which stands in no column. `RowsAreCurrent`: a row that is not
astray, with nothing later on the way or lost and not being fetched, stands in its
order's column or where a tapped move that is still out has put it. The second
is not inductive without the first, since an answer or a fetch that makes a row
current must have skipped nothing. When nothing is on the way the exceptions of
`RowsAreCurrent` are gone and the property is left.

### `TillProofs`

| Theorem | Statement |
|---|---|
| `Typing` | `Spec => []TypeOK` |
| `OneOrderPerCart` | `Spec => []CartsBecomeOneOrder` |
| `LegsOnce` | `Spec => []LegsRingOnce` |

The argument. `Typing` carries that calls, the panel and the leg key name orders
that are there (`CallsRefer`, `PanelRefers`, `LegKeyRefers`). A cart becomes one
order by `CartInv`: keys are minted in sequence and each names the order it made
(`KeysAreMinted`, `KeysNameOrders`), the attempt in flight has the cart's key
(`AttemptHasItsKey`), and an order of a cart that was not edited or sent to be
held holds that cart and is placed (`UntouchedIsSame`, `UnparkedIsPlaced`). Legs
need `LegInv`: a leg's key names its order and no other leg (`LegKeysNameOrders`,
`LegKeysDiffer`), the panel shows all legs but the one whose answer is out
(`PanelIsCurrent`, `OneLegUntold`), and that one is the next to be tapped
(`UnknownLegIsNext`).

### `SumLemmas`

`SumEmpty`, `SumAdd`, `SumRemove`, `SumType`, `SumAtMost`, `SumSame`, `SumZeros`,
`SumOfPart` and `SumSkipsZeros` say of `SumFunctionOnSet` what the two ledgers need:
a sum grows and shrinks by its summands, is a number, is monotone, and does not
see zeros. The operator is a recursive function on the subsets of a set, so it has
to be shown first that the function exists (`SumTableExists`) and is the only one
(`SumTablesAgree`). Each of these is shown by the least subset for which it would
fail, with the well-foundedness of strict inclusion on finite sets; the induction
theorems of the library take an operator and cannot be instantiated. The same
argument gives `LeastNatural`, which the proofs about hours use.

### Only model-checked

- Liveness is out of the prover's reach, and so is ENABLED: `EveryRequestEnds` of
  `Loyalty`, `ReconnectsReconcile` of `Kitchen`.
- The two properties that the code violates, of course, are refuted by TLC;
  `RefundCeiling` and `ImplementsSale` say when the first holds.

## 5. What is left

The plan of the earlier version of this document is done: `Orders` with `Sale`,
`Loyalty`, `Stock`, the counter with coupons, points and cash, the accounts with
sessions and staff, the kitchen screen and the till, and of each the theorems
above. What could follow: the order sheet of the web
application, which mints a key for every tap (`orders/order-detail.tsx:336`), so
that a payment whose answer was lost is recorded again when the cashier taps again;
and two tabs of one browser, which share the refresh cookie but not the refresh in
flight (`web/src/lib/api.ts:72`).

### Not modelled, and why

The models follow the code that decides something while something else happens.
That is well under a third of the repository; the rest is mostly of these kinds:

- The pages of the dashboard (inventory, menu, staff, customers, procurement,
  cash, marketing, reports, settings): forms and tables, each a single call
  followed by a reload. They keep no state that outlives an answer; the two
  screens that do, the till and the kitchen, are modelled.
- Customers, catalogue, combos' maintenance, suppliers, restaurants: rows that
  are created, edited and archived, one statement each. Menu import extracts a
  menu with a language model and creates such rows.
- Reports, analytics and the AI assistant: queries.
- Mail and the clients of outside services.
- Prisma's client, tenant context, guards and row-level security: predicates
  on every query, which the scripts under `apps/api/prisma` verify against a
  database; the models are of one tenant.
- Generated code, migrations' history, seeds and the tests themselves. The
  schema's tables, unique indexes and checks are modelled where a property
  depends on them.
