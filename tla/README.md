# TLA+ models of the Tika e-commerce backend

This directory holds a verification project for the Node/Express backend in `../src`: TLA+
modules that model its services, TLC configurations that check them on small instances, and
theorems about each of these services, whose proofs TLAPS checks. `PROJECT.json` lists the runs, the
mutants that show each property can fail, the lines of code behind each definition, the
hazards and the theorems. Paths below are relative to the repository.

## 1. The system

One Node process serves HTTP and runs the e-mail worker. It keeps nothing of importance in
memory: MongoDB (mongoose) holds the documents, Redis holds caches, counters, locks and the
BullMQ queue. There is no transaction anywhere. A handler is a sequence of awaited calls, each
atomic by itself; between two of them any other handler may run, the call may throw, and the
process may stop. That is where this code can go wrong, so **one awaited call is one step** in
every module here, and what a function does between two awaits belongs to the step before.

| Component | State it keeps | Operations | Talks to |
|---|---|---|---|
| Checkout (`services/checkout.service.js`) | orders; stock in inventories; the cart it empties; idempotency lock and result in Redis | `checkoutReview`, `orderByUser`, listings | payments, notifications, product catalogue, discounts |
| Order desk (same file) | `order_status`, stock | `cancelOrderByUser`, `updateOrderStatusByShop` | notifications |
| Payments (`services/payment.service.js`) | payment documents; the `order_payment` snapshot in the order | `createPaymentForOrder`, `confirmMockPayment`, `handleVnpayIpn` | called by checkout, the buyer, VNPay; notifications |
| Notifications (`services/notification.service.js`, `queues/`, `workers/`) | notification records; BullMQ jobs | `createNotification`, `markAsRead`, the worker | SMTP |
| Sessions (`services/token.service.js`, `access.service.js`, `auth/authentication.js`) | Token documents with a TTL index | sign-in, `refreshToken`, `logout`, `logoutAll`, the middleware | accounts |
| Account guard (`services/access.service.js`) | Redis: fail counter and block, OTP, verification block and flag; the password | `login`, `forgotPassword`, `verifyForgotPasswordOtp`, `resetPasswordWithOtp` | mail |
| Rate limiting (`auth/rateLimit.js`) | Redis counters with a window; cooldown keys | `createRateLimiter`, `createCooldownLimiter` | in front of the routes |
| Sign-up, Google sign-in (same file) | User and Shop documents; the state key of the Google flow | `signUp`, `signUpShop`, `getGoogleAuthorizationUrl`, `loginWithGoogle` | Google; sessions |
| Cart | one active cart per user | add, update, remove, delete, change of state | products, checkout |
| Discounts | discount codes | create, update, amount, delete, cancel | checkout review |
| Products, inventory, product cache | typed documents, products, inventories; Redis lists and details | create, update, publish, unpublish, cached reads | checkout |
| Comments | comments | create, update, soft delete | |
| HTTP layer, connections, API keys, swagger, deployment | none that matters | | |

What is hard, and what makes each part correct:

* **Checkout.** Many requests take units of scarce products line by line and must undo exactly
  what they took when anything later fails; a client may retry with an idempotency key, at the
  same time, later, or after a crash. Correct: stock is neither created nor lost, no order
  without its stock, a refused checkout leaves nothing, a late retry places nothing, every
  request is answered and no key stays locked by a request that is over.
* **Order desk.** A decision taken on a status that was read is carried out several calls later,
  beside other calls on the same order and even beside the checkout that is making it. Correct:
  status and stock agree, and the stored status moves along `ORDER_TRANSITIONS` (which the code does not
  keep, section 4).
* **Payments.** Reports are repeated and reordered by the gateway, and two documents are saved by
  two calls. Correct: paid for a cause, paid for good, the snapshot follows, answers are true.
* **Notifications.** Retries, stalls and crashes between sending and saving. Correct: the record
  tells the truth, mails are bounded, jobs end.
* **Sessions.** A token is checked in the middleware and revoked calls later. Correct: revoked
  means refused, logged out stays out, one live token per session.
* **Account guard and limiters.** Every counter is read and written by separate calls, keys
  vanish by TTL, and the chain from a code to a new password runs through three keys. Correct:
  wrong guesses lead to the block, a code and a verification are good for one use, limits hold,
  no key without a TTL.
* **Sign-up and Google sign-in.** Accounts are looked for and created by separate calls, found by a
  Google id or by an address that may change, behind a state that is read and then deleted. Correct:
  nobody gets two accounts, a state lets one callback through.
* **Products and their cache.** A product is three documents written one after the other, its
  attributes are kept twice, and a cache is filled from a read that a change may have overtaken.
  Correct: a broken-off creation leaves no part without what it hangs on, the two copies of the
  attributes agree, a list that is no longer true is about to be deleted, or for a known cause is not.
* **Discounts.** Codes are looked up and written by separate calls, without a unique index, while shops
  change and buyers cancel them, and a review asks for one amount after the other. Correct: two active
  documents of a code have a known cause, what is deleted stays deleted, every cancellation counts
  once on top of what its counter was last set to, totals add up and ask for something between nothing and the price.
* **Cart, comments** (not modelled). `addToCart` throws on every call (section 4), so no cart comes into
  being through the API; a comment is a single document that nothing relates to another one.

## 2. The modules

| Module | Models | Notes |
|---|---|---|
| `Baskets` | the order lines of the requests and their units | constants only |
| `StockLedger` | abstract: orders are placed at one instant, within the stock, for good | |
| `Checkout` | `orderByUser` and all it calls | implements `StockLedger` |
| `OrderDesk` | `cancelOrderByUser`, `updateOrderStatusByShop` | EXTENDS `Checkout`: same orders, same stock, both run at once |
| `Payment` | `confirmMockPayment`, `handleVnpayIpn` | starts from payments that checkout made, with the orphans a rolled-back checkout leaves |
| `Notification` | record, job, worker | BullMQ external |
| `SessionLife` | abstract: a session begins once and, when it is over, is over for good | |
| `Sessions` | refresh tokens | implements `SessionLife` |
| `RateLimit` | the two limiters, chained | |
| `AccountGuard` | login guard and password reset | EXTENDS `RateLimit`: a request passes its limiters, then its handler |
| `Accounts` | `signUp`, `signUpShop`, the Google flow | |
| `Discounts` | the five operations on codes that write or price, and `checkoutReview` with its totals | |
| `Catalogue` | `ProductFactory`: create, publish, unpublish, update, cached detail and list, `invalidateProductCache` | |
| `CheckoutProofs`, `PaymentProofs`, `NotificationProofs`, `SessionsProofs`, `AccountGuardProofs`, `AccountsProofs`, `CatalogueProofs`, `DiscountsProofs` | proofs | each EXTENDS its module, `CheckoutProofs` also `OrderDesk`, which extends `Checkout`; section 5 |
| `MC*` | the instances that TLC checks | |

How state and actions correspond to the code:

* **Checkout.** `pc[r]` names the call request `r` makes next; each action is one awaited call
  with the synchronous code after it. `reserved[r]` and `restored[r]` are the length of
  `reservedItems` and the loop counter of `restoreReservedInventory`. `Throw` is the way into the
  `catch` block, `Return` the `return` that still runs `finally`. `CallThrows` is any call failing:
  before the `try` the error goes straight out, in the `catch` it ends the rollback, in the
  `finally` it replaces the response (`"unreported"`). `Crash` loses all requests in flight and
  keeps MongoDB and Redis. An order, its payment and its notification carry the name of their
  request, and a key stands for one user with one trimmed `x-idempotency-key`. `lock[k]` is the request
  that set the lock (the value in Redis does not say; no guard looks at who it is).
* **OrderDesk.** `step[x]` is the same for a desk call; `putBack[c]` counts the lines a
  cancellation has returned; `Save` is mongoose's `save()`, which writes the modified path, checks
  no version and fails on a deleted document. `met` is history: the pairs of calls that were under way on
  one order together.
* **Payment.** A request is a record (kind, order, reported outcome, what is wrong with it).
  `seenPayment` and `seenSnapshot` are the copies a call decides on; `Written` says that `save()`
  writes nothing when the value equals the copy's. `VnpAmount` is the amount VNPay is told, in
  hundredths, which a report brings back.
* **Notification.** `maker` is the service call, `job`, `made` and `stalls` are BullMQ's, `worker`
  the processor. `AttemptNumber` and `StatusAfterError` are the arithmetic of the worker.
* **Sessions.** A refresh token is the pair account and second, because that is all that is in the
  JWT: two signed in one second are the same string and the unique index refuses the second.
  `Remove` is the TTL index, whose time is computed apart from the JWT's expiry. In `SessionLife` a
  session is over when it has no live token and no refresh that holds one or is about to save one
  (`MayRenew`).
* **AccountGuard.** Each Redis key is a variable; a code is named by the request that made it.
  `brings` is the password or the code in a request, `seen` the data read and written back later.
* **Accounts.** An account carries the name of the call that created it. `linked` is its `google_id`,
  which one write sets together with provider, status and verification. Google is external: it reports
  a profile, any of its addresses, or none. `raced` and `crowded` are history.
* **Discounts.** `docs` is the collection in the order of insertion, because `findOne` takes the first
  match; a document carries the name of the call that created it. `open` is the date range, which
  `Lapse` ends. A cart is a sequence of a code (or none) and the price of the items of one shop;
  `total[c]` is `checkout_order`, or the answer of `getDiscountAmount`. An update brings any set of fields,
  as `req.body` goes into `findByIdAndUpdate` unfiltered; `barred` is that the limit per user refuses the
  buyers, which only an update that fills `discount_user_used` or lowers the limit brings about and a
  cancellation undoes. `given`, `cancels`, `deleted`, `raced`, `loose` and `odd` are history.
* **Catalogue.** A call does one thing to one product (or one query) and is served once; the value of
  an attribute is the name of the call that wrote it. `found[c]` is what a call has read and not used. The two
  deletions of `invalidateProductCache` run side by side: `todo[c]` is what is left of them, and
  `"sweepOn"` is the one that goes on after the other has thrown and the request has been answered.
  `filled[k]` is the query whose answer is under a key, because the key leaves price and shop
  filters out. `admits[q]` is what the filter of a query lets through, which an update may change
  (`Refiles`). `deleteByPattern` spreads the keys it scanned over the arguments of `client.del`
  (`cache.service.js:37`), and the DEL of the redis package in `package-lock.json` (5.11.0) takes its
  keys in one argument: `ScanLists` keeps the first key, and `DeleteLists` deletes that one.

Variables marked *history* in the modules record what happened for the properties to speak of;
no guard of the program reads them, except that bounds on crashes do.

### Modelling assumptions

* A call that fails has done nothing. (A write that is carried out and reported as failed is not
  modelled.)
* `checkoutReview` writes nothing, so only whether it throws matters. Whether the catalogue prices
  the items is the parameter `CatalogueAnswers`: as committed, `checkProductByServer`
  (`models/repositories/product.repo.js:122-137`) shadows the model it calls, while the unit tests
  mock it; the properties are checked for both answers.
* `OrderPaymentEnum` is a parameter; the instances give it the committed enum of
  `models/order.model.js:36`.
* Quantities of order lines are positive whole numbers. Nothing in the service checks that (a
  hazard in `PROJECT.json`).
* `Checkout`: the requests of a retry and its original are the same; a key of more than 128 characters
  is refused on arrival, in the `race` and `committed` instances and in the proofs.
* The array `inven_reservations` is left out: it is pushed to and never read.
* `Sessions`: no call takes as long as a token document lives.
* `Payment`: orders exist for every method; with the committed enum only COD orders can be made
  (the `committed` run), so this is the program with that line repaired.
* `Catalogue`: the scan of `deleteByPattern` sees all the keys at one instant, in any order; a creation
  brings all attributes.
* `Discounts`: all buyers are one where the limit per user is concerned; what an update sets is a value of
  the field's type (operators such as `$inc` in a body, nulls and a start date in the future are left out);
  prices and percentages are such that amounts are whole. What `checkProductByServer` answers
  does not depend on the codes: a line is priced or the review is refused.
* `AccountGuard`: one existing account; all requests share the keys of the limiters.

## 3. The runs

All bounds are in the MC modules and cfg files. "States" are distinct states.

| Run | Instance | States | What it shows |
|---|---|---|---|
| `checkout` | 3 requests; two share an idempotency key, a cart and two lines; the third has a key whose result expires; 2 products, one too scarce for all; one step that may fail in each part of the function (before the try block, with the order there, with the result there, in the finally block); the lock may expire under a slow request; crashes | 317 554 | the ten properties of `Checkout` below, with the refinement and the liveness property |
| `orderdesk` | 2 orders; 2 cancellations, a confirmation and a shipment of one of them, in every overlap, and an update of the other; a failing save; either checkout may fail in its last call and be rolled back under the desk; one crash | 6 290 867 | no line is returned twice, sold orders keep their stock, cancelled ones have returned it, but in the ways the properties name |
| `payment` | two VNPay orders, one of them with three decimals, a mock, a cash and an orphaned order; any 3 of 13 requests, repeated and overlapping; every step may fail; crashes | 62 694 | cause, finality, snapshot and answers |
| `notification` | 3 notices, 2 attempts, 1 worker slot, 1 stall, 2 crashes | 280 544 | truth of the record, bounded mails, sent for good, nothing stays queued |
| `sessions` | 2 accounts, 4 requests, 4 seconds; every step may fail; documents removed a second early; crashes | 1 149 927 | revoked is refused, logged out stays out, rotation keeps one token, refinement of `SessionLife` |
| `guard` | 1 account, 4 requests, 2 in flight, 2 wrong passwords or codes allowed, 3 limiters; failing calls, expiring keys, crashes | 745 849 | limits, TTLs, cause of a reset, single use of a code, the block |
| `catalogue` | 2 products, 2 queries with a key each, one of which looks at what an update brings; 7 calls (create, publish and two updates of one product, with an attribute or without, detail, both lists), 3 in flight; failing `insertInventory`, `updateProduct`, deletions and stores; expiring keys, crashes | 1 948 963 | parts of a product hang together, copies agree, stale lists are swept |
| `accounts` | 4 requests, 2 profiles, 2 addresses of which one profile reports both, 2 round trips; failing deletion, exchange and writes; expiring states, crashes | 2 308 762 | one account each, a state is spent once |
| `discounts` | 2 codes of 2 shops, 4 calls of any kind, 3 drafts (a fixed amount, a percentage, one expired), 4 updates (off; on without a minimum and with three uses; renamed; two uses and the buyers refused), 3 carts (empty, below the minimum, both shops); failing `insert`, `update` and amount; lapsing codes, crashes | 2 354 189 | twins have a cause, deleted is deleted, cancellations count, totals add up |
| `race` | two requests with one key, no failure | violation | both place an order (`OneOrderPerKey`) |
| `committed` | an online payment method | violation | the checkout is refused by the schema (`ValidCheckoutSucceeds`) |
| `contended` | a cancellation beside a confirmation | violation | the order is saved as cancelled and then as confirmed, its stock back on sale (`StatusFollowsTable`) |

The properties of the passing runs:

* `TypeOK` (no stock below zero), `StockAccounted`, `OrderBacked`, `RollbackComplete`,
  `PlacedIsComplete`, `LateRetryReplayed`, `ReplayShowsAnOrder` (except orders that were rolled back after
  their result was stored), `PlacesAtomically` (refinement of `StockLedger`), `EveryRequestSettles`,
  `LockHasHolder` (the request that set a lock that is there is under way, was lost in a crash, or was told
  of an error because its unlock threw) - `Checkout`.
* `DeskStockAccounted`, `SoldOrdersKeepStock`, `CancelledOrdersReturnStock` - `OrderDesk`, for desk calls
  that overlap in any way. The exceptions are events of one order: for both of the first two a cancellation
  that broke off before its save (`BrokeOff`); for the first, two cancellations under way together
  (`CancelledTwice`) and an order whose own checkout rolled back what a cancellation had returned
  (`RolledBackToo`); for the second, a cancellation and an update under way together (`Contested`).
  `DeskStockAccounted` speaks of one product at a time, so such an order excuses its own products only.
* `PaidHasCause`, `PaidIsFinal`, `SnapshotFollows`, `AnswerIsTrue` - `Payment`;
  contradictory reports on one payment are not handled at the same time (`MayDisagree`).
* `RecordIsTrue` (while the lookup and the save of the catch block work), `MailsBounded`, `SentIsFinal`
  (except jobs that BullMQ found stalled), `QueuedIsSettled` (except records whose job was never added,
  and jobs given up as stalled) - `Notification`.
* `RevokedIsRefused`, `LoggedOutStaysOut`, `OneTokenPerSession`, `EndsForGood` (refinement of
  `SessionLife`); the exceptions
  (two calls that carry one token at a time, a refresh already past its check) are in the
  properties and are what the middleware does not stop.
* `ResetHasCause`, `OtpIsSpent`, `FailuresBlock`, and from the limiters
  `AdmittedWithinLimit`, `KeyWillExpire`; the exceptions for overlapping handlers and broken-off
  writes are named in each.
* `CreatedIsWhole`, `AttributesAgree`, `StaleListIsSwept`; the exceptions
  (updates that overlapped or broke off; for a list, a reader that stores what it read before a change, a
  deletion that threw or was lost, an update that changed what its query finds, and a list scanned after
  another one) are what the code leaves open and are named by the history variables.
* `NoTwinAccounts` (except profiles with two callbacks at one time, because
  `google_id` has no unique index), `StateIsSpentOnce` (except states that two callbacks found stored
  before either deleted them).
* `TwinsHaveCause`, `DeletedStaysDeleted`, `EveryCancelCounts` (a counter is what it was last set to, by
  the creation or an update, and one more or less for every cancellation since), `TotalsAddUp` (except calls that were granted
  a code whose terms make no sense, see section 4) - `Discounts`.

**Why the bounds are enough.** Every hazard the properties are about needs at most two actors that
overlap and a third before or after them: two checkouts compete for a product while a retry comes
late, a cancellation meets an update and is repeated, a report is repeated while another is handled, a
logout meets a refresh of a token an earlier call signed. Each instance has one actor more than the
shortest such behaviour. Lines, attempts and limits are the smallest with a first, a last and a
failing one. The mutants in `PROJECT.json` show that each property is reached: changing one
definition the way a plausible bug would breaks it within the same instance.

**Named bounds**: `LastSecond`, `MaxInFlight` (`AccountGuard`, `Catalogue`), `MaxCrashes`, `NoCrashYet` (one crash in
`OrderDesk`). `Discounts` is bounded by its calls. The other modules need
none: a request is served once.

**Fairness.** `Checkout`: weak fairness of `Serve(r)`, because Node runs the continuation of every
call that settles and every call settles (drivers time out). No fairness for arrivals, crashes,
failures or the expiry of keys: no property needs a TTL to run out. `Notification`: weak
fairness of `Work(n)`, because BullMQ polls for jobs, retries and looks for stalled ones as long as
a process runs or is started again, with a bounded number of crashes, and of a `createNotification`
that has begun, because every call it awaits settles; no fairness for its beginning, for reading or for
crashes. The other modules have no liveness property and no fairness.

Deadlock is checked in every run; each module names the states in which it may stop (`Quiet`,
`AllQuiet`).

## 4. Findings

The three violation runs are disagreements between the code and a sentence of its documents;
`PROJECT.json` quotes the sentences. In the third, `contended`, a cancellation and a confirmation both read
the order as pending; the cancellation returns the lines and saves `cancelled`, and the confirmation saves
`confirmed` over that, although nothing follows `cancelled` in `ORDER_TRANSITIONS` and `openapi.js:409` lists
the transitions there are. The order stays confirmed with its stock back on sale. Smaller facts found while reading, not checked by
a run: a response stored under an idempotency key outlives the rollback of its order, so a retry may be
shown, for 600 seconds, an order that is gone (the exception of `ReplayShowsAnOrder`); an order that was
cancelled can be paid; an order that is cancelled while its checkout is still creating the notification has
its lines put back twice when that call fails, by the cancellation (lines 593-610) and by the rollback
(`RolledBackToo`: the proof of `DeskStockAccounted` stopped there, and the run confirmed it once the last
call of a checkout could fail); a total with more than two decimals is never matched by a report of VNPay, which
was told it rounded (`AnswerIsTrue`); a percentage code without a minimum order value grants nothing and a
fixed amount without one makes `getDiscountAmount` answer a total below zero, because the order value is
summed up only for codes with a minimum (`discount.service.js:233-237`), and an order with a total below
zero is refused by the schema of its payment (`payment.model.js:36`); `cancelDiscountCode` asks for no
earlier use, so it hands out uses and takes `discount_cout_user` below zero; a code whose first document is
inactive can be created again and again; a record of a mail that was sent may go back to queued after a
stall (`SentIsFinal`); an update of some attributes loses the others from the product, though not from
the typed document; when the second save of a payment
fails, the repeated report is answered 02 and the order stays unpaid (the exception `BrokeOff` of
`SnapshotFollows`); `signUp` keeps an address as it is typed and Google sign-in looks for it in lower
case, so one mailbox may have two accounts; a limiter key that lost its TTL tells clients to retry
in one second for ever; verification by code does not revoke sessions; `product.repo.js:122-137`
cannot find any product; `addToCart` throws on every call, because its parameter `product` hides the
model (`cart.service.js:74-76`); the key of a cached list leaves price and shop filters out, so a
filtered query may be shown the answer of another; `updateProduct` invalidates nothing, so a changed
product is shown as it was for up to 300 seconds, in lists it no longer belongs to as well; with several
lists cached, publishing or withdrawing a product deletes one of them only (`cache.service.js:37`), and the
others stay as they were; `updateDiscountCode` writes whatever fields the body names, so an update can
overwrite `discount_max_users` and `discount_cout_user` and with them what cancellations have counted.

## 5. What is proved

Every theorem holds for **all** values of the constants that the named assumptions of its module allow
(`BasketsAssumption`, `CheckoutAssumption`, `PaymentAssumption` and so on: sets of requests or calls of
any size, any choice of failing steps, with and without crashes). What the assumptions say is what the
code says of its own constants, that names of "nothing" are not names of something, and that there is an
attribute, a step or an account to speak of; TLC evaluates them in the runs. Three theorems about `Payment` have a
hypothesis of their own, `~MayDisagree`, named below, which the property itself needs.

Every safety and action property of the passing runs is a theorem:

| Module | Theorem | States |
|---|---|---|
| `CheckoutProofs` | `Invariance` | the inductive invariant `IInv` always holds |
| | `TypeCorrect` | `TypeOK` |
| | `StockIsAccounted` | `StockAccounted` |
| | `OrdersAreBacked` | `OrderBacked` |
| | `RollbackIsComplete` | `RollbackComplete` |
| | `PlacedAreComplete` | `PlacedIsComplete` |
| | `LateRetriesAreReplayed` | `LateRetryReplayed` |
| | `ReplaysShowOrders` | `ReplayShowsAnOrder` |
| | `LocksHaveHolders` | `LockHasHolder` |
| | `ImplementsLedger` | `PlacesAtomically`: `Spec` implements `StockLedger` |
| (of `OrderDesk`) | `CheckoutStands` | `TypeOK`, `OrderBacked`, `RollbackComplete`, `PlacedIsComplete` beside the desk |
| | `CancelledHaveReturned` | `CancelledOrdersReturnStock` |
| | `DeskStockIsAccounted` | `DeskStockAccounted` |
| | `SoldOrdersHaveStock` | `SoldOrdersKeepStock` |
| `PaymentProofs` | `PaidForCause` | `PaidHasCause` |
| | `OrdersShowTheirPayments` | `SnapshotFollows`, if `~MayDisagree` |
| | `AnswersAreTrue` | `AnswerIsTrue`, if `~MayDisagree` |
| | `PaidStaysPaid` | `PaidIsFinal`, if `~MayDisagree` |
| `NotificationProofs` | `RecordsAreTrue` | `RecordIsTrue` |
| | `MailsAreBounded` | `MailsBounded` |
| | `SentStaysSent` | `SentIsFinal` |
| `SessionsProofs` | `RevokedAreRefused` | `RevokedIsRefused` |
| | `OutStaysOut` | `LoggedOutStaysOut` |
| | `RotationKeepsOne` | `OneTokenPerSession` |
| | `ImplementsLife` | `EndsForGood`: `Spec` implements `SessionLife` |
| `AccountGuardProofs` | `Invariance` | the inductive invariant of limiters and handlers |
| | `LimitsHold` | `AdmittedWithinLimit` |
| | `KeysExpire` | `KeyWillExpire` |
| | `ResetsHaveCause` | `ResetHasCause` |
| | `OtpsAreSpent` | `OtpIsSpent` |
| | `WrongPasswordsBlock` | `FailuresBlock` |
| `AccountsProofs` | `NoTwins` | `NoTwinAccounts` |
| | `StatesAreSpentOnce` | `StateIsSpentOnce` |
| `CatalogueProofs` | `CreatedWhole` | `CreatedIsWhole` |
| | `AttributesStayTogether` | `AttributesAgree` |
| | `StaleListsAreSwept` | `StaleListIsSwept` |
| `DiscountsProofs` | `Invariance` | the inductive invariant of calls, collection, cancellations and totals |
| | `TwinsAreCaused` | `TwinsHaveCause` |
| | `DeletedAreGone` | `DeletedStaysDeleted` |
| | `CancelsAreCounted` | `EveryCancelCounts` |
| | `TotalsAreSums` | `TotalsAddUp` |

Each module has the same layout: a type invariant, a definition per thing the proof has to know of a call
in flight, their conjunction as inductive invariant, one lemma for the first state, one per conjunct (and
per action where it is disturbed) for the step, and the theorems. TLC finds the inductive
invariants true on the instances of section 3.

**Checkout.** None of the properties is inductive alone: `OrderBacked` survives `DeleteOrder` and `Restore`
only because an order is gone before the first line is put back, which is a fact about `pc`.
`IInv` adds, for each request, what each value of `pc` says: `CountersOK` (how many lines are
reserved and put back), `OrderOK` (whether order and payment exist), `VerdictOK` (how the function
ended and what it left) and, for keys whose result does not expire, `ResultOK` (the result stays stored once
somebody is past storing it, so a late retry goes no further than its first read). One lemma per
action and conjunct shows that `IInv` is kept; `StockAccounted` is kept because a reservation moves
exactly the units of one line into `HeldLines` and a restore moves them out, which is arithmetic of
cardinalities of finite unions (the lemmas at the head of the module). `ReplayShowsAnOrder` rests on
`ShownInv`: every stored result, and every answer shown, names an order of its own key that is there with
its payment or whose checkout has been refused since (`Kept`). `LockHasHolder` is inductive with `IInv`: a request sets the
lock once, on its way into the checkout, and from there every way out, through the catch block too, ends in
the unlock of its own key. For the refinement, a step that turns a
verdict to `"placed"` or `"unreported"` for the first time is `Place(r)`: the lines of all placed
requests are held at that moment, so `StockAccounted` and `stock \in Nat` give `Covered`; every other
step stutters.

**Order desk.** `OrderDesk` runs both services over one stock, so the invariant of `Checkout` has to be
kept by the desk too. `DeskInv` is `LocalInv` (what `IInv` says of each request) with `CancelOK`
(a cancellation returns the lines one by one, has returned all when it saves, and works only on orders whose lines
are all reserved), `CancelledOK` and `UpdateOK`. `MeetInv` is about calls that overlap: those under way on
one order have met (`UnderWayHaveMet`), two cancellations that both began to return lines have met or one of the
order broke off (`CancelsMet`, because a saved cancellation leaves an order that no later one finds pending:
`SavedNotPending`), and only an update that met a cancellation writes over it (`SavedOrContested`). Then the
sum: a returned line leaves `HeldLines \ ReturnedLines` once, unless its order is one of the three exceptions.

**Payments.** `CallsInv` is what a step says of its own call, enough for the cause of a payment. Finality needs more:
a call saves what follows from a payment it read one call earlier. `Agree` says that calls under way on one payment
report the same outcome (that is `~MayDisagree`: VNPay decides a transaction once and repeats that decision); from it
`Fresh` follows (the copy is the payment, or the payment has become what the copy is about to become), then
`Told` (the answers) and `Catching` (an order lags behind its payment only while, or because, a call did not finish).

**Notifications.** `MailsPaid` gives every mail an attempt that is over, a stall, or the attempt under way; `RecordOK`
what the record says at each step of the processor; `SentOK` that without a stall a sent notification is out of its hands.

**Sessions.** `TokenOK` ties a document to the second its token was signed in; `OneHeir` counts, for an undisturbed
session, live token plus the calls that are about to replace it, which is one or nothing; `GoesOn` says
which reason ended a session that has neither. `LateRefused` says that a late call passes its check only when the TTL
index has removed the document, and that its own lookup then finds none. In the refinement, saving the first token of
a sign-in is `Begin`; every other step leaves a session as it is or ends some, a crash and a `logoutAll` several at once.

**Account guard.** `Counts` and `Cools` say, limiter by limiter, that admitted requests and the key's count move together
and that the first request is the one to give the key its TTL; they are proved for any chains, also those that
share a limiter. `HasCause`, `LoginOK`, `CodesStored` and `OtpOK` are about the handlers: which code was matched, how many failures
the counter and the calls in flight stand for, and that a matched code is stored nowhere any more.

**Accounts.** `OneIndexed` is the unique index, `OneLinked` that the one callback that found no account for its profile is the only
one to link it, `SpentIsGone` and `OneAdmitted` that a deleted state key stays deleted and that who deletes it with the key there is the first.

**Catalogue.** `CreationOK` says how far a creation has come and what there is by then; `UpdateOK` and `StillWhole`
what an update between its two writes has done to the typed document; `ReaderOK` that a reader that was not overtaken holds what its query
finds now. With these, a list that is stale is suspect (stored late, made stale by an update, scanned after another
one, or left by a deletion that did not happen) or in reach of a sweep that has not yet scanned or has its key in hand.

**Discounts.** The collection is a sequence, so the proofs begin with the first match: that a non-empty set of positions has
a least one is proved by counting the positions before all of it (`LeastPosition`), since the library's own statement
takes an operator as parameter. `IdsOK` says that a document has its id to itself, so that a deletion takes one id away;
`CancelsOK` that a cancellation is counted when its call ends and only for documents that were there, so that a new
document has none, and that an update of a counter starts its count again; `TwinsOK` that a code with an inactive document is in `loose` and that a create about to insert
beside a document of its code has `raced` or `loose` as its reason; `TotalsOK` what a review has summed up when it comes to a line, and
when the discount of that line is still to come. The price of a cart is counted in units (`Units`), so that
one more line adds its price by the cardinality of a union, without a sum over the cart.

What the proofs changed in the models: `DeskStockAccounted` was false for an order that is cancelled and then rolled back by
its own checkout, which the instance could not show because only one checkout could fail there; it names that exception
now and the instance has the case. `Sessions` did not say that `"none"` is no call, and `Catalogue` that there are attributes
(with none, a document that is there and one that is not would be the same record). `Discounts`
now says that a cart is a sequence of lines, and `TotalsAddUp` counts the reference price in units instead of folding over the
cart; `MCDiscounts` has its prices in tens for that. The proof of `SoldOrdersKeepStock` for overlapping desk calls needed one
exception, the meeting of a cancellation and an update, and showed that two cancellations that overlap do
not harm a sold order. Nothing else had to be assumed.

**Only model-checked**:

* `EveryRequestSettles` (`Checkout`) and `QueuedIsSettled` (`Notification`): liveness under fairness is out of the
  prover's reach.

## 6. Plan

Done: all modules of section 2, the abstract `StockLedger` and `SessionLife`, and the proofs of section 5.

Left: `OrderDesk` composed with `Payment`, if the code comes to decide what an order is that is cancelled while
it is paid. Today neither looks at the other's field, and no text says which outcome is meant.

## 7. Not modelled

The HTTP layer, controllers and routes (no state; the order of the middlewares in front of a handler is
in the modules), formatting of responses and errors, signatures (a defect of the request),
password hashing, pagination, the listings, connections to MongoDB, Redis and SMTP (every call may
fail), API keys and roles (lookups), the cart (no call of the API can make one: `addToCart` always throws
and the other updates only match a cart that exists, so `Checkout` takes as given which carts there are),
comments (create, update and soft delete of one document behind an owner check, each a save of
the changed fields only, with no other state to relate it to), swagger and deployment scripts. `removeExpiredTokens` and
`getActiveTokens` have no caller. Network partitions between Redis replicas and MongoDB elections are
below what the code sees.

## 8. Running the checks

    tlc -workers 2 -config MCCheckout.cfg MCCheckout      # likewise the other cfg files
    tlapm CheckoutProofs.tla                              # likewise the other *Proofs modules

`MCRace` and `MCCommitted` are configurations of `MCCheckout`, `MCContended` of `MCOrderDesk`; TLC reports
a violation for these three.
