------------------------------ MODULE Checkout ------------------------------
(***************************************************************************)
(* CheckoutService.orderByUser and everything it calls.  Every awaited     *)
(* call to MongoDB, Redis or BullMQ is one step, because the event loop    *)
(* runs other requests while the call is pending; what the function does   *)
(* between two awaits belongs to the step before.  pc[r] names the call    *)
(* request r makes next.                                                   *)
(*                                                                         *)
(* An order, its payment and its notification carry the name of the        *)
(* request that makes them.  A Keys element stands for one user together   *)
(* with one trimmed x-idempotency-key.                                     *)
(***************************************************************************)
EXTENDS Baskets

CONSTANTS
  Keys, NoKey, LongKey,  \* idempotency keys; no key; one of more than 128 characters
  KeyOf,                 \* request -> Keys \cup {NoKey, LongKey}
  Carts, CartOf,         \* request -> the cart it names
  MethodOf,              \* request -> user_payment.method
  Reachable,             \* the requests whose buyer has an address to write to
  OrderPaymentEnum,      \* the order schema's enum of order_payment.status
  CatalogueAnswers,      \* what pricing the items may come to: "priced", "rejected"
  Failing,               \* the steps whose call may throw
  MayCrash,              \* the API process may stop and be started again
  SlowRequests,          \* a request may outlive the 30 seconds of its lock
  Fleeting,              \* the keys whose result may see its 600 seconds pass
  NoOrder

BeforeTry == {"readResult", "readLock", "setLock"}
InTry     == {"review", "reserve", "createOrder", "createPayment", "saveSnapshot",
              "emptyCart", "storeResult", "notify", "enqueue"}
InCatch   == {"deleteOrder", "restore"}
InFinally == {"unlock"}
Calls     == BeforeTry \cup InTry \cup InCatch \cup InFinally

ASSUME CheckoutAssumption ==
  /\ NoKey \notin Keys /\ LongKey \notin Keys \cup {NoKey}
  /\ KeyOf \in [Requests -> Keys \cup {NoKey, LongKey}]
  /\ CartOf \in [Requests -> Carts]
  /\ Failing \subseteq Calls
  /\ Fleeting \subseteq Keys
  /\ MayCrash \in BOOLEAN /\ SlowRequests \in BOOLEAN
  /\ NoOrder \notin Requests

VARIABLES
  stock,      \* product -> inven_stock
  cart,       \* cart -> "missing", "filled" or "empty"
  orders,     \* order -> "absent", "created", or "linked" once it names its payment
  payments,   \* order -> payment_status, "absent" when there is no document
  notices,    \* order -> its order.created notification
  lock,       \* key -> who set order:idempotency:lock, NoOrder when it is not set: the value
              \* is the same for all, and no step looks at more than whether there is one
  result,     \* key -> the order kept under order:idempotency:result
  pc,         \* request -> the call it makes next
  reserved,   \* request -> length of reservedItems
  restored,   \* request -> how many of them restoreReservedInventory has put back
  verdict,    \* request -> how the function ended
  answer,     \* request -> the order its response shows
  lateRetry   \* request -> came after a request of its key had been answered (history)

service == <<stock, cart, orders, payments, notices>>
cache   == <<lock, result>>
process == <<pc, reserved, restored, verdict, answer, lateRetry>>
vars    == <<service, cache, process>>

\* "unreported" and "unreleased": placed, or refused, but for the unlock that threw.
Verdicts == {"none", "placed", "replayed", "refused", "unreported", "unreleased"}
Settled(r) == pc[r] \in {"done", "lost"}
HasKey(r) == KeyOf[r] \in Keys
Locked(k) == lock[k] # NoOrder

-----------------------------------------------------------------------------
(* buildOrderPaymentSnapshot: the status order.create is given.  "mock"     *)
(* stands for credit_card, paypal and bank_transfer.                        *)
AllowedMethods == {"COD", "mock", "vnpay"}

SnapshotStatus(m) == IF m = "COD" THEN "pending" ELSE "requires_action"

OrderIsValid(r) ==
  /\ MethodOf[r] \in AllowedMethods
  /\ SnapshotStatus(MethodOf[r]) \in OrderPaymentEnum

\* The lines request r has taken from the stock and not put back.
HeldBy(r) == (restored[r] + 1) .. reserved[r]

HeldLines == {l \in Lines : l[2] \in HeldBy(l[1])}

-----------------------------------------------------------------------------
(* Where control goes.                                                      *)
AfterReserving_OneShort(r, n) == IF n + 1 < Len(Basket[r]) THEN "reserve" ELSE "createOrder"

AfterReserving(r, n) == IF n < Len(Basket[r]) THEN "reserve" ELSE "createOrder"

Finally(r) == IF HasKey(r) THEN "unlock" ELSE "done"

AfterDelete_NoRollback(r) == Finally(r)

AfterDelete_Again(r) == "deleteOrder"

AfterDelete(r) == IF reserved[r] > 0 THEN "restore" ELSE Finally(r)

AfterRestoring_KeepsLock(r, n) == IF n < reserved[r] THEN "restore" ELSE "done"

AfterRestoring(r, n) == IF n < reserved[r] THEN "restore" ELSE Finally(r)

Catch(r) == IF orders[r] # "absent" THEN "deleteOrder" ELSE AfterDelete(r)

Goto(r, step) == pc' = [pc EXCEPT ![r] = step]

Ends(r, v) == verdict' = [verdict EXCEPT ![r] = v]

Throw_Swallowed(r) ==
  /\ Goto(r, Finally(r))
  /\ Ends(r, "placed")
  /\ UNCHANGED <<service, cache, reserved, restored, answer, lateRetry>>

Throw(r) ==
  /\ Goto(r, Catch(r))
  /\ Ends(r, "refused")
  /\ UNCHANGED <<service, cache, reserved, restored, answer, lateRetry>>

\* return responsePayload: the finally block still runs.
Return(r) ==
  /\ Goto(r, Finally(r))
  /\ Ends(r, "placed")
  /\ answer' = [answer EXCEPT ![r] = r]

-----------------------------------------------------------------------------
Init ==
  /\ stock = InitialStock
  /\ cart \in [Carts -> {"missing", "filled"}]
  /\ orders = [r \in Requests |-> "absent"]
  /\ payments = [r \in Requests |-> "absent"]
  /\ notices = [r \in Requests |-> "none"]
  /\ lock = [k \in Keys |-> NoOrder]
  /\ result = [k \in Keys |-> NoOrder]
  /\ pc = [r \in Requests |-> "idle"]
  /\ reserved = [r \in Requests |-> 0]
  /\ restored = [r \in Requests |-> 0]
  /\ verdict = [r \in Requests |-> "none"]
  /\ answer = [r \in Requests |-> NoOrder]
  /\ lateRetry = [r \in Requests |-> FALSE]

AnsweredFor(k) ==
  \E q \in Requests : KeyOf[q] = k /\ pc[q] = "done" /\ verdict[q] = "placed"

\* normalizeIdempotencyKey, up to the first call.
Arrive(r) ==
  /\ pc[r] = "idle"
  /\ lateRetry' = [lateRetry EXCEPT ![r] = HasKey(r) /\ AnsweredFor(KeyOf[r])]
  /\ \/ KeyOf[r] = NoKey /\ Goto(r, "review") /\ UNCHANGED verdict
     \/ HasKey(r) /\ Goto(r, "readResult") /\ UNCHANGED verdict
     \/ KeyOf[r] = LongKey /\ Goto(r, "done") /\ Ends(r, "refused")
  /\ UNCHANGED <<service, cache, reserved, restored, answer>>

ReadResult(r) ==
  /\ pc[r] = "readResult"
  /\ \/ /\ result[KeyOf[r]] # NoOrder
        /\ answer' = [answer EXCEPT ![r] = result[KeyOf[r]]]
        /\ Goto(r, "done") /\ Ends(r, "replayed")
     \/ /\ result[KeyOf[r]] = NoOrder
        /\ Goto(r, "readLock")
        /\ UNCHANGED <<verdict, answer>>
  /\ UNCHANGED <<service, cache, reserved, restored, lateRetry>>

\* The lock is read here and set by a later call: nothing makes the two one.
ReadLock(r) ==
  /\ pc[r] = "readLock"
  /\ \/ Locked(KeyOf[r]) /\ Goto(r, "done") /\ Ends(r, "refused")
     \/ ~Locked(KeyOf[r]) /\ Goto(r, "setLock") /\ UNCHANGED verdict
  /\ UNCHANGED <<service, cache, reserved, restored, answer, lateRetry>>

SetLock(r) ==
  /\ pc[r] = "setLock"
  /\ lock' = [lock EXCEPT ![KeyOf[r]] = r]
  /\ Goto(r, "review")
  /\ UNCHANGED <<service, result, reserved, restored, verdict, answer, lateRetry>>

(* checkoutReview writes nothing: what matters of it is whether it throws.  *)
(* No shop in the call means no lookup, and an empty order.                 *)
CanBePriced(r) ==
  /\ cart[CartOf[r]] # "missing"
  /\ Basket[r] = <<>> \/ "priced" \in CatalogueAnswers

CanBeRejected(r) ==
  \/ cart[CartOf[r]] = "missing"
  \/ Basket[r] # <<>> /\ "rejected" \in CatalogueAnswers

Review(r) ==
  /\ pc[r] = "review"
  /\ \/ /\ CanBePriced(r)
        /\ Goto(r, AfterReserving(r, 0))
        /\ UNCHANGED <<service, cache, reserved, restored, verdict, answer, lateRetry>>
     \/ CanBeRejected(r) /\ Throw(r)

\* reserveInventory: one conditional update, so the check and the decrement are one step.
StockAllows_Unchecked(line) == TRUE

StockAllows(line) == stock[line.product] >= line.quantity

Reserve(r) ==
  LET line == Basket[r][reserved[r] + 1] IN
  /\ pc[r] = "reserve"
  /\ \/ /\ StockAllows(line)
        /\ stock' = [stock EXCEPT ![line.product] = @ - line.quantity]
        /\ reserved' = [reserved EXCEPT ![r] = @ + 1]
        /\ Goto(r, AfterReserving(r, reserved[r] + 1))
        /\ UNCHANGED <<cart, orders, payments, notices, cache, restored, verdict, answer, lateRetry>>
     \/ ~StockAllows(line) /\ Throw(r)

CreateOrder_Stores(r) ==
  /\ pc[r] = "createOrder" /\ OrderIsValid(r)
  /\ orders' = [orders EXCEPT ![r] = "created"]
  /\ result' = [k \in Keys |-> IF k = KeyOf[r] THEN r ELSE result[k]]
  /\ Goto(r, "createPayment")
  /\ UNCHANGED <<stock, cart, payments, notices, lock,
                 reserved, restored, verdict, answer, lateRetry>>

CreateOrder(r) ==
  /\ pc[r] = "createOrder"
  /\ \/ /\ OrderIsValid(r)
        /\ orders' = [orders EXCEPT ![r] = "created"]
        /\ Goto(r, "createPayment")
        /\ UNCHANGED <<stock, cart, payments, notices, cache,
                       reserved, restored, verdict, answer, lateRetry>>
     \/ ~OrderIsValid(r) /\ Throw(r)

\* The order is new, so createPaymentForOrder finds no earlier payment of it.
CreatePayment(r) ==
  /\ pc[r] = "createPayment"
  /\ payments' = [payments EXCEPT ![r] = SnapshotStatus(MethodOf[r])]
  /\ Goto(r, "saveSnapshot")
  /\ UNCHANGED <<stock, cart, orders, notices, cache,
                 reserved, restored, verdict, answer, lateRetry>>

SaveSnapshot(r) ==
  /\ pc[r] = "saveSnapshot"
  /\ orders' = [orders EXCEPT ![r] = "linked"]
  /\ Goto(r, "emptyCart")
  /\ UNCHANGED <<stock, cart, payments, notices, cache,
                 reserved, restored, verdict, answer, lateRetry>>

EmptyCart(r) ==
  /\ pc[r] = "emptyCart"
  /\ cart' = [cart EXCEPT ![CartOf[r]] = "empty"]
  /\ Goto(r, IF HasKey(r) THEN "storeResult" ELSE "notify")
  /\ UNCHANGED <<stock, orders, payments, notices, cache,
                 reserved, restored, verdict, answer, lateRetry>>

StoreResult(r) ==
  /\ pc[r] = "storeResult"
  /\ result' = [result EXCEPT ![KeyOf[r]] = r]
  /\ Goto(r, "notify")
  /\ UNCHANGED <<service, lock, reserved, restored, verdict, answer, lateRetry>>

\* createNotification: a recipient without an address gets a record and no job.
Notify(r) ==
  /\ pc[r] = "notify"
  /\ \/ /\ r \in Reachable
        /\ notices' = [notices EXCEPT ![r] = "recorded"]
        /\ Goto(r, "enqueue")
        /\ UNCHANGED <<verdict, answer>>
     \/ /\ r \notin Reachable
        /\ notices' = [notices EXCEPT ![r] = "not_requested"]
        /\ Return(r)
  /\ UNCHANGED <<stock, cart, orders, payments, cache, reserved, restored, lateRetry>>

Enqueue(r) ==
  /\ pc[r] = "enqueue"
  /\ notices' = [notices EXCEPT ![r] = "queued"]
  /\ Return(r)
  /\ UNCHANGED <<stock, cart, orders, payments, cache, reserved, restored, lateRetry>>

DeleteOrder(r) ==
  /\ pc[r] = "deleteOrder"
  /\ orders' = [orders EXCEPT ![r] = "absent"]
  /\ Goto(r, AfterDelete(r))
  /\ UNCHANGED <<stock, cart, payments, notices, cache,
                 reserved, restored, verdict, answer, lateRetry>>

PutBack_Single(line) == 1

PutBack(line) == line.quantity

Restore(r) ==
  LET line == Basket[r][restored[r] + 1] IN
  /\ pc[r] = "restore"
  /\ stock' = [stock EXCEPT ![line.product] = @ + PutBack(line)]
  /\ restored' = [restored EXCEPT ![r] = @ + 1]
  /\ Goto(r, AfterRestoring(r, restored[r] + 1))
  /\ UNCHANGED <<cart, orders, payments, notices, cache, reserved, verdict, answer, lateRetry>>

Unlock_DropsResult(r) ==
  /\ pc[r] = "unlock"
  /\ lock' = [lock EXCEPT ![KeyOf[r]] = NoOrder]
  /\ result' = [result EXCEPT ![KeyOf[r]] = NoOrder]
  /\ Goto(r, "done")
  /\ UNCHANGED <<service, reserved, restored, verdict, answer, lateRetry>>

\* The value under the lock names no owner: it is deleted whoever set it.
Unlock(r) ==
  /\ pc[r] = "unlock"
  /\ lock' = [lock EXCEPT ![KeyOf[r]] = NoOrder]
  /\ Goto(r, "done")
  /\ UNCHANGED <<service, result, reserved, restored, verdict, answer, lateRetry>>

-----------------------------------------------------------------------------
(* A call throws and has done nothing.  Before the try block the error goes *)
(* straight to the client, with the lock left as it is; in the catch block  *)
(* it ends the rollback; in the finally block it replaces the response.     *)
CallThrows(r) ==
  /\ pc[r] \in Failing
  /\ \/ pc[r] \in InTry /\ Throw(r)
     \/ /\ pc[r] \notin InTry
        /\ Goto(r, IF pc[r] \in InCatch THEN Finally(r) ELSE "done")
        /\ Ends(r, IF pc[r] # "unlock" THEN "refused"
                   ELSE IF verdict[r] = "placed" THEN "unreported" ELSE "unreleased")
        /\ UNCHANGED <<service, cache, reserved, restored, answer, lateRetry>>

\* The process stops: requests in flight are lost, MongoDB and Redis keep what they hold.
Crash ==
  /\ MayCrash
  /\ \E r \in Requests : pc[r] \in Calls
  /\ pc' = [r \in Requests |-> IF pc[r] \in Calls THEN "lost" ELSE pc[r]]
  /\ UNCHANGED <<service, cache, reserved, restored, verdict, answer, lateRetry>>

\* Requests between their SetLock and the end.
Working(k) == \E r \in Requests : KeyOf[r] = k /\ pc[r] \in Calls \ BeforeTry

LockExpires(k) ==
  /\ Locked(k)
  /\ SlowRequests \/ ~Working(k)
  /\ lock' = [lock EXCEPT ![k] = NoOrder]
  /\ UNCHANGED <<service, result, process>>

ResultExpires(k) ==
  /\ k \in Fleeting
  /\ result[k] # NoOrder
  /\ result' = [result EXCEPT ![k] = NoOrder]
  /\ UNCHANGED <<service, lock, process>>

\* The next call of request r: it succeeds, is answered with a refusal, or throws.
Serve(r) ==
  \/ ReadResult(r) \/ ReadLock(r) \/ SetLock(r) \/ Review(r) \/ Reserve(r)
  \/ CreateOrder(r) \/ CreatePayment(r) \/ SaveSnapshot(r) \/ EmptyCart(r)
  \/ StoreResult(r) \/ Notify(r) \/ Enqueue(r)
  \/ DeleteOrder(r) \/ Restore(r) \/ Unlock(r)
  \/ CallThrows(r)

\* Every request has been answered or lost, and no lock is left to expire.
Quiet ==
  /\ \A r \in Requests : Settled(r)
  /\ \A k \in Keys : ~Locked(k)
  /\ UNCHANGED vars

Next ==
  \/ \E r \in Requests : Arrive(r) \/ Serve(r)
  \/ \E k \in Keys : LockExpires(k) \/ ResultExpires(k)
  \/ Crash
  \/ Quiet

\* Node runs the continuation of every call that settles, and every call settles.
Fairness == \A r \in Requests : WF_vars(Serve(r))

Spec == Init /\ [][Next]_vars /\ Fairness

-----------------------------------------------------------------------------
(* Properties.                                                              *)

TypeOK ==
  /\ stock \in [Products -> Nat]
  /\ cart \in [Carts -> {"missing", "filled", "empty"}]
  /\ orders \in [Requests -> {"absent", "created", "linked"}]
  /\ payments \in [Requests -> {"absent", "pending", "requires_action"}]
  /\ notices \in [Requests -> {"none", "not_requested", "recorded", "queued"}]
  /\ lock \in [Keys -> Requests \cup {NoOrder}]
  /\ result \in [Keys -> Requests \cup {NoOrder}]
  /\ pc \in [Requests -> Calls \cup {"idle", "done", "lost"}]
  /\ reserved \in [Requests -> Nat]
  /\ restored \in [Requests -> Nat]
  /\ verdict \in [Requests -> Verdicts]
  /\ answer \in [Requests -> Requests \cup {NoOrder}]
  /\ lateRetry \in [Requests -> BOOLEAN]

\* Stock is never created or lost: what a product is short of is exactly the units of
\* the lines some request has reserved (lines 362-386) and not rolled back (193-208),
\* through every interleaving, failed call and crash.
StockAccounted ==
  \A p \in Products :
    stock[p] + Cardinality(UnitsIn(HeldLines, p)) = InitialStock[p]

\* No order is in the database, at any moment, without the stock of all of its lines:
\* it is created after the last reservation and deleted before the first restore.
OrderBacked ==
  \A r \in Requests : orders[r] # "absent" => HeldBy(r) = DOMAIN Basket[r]

\* A checkout that answers with an error has left neither an order nor a reservation
\* behind, as long as the calls of the rollback itself succeed (lines 447-464).
RollbackComplete ==
  Failing \cap InCatch = {} =>
    \A r \in Requests :
      pc[r] = "done" /\ verdict[r] \in {"refused", "unreleased"} =>
        orders[r] = "absent" /\ HeldBy(r) = {}

\* "if transaction creation fails during checkout, checkout should fail"
\* (docs/notification-payment-architecture.md:109): a checkout that ends well has its
\* order, the order names its payment, and the notification is recorded.
PlacedIsComplete ==
  \A r \in Requests :
    verdict[r] \in {"placed", "unreported"} =>
      /\ orders[r] = "linked" /\ payments[r] # "absent"
      /\ notices[r] \in {"not_requested", "queued"}

\* A retry sent after its key was answered takes no stock and makes no second order,
\* while the stored result lasts.
LateRetryReplayed ==
  \A r \in Requests :
    lateRetry[r] /\ KeyOf[r] \notin Fleeting =>
      orders[r] = "absent" /\ reserved[r] = 0 /\ verdict[r] # "placed"

\* "safely retry without duplicate orders" (docs/swagger/openapi.js:369): the order a
\* retry is shown belongs to its key, has its payment, and is in the database with the
\* payment in it, whoever stored it and whatever broke off since.  The one exception is
\* the code's own: the result is stored (line 422) before the notification whose failure
\* rolls the order back, and the rollback leaves the result.
ReplayShowsAnOrder ==
  \A r \in Requests :
    verdict[r] = "replayed" =>
      LET shown == answer[r] IN
      /\ KeyOf[shown] = KeyOf[r] /\ payments[shown] # "absent"
      /\ orders[shown] = "linked" \/ verdict[shown] \in {"refused", "unreleased"}

\* Requests that end well place their whole order at one instant, within the stock,
\* and for good: every step is a step of StockLedger or changes nothing it sees.
Ledger == INSTANCE StockLedger
            WITH placed <- {r \in Requests : verdict[r] \in {"placed", "unreported"}}

PlacesAtomically == Ledger!Spec

\* Every request that arrives is answered, or lost in a crash.
EveryRequestSettles == \A r \in Requests : pc[r] # "idle" ~> Settled(r)

\* A key is not kept locked by a request that is over (line 465): whoever set the lock
\* that is there is still under way, was lost in a crash, or was told of an error because
\* its own unlock threw.  A refusal for a key "being processed" (line 166) thus has a
\* request, a crash or a failing Redis behind it, also after locks have expired under their
\* requests and been deleted by others.
LockHasHolder ==
  \A k \in Keys :
    Locked(k) =>
      LET holder == lock[k] IN
      /\ KeyOf[holder] = k
      /\ \/ pc[holder] \in (Calls \ BeforeTry) \cup {"lost"}
         \/ pc[holder] = "done" /\ verdict[holder] \in {"unreported", "unreleased"}

-----------------------------------------------------------------------------
(* The inductive invariant behind the safety properties: what each value of *)
(* pc says about the request's reservations, order, verdict and result.     *)
NothingTaken(r) == reserved[r] = 0 /\ restored[r] = 0 /\ orders[r] = "absent"

CountersOK(r) ==
  /\ restored[r] <= reserved[r] /\ reserved[r] <= Len(Basket[r])
  /\ pc[r] \in {"idle", "review"} \cup BeforeTry => NothingTaken(r)
  /\ pc[r] = "reserve" => reserved[r] < Len(Basket[r]) /\ restored[r] = 0
  /\ pc[r] = "createOrder" => reserved[r] = Len(Basket[r]) /\ restored[r] = 0
  /\ pc[r] = "restore" => restored[r] < reserved[r]

OrderOK(r) ==
  /\ orders[r] # "absent" => reserved[r] = Len(Basket[r]) /\ restored[r] = 0
  /\ pc[r] \in {"reserve", "createOrder", "restore"} => orders[r] = "absent"
  /\ pc[r] \in {"createPayment", "saveSnapshot"} => orders[r] = "created"
  /\ pc[r] \in {"saveSnapshot", "emptyCart", "storeResult", "notify", "enqueue"} =>
       payments[r] # "absent"
  /\ pc[r] \in {"emptyCart", "storeResult", "notify", "enqueue"} => orders[r] = "linked"
  /\ pc[r] = "deleteOrder" => orders[r] # "absent"

VerdictOK(r) ==
  /\ pc[r] \in {"idle"} \cup BeforeTry \cup InTry => verdict[r] = "none"
  /\ pc[r] \in InCatch => verdict[r] = "refused"
  /\ pc[r] = "unlock" => verdict[r] \in {"placed", "refused"}
  /\ pc[r] \in BeforeTry \cup {"storeResult", "unlock"} => HasKey(r)
  /\ verdict[r] \in {"placed", "unreported"} =>
       /\ orders[r] = "linked" /\ payments[r] # "absent"
       /\ notices[r] \in {"not_requested", "queued"}
  /\ Failing \cap InCatch = {} /\ pc[r] \in {"unlock", "done"} /\ verdict[r] \in {"refused", "unreleased"} =>
       orders[r] = "absent" /\ restored[r] = reserved[r]

ResultOK(r) ==
  /\ HasKey(r) /\ (pc[r] \in {"notify", "enqueue"} \/ verdict[r] = "placed") =>
       result[KeyOf[r]] # NoOrder
  /\ lateRetry[r] =>
       /\ HasKey(r) /\ result[KeyOf[r]] # NoOrder
       /\ NothingTaken(r) /\ verdict[r] # "placed"
       /\ pc[r] \in {"readResult", "done", "lost"}

IInv ==
  /\ TypeOK
  /\ StockAccounted
  /\ \A r \in Requests : CountersOK(r) /\ OrderOK(r) /\ VerdictOK(r)
  /\ \A r \in Requests : KeyOf[r] \notin Fleeting => ResultOK(r)

-----------------------------------------------------------------------------
(* Statements of the documentation that the code does not keep.             *)

\* "send x-idempotency-key to safely retry without duplicate orders"
\* (docs/swagger/openapi.js:369).
OneOrderPerKey ==
  \A q, r \in Requests :
    q # r /\ HasKey(q) /\ KeyOf[q] \notin Fleeting /\ KeyOf[q] = KeyOf[r] =>
      ~(verdict[q] = "placed" /\ verdict[r] = "placed")

\* "Checkout creates the order" for the online methods too
\* (docs/notification-payment-architecture.md:53-55): with its cart, its items and the
\* stock there, a request with an allowed payment method is not refused.
ValidCheckoutSucceeds ==
  \A r \in Requests :
    /\ pc[r] = "done" /\ KeyOf[r] = NoKey
    /\ Failing = {} /\ MethodOf[r] \in AllowedMethods /\ cart[CartOf[r]] # "missing"
    /\ \A p \in Products : Cardinality(UnitsIn(Lines, p)) <= InitialStock[p]
    => verdict[r] = "placed"
=============================================================================
