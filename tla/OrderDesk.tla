------------------------------ MODULE OrderDesk ------------------------------
(***************************************************************************)
(* The life of an order after, and during, its checkout: cancelOrderByUser *)
(* and updateOrderStatusByShop beside orderByUser, on the same orders and  *)
(* the same stock.  An order is visible to both as soon as order.create    *)
(* has run, before its own checkout has answered.                          *)
(*                                                                         *)
(* A call reads the order once; what it decided from the document it read  *)
(* is written back later, by a save that names only order_status and       *)
(* checks no version.                                                      *)
(***************************************************************************)
EXTENDS Checkout

CONSTANTS
  Cancels, Updates,  \* the calls of the two handlers
  OrderOf,           \* call -> the order it names
  Entitled,          \* the calls made by the order's buyer, or by a shop with an item in it
  Wanted,            \* update -> the status asked for
  DeskFailing        \* the steps of these handlers whose call may throw

DeskCalls == Cancels \cup Updates
DeskSteps == {"putBack", "save", "notify"}

ASSUME DeskAssumption ==
  /\ Cancels \cap Updates = {}
  /\ OrderOf \in [DeskCalls -> Requests]
  /\ Entitled \subseteq DeskCalls
  /\ DeskFailing \subseteq DeskSteps

VARIABLES
  status,   \* order -> order_status of its document ("pending" by default)
  step,     \* call -> the step it takes next
  putBack,  \* cancel -> how many lines it has returned to the stock
  ended,    \* call -> "saved" after its save, then how it ended
  met       \* the pairs of calls that were under way on one order together (history)

desk == <<status, step, putBack, ended, met>>
all  == <<vars, desk>>

Statuses == {"pending", "confirmed", "shipped", "delivered", "cancelled"}

ORDER_TRANSITIONS_Free == [s \in Statuses |-> Statuses]

ORDER_TRANSITIONS ==
  [s \in Statuses |->
     CASE s = "pending"   -> {"confirmed", "cancelled"}
       [] s = "confirmed" -> {"shipped", "cancelled"}
       [] s = "shipped"   -> {"delivered"}
       [] OTHER           -> {}]

Advance(x, s) == step' = [step EXCEPT ![x] = s]

Finish(x, how) == Advance(x, "done") /\ ended' = [ended EXCEPT ![x] = how]

Exists(o) == orders[o] # "absent"

Others(x) == {y \in DeskCalls \ {x} : OrderOf[y] = OrderOf[x] /\ step[y] \in DeskSteps}

\* What x decides from the order it has read, it does beside the calls under way.
GoesOn(x, s) ==
  /\ Advance(x, s)
  /\ met' = met \cup {{x, y} : y \in Others(x)}
  /\ UNCHANGED ended

-----------------------------------------------------------------------------
DeskInit ==
  /\ Init
  /\ status = [o \in Requests |-> "pending"]
  /\ step = [x \in DeskCalls |-> "idle"]
  /\ putBack = [c \in Cancels |-> 0]
  /\ ended = [x \in DeskCalls |-> "none"]
  /\ met = {}

\* cancelOrderByUser, up to the first restore.
MayCancel_Always(c) == c \in Entitled /\ Exists(OrderOf[c])

MayCancel(c) == c \in Entitled /\ Exists(OrderOf[c]) /\ status[OrderOf[c]] = "pending"

ReadToCancel(c) ==
  /\ step[c] = "idle"
  /\ \/ MayCancel(c) /\ GoesOn(c, IF Basket[OrderOf[c]] = <<>> THEN "save" ELSE "putBack")
     \/ ~MayCancel(c) /\ Finish(c, "refused") /\ UNCHANGED met
  /\ UNCHANGED <<vars, status, putBack>>

AfterPutBack_Early(c, n) == "save"

AfterPutBack(c, n) == IF n < Len(Basket[OrderOf[c]]) THEN "putBack" ELSE "save"

PutBackLine(c) ==
  LET n    == putBack[c] + 1
      line == Basket[OrderOf[c]][n] IN
  /\ step[c] = "putBack"
  /\ stock' = [stock EXCEPT ![line.product] = @ + PutBack(line)]
  /\ putBack' = [putBack EXCEPT ![c] = n]
  /\ Advance(c, AfterPutBack(c, n))
  /\ UNCHANGED <<cart, orders, payments, notices, cache, process, status, ended, met>>

\* save() of a document that has been deleted fails.
Save(x, s) ==
  /\ \/ /\ Exists(OrderOf[x])
        /\ status' = [status EXCEPT ![OrderOf[x]] = s]
        /\ Advance(x, "notify")
        /\ ended' = [ended EXCEPT ![x] = "saved"]
     \/ ~Exists(OrderOf[x]) /\ Finish(x, "refused") /\ UNCHANGED status
  /\ UNCHANGED <<vars, putBack, met>>

SaveCancelled(c) == step[c] = "save" /\ Save(c, "cancelled")

\* updateOrderStatusByShop, up to its save.
MayUpdate(u) ==
  /\ u \in Entitled /\ Exists(OrderOf[u])
  /\ Wanted[u] \in Statuses \ {"cancelled"}
  /\ Wanted[u] \in ORDER_TRANSITIONS[status[OrderOf[u]]]

IsAlready(u) ==
  /\ u \in Entitled /\ Exists(OrderOf[u])
  /\ Wanted[u] \in Statuses \ {"cancelled"}
  /\ Wanted[u] = status[OrderOf[u]]

ReadToUpdate(u) ==
  /\ step[u] = "idle"
  /\ \/ IsAlready(u) /\ Finish(u, "ok") /\ UNCHANGED met
     \/ ~IsAlready(u) /\ MayUpdate(u) /\ GoesOn(u, "save")
     \/ ~IsAlready(u) /\ ~MayUpdate(u) /\ Finish(u, "refused") /\ UNCHANGED met
  /\ UNCHANGED <<vars, status, putBack>>

SaveUpdate(u) == step[u] = "save" /\ Save(u, Wanted[u])

\* notifyOrderStatusUpdated, and the response.
NotifyStatus(x) ==
  /\ step[x] = "notify"
  /\ Finish(x, "ok")
  /\ UNCHANGED <<vars, status, putBack, met>>

DeskCallThrows(x) ==
  /\ step[x] \in DeskFailing
  /\ Finish(x, IF step[x] = "notify" THEN "unreported" ELSE "refused")
  /\ UNCHANGED <<vars, status, putBack, met>>

\* Bound: one crash in a behaviour.
NoCrashYet == (\A r \in Requests : pc[r] # "lost") /\ (\A x \in DeskCalls : step[x] # "lost")

CrashAll ==
  /\ MayCrash /\ NoCrashYet
  /\ \/ \E r \in Requests : pc[r] \in Calls
     \/ \E x \in DeskCalls : step[x] \in DeskSteps
  /\ pc' = [r \in Requests |-> IF pc[r] \in Calls THEN "lost" ELSE pc[r]]
  /\ step' = [x \in DeskCalls |-> IF step[x] \in DeskSteps THEN "lost" ELSE step[x]]
  /\ UNCHANGED <<service, cache, reserved, restored, verdict, answer, lateRetry,
                 status, putBack, ended, met>>

Cancel(c) == ReadToCancel(c) \/ PutBackLine(c) \/ SaveCancelled(c) \/ NotifyStatus(c) \/ DeskCallThrows(c)

Update(u) == ReadToUpdate(u) \/ SaveUpdate(u) \/ NotifyStatus(u) \/ DeskCallThrows(u)

AllQuiet ==
  /\ \A r \in Requests : Settled(r)
  /\ \A k \in Keys : ~Locked(k)
  /\ \A x \in DeskCalls : step[x] \in {"done", "lost"}
  /\ UNCHANGED all

DeskNext ==
  \/ (\E r \in Requests : Arrive(r) \/ Serve(r)) /\ UNCHANGED desk
  \/ (\E k \in Keys : LockExpires(k) \/ ResultExpires(k)) /\ UNCHANGED desk
  \/ \E c \in Cancels : Cancel(c)
  \/ \E u \in Updates : Update(u)
  \/ CrashAll
  \/ AllQuiet

DeskSpec == DeskInit /\ [][DeskNext]_all

-----------------------------------------------------------------------------
(* Properties; the types of what is shared are TypeOK of Checkout.          *)

\* The lines cancellations have returned to the stock.
ReturnedLines == {l \in Lines : \E c \in Cancels : OrderOf[c] = l[1] /\ l[2] <= putBack[c]}

\* A cancellation of o returned some of its lines and never saved the order.
BrokeOff(o) ==
  \E c \in Cancels :
    /\ OrderOf[c] = o /\ putBack[c] > 0
    /\ step[c] \in {"done", "lost"} /\ ended[c] \in {"none", "refused"}

\* The checkout of o rolled back what a cancellation of o returned too.
RolledBackToo(o) == restored[o] > 0 /\ \E l \in ReturnedLines : l[1] = o

\* Two cancellations of o were under way together: both had read it as pending.
CancelledTwice(o) ==
  \E c, d \in Cancels : c # d /\ OrderOf[c] = o /\ {c, d} \in met

\* A cancellation and a status update of o were under way together.
Contested(o) ==
  \E c \in Cancels, u \in Updates : OrderOf[c] = o /\ {c, u} \in met

UnderWay(o) == \E x \in DeskCalls : OrderOf[x] = o /\ step[x] \in DeskSteps

\* Checkout, rollback and cancellation together neither create nor lose stock, however
\* often an order is cancelled and whatever its shop does meanwhile (lines 593-610 beside
\* restoreReservedInventory and 685-706): no line is returned twice.  The code leaves
\* three ways: two cancellations under way together, one that broke off before its save,
\* and one of an order whose own checkout failed afterwards.
DeskStockAccounted ==
  \A p \in Products :
    (\A l \in Lines : LineOf(l).product = p =>
       ~CancelledTwice(l[1]) /\ ~BrokeOff(l[1]) /\ ~RolledBackToo(l[1])) =>
      stock[p] + Cardinality(UnitsIn(HeldLines \ ReturnedLines, p)) = InitialStock[p]

\* "Only can cancel if order is pending" (services/checkout.service.js:583): once no call
\* on it is under way, an order the shop has confirmed, shipped or delivered still has
\* all of its stock.  Two things break that: a cancellation under way together with an
\* update of the order, and one that broke off.
SoldOrdersKeepStock ==
  \A o \in Requests :
    /\ Exists(o) /\ status[o] \in {"confirmed", "shipped", "delivered"}
    /\ ~UnderWay(o) /\ ~Contested(o) /\ ~BrokeOff(o)
    => \A l \in ReturnedLines : l[1] # o

\* A cancelled order has returned every one of its lines.
CancelledOrdersReturnStock ==
  \A o \in Requests :
    Exists(o) /\ status[o] = "cancelled" =>
      \A i \in DOMAIN Basket[o] : <<o, i>> \in ReturnedLines

-----------------------------------------------------------------------------
(* A statement of the documentation that the code does not keep.            *)

\* "Shop order status update enforces ownership and transition rules"
\* (docs/swagger/openapi.js:15), "Transition: pending->confirmed, confirmed->shipped,
\* shipped->delivered" (409): the status of an order moves along ORDER_TRANSITIONS, where
\* nothing follows "cancelled".
StatusFollowsTable ==
  [][\A o \in Requests :
       status'[o] # status[o] => status'[o] \in ORDER_TRANSITIONS[status[o]]]_all
=============================================================================
