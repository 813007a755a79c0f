----------------------------- MODULE MCCheckout -----------------------------
(***************************************************************************)
(* Three requests over two products of which one is scarce.  "first" and   *)
(* "retry" carry the same idempotency key, cart and lines; "other"         *)
(* competes for the scarce product, with a key of its own or with none.    *)
(* The runs that look for one counterexample add "overlong", a request     *)
(* whose key is refused.                                                   *)
(***************************************************************************)
EXTENDS Checkout

MCRequests == {"first", "retry", "other"}
WithOverlong == MCRequests \cup {"overlong"}
MCProducts == {"scarce", "plenty"}
MCInitialStock == [p \in MCProducts |-> IF p = "scarce" THEN 3 ELSE 4]

\* Enough for every line of every request.
AmpleStock == [p \in MCProducts |-> 5]

OneOf(p, n) == [product |-> p, quantity |-> n]

MCBasket ==
  [r \in Requests |->
     CASE r = "other"    -> <<OneOf("scarce", 1)>>
       [] r = "overlong" -> <<>>
       [] OTHER          -> <<OneOf("plenty", 1), OneOf("scarce", 2)>>]

MCKeyOf ==
  [r \in Requests |->
     CASE r = "other" -> "noKey" [] r = "overlong" -> "longKey" [] OTHER -> "key"]

\* The same with a key for the second order, whose result may expire.
ExpiringKeyOf == [MCKeyOf EXCEPT !["other"] = "brief"]

MCCartOf == [r \in Requests |-> "cart"]
MCMethodOf == [r \in Requests |-> "COD"]

\* The instance of the as-committed checkout: the second request pays online.
OnlineMethodOf == [r \in Requests |-> IF r = "other" THEN "vnpay" ELSE "COD"]

\* As committed in models/order.model.js:36.
CommittedEnum == {"pending", "paid", "failed", "refunded"}

\* One failure before the try block, one with the order there, one when the order and
\* its result are there, and one in the finally block.
SomeForward == {"setLock", "storeResult", "enqueue", "unlock"}
NoStep == {}
=============================================================================
