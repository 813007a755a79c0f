----------------------------- MODULE MCOrderDesk -----------------------------
(***************************************************************************)
(* Two orders.  "buy" is cancelled twice by its buyer while its shop       *)
(* confirms and ships it, in every order and overlap; "sell" competes for  *)
(* the stock and is asked to be what it is already.  The last step of      *)
(* either checkout may fail and roll back the order that the buyer or the  *)
(* shop is working on.                                                     *)
(***************************************************************************)
EXTENDS OrderDesk, TLC

CONSTANTS confirm, ship, reopen

MCRequests == {"buy", "sell"}
MCProducts == {"scarce", "plenty"}
MCInitialStock == [p \in MCProducts |-> 2]

MCBasket ==
  [r \in MCRequests |->
     IF r = "buy"
     THEN <<[product |-> "plenty", quantity |-> 1], [product |-> "scarce", quantity |-> 2]>>
     ELSE <<[product |-> "scarce", quantity |-> 1]>>]

MCKeyOf == [r \in MCRequests |-> IF r = "buy" THEN "noKey" ELSE "key"]
MCCartOf == [r \in MCRequests |-> "cartA"]
MCMethodOf == [r \in MCRequests |-> "COD"]
CommittedEnum == {"pending", "paid", "failed", "refunded"}

MCUpdates == {confirm, ship, reopen}
MCWanted ==
  [u \in MCUpdates |->
     CASE u = ship -> "shipped" [] u = reopen -> "pending" [] OTHER -> "confirmed"]
MCOrderOf == [x \in Cancels \cup MCUpdates |-> IF x = reopen THEN "sell" ELSE "buy"]

Everyone == Cancels \cup MCUpdates
AnyCancel == Permutations(Cancels)
Reporting == {"notify"}
NoStep == {}
=============================================================================
