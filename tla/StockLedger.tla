----------------------------- MODULE StockLedger -----------------------------
(***************************************************************************)
(* What order placement promises, whatever the steps it takes: an order is *)
(* placed at one instant, all of its lines together, only while the stock  *)
(* covers every order placed so far, and a placed order is never taken     *)
(* back.  Checkout.tla implements this through reservations, failures,     *)
(* rollbacks and crashes.                                                  *)
(***************************************************************************)
EXTENDS Baskets

VARIABLE placed

OrderedLines(S) == {l \in Lines : l[1] \in S}

Covered(S) ==
  \A p \in Products : Cardinality(UnitsIn(OrderedLines(S), p)) <= InitialStock[p]

Init == placed = {}

Place(r) ==
  /\ r \notin placed
  /\ Covered(placed \cup {r})
  /\ placed' = placed \cup {r}

Next == \E r \in Requests : Place(r)

Spec == Init /\ [][Next]_placed
=============================================================================
