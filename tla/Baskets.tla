------------------------------- MODULE Baskets -------------------------------
(***************************************************************************)
(* What the calls of POST /checkout/order ask for: every request carries a *)
(* sequence of order lines (the item_products of its shops, flattened in   *)
(* the order checkout.service.js reserves them), and every line stands for *)
(* `quantity' units of one product.  Units are kept apart, so that "how    *)
(* much stock is taken" is the cardinality of a set and needs no sum.      *)
(***************************************************************************)
EXTENDS Integers, Sequences, FiniteSets

CONSTANTS Requests,      \* the calls of POST /checkout/order
          Products,
          Basket,        \* request -> sequence of order lines
          InitialStock   \* product -> inven_stock when the behaviour starts

ASSUME BasketsAssumption ==
  /\ IsFiniteSet(Requests)
  /\ Basket \in [Requests -> Seq([product : Products, quantity : Nat \ {0}])]
  /\ InitialStock \in [Products -> Nat]

\* One order line, named by its request and its position.
Lines == UNION {{r} \X DOMAIN Basket[r] : r \in Requests}

LineOf(l) == Basket[l[1]][l[2]]

UnitsOf(l) == {l} \X (1 .. LineOf(l).quantity)

AllUnits == UNION {UnitsOf(l) : l \in Lines}

\* The units of product p that the lines in L ask for.
UnitsIn(L, p) == {u \in AllUnits : u[1] \in L /\ LineOf(u[1]).product = p}
=============================================================================
