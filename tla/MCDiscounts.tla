---------------------------- MODULE MCDiscounts ----------------------------
(***************************************************************************)
(* Two codes of two shops and four calls of any kind.  One draft is a      *)
(* fixed amount equal to its minimum, out of uses until somebody cancels,  *)
(* one a percentage with a minimum, one has expired.  An update switches a *)
(* code off, or on with no minimum and three uses, or renames it, or sets  *)
(* how often it was used and whom it refuses.  The carts are an empty one, *)
(* one below every minimum with a shop that names no code, and one of two  *)
(* shops that name both codes.  Prices are in tens.                        *)
(***************************************************************************)
EXTENDS Discounts

AnyCall == Permutations(Calls)

MCShopOf == [k \in {"tet", "noel"} |-> IF k = "tet" THEN "north" ELSE "south"]

Terms(type, value, min, uses) ==
  [active |-> TRUE, open |-> TRUE, used |-> 0, maxUsers |-> uses, type |-> type, value |-> value, min |-> min]

Half == Terms("percentage", 50, 20, 1)

MCDrafts == {Terms("fixed_amount", 10, 10, 0), Half, [Half EXCEPT !.open = FALSE]}

MCBodies == {[active |-> FALSE], [active |-> TRUE, min |-> 0, maxUsers |-> 3],
             [code |-> "noel", open |-> TRUE], [used |-> 2, barred |-> TRUE]}

Of(code, price) == [code |-> code, price |-> price]

MCCarts == {<<>>, <<Of("none", 6), Of("tet", 6)>>, <<Of("tet", 20), Of("noel", 10)>>}
=============================================================================
