------------------------------ MODULE MCPayment ------------------------------
(***************************************************************************)
(* Two VNPay orders, one of them with three decimals, a mock order, a cash *)
(* order and one that is gone; any three of the requests below, in any     *)
(* order and overlapping, the same one as often as one likes.              *)
(***************************************************************************)
EXTENDS Payment, TLC

MCMethodOf ==
  [o \in Orders |-> CASE o = "cash" -> "COD" [] o = "card" -> "mock" [] OTHER -> "vnpay"]

\* A share of a price in percent may have three decimals.
MCAmountOf == [o \in Orders |-> IF o = "third" THEN 66667 ELSE 66660]

Ipn(o, out, d) == [kind |-> "ipn", order |-> o, outcome |-> out, defect |-> d]

Confirm(o, d) == [kind |-> "confirm", order |-> o, outcome |-> "paid", defect |-> d]

MCTraffic ==
  {Ipn("bank", "paid", "none"), Ipn("bank", "failed", "none"), Ipn("bank", "paid", "wrongAmount"),
   Ipn("bank", "paid", "unsigned"), Ipn("third", "paid", "none"),
   Ipn("gone", "paid", "unknownRef"), Ipn("gone", "paid", "none"),
   Confirm("card", "none"), Confirm("card", "wrongRef"), Confirm("card", "stranger"),
   Confirm("cash", "none"), Confirm("bank", "none"), Confirm("gone", "none")}

AnyCall == Permutations(Calls)
=============================================================================
