----------------------------- MODULE MCAccounts -----------------------------
(***************************************************************************)
(* Four requests over two addresses, of which Google reports both for one  *)
(* profile, and one or none for another; two round trips.  Lost deletions, *)
(* lost exchanges and lost writes.                                         *)
(***************************************************************************)
EXTENDS Accounts, TLC

MCReportedOf == [g \in {"g1", "g2"} |-> IF g = "g1" THEN {"ann", "ann2"} ELSE {"ann", Nothing}]

AnyCallAnyState == Permutations(Calls) \cup Permutations(States)

SomeSteps == {"dropState", "exchange", "create", "saveUser"}
=============================================================================
