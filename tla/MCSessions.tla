----------------------------- MODULE MCSessions -----------------------------
(***************************************************************************)
(* Two accounts, four calls of any kind, four seconds.  The document may be *)
(* removed a second before the JWT expires, so every order of the two is   *)
(* met.                                                                    *)
(***************************************************************************)
EXTENDS Sessions, TLC

AnyCall == Permutations(Calls)
=============================================================================
