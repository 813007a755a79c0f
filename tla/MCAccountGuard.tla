--------------------------- MODULE MCAccountGuard ---------------------------
(***************************************************************************)
(* Four requests of any kind to one account, two of them under way at a    *)
(* time.  Two wrong passwords block the login, two wrong codes the reset;  *)
(* three logins and two requests for a code fit in a window, so that a     *)
(* fourth and a third are refused.  The limiters that count per address    *)
(* and the one of the verify route, more of the same kind, are left out.   *)
(***************************************************************************)
EXTENDS AccountGuard, TLC

MCKinds == {"login", "request", "verify", "reset"}
MCChain ==
  [k \in MCKinds |->
     CASE k = "login"   -> <<"loginEmail">>
       [] k = "request" -> <<"otpSend", "cooldown">>
       [] OTHER         -> <<>>]
MCLimiters == {"loginEmail", "otpSend", "cooldown"}
MCMaxRequests == [l \in MCLimiters |-> CASE l = "cooldown" -> 1 [] l = "otpSend" -> 2 [] OTHER -> 3]

AnyCall == Permutations(Calls)
=============================================================================
