----------------------------- MODULE SessionLife -----------------------------
(***************************************************************************)
(* What signing in promises, whatever tokens a session goes through: a     *)
(* session begins once and, when it is over, by a logout, an expiry or a   *)
(* refresh that broke off, it is over for good.  Sessions.tla implements   *)
(* this with tokens that are rotated, revoked and removed.                 *)
(***************************************************************************)
CONSTANT SignIns

VARIABLES begun, over

Init == begun = {} /\ over = {}

Begin(s) ==
  /\ s \notin begun
  /\ begun' = begun \cup {s}
  /\ UNCHANGED over

\* A crash or a logoutAll may end several sessions at once.
End(S) ==
  /\ S \subseteq begun \ over
  /\ over' = over \cup S
  /\ UNCHANGED begun

Next ==
  \/ \E s \in SignIns : Begin(s)
  \/ \E S \in SUBSET SignIns : End(S)

Spec == Init /\ [][Next]_<<begun, over>>
=============================================================================
