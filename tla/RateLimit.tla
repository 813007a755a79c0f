------------------------------ MODULE RateLimit ------------------------------
(***************************************************************************)
(* The limiters in front of a route: createRateLimiter counts requests in  *)
(* a Redis key with INCR and gives the key its window with a second call;  *)
(* createCooldownLimiter lets a request through when its key is gone and   *)
(* then sets it.  A route runs its limiters one after the other and then   *)
(* its handler; every Redis call is a step.                                *)
(*                                                                         *)
(* All requests here share their keys: one client, one e-mail address.     *)
(***************************************************************************)
EXTENDS Integers, Sequences, FiniteSets

CONSTANTS
  Calls,
  Kinds,         \* the routes
  Chain,         \* route -> the limiters it runs, in order
  Limiters, Cooldowns,
  maxRequests,   \* limiter -> requests in a window; 1 for a cooldown
  Failing,       \* the steps whose call may throw
  MayCrash,      \* the API process may stop
  MaxInFlight    \* bound: requests under way at a time

Nothing == 0   \* what a request brings that carries no secret, or a wrong one

GateSteps == {"incr", "expire", "ttl", "ttlFirst", "setKey"}

ASSUME RateLimitAssumption ==
  /\ Cooldowns \subseteq Limiters
  /\ Chain \in [Kinds -> Seq(Limiters)]
  /\ maxRequests \in [Limiters -> Nat \ {0}]
  /\ \A l \in Cooldowns : maxRequests[l] = 1
  /\ MayCrash \in BOOLEAN /\ MaxInFlight \in Nat \ {0}

VARIABLES
  hits,      \* limiter -> the number under its key, 0 when there is none
  timed,     \* limiter -> does the key have a TTL
  kind,      \* call -> its route
  brings,    \* call -> what the request carries, for the handler
  place,     \* call -> the position in its chain
  pc,        \* call -> the Redis call it makes next, or "handler"
  admitted,  \* limiter -> calls it let through since its key was last gone (history)
  stuck,     \* limiters with a call that broke off before giving the key its TTL (history)
  rivals     \* cooldowns two calls were at together (history)

gate     == <<hits, timed>>
gateNote == <<admitted, stuck, rivals>>
request  == <<kind, brings, place>>
gateVars == <<gate, request, pc, gateNote>>

Limiter(c) == Chain[kind[c]][place[c]]

Waiting(c) == pc[c] \in GateSteps

AtLimiter(l) == {c \in Calls : Waiting(c) /\ Limiter(c) = l}

InFlight == {c \in Calls : pc[c] \notin {"idle", "done"}}

-----------------------------------------------------------------------------
GateInit ==
  /\ hits = [l \in Limiters |-> 0]
  /\ timed = [l \in Limiters |-> FALSE]
  /\ kind = [c \in Calls |-> "none"]
  /\ brings = [c \in Calls |-> Nothing]
  /\ place = [c \in Calls |-> 0]
  /\ pc = [c \in Calls |-> "idle"]
  /\ admitted = [l \in Limiters |-> 0]
  /\ stuck = {}
  /\ rivals = {}

Goto(c, step) == pc' = [pc EXCEPT ![c] = step]

\* The requests of C are answered, or lost; nothing of them stays.
Finish(C) ==
  /\ pc' = [c \in Calls |-> IF c \in C THEN "done" ELSE pc[c]]
  /\ kind' = [c \in Calls |-> IF c \in C THEN "none" ELSE kind[c]]
  /\ brings' = [c \in Calls |-> IF c \in C THEN Nothing ELSE brings[c]]
  /\ place' = [c \in Calls |-> IF c \in C THEN 0 ELSE place[c]]

\* Request c of route k reaches the n-th of its limiters, or the handler behind them.
Reaches(c, k, n) ==
  /\ place' = [place EXCEPT ![c] = n]
  /\ IF n > Len(Chain[k])
     THEN Goto(c, "handler") /\ UNCHANGED rivals
     ELSE LET l == Chain[k][n] IN
          /\ Goto(c, IF l \in Cooldowns THEN "ttlFirst" ELSE "incr")
          /\ rivals' = rivals \cup {m \in {l} \cap Cooldowns : AtLimiter(m) # {}}

Arrive(c, k, body) ==
  /\ pc[c] = "idle" /\ Cardinality(InFlight) < MaxInFlight
  /\ kind' = [kind EXCEPT ![c] = k]
  /\ brings' = [brings EXCEPT ![c] = body]
  /\ Reaches(c, k, 1)
  /\ UNCHANGED <<gate, admitted, stuck>>

Passes(c) ==
  /\ admitted' = [admitted EXCEPT ![Limiter(c)] = @ + 1]
  /\ Reaches(c, kind[c], place[c] + 1)
  /\ UNCHANGED <<kind, brings, stuck>>

IsFirst_Second(count) == count = 2

IsFirst(count) == count = 1

TooMany_OneMore(l, count) == count > maxRequests[l] + 1

TooMany(l, count) == count > maxRequests[l]

\* INCR, and what the middleware does with the number it returns.
Incr(c) ==
  LET l     == Limiter(c)
      count == hits[l] + 1 IN
  /\ pc[c] = "incr"
  /\ hits' = [hits EXCEPT ![l] = count]
  /\ \/ /\ IsFirst(count) /\ Goto(c, "expire")
        /\ UNCHANGED <<request, gateNote>>
     \/ /\ ~IsFirst(count) /\ TooMany(l, count) /\ Goto(c, "ttl")
        /\ UNCHANGED <<request, gateNote>>
     \/ ~IsFirst(count) /\ ~TooMany(l, count) /\ Passes(c)
  /\ UNCHANGED timed

Expire(c) ==
  /\ pc[c] = "expire"
  /\ timed' = [timed EXCEPT ![Limiter(c)] = TRUE]
  /\ Passes(c)
  /\ UNCHANGED hits

\* The remaining seconds go into the message of the refusal.
Ttl(c) ==
  /\ pc[c] = "ttl"
  /\ Finish({c})
  /\ UNCHANGED <<gate, gateNote>>

\* createCooldownLimiter: the key is looked at here and set by the next call.
TtlFirst(c) ==
  /\ pc[c] = "ttlFirst"
  /\ \/ hits[Limiter(c)] > 0 /\ Finish({c})
     \/ hits[Limiter(c)] = 0 /\ Goto(c, "setKey") /\ UNCHANGED request
  /\ UNCHANGED <<gate, gateNote>>

SetKey(c) ==
  /\ pc[c] = "setKey"
  /\ hits' = [hits EXCEPT ![Limiter(c)] = 1]
  /\ timed' = [timed EXCEPT ![Limiter(c)] = TRUE]
  /\ Passes(c)

\* Redis drops a key whose time is up; one that never got a TTL stays.  (A cooldown key
\* counts as gone from its last half second on, when TTL rounds to 0.)
WindowEnds(l) ==
  /\ hits[l] > 0 /\ timed[l]
  /\ hits' = [hits EXCEPT ![l] = 0]
  /\ timed' = [timed EXCEPT ![l] = FALSE]
  /\ admitted' = [admitted EXCEPT ![l] = 0]
  /\ UNCHANGED <<request, pc, stuck, rivals>>

BreaksOff(C) == stuck' = stuck \cup {Limiter(c) : c \in {d \in C : pc[d] = "expire"}}

GateThrows(c) ==
  /\ Waiting(c) /\ pc[c] \in Failing
  /\ Finish({c})
  /\ BreaksOff({c})
  /\ UNCHANGED <<gate, admitted, rivals>>

GateCrash ==
  /\ MayCrash
  /\ InFlight # {}
  /\ Finish(InFlight)
  /\ BreaksOff(Calls)
  /\ UNCHANGED <<gate, admitted, rivals>>

Admit(c) == Incr(c) \/ Expire(c) \/ Ttl(c) \/ TtlFirst(c) \/ SetKey(c) \/ GateThrows(c)

-----------------------------------------------------------------------------
(* Properties.                                                              *)

\* "blocks ... limiter when threshold exceeded" (tests/unit/rateLimit.middleware.test.js:
\* 64, 94), for requests that overlap: between two moments at which its key is gone, a
\* limiter lets at most maxRequests through, and a cooldown one unless two are at it.
AdmittedWithinLimit ==
  \A l \in Limiters \ (Cooldowns \cap rivals) : admitted[l] <= maxRequests[l]

\* A key without a TTL would shut its clients out for ever: there is one only while the
\* call that counted 1 is about to give it its window, or after that call broke off.
KeyWillExpire ==
  \A l \in Limiters :
    hits[l] > 0 /\ ~timed[l] =>
      l \in stuck \/ \E c \in AtLimiter(l) : pc[c] = "expire"
=============================================================================
