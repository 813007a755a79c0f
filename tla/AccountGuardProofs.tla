-------------------------- MODULE AccountGuardProofs --------------------------
(***************************************************************************)
(* What AccountGuard and the limiters of RateLimit promise, for every set  *)
(* of calls, any limiters in any chains, and whichever steps fail: no      *)
(* window admits too many and no key outlives it, a verified account has   *)
(* a cause, and guesses at a password or a code run out.                   *)
(***************************************************************************)
EXTENDS AccountGuard, FiniteSetTheorems, TLAPS

OtpData == [code : Calls, attempts : Nat]

TypeOK ==
  /\ hits \in [Limiters -> Nat] /\ timed \in [Limiters -> BOOLEAN]
  /\ kind \in [Calls -> Kinds \cup {"none"}] /\ place \in [Calls -> Nat]
  /\ DOMAIN brings = Calls
  /\ pc \in [Calls -> GateSteps \cup Handling \cup {"idle", "done"}]
  /\ admitted \in [Limiters -> Nat] /\ stuck \subseteq Limiters
  /\ password \in Nat \ {0} /\ failCounter \in Nat /\ failures \in Nat
  /\ loginBlock \in BOOLEAN /\ verifyBlock \in BOOLEAN /\ verified \in BOOLEAN
  /\ otp \in OtpData \cup {NoOtp}
  /\ seen \in [Calls -> [code : Calls \cup {"none"}, attempts : Nat]]
  /\ wrong \in [Calls -> Nat]
  /\ IsFiniteSet(accepted)

\* Where a call is in its chain, and which handler its step belongs to.
CallOK(c) ==
  /\ pc[c] \in GateSteps \cup Handling => kind[c] \in Kinds
  /\ Waiting(c) => place[c] \in 1 .. Len(Chain[kind[c]])
  /\ Waiting(c) => (pc[c] \in {"ttlFirst", "setKey"} <=> Limiter(c) \in Cooldowns)
  /\ pc[c] \in LoginSteps \cup {"compare"} => kind[c] = "login"
  /\ pc[c] \in RequestSteps \cup VerifySteps \cup ResetSteps => kind[c] # "login"
  /\ pc[c] = "setAttempts" => seen[c] \in OtpData

CallsInv == TypeOK /\ \A c \in Calls : CallOK(c)

\* A limiter that counts: the call that counted 1 is alone in giving the key its window,
\* and is not counted as admitted before it has.
Counts(l) ==
  /\ hits[l] = 0 => ~timed[l]
  /\ \A c \in AtLimiter(l) : pc[c] = "expire" =>
       ~timed[l] /\ admitted[l] < hits[l] /\ admitted[l] < maxRequests[l]
  /\ \A c, d \in AtLimiter(l) : pc[c] = "expire" /\ pc[d] = "expire" => c = d

\* A cooldown that no two calls were at together: the one call is about to set the key
\* only when there is none.
Cools(l) ==
  /\ \A c, d \in AtLimiter(l) : c = d
  /\ \A c \in AtLimiter(l) : pc[c] = "setKey" => hits[l] = 0

LimiterOK(l) ==
  /\ Counts(l)
  /\ l \in Cooldowns => hits[l] <= 1
  /\ l \in Cooldowns /\ l \notin rivals => Cools(l)
  /\ l \notin Cooldowns \cap rivals => admitted[l] <= hits[l] /\ admitted[l] <= maxRequests[l]
  /\ hits[l] > 0 /\ ~timed[l] => l \in stuck \/ \E c \in AtLimiter(l) : pc[c] = "expire"

\* The account is verified, changed, or about to be, because a code was matched.
HasCause ==
  /\ verified \/ password > 1 => accepted # {}
  /\ \A c \in Calls : pc[c] \in {"spendOtp", "setVerified"} \cup ResetSteps => accepted # {}

\* A call that has entered its handler.
Past(c, d) == pc[c] \in Handling \ {"handler"} /\ Door(kind[c]) = d

Alone(d) == \A c, e \in Calls : Past(c, d) /\ Past(e, d) => c = e

\* The failures are counted in the key, in the call that is about to count one, or by the
\* block.
LoginOK ==
  "login" \notin crowded \cup brokeOff =>
    /\ Alone("login")
    /\ failures <= LOGIN_FAIL_MAX_ATTEMPTS /\ failCounter < LOGIN_FAIL_MAX_ATTEMPTS
    /\ failures <= failCounter \/ loginBlock \/ \E c \in Calls : Past(c, "login")
    /\ \A c \in Calls :
         /\ pc[c] \in {"compare", "clearCounter", "clearBlock"} => failures <= failCounter
         /\ pc[c] = "readCounter" => failures <= failCounter + 1
         /\ pc[c] = "setCounter" =>
              seen[c].attempts + 1 < LOGIN_FAIL_MAX_ATTEMPTS /\ failures <= seen[c].attempts + 1

\* A code is used only after it was stored.
Stored(o) == pc[o] \in {"sendOtp", "done"}

CodesStored ==
  /\ otp # NoOtp => Stored(otp.code)
  /\ \A c \in Calls : pc[c] = "setAttempts" => Stored(seen[c].code)
  /\ \A o \in Calls : wrong[o] > 0 => Stored(o)
  /\ \A v \in accepted : v[1] \in Calls /\ Stored(v[1])

Unmatched(o) == \A v \in accepted : v[1] # o

\* The stored code counts the wrong guesses at it; a verification pays for a password.
OtpOK ==
  "otp" \notin crowded \cup brokeOff =>
    /\ Alone("otp")
    /\ \A o \in Calls : wrong[o] <= OTP_MAX_ATTEMPTS
    /\ \A v, w \in accepted : v[1] = w[1] => v = w
    /\ \/ otp = NoOtp \/ \E c \in Calls : pc[c] \in {"spendOtp", "dropOtp", "setAttempts"}
       \/ wrong[otp.code] <= otp.attempts /\ otp.attempts < OTP_MAX_ATTEMPTS /\ Unmatched(otp.code)
    /\ \A c \in Calls : pc[c] = "setAttempts" =>
         /\ wrong[seen[c].code] <= seen[c].attempts + 1 /\ seen[c].attempts + 1 < OTP_MAX_ATTEMPTS
         /\ Unmatched(seen[c].code)
    /\ password - 1 <= Cardinality(accepted)
    /\ verified => password <= Cardinality(accepted) \/ \E c \in Calls : pc[c] = "dropVerified"
    /\ \A c \in Calls : pc[c] \in {"spendOtp", "setVerified", "readAccount", "savePassword"} =>
         password <= Cardinality(accepted)

IInv ==
  /\ CallsInv /\ (\A l \in Limiters : LimiterOK(l)) /\ HasCause /\ LoginOK /\ CodesStored /\ OtpOK

Guarded(c) == EnterHandler(c) \/ Login(c) \/ Request(c) \/ Verify(c) \/ Reset(c) \/ HandlerThrows(c)

CallStep(c) == ArriveAtRoute(c) \/ Admission(c) \/ Guarded(c)

USE DEF Goto, Waiting, gate, gateNote, request, keys, guardNote, gateVars, guardVars
USE DEF GateSteps, Handling, LoginSteps, RequestSteps, VerifySteps, ResetSteps

-----------------------------------------------------------------------------
(* Calls, chains and steps.                                                 *)

LEMMA ChainLimiter ==
  ASSUME NEW k \in Kinds, NEW n \in 1 .. Len(Chain[k])
  PROVE  Chain[k][n] \in Limiters
<1>1. Chain[k] \in Seq(Limiters)
  BY RateLimitAssumption
<1> QED
  BY <1>1

LEMMA LimiterType ==
  ASSUME CallsInv, NEW c \in Calls, Waiting(c)
  PROVE  Limiter(c) \in Limiters /\ kind[c] \in Kinds /\ place[c] + 1 \in Nat \ {0}
<1>1. kind[c] \in Kinds /\ place[c] \in 1 .. Len(Chain[kind[c]]) /\ place[c] \in Nat
  BY DEF CallsInv, TypeOK, CallOK
<1> QED
  BY <1>1, ChainLimiter DEF Limiter

\* Where a request comes that goes on in its chain, and whom it meets there.
LEMMA Reaching ==
  ASSUME CallsInv, NEW c \in Calls, NEW k \in Kinds, NEW n \in Nat \ {0}, Reaches(c, k, n), kind'[c] = k
  PROVE  /\ pc' = [pc EXCEPT ![c] = pc'[c]] /\ place' = [place EXCEPT ![c] = n]
         /\ pc'[c] \in {"handler", "incr", "ttlFirst"}
         /\ CallOK(c)'
         /\ rivals \subseteq rivals'
         /\ pc'[c] # "handler" =>
              \A d \in Calls : Waiting(d) /\ Limiter(d) = Limiter(c)' /\ Limiter(d) \in Cooldowns
                               => Limiter(d) \in rivals'
<1>1. place'[c] = n /\ place' = [place EXCEPT ![c] = n]
  BY DEF CallsInv, TypeOK, Reaches
<1>2. CASE n > Len(Chain[k])
  BY <1>1, <1>2 DEF CallsInv, TypeOK, Reaches, CallOK
<1>3. CASE ~(n > Len(Chain[k]))
  <2> DEFINE l == Chain[k][n]
  <2>1. n \in 1 .. Len(Chain[k]) /\ l \in Limiters
    <3>1. Len(Chain[k]) \in Nat
      BY RateLimitAssumption
    <3>2. n \in 1 .. Len(Chain[k])
      BY <1>3, <3>1
    <3> QED
      BY <3>2, ChainLimiter
  <2>2. /\ pc' = [pc EXCEPT ![c] = IF l \in Cooldowns THEN "ttlFirst" ELSE "incr"]
        /\ rivals' = rivals \cup {m \in {l} \cap Cooldowns : AtLimiter(m) # {}}
    BY <1>3 DEF Reaches
  <2>3. pc'[c] = (IF l \in Cooldowns THEN "ttlFirst" ELSE "incr")
    BY <2>2 DEF CallsInv, TypeOK
  <2>4. Limiter(c)' = l
    BY <1>1 DEF Limiter
  <2>5. CallOK(c)'
    BY <1>1, <2>1, <2>3, <2>4 DEF CallOK
  <2>6. ASSUME NEW d \in Calls, Waiting(d), Limiter(d) = l, l \in Cooldowns PROVE l \in rivals'
    BY <2>2, <2>6 DEF AtLimiter
  <2> QED
    BY <1>1, <2>2, <2>3, <2>4, <2>5, <2>6
<1> QED
  BY <1>2, <1>3

\* A request that its limiter lets through.
LEMMA Passing ==
  ASSUME CallsInv, NEW c \in Calls, Waiting(c), Passes(c)
  PROVE  /\ kind[c] \in Kinds /\ kind'[c] = kind[c] /\ place[c] + 1 \in Nat \ {0}
         /\ Reaches(c, kind[c], place[c] + 1)
         /\ admitted' = [admitted EXCEPT ![Limiter(c)] = @ + 1] /\ UNCHANGED <<kind, brings, stuck>>
BY LimiterType DEF Passes

\* A step of one call leaves the others where they are.
LEMMA OthersUntouched ==
  ASSUME TypeOK, NEW c \in Calls, CallStep(c), NEW d \in Calls, d # c
  PROVE  pc'[d] = pc[d] /\ kind'[d] = kind[d] /\ place'[d] = place[d] /\ seen'[d] = seen[d]
<1>1. CASE ArriveAtRoute(c)
  BY <1>1 DEF TypeOK, ArriveAtRoute, Arrive, Reaches
<1>2. CASE Admission(c)
  BY <1>2 DEF TypeOK, Admission, Gated, Admit, Incr, Expire, Ttl, TtlFirst, SetKey, GateThrows, Passes, Reaches, Finish
<1>3. CASE EnterHandler(c) \/ HandlerThrows(c)
  BY <1>3 DEF TypeOK, EnterHandler, HandlerThrows, Proceed, End, Finish
<1>4. CASE Login(c)
  BY <1>4 DEF TypeOK, Login, Compare, ReadCounter, DropCounter, SetBlock, SetCounter, ClearCounter, ClearBlock,
     Proceed, End, Finish
<1>5. CASE Request(c) \/ Reset(c)
  BY <1>5 DEF TypeOK, Request, SetOtp, SendOtp, Reset, ReadAccount, SavePassword, DropVerified, Proceed, End, Finish
<1>6. CASE Verify(c)
  BY <1>6 DEF TypeOK, Verify, ReadOtp, DropOtp, BlockVerify, SetAttempts, SpendOtp, SetVerified, Proceed, End, Finish
<1> QED
  BY <1>1, <1>2, <1>3, <1>4, <1>5, <1>6 DEF CallStep, Guarded

\* What a step in a handler does to its call and to the limiters.
LEMMA GuardedMove ==
  ASSUME CallsInv, NEW c \in Calls, Guarded(c)
  PROVE  /\ pc[c] \in Handling /\ UNCHANGED <<gate, gateNote>>
         /\ \/ pc'[c] = "done"
            \/ pc'[c] \in Handling \ {"handler"} /\ UNCHANGED request
<1>1. CASE EnterHandler(c) \/ HandlerThrows(c)
  BY <1>1, AccountGuardAssumption DEF CallsInv, TypeOK, CallOK, EnterHandler, HandlerThrows, Proceed, End, Finish
<1>2. CASE Login(c)
  BY <1>2 DEF CallsInv, TypeOK, Login, Compare, ReadCounter, DropCounter, SetBlock, SetCounter, ClearCounter,
     ClearBlock, Proceed, End, Finish
<1>3. CASE Request(c) \/ Reset(c)
  BY <1>3 DEF CallsInv, TypeOK, Request, SetOtp, SendOtp, Reset, ReadAccount, SavePassword, DropVerified, Proceed,
     End, Finish
<1>4. CASE Verify(c)
  BY <1>4 DEF CallsInv, TypeOK, Verify, ReadOtp, DropOtp, BlockVerify, SetAttempts, SpendOtp, SetVerified, Proceed,
     End, Finish
<1> QED
  BY <1>1, <1>2, <1>3, <1>4 DEF Guarded

-----------------------------------------------------------------------------
(* Types, and which step belongs to which route.                            *)

LEMMA CallRests ==
  ASSUME NEW d \in Calls, CallOK(d), pc'[d] = pc[d], kind'[d] = kind[d], place'[d] = place[d], seen'[d] = seen[d]
  PROVE  CallOK(d)'
BY DEF CallOK, Limiter

\* Answering a request leaves nothing of it.
LEMMA FinishType ==
  ASSUME CallsInv, NEW C \in SUBSET Calls, Finish(C)
  PROVE  /\ pc' \in [Calls -> GateSteps \cup Handling \cup {"idle", "done"}]
         /\ kind' \in [Calls -> Kinds \cup {"none"}] /\ place' \in [Calls -> Nat] /\ DOMAIN brings' = Calls
         /\ \A c \in C : pc'[c] = "done" /\ CallOK(c)'
BY DEF CallsInv, TypeOK, Finish, CallOK

LEMMA AdmissionCallsInv ==
  ASSUME CallsInv, NEW c \in Calls, Admission(c)
  PROVE  TypeOK' /\ CallOK(c)'
<1> DEFINE l == Limiter(c)
<1>1. /\ Admit(c) /\ Waiting(c) /\ l \in Limiters
      /\ UNCHANGED <<password, keys, seen, mailed, guardNote>>
  BY LimiterType DEF Admission, Gated, Admit, Incr, Expire, Ttl, TtlFirst, SetKey, GateThrows
<1>2. ASSUME Passes(c), hits' \in [Limiters -> Nat], timed' \in [Limiters -> BOOLEAN] PROVE TypeOK' /\ CallOK(c)'
  <2>1. /\ pc' = [pc EXCEPT ![c] = pc'[c]] /\ place' = [place EXCEPT ![c] = place[c] + 1]
        /\ pc'[c] \in {"handler", "incr", "ttlFirst"} /\ CallOK(c)' /\ place[c] + 1 \in Nat
        /\ admitted' = [admitted EXCEPT ![l] = @ + 1] /\ UNCHANGED <<kind, brings, stuck>>
    BY <1>1, <1>2, Passing, Reaching
  <2>2. TypeOK'
    BY <1>1, <1>2, <2>1 DEF CallsInv, TypeOK
  <2> QED
    BY <2>1, <2>2
<1>3. ASSUME Finish({c}), UNCHANGED <<hits, timed, admitted>>, stuck' \subseteq Limiters PROVE TypeOK' /\ CallOK(c)'
  BY <1>1, <1>3, FinishType DEF CallsInv, TypeOK
<1>4. ASSUME NEW s \in {"expire", "ttl", "setKey"}, Goto(c, s), UNCHANGED <<timed, request, gateNote>>,
             hits' \in [Limiters -> Nat], s = "setKey" <=> l \in Cooldowns
      PROVE  TypeOK' /\ CallOK(c)'
  <2>1. TypeOK'
    BY <1>1, <1>4 DEF CallsInv, TypeOK
  <2>2. CallOK(c)'
    BY <1>1, <1>4 DEF CallsInv, TypeOK, CallOK, Limiter
  <2> QED
    BY <2>1, <2>2
<1>5. pc[c] \in {"ttlFirst", "setKey"} <=> l \in Cooldowns
  BY <1>1 DEF CallsInv, CallOK
<1>6. CASE Incr(c)
  <2>1. hits' \in [Limiters -> Nat]
    BY <1>1, <1>6 DEF CallsInv, TypeOK, Incr
  <2>2. timed' \in [Limiters -> BOOLEAN]
    BY <1>6 DEF CallsInv, TypeOK, Incr
  <2> QED
    BY <1>2, <1>4, <1>5, <1>6, <2>1, <2>2 DEF Incr
<1>7. CASE Expire(c) \/ SetKey(c)
  <2>1. hits' \in [Limiters -> Nat]
    BY <1>1, <1>7 DEF CallsInv, TypeOK, Expire, SetKey
  <2>2. timed' \in [Limiters -> BOOLEAN]
    BY <1>1, <1>7 DEF CallsInv, TypeOK, Expire, SetKey
  <2> QED
    BY <1>2, <1>7, <2>1, <2>2 DEF Expire, SetKey
<1>8. CASE Ttl(c)
  BY <1>3, <1>8 DEF Ttl, CallsInv, TypeOK
<1>9. CASE TtlFirst(c)
  BY <1>3, <1>4, <1>5, <1>9 DEF TtlFirst, CallsInv, TypeOK
<1>10. CASE GateThrows(c)
  <2>1. stuck' \subseteq Limiters
    BY <1>1, <1>10 DEF CallsInv, TypeOK, GateThrows, BreaksOff
  <2> QED
    BY <1>3, <1>10, <2>1 DEF GateThrows
<1> QED
  BY <1>1, <1>6, <1>7, <1>8, <1>9, <1>10 DEF Admit

LEMMA ArriveCallsInv ==
  ASSUME CallsInv, NEW c \in Calls, ArriveAtRoute(c)
  PROVE  TypeOK' /\ CallOK(c)'
<1>0. PICK k \in Kinds : \E g \in Guesses(k) : Arrive(c, k, g)
  BY DEF ArriveAtRoute
<1>1. PICK g \in Guesses(k) : Arrive(c, k, g)
  BY <1>0
<1>2. /\ kind' = [kind EXCEPT ![c] = k] /\ kind'[c] = k /\ brings' = [brings EXCEPT ![c] = g]
      /\ Reaches(c, k, 1) /\ UNCHANGED <<gate, admitted, stuck>>
  BY <1>1 DEF CallsInv, TypeOK, Arrive
<1>3. /\ pc' = [pc EXCEPT ![c] = pc'[c]] /\ place' = [place EXCEPT ![c] = 1]
      /\ pc'[c] \in {"handler", "incr", "ttlFirst"} /\ CallOK(c)'
  BY <1>2, Reaching
<1>4. UNCHANGED <<password, keys, seen, mailed, guardNote>>
  BY DEF ArriveAtRoute
<1> QED
  BY <1>2, <1>3, <1>4 DEF CallsInv, TypeOK

LEMMA GuardedCallsInv ==
  ASSUME CallsInv, NEW c \in Calls, Guarded(c)
  PROVE  TypeOK' /\ CallOK(c)'
<1> USE DEF Proceed, End
<1>1. CASE EnterHandler(c)
  <2>1. TypeOK'
    BY <1>1, FinishType DEF CallsInv, TypeOK, EnterHandler
  <2>2. CallOK(c)'
    <3>1. kind[c] \in Kinds /\ kind[c] \in {"login", "request", "verify", "reset"}
      BY <1>1, AccountGuardAssumption DEF CallsInv, CallOK, EnterHandler
    <3>2. CASE End(c)
      BY <3>2, FinishType
    <3>3. CASE UNCHANGED request /\ pc'[c] = "compare" /\ kind[c] = "login"
      BY <3>1, <3>3 DEF CallOK
    <3>4. CASE UNCHANGED request /\ pc'[c] \in {"readOtp", "readAccount", "setOtp"} /\ kind[c] # "login"
      BY <3>1, <3>4 DEF CallOK
    <3>5. End(c) \/ (UNCHANGED request /\ \/ pc'[c] = "compare" /\ kind[c] = "login"
                                          \/ pc'[c] \in {"readOtp", "readAccount", "setOtp"} /\ kind[c] # "login")
      BY <1>1, <3>1 DEF CallsInv, TypeOK, EnterHandler
    <3> QED
      BY <3>2, <3>3, <3>4, <3>5
  <2> QED
    BY <2>1, <2>2
<1>2. CASE HandlerThrows(c)
  BY <1>2, FinishType DEF CallsInv, TypeOK, HandlerThrows, NoOtp
<1>3. CASE Compare(c) \/ ReadCounter(c) \/ ClearCounter(c) \/ DropCounter(c)
  <2>1. TypeOK'
    BY <1>3 DEF CallsInv, TypeOK, Compare, ReadCounter, ClearCounter, DropCounter, NoOtp
  <2>2. CallOK(c)'
    BY <1>3 DEF CallsInv, TypeOK, CallOK, Compare, ReadCounter, ClearCounter, DropCounter
  <2> QED
    BY <2>1, <2>2
<1>4. CASE SetBlock(c) \/ SetCounter(c) \/ ClearBlock(c)
  <2>1. CASE SetBlock(c) \/ ClearBlock(c)
    <3>1. loginBlock' \in BOOLEAN
      BY <2>1 DEF SetBlock, ClearBlock
    <3> QED
      BY <2>1, <3>1, FinishType DEF CallsInv, TypeOK, SetBlock, ClearBlock
  <2>2. CASE SetCounter(c)
    <3>1. failCounter' \in Nat /\ seen' \in [Calls -> [code : Calls \cup {"none"}, attempts : Nat]]
      BY <2>2 DEF CallsInv, TypeOK, SetCounter, NoOtp
    <3> QED
      BY <2>2, <3>1, FinishType DEF CallsInv, TypeOK, SetCounter
  <2> QED
    BY <1>4, <2>1, <2>2
<1>5. CASE SetOtp(c)
  BY <1>5 DEF CallsInv, TypeOK, CallOK, SetOtp, OtpData
<1>6. CASE SendOtp(c) \/ DropVerified(c) \/ BlockVerify(c) \/ SetVerified(c)
  BY <1>6, FinishType DEF CallsInv, TypeOK, SendOtp, DropVerified, VerifiedAfter, BlockVerify, SetVerified
<1>7. CASE ReadAccount(c)
  <2>1. CASE End(c)
    BY <1>7, <2>1, FinishType DEF CallsInv, TypeOK, ReadAccount
  <2>2. CASE Proceed(c, "savePassword")
    BY <1>7, <2>2 DEF CallsInv, TypeOK, CallOK, ReadAccount
  <2> QED
    BY <1>7, <2>1, <2>2 DEF ReadAccount
<1>8. CASE SavePassword(c) \/ DropOtp(c) \/ SpendOtp(c)
  <2>1. TypeOK'
    BY <1>8 DEF CallsInv, TypeOK, SavePassword, DropOtp, SpendOtp
  <2>2. CallOK(c)'
    BY <1>8 DEF CallsInv, TypeOK, CallOK, SavePassword, DropOtp, SpendOtp
  <2> QED
    BY <2>1, <2>2
<1>9. CASE SetAttempts(c)
  <2>1. seen[c] \in OtpData
    BY <1>9 DEF CallsInv, CallOK, SetAttempts
  <2>2. otp' \in OtpData
    BY <1>9, <2>1 DEF SetAttempts, Attempts, OtpData
  <2> QED
    BY <1>9, <2>2, FinishType DEF CallsInv, TypeOK, SetAttempts, NoOtp
<1>10. CASE ReadOtp(c)
  <2>1. CASE otp = NoOtp
    BY <1>10, <2>1, FinishType DEF CallsInv, TypeOK, ReadOtp
  <2>2. CASE otp # NoOtp /\ RightCode(brings[c], otp.code)
    <3>1. IsFiniteSet(accepted')
      <4>1. accepted' = accepted \cup {<<otp.code, c>>}
        BY <1>10, <2>2 DEF ReadOtp, RightCode
      <4> QED
        BY <4>1, FS_AddElement DEF CallsInv, TypeOK
    <3>2. TypeOK'
      BY <1>10, <2>2, <3>1 DEF CallsInv, TypeOK, ReadOtp
    <3>3. CallOK(c)'
      BY <1>10, <2>2 DEF CallsInv, TypeOK, CallOK, ReadOtp
    <3> QED
      BY <3>2, <3>3
  <2>3. CASE otp # NoOtp /\ ~RightCode(brings[c], otp.code)
    <3>1. otp \in OtpData
      BY <2>3 DEF CallsInv, TypeOK
    <3>2. TypeOK'
      BY <1>10, <2>3, <3>1 DEF CallsInv, TypeOK, ReadOtp, OtpData
    <3>3. CallOK(c)'
      BY <1>10, <2>3, <3>1 DEF CallsInv, TypeOK, CallOK, ReadOtp
    <3> QED
      BY <3>2, <3>3
  <2> QED
    BY <2>1, <2>2, <2>3
<1> QED
  BY <1>1, <1>2, <1>3, <1>4, <1>5, <1>6, <1>7, <1>8, <1>9, <1>10 DEF Guarded, Login, Request, Verify, Reset

LEMMA CallsStep ==
  ASSUME CallsInv, [GuardNext]_guardVars
  PROVE  CallsInv'
<1>1. ASSUME NEW c \in Calls, CallStep(c) PROVE CallsInv'
  <2>1. TypeOK' /\ CallOK(c)'
    BY <1>1, AdmissionCallsInv, ArriveCallsInv, GuardedCallsInv DEF CallStep
  <2>2. ASSUME NEW d \in Calls, d # c PROVE CallOK(d)'
    BY <1>1, <2>2, OthersUntouched, CallRests DEF CallsInv
  <2> QED
    BY <2>1, <2>2 DEF CallsInv
<1>2. ASSUME NEW l \in Limiters, Gated(WindowEnds(l)), UNCHANGED <<seen, crowded, brokeOff>> PROVE CallsInv'
  <2>1. TypeOK'
    BY <1>2 DEF Gated, WindowEnds, CallsInv, TypeOK
  <2>2. ASSUME NEW d \in Calls PROVE CallOK(d)'
    BY <1>2, CallRests DEF Gated, WindowEnds, CallsInv
  <2> QED
    BY <2>1, <2>2 DEF CallsInv
<1>3. CASE KeyExpires
  <2>1. TypeOK'
    <3>1. CASE CounterExpires \/ OtpExpires
      BY <1>3, <3>1 DEF KeyExpires, CounterExpires, OtpExpires, CallsInv, TypeOK
    <3>2. CASE LoginBlockExpires \/ VerifyBlockExpires \/ VerifiedExpires
      <4>1. loginBlock' \in BOOLEAN /\ verifyBlock' \in BOOLEAN /\ verified' \in BOOLEAN
        BY <3>2 DEF LoginBlockExpires, VerifyBlockExpires, VerifiedExpires, CallsInv, TypeOK
      <4> QED
        BY <1>3, <3>2, <4>1 DEF KeyExpires, LoginBlockExpires, VerifyBlockExpires, VerifiedExpires, CallsInv, TypeOK
    <3> QED
      BY <1>3, <3>1, <3>2 DEF KeyExpires
  <2>2. ASSUME NEW d \in Calls PROVE CallOK(d)'
    BY <1>3, CallRests DEF KeyExpires, CallsInv
  <2> QED
    BY <2>1, <2>2 DEF CallsInv
<1>4. CASE CrashAll
  <2>1. Finish(InFlight) /\ stuck' \subseteq Limiters /\ InFlight \in SUBSET Calls
    BY <1>4, LimiterType DEF CrashAll, Gated, GateCrash, BreaksOff, InFlight, CallsInv, TypeOK
  <2>2. TypeOK'
    BY <1>4, <2>1, FinishType DEF CrashAll, Gated, GateCrash, CallsInv, TypeOK, NoOtp
  <2>3. ASSUME NEW d \in Calls, pc[d] \in {"idle", "done"} PROVE CallOK(d)'
    BY <2>1, <2>3 DEF Finish, InFlight, CallOK
  <2>4. ASSUME NEW d \in InFlight PROVE CallOK(d)'
    BY <2>1, FinishType
  <2> QED
    BY <2>2, <2>3, <2>4 DEF CallsInv, InFlight
<1>5. CASE UNCHANGED guardVars
  <2>1. TypeOK'
    BY <1>5 DEF CallsInv, TypeOK
  <2>2. ASSUME NEW d \in Calls PROVE CallOK(d)'
    BY <1>5, CallRests DEF CallsInv
  <2> QED
    BY <2>1, <2>2 DEF CallsInv
<1> QED
  BY <1>1, <1>2, <1>3, <1>4, <1>5 DEF GuardNext, CallStep, Guarded, Quiet

-----------------------------------------------------------------------------
(* The limiters.                                                            *)

\* Call c is not at limiter m after the step, or has just come there.
Comes(c, m) ==
  c \in AtLimiter(m)' =>
    pc'[c] \in {"incr", "ttlFirst"} /\ (m \in Cooldowns /\ AtLimiter(m) # {} => m \in rivals')

OthersStay(c, m) ==
  \A d \in Calls : d # c => pc'[d] = pc[d] /\ (d \in AtLimiter(m)' <=> d \in AtLimiter(m))

LEMMA OthersAt ==
  ASSUME CallsInv, NEW c \in Calls, CallStep(c), NEW m \in Limiters
  PROVE  OthersStay(c, m)
BY OthersUntouched DEF CallsInv, OthersStay, AtLimiter, Limiter

\* A limiter whose key is left alone by a call that is not giving it its window.
LEMMA LimiterRests ==
  ASSUME CallsInv, NEW c \in Calls, NEW m \in Limiters, LimiterOK(m), OthersStay(c, m), Comes(c, m),
         hits'[m] = hits[m], timed'[m] = timed[m], admitted'[m] = admitted[m],
         stuck \subseteq stuck', rivals \subseteq rivals', c \in AtLimiter(m) => pc[c] # "expire"
  PROVE  LimiterOK(m)'
<1>1. Counts(m)'
  BY DEF LimiterOK, Counts, OthersStay, Comes, AtLimiter
<1>2. ASSUME m \in Cooldowns, m \notin rivals' PROVE Cools(m)'
  BY <1>2 DEF LimiterOK, Cools, OthersStay, Comes, AtLimiter
<1>3. hits[m] > 0 /\ ~timed[m] => m \in stuck' \/ \E d \in AtLimiter(m)' : pc'[d] = "expire"
  BY DEF LimiterOK, OthersStay, AtLimiter
<1> QED
  BY <1>1, <1>2, <1>3 DEF LimiterOK

LEMMA PassingComes ==
  ASSUME CallsInv, NEW c \in Calls, Waiting(c), Passes(c), NEW m \in Limiters
  PROVE  Comes(c, m) /\ rivals \subseteq rivals' /\ pc'[c] \in {"handler", "incr", "ttlFirst"}
BY Passing, Reaching DEF Comes, AtLimiter

\* The limiter that a call is at, when the call takes its step.
LEMMA OwnLimiter ==
  ASSUME CallsInv, NEW c \in Calls, Admission(c), LimiterOK(Limiter(c))
  PROVE  \A m \in Limiters : m = Limiter(c) => LimiterOK(m)'
<1> SUFFICES ASSUME NEW m \in Limiters, m = Limiter(c) PROVE LimiterOK(m)'
  OBVIOUS
<1>1. /\ Admit(c) /\ Waiting(c) /\ c \in AtLimiter(m) /\ OthersStay(c, m)
      /\ hits[m] \in Nat /\ admitted[m] \in Nat /\ maxRequests[m] \in Nat \ {0} /\ timed[m] \in BOOLEAN
  BY LimiterType, OthersAt, RateLimitAssumption
     DEF CallsInv, TypeOK, Admission, Gated, Admit, Incr, Expire, Ttl, TtlFirst, SetKey, GateThrows, CallStep, AtLimiter
<1>2. (pc[c] \in {"ttlFirst", "setKey"} <=> m \in Cooldowns) /\ (m \in Cooldowns => maxRequests[m] = 1)
  BY <1>1, RateLimitAssumption DEF CallsInv, CallOK
<1>3. \A d \in Calls : d # c /\ d \in AtLimiter(m) /\ m \in Cooldowns => m \in rivals
  BY <1>1 DEF LimiterOK, Cools, AtLimiter
<1>4. CASE Incr(c)
  <2>1. m \notin Cooldowns /\ pc[c] = "incr" /\ hits'[m] = hits[m] + 1 /\ timed'[m] = timed[m]
    BY <1>1, <1>2, <1>4 DEF CallsInv, TypeOK, Incr
  <2>2. CASE hits[m] = 0
    <3>1. pc'[c] = "expire" /\ UNCHANGED <<admitted, stuck, rivals>> /\ c \in AtLimiter(m)'
      BY <1>1, <1>4, <2>2 DEF CallsInv, TypeOK, Incr, IsFirst, TooMany, AtLimiter, Limiter
    <3>2. admitted[m] = 0 /\ ~timed[m] /\ \A d \in AtLimiter(m) : pc[d] # "expire"
      BY <1>1, <2>1, <2>2 DEF LimiterOK, Counts
    <3>3. \A d \in AtLimiter(m)' : pc'[d] = "expire" => d = c
      BY <1>1, <3>2 DEF OthersStay, AtLimiter
    <3>4. Counts(m)'
      BY <1>1, <2>1, <2>2, <3>1, <3>2, <3>3 DEF Counts
    <3> QED
      BY <1>1, <2>1, <2>2, <3>1, <3>2, <3>4 DEF LimiterOK
  <2>3. CASE hits[m] # 0 /\ hits[m] + 1 > maxRequests[m]
    <3>1. pc'[c] = "ttl" /\ UNCHANGED <<admitted, stuck, rivals>>
      BY <1>1, <1>4, <2>3 DEF CallsInv, TypeOK, Incr, IsFirst, TooMany
    <3>2. Counts(m)'
      BY <1>1, <2>1, <2>3, <3>1 DEF LimiterOK, Counts, OthersStay, AtLimiter
    <3>3. ~timed[m] => m \in stuck' \/ \E d \in AtLimiter(m)' : pc'[d] = "expire"
      BY <1>1, <2>1, <2>3, <3>1 DEF LimiterOK, OthersStay, AtLimiter
    <3> QED
      BY <1>1, <2>1, <2>3, <3>1, <3>2, <3>3 DEF LimiterOK
  <2>4. CASE hits[m] # 0 /\ ~(hits[m] + 1 > maxRequests[m])
    <3>1. Passes(c)
      BY <1>1, <1>4, <2>4 DEF Incr, IsFirst, TooMany
    <3>2. admitted'[m] = admitted[m] + 1 /\ UNCHANGED stuck /\ rivals \subseteq rivals' /\ pc'[c] # "expire"
      BY <1>1, <3>1, Passing, PassingComes DEF CallsInv, TypeOK
    <3>3. Counts(m)'
      BY <1>1, <2>1, <2>4, <3>2 DEF LimiterOK, Counts, OthersStay, AtLimiter
    <3>4. ~timed[m] => m \in stuck' \/ \E d \in AtLimiter(m)' : pc'[d] = "expire"
      BY <1>1, <2>1, <2>4, <3>2 DEF LimiterOK, OthersStay, AtLimiter
    <3> QED
      BY <1>1, <2>1, <2>4, <3>2, <3>3, <3>4 DEF LimiterOK
  <2> QED
    BY <2>2, <2>3, <2>4
<1>5. CASE Expire(c)
  <2>1. /\ m \notin Cooldowns /\ pc[c] = "expire" /\ hits'[m] = hits[m] /\ timed'[m] = TRUE
        /\ admitted'[m] = admitted[m] + 1 /\ rivals \subseteq rivals' /\ pc'[c] # "expire"
    BY <1>1, <1>2, <1>5, Passing, PassingComes DEF CallsInv, TypeOK, Expire
  <2>2. admitted[m] < hits[m] /\ admitted[m] < maxRequests[m]
        /\ \A d \in AtLimiter(m) : pc[d] = "expire" => d = c
    BY <1>1, <2>1 DEF LimiterOK, Counts
  <2>3. \A d \in AtLimiter(m)' : pc'[d] # "expire"
    BY <1>1, <2>1, <2>2 DEF OthersStay, AtLimiter
  <2>4. Counts(m)'
    BY <1>1, <2>1, <2>2, <2>3 DEF Counts
  <2> QED
    BY <1>1, <2>1, <2>2, <2>4 DEF LimiterOK
<1>6. CASE SetKey(c)
  <2>1. /\ m \in Cooldowns /\ pc[c] = "setKey" /\ hits'[m] = 1 /\ timed'[m] = TRUE
        /\ admitted'[m] = admitted[m] + 1 /\ rivals \subseteq rivals' /\ Comes(c, m)
    BY <1>1, <1>2, <1>6, Passing, PassingComes DEF CallsInv, TypeOK, SetKey
  <2>2. \A d \in AtLimiter(m)' : pc'[d] # "expire"
    <3>1. \A d \in AtLimiter(m) : pc[d] # "expire"
      BY <2>1 DEF CallsInv, CallOK, AtLimiter
    <3> QED
      BY <1>1, <2>1, <3>1 DEF OthersStay, Comes, AtLimiter
  <2>3. Counts(m)'
    BY <2>1, <2>2 DEF Counts
  <2>4. ASSUME m \notin rivals' PROVE Cools(m)' /\ admitted[m] = 0
    <3>1. m \notin rivals /\ c \notin AtLimiter(m)'
      BY <1>1, <2>1, <2>4 DEF Comes
    <3>2. \A d \in Calls : d \notin AtLimiter(m)'
      BY <1>1, <1>3, <2>1, <3>1 DEF OthersStay
    <3>3. admitted[m] = 0
      BY <1>1, <2>1, <3>1 DEF LimiterOK, Cools
    <3> QED
      BY <3>2, <3>3 DEF Cools, AtLimiter
  <2> QED
    BY <1>2, <2>1, <2>3, <2>4 DEF LimiterOK
<1>7. CASE TtlFirst(c) /\ hits[m] = 0
  <2>1. /\ m \in Cooldowns /\ pc[c] = "ttlFirst" /\ pc'[c] = "setKey"
        /\ UNCHANGED <<hits, timed, admitted, stuck, rivals>>
    BY <1>1, <1>2, <1>7 DEF CallsInv, TypeOK, TtlFirst
  <2>2. Counts(m)'
    BY <1>1, <2>1 DEF LimiterOK, Counts, OthersStay, AtLimiter
  <2>3. ASSUME m \notin rivals PROVE Cools(m)'
    BY <1>1, <1>3, <1>7, <2>1, <2>3 DEF Cools, OthersStay, AtLimiter
  <2> QED
    BY <1>1, <1>7, <2>1, <2>2, <2>3 DEF LimiterOK
<1>8. CASE Finish({c}) /\ UNCHANGED <<hits, timed, admitted, rivals>>
           /\ ((stuck' = stuck /\ pc[c] # "expire") \/ stuck' = stuck \cup {Limiter(e) : e \in {d \in {c} : pc[d] = "expire"}})
  <2>1. pc'[c] = "done" /\ Comes(c, m) /\ stuck \subseteq stuck'
    BY <1>8 DEF CallsInv, TypeOK, Finish, Comes, AtLimiter
  <2>2. CASE pc[c] # "expire"
    BY <1>1, <1>8, <2>1, <2>2, LimiterRests
  <2>3. CASE pc[c] = "expire"
    <3>1. m \in stuck' /\ m \notin Cooldowns
      BY <1>2, <1>8, <2>3
    <3>2. Counts(m)'
      BY <1>1, <1>8, <2>1 DEF LimiterOK, Counts, OthersStay, Comes, AtLimiter
    <3> QED
      BY <1>8, <3>1, <3>2 DEF LimiterOK
  <2> QED
    BY <2>2, <2>3
<1>9. CASE Ttl(c) \/ (TtlFirst(c) /\ hits[m] # 0) \/ GateThrows(c)
  BY <1>1, <1>8, <1>9 DEF Ttl, TtlFirst, GateThrows, BreaksOff
<1> QED
  BY <1>1, <1>4, <1>5, <1>6, <1>7, <1>9 DEF Admit

\* The other limiters.
LEMMA OtherLimiters ==
  ASSUME CallsInv, NEW c \in Calls, Admission(c), NEW m \in Limiters, m # Limiter(c), LimiterOK(m)
  PROVE  LimiterOK(m)'
<1>1. Admit(c) /\ Waiting(c) /\ OthersStay(c, m) /\ c \notin AtLimiter(m)
  BY OthersAt
     DEF Admission, Gated, Admit, Incr, Expire, Ttl, TtlFirst, SetKey, GateThrows, CallStep, AtLimiter
<1>2. /\ hits'[m] = hits[m] /\ timed'[m] = timed[m] /\ admitted'[m] = admitted[m] /\ stuck \subseteq stuck'
      /\ Passes(c) \/ (Finish({c}) /\ UNCHANGED rivals) \/ (\E s \in {"expire", "ttl", "setKey"} : Goto(c, s) /\ UNCHANGED <<request, rivals>>)
  BY <1>1 DEF CallsInv, TypeOK, Admit, Incr, Expire, Ttl, TtlFirst, SetKey, GateThrows, BreaksOff, Passes
<1>3. Comes(c, m) /\ rivals \subseteq rivals'
  <2>1. CASE Passes(c)
    BY <1>1, <2>1, PassingComes
  <2>2. CASE Finish({c}) /\ UNCHANGED rivals
    BY <2>2 DEF CallsInv, TypeOK, Finish, Comes, AtLimiter
  <2>3. CASE UNCHANGED <<request, rivals>>
    BY <1>1, <2>3 DEF Comes, AtLimiter, Limiter
  <2> QED
    BY <1>2, <2>1, <2>2, <2>3
<1> QED
  BY <1>1, <1>2, <1>3, LimiterRests

LEMMA LimiterStep ==
  ASSUME CallsInv, NEW m \in Limiters, LimiterOK(m), [GuardNext]_guardVars
  PROVE  LimiterOK(m)'
<1>1. ASSUME NEW c \in Calls, Admission(c) PROVE LimiterOK(m)'
  BY <1>1, OwnLimiter, OtherLimiters
<1>2. ASSUME NEW c \in Calls, ArriveAtRoute(c) PROVE LimiterOK(m)'
  <2>0. PICK k \in Kinds : \E g \in Guesses(k) : Arrive(c, k, g)
    BY <1>2 DEF ArriveAtRoute
  <2>1. Reaches(c, k, 1) /\ kind'[c] = k /\ UNCHANGED <<gate, admitted, stuck>> /\ pc[c] = "idle"
    BY <2>0 DEF CallsInv, TypeOK, Arrive
  <2>2. Comes(c, m) /\ rivals \subseteq rivals'
    BY <2>1, Reaching DEF Comes, AtLimiter
  <2> QED
    BY <1>2, <2>1, <2>2, OthersAt, LimiterRests DEF CallStep, AtLimiter
<1>3. ASSUME NEW c \in Calls, Guarded(c) PROVE LimiterOK(m)'
  BY <1>3, OthersAt, GuardedMove, LimiterRests DEF CallStep, AtLimiter, Comes
<1>4. ASSUME NEW l \in Limiters, Gated(WindowEnds(l)) PROVE LimiterOK(m)'
  <2>1. /\ \A d \in Calls : pc'[d] = pc[d] /\ UNCHANGED request
        /\ AtLimiter(m)' = AtLimiter(m) /\ UNCHANGED <<pc, stuck, rivals>>
    BY <1>4 DEF Gated, WindowEnds, AtLimiter, Limiter
  <2>2. CASE l # m
    <3>1. hits'[m] = hits[m] /\ timed'[m] = timed[m] /\ admitted'[m] = admitted[m]
      BY <1>4, <2>2 DEF Gated, WindowEnds, CallsInv, TypeOK
    <3> QED
      BY <2>1, <3>1 DEF LimiterOK, Counts, Cools
  <2>3. CASE l = m
    <3>1. timed[m] /\ hits'[m] = 0 /\ timed'[m] = FALSE /\ admitted'[m] = 0 /\ maxRequests[m] \in Nat
      BY <1>4, <2>3, RateLimitAssumption DEF Gated, WindowEnds, CallsInv, TypeOK
    <3>2. Counts(m)'
      BY <2>1, <3>1 DEF LimiterOK, Counts
    <3>3. m \in Cooldowns /\ m \notin rivals => Cools(m)'
      BY <2>1, <3>1 DEF LimiterOK, Cools
    <3> QED
      BY <2>1, <3>1, <3>2, <3>3 DEF LimiterOK
  <2> QED
    BY <2>2, <2>3
<1>5. CASE CrashAll
  <2>1. /\ UNCHANGED <<hits, timed, admitted, rivals>>
        /\ stuck' = stuck \cup {Limiter(c) : c \in {d \in Calls : pc[d] = "expire"}}
        /\ \A c \in Calls : pc'[c] \in {"idle", "done"}
    BY <1>5 DEF CrashAll, Gated, GateCrash, BreaksOff, Finish, InFlight
  <2>2. AtLimiter(m)' = {}
    BY <2>1 DEF AtLimiter
  <2>3. hits[m] > 0 /\ ~timed[m] => m \in stuck'
    BY <2>1 DEF LimiterOK, AtLimiter
  <2>4. Counts(m)' /\ Cools(m)'
    BY <2>1, <2>2 DEF LimiterOK, Counts, Cools
  <2> QED
    BY <2>1, <2>2, <2>3, <2>4 DEF LimiterOK
<1>6. CASE UNCHANGED gateVars
  <2>1. AtLimiter(m)' = AtLimiter(m)
    BY <1>6 DEF AtLimiter, Limiter
  <2> QED
    BY <1>6, <2>1 DEF LimiterOK, Counts, Cools
<1> QED
  BY <1>1, <1>2, <1>3, <1>4, <1>5, <1>6 DEF GuardNext, Guarded, KeyExpires, Quiet

-----------------------------------------------------------------------------
(* What verifies an account.                                                *)

\* What is on record stays on record.
LEMMA NotesGrow ==
  ASSUME [GuardNext]_guardVars
  PROVE  crowded \subseteq crowded' /\ brokeOff \subseteq brokeOff' /\ accepted \subseteq accepted'
<1>1. ASSUME NEW c \in Calls, Login(c) \/ Request(c) \/ Verify(c) \/ Reset(c)
      PROVE  crowded' = crowded /\ brokeOff' = brokeOff /\ accepted \subseteq accepted'
  BY <1>1 DEF Login, Compare, ReadCounter, DropCounter, SetBlock, SetCounter, ClearCounter, ClearBlock,
     Request, SetOtp, SendOtp, Verify, ReadOtp, DropOtp, BlockVerify, SetAttempts, SpendOtp, SetVerified,
     Reset, ReadAccount, SavePassword, DropVerified
<1>2. ASSUME NEW c \in Calls, ArriveAtRoute(c) \/ Admission(c) \/ EnterHandler(c) \/ HandlerThrows(c)
      PROVE  crowded \subseteq crowded' /\ brokeOff \subseteq brokeOff' /\ accepted' = accepted
  BY <1>2 DEF ArriveAtRoute, Admission, Gated, EnterHandler, HandlerThrows, BrokenOff
<1>3. KeyExpires => UNCHANGED <<crowded, brokeOff, accepted>>
  BY DEF KeyExpires, CounterExpires, LoginBlockExpires, OtpExpires, VerifyBlockExpires, VerifiedExpires
<1> QED
  BY <1>1, <1>2, <1>3 DEF GuardNext, CrashAll, Gated, BrokenOff, Quiet

\* Which calls are in which handler after a step: the calls that were, and the one that
\* has entered.
LEMMA StaysOrEnters ==
  ASSUME CallsInv, [GuardNext]_guardVars, NEW d \in Calls, pc'[d] \in Handling \ {"handler"}
  PROVE  /\ pc[d] \in Handling /\ kind'[d] = kind[d]
         /\ pc[d] = "handler" => EnterHandler(d) /\ Proceed(d, pc'[d])
         /\ pc'[d] # pc[d] => Guarded(d)
<1>1. ASSUME NEW c \in Calls, CallStep(c), c # d PROVE pc'[d] = pc[d] /\ kind'[d] = kind[d]
  BY <1>1, OthersUntouched DEF CallsInv
<1>2. ASSUME ArriveAtRoute(d) PROVE FALSE
  <2>0. PICK k \in Kinds : \E g \in Guesses(k) : Arrive(d, k, g)
    BY <1>2 DEF ArriveAtRoute
  <2> QED
    BY <2>0, Reaching DEF CallsInv, TypeOK, Arrive
<1>3. ASSUME Admission(d) PROVE FALSE
  <2>1. Waiting(d) /\ (Passes(d) \/ Finish({d}) \/ \E s \in {"expire", "ttl", "setKey"} : Goto(d, s))
    BY <1>3 DEF Admission, Gated, Admit, Incr, Expire, Ttl, TtlFirst, SetKey, GateThrows
  <2>2. Passes(d) => pc'[d] = "handler" \/ pc'[d] \in GateSteps
    BY <2>1, Passing, Reaching
  <2> QED
    BY <2>1, <2>2 DEF CallsInv, TypeOK, Finish
<1>4. CASE Guarded(d)
  <2>1. pc[d] \in Handling /\ kind'[d] = kind[d]
    BY <1>4, GuardedMove
  <2>2. ASSUME pc[d] = "handler" PROVE EnterHandler(d) /\ Proceed(d, pc'[d])
    <3>1. EnterHandler(d) \/ HandlerThrows(d)
      BY <1>4, <2>2 DEF Guarded, Login, Compare, ReadCounter, DropCounter, SetBlock, SetCounter, ClearCounter,
         ClearBlock, Request, SetOtp, SendOtp, Verify, ReadOtp, DropOtp, BlockVerify, SetAttempts, SpendOtp,
         SetVerified, Reset, ReadAccount, SavePassword, DropVerified
    <3>2. ~End(d)
      BY DEF CallsInv, TypeOK, End, Finish
    <3> QED
      BY <3>1, <3>2 DEF CallsInv, TypeOK, EnterHandler, HandlerThrows, Proceed
  <2> QED
    BY <1>4, <2>1, <2>2
<1>5. CrashAll => pc'[d] \notin Handling
  BY DEF CrashAll, Gated, GateCrash, Finish, InFlight
<1>6. CASE UNCHANGED <<pc, kind>>
  BY <1>6
<1> QED
  BY <1>1, <1>2, <1>3, <1>4, <1>5, <1>6
     DEF GuardNext, CallStep, Guarded, Gated, WindowEnds, KeyExpires, Quiet

LEMMA CauseStep ==
  ASSUME CallsInv, HasCause, [GuardNext]_guardVars
  PROVE  HasCause'
<1> DEFINE Caused == {"spendOtp", "setVerified"} \cup ResetSteps
<1>1. accepted # {} => accepted' # {}
  BY NotesGrow
<1>2. ASSUME NEW c \in Calls, pc'[c] \in Caused PROVE accepted' # {}
  <2>1. pc[c] \in Caused => accepted' # {}
    BY <1>1 DEF HasCause
  <2>2. ASSUME pc[c] = "handler" PROVE accepted' # {}
    <3>1. EnterHandler(c) /\ Proceed(c, pc'[c]) /\ kind[c] \in {"login", "request", "verify", "reset"}
      BY <1>2, <2>2, StaysOrEnters, AccountGuardAssumption DEF CallsInv, CallOK
    <3>2. kind[c] # "reset" => pc'[c] \notin Caused
      BY <3>1 DEF CallsInv, TypeOK, EnterHandler, Proceed, End, Finish
    <3>3. kind[c] = "reset" => verified
      BY <1>2, <3>1 DEF CallsInv, TypeOK, EnterHandler, End, Finish
    <3> QED
      BY <1>1, <1>2, <3>2, <3>3 DEF HasCause
  <2>3. ASSUME pc[c] \notin Caused, pc[c] # "handler" PROVE accepted' # {}
    <3>1. Guarded(c) /\ pc'[c] # "done"
      BY <1>2, <2>3, StaysOrEnters
    <3>2. ReadOtp(c)
      <4>1. ~EnterHandler(c) /\ ~SpendOtp(c) /\ ~SetVerified(c) /\ ~Reset(c)
        BY <2>3 DEF EnterHandler, SpendOtp, SetVerified, Reset, ReadAccount, SavePassword, DropVerified
      <4>2. ~HandlerThrows(c) /\ ~Login(c) /\ ~Request(c) /\ ~DropOtp(c) /\ ~BlockVerify(c) /\ ~SetAttempts(c)
        BY <1>2, <3>1 DEF CallsInv, TypeOK, HandlerThrows, Login, Compare, ReadCounter, DropCounter, SetBlock, SetCounter,
           ClearCounter, ClearBlock, Request, SetOtp, SendOtp, DropOtp, BlockVerify, SetAttempts, Proceed, End, Finish
      <4> QED
        BY <3>1, <4>1, <4>2 DEF Guarded, Verify
    <3>3. otp # NoOtp /\ RightCode(brings[c], otp.code)
      BY <1>2, <3>1, <3>2 DEF CallsInv, TypeOK, ReadOtp, Proceed, End, Finish
    <3> QED
      BY <3>2, <3>3 DEF ReadOtp, RightCode
  <2> QED
    BY <2>1, <2>2, <2>3
<1>3. verified' \/ password' > 1 => accepted' # {}
  <2>1. ASSUME NEW c \in Calls, SetVerified(c) \/ SavePassword(c) PROVE accepted' # {}
    BY <1>1, <2>1 DEF HasCause, SetVerified, SavePassword
  <2>2. ASSUME verified' = verified \/ verified' = FALSE, password' = password
        PROVE  verified' \/ password' > 1 => accepted' # {}
    BY <1>1, <2>2 DEF HasCause
  <2>3. ASSUME NEW c \in Calls, Login(c) \/ Request(c)
        PROVE  UNCHANGED <<verified, password>>
    BY <2>3 DEF Login, Compare, ReadCounter, DropCounter, SetBlock, SetCounter, ClearCounter, ClearBlock,
       Request, SetOtp, SendOtp
  <2>4. ASSUME NEW c \in Calls, ReadOtp(c) \/ DropOtp(c) \/ BlockVerify(c) \/ SetAttempts(c) \/ SpendOtp(c)
                                \/ ReadAccount(c) \/ DropVerified(c)
        PROVE  (verified' = verified \/ verified' = FALSE) /\ password' = password
    BY <2>4 DEF ReadOtp, DropOtp, BlockVerify, SetAttempts, SpendOtp, ReadAccount, DropVerified, VerifiedAfter
  <2>5. ASSUME NEW c \in Calls, ArriveAtRoute(c) \/ Admission(c) \/ EnterHandler(c) \/ HandlerThrows(c)
        PROVE  UNCHANGED <<verified, password>>
    BY <2>5 DEF ArriveAtRoute, Admission, Gated, EnterHandler, HandlerThrows
  <2>6. ASSUME KeyExpires PROVE (verified' = verified \/ verified' = FALSE) /\ password' = password
    BY <2>6 DEF KeyExpires, CounterExpires, LoginBlockExpires, OtpExpires, VerifyBlockExpires, VerifiedExpires
  <2> QED
    BY <2>1, <2>2, <2>3, <2>4, <2>5, <2>6 DEF GuardNext, Verify, Reset, CrashAll, Gated, Quiet
<1> QED
  BY <1>2, <1>3 DEF HasCause

-----------------------------------------------------------------------------
(* Wrong passwords run out.                                                 *)

\* A call that enters a handler and does not make it crowded is the only one there.
LEMMA EntersAlone ==
  ASSUME NEW c \in Calls, EnterHandler(c), Door(kind[c]) \notin crowded', NEW e \in Calls, Past(e, Door(kind[c]))
  PROVE  FALSE
<1>1. InHandler(Door(kind[c])) = {c} /\ pc[c] = "handler"
  BY DEF EnterHandler
<1> QED
  BY <1>1 DEF InHandler, Past

LEMMA AloneStep ==
  ASSUME CallsInv, [GuardNext]_guardVars, NEW d, d \notin crowded', Alone(d)
  PROVE  Alone(d)'
<1> SUFFICES ASSUME NEW a \in Calls, NEW b \in Calls, Past(a, d)', Past(b, d)', a # b PROVE FALSE
  BY DEF Alone
<1>1. ASSUME NEW x \in Calls, NEW y \in Calls, x # y, Past(x, d)', Past(y, d)', pc[x] = "handler" PROVE FALSE
  <2>1. EnterHandler(x) /\ Door(kind[x]) = d
    BY <1>1, StaysOrEnters DEF Past
  <2>2. pc'[y] = pc[y] /\ kind'[y] = kind[y]
    BY <1>1, <2>1, OthersUntouched DEF CallsInv, CallStep, Guarded
  <2>3. Past(y, d)
    BY <1>1, <2>2 DEF Past
  <2> QED
    BY <1>1, <2>1, <2>3, EntersAlone
<1>2. pc[a] # "handler" /\ pc[b] # "handler"
  BY <1>1
<1>3. Past(a, d) /\ Past(b, d)
  BY <1>2, StaysOrEnters DEF Past
<1> QED
  BY <1>3 DEF Alone

InLogin == LoginSteps \cup {"compare"}

LEMMA LoginIsPast ==
  ASSUME CallsInv, NEW c \in Calls, pc[c] \in InLogin
  PROVE  Past(c, "login") /\ kind[c] = "login"
BY DEF CallsInv, CallOK, InLogin, Past, Door

\* What stands when a step touches neither the counter nor a login.
LEMMA LoginRests ==
  ASSUME LoginOK, "login" \notin crowded \cup brokeOff, Alone("login")',
         UNCHANGED <<failures, failCounter, loginBlock>>,
         \A c \in Calls : pc'[c] \in InLogin => pc[c] = pc'[c] /\ seen'[c] = seen[c],
         \A c \in Calls : Past(c, "login") => Past(c, "login")'
  PROVE  LoginOK'
BY DEF LoginOK, InLogin

\* The steps of a login.
LEMMA LoginMoves ==
  ASSUME CallsInv, LoginOK, NEW c \in Calls, Login(c), Alone("login")',
         "login" \notin crowded \cup brokeOff
  PROVE  LoginOK'
<1> USE AccountGuardAssumption DEF Proceed
<1>1. pc[c] \in InLogin /\ Past(c, "login") /\ kind[c] = "login" /\ pc[c] # "done"
  BY LoginIsPast DEF Login, Compare, ReadCounter, DropCounter, SetBlock, SetCounter, ClearCounter, ClearBlock, InLogin
<1>2. \A e \in Calls : pc'[e] \in InLogin => e = c
  <2>1. \A e \in Calls : pc[e] \in InLogin => e = c
    BY <1>1, LoginIsPast DEF LoginOK, Alone
  <2> QED
    BY <2>1, OthersUntouched DEF CallsInv, CallStep, Guarded
<1>3. /\ failures \in Nat /\ failCounter \in Nat /\ failures <= LOGIN_FAIL_MAX_ATTEMPTS
      /\ failCounter < LOGIN_FAIL_MAX_ATTEMPTS
      /\ pc[c] \in {"compare", "clearCounter", "clearBlock"} => failures <= failCounter
      /\ pc[c] = "readCounter" => failures <= failCounter + 1
      /\ pc[c] = "setCounter" =>
           /\ seen[c].attempts \in Nat
           /\ seen[c].attempts + 1 < LOGIN_FAIL_MAX_ATTEMPTS /\ failures <= seen[c].attempts + 1
  BY DEF CallsInv, TypeOK, LoginOK
<1> SUFFICES /\ failures' <= LOGIN_FAIL_MAX_ATTEMPTS /\ failCounter' < LOGIN_FAIL_MAX_ATTEMPTS
             /\ failures' <= failCounter' \/ loginBlock' \/ Past(c, "login")'
             /\ pc'[c] \in {"compare", "clearCounter", "clearBlock"} => failures' <= failCounter'
             /\ pc'[c] = "readCounter" => failures' <= failCounter' + 1
             /\ pc'[c] = "setCounter" =>
                  seen'[c].attempts + 1 < LOGIN_FAIL_MAX_ATTEMPTS /\ failures' <= seen'[c].attempts + 1
  BY <1>2 DEF LoginOK, InLogin
<1>4. UNCHANGED kind => kind'[c] = "login"
  BY <1>1
<1>5. CASE Compare(c)
  BY <1>3, <1>4, <1>5 DEF CallsInv, TypeOK, Compare, Past, Door
<1>6. CASE ReadCounter(c)
  BY <1>3, <1>4, <1>6 DEF CallsInv, TypeOK, ReadCounter, FailsTooOften, Past, Door, NoOtp
<1>7. CASE DropCounter(c)
  BY <1>3, <1>4, <1>7 DEF CallsInv, TypeOK, DropCounter, Past, Door
<1>8. CASE SetBlock(c) \/ SetCounter(c) \/ ClearBlock(c)
  <2>1. pc'[c] = "done"
    BY <1>8 DEF CallsInv, TypeOK, SetBlock, SetCounter, ClearBlock, End, Finish
  <2> QED
    BY <1>3, <1>8, <2>1 DEF SetBlock, SetCounter, ClearBlock
<1>9. CASE ClearCounter(c)
  BY <1>3, <1>4, <1>9 DEF CallsInv, TypeOK, ClearCounter, Past, Door
<1> QED
  BY <1>5, <1>6, <1>7, <1>8, <1>9 DEF Login

LEMMA LoginStep ==
  ASSUME CallsInv, LoginOK, [GuardNext]_guardVars
  PROVE  LoginOK'
<1> SUFFICES ASSUME "login" \notin crowded' \cup brokeOff' PROVE LoginOK'
  BY DEF LoginOK
<1> USE AccountGuardAssumption
<1>1. "login" \notin crowded \cup brokeOff /\ Alone("login")'
  BY NotesGrow, AloneStep DEF LoginOK
<1>2. \A e \in Calls : pc[e] \in InLogin => Past(e, "login")
  BY LoginIsPast
<1>3. ASSUME NEW c \in Calls, CallStep(c), ~Past(c, "login"), pc'[c] \notin InLogin,
             UNCHANGED <<failures, failCounter, loginBlock>>
      PROVE  LoginOK'
  <2>1. \A e \in Calls : e # c => pc'[e] = pc[e] /\ kind'[e] = kind[e] /\ seen'[e] = seen[e]
    BY <1>3, OthersUntouched DEF CallsInv
  <2>2. \A e \in Calls : Past(e, "login") => Past(e, "login")'
    BY <1>3, <2>1 DEF Past
  <2> QED
    BY <1>1, <1>3, <2>1, <2>2, LoginRests
<1>4. ASSUME NEW c \in Calls, ArriveAtRoute(c) \/ Admission(c) PROVE LoginOK'
  <2>1. pc[c] \notin Handling /\ UNCHANGED <<failures, failCounter, loginBlock>>
    BY <1>4 DEF ArriveAtRoute, Arrive, Admission, Gated, Admit, Incr, Expire, Ttl, TtlFirst, SetKey, GateThrows
  <2>2. pc'[c] \notin InLogin
    BY <2>1, StaysOrEnters DEF InLogin
  <2> QED
    BY <1>3, <1>4, <2>1, <2>2 DEF CallStep, Past
<1>5. ASSUME NEW c \in Calls, EnterHandler(c) PROVE LoginOK'
  <2>1. pc[c] = "handler" /\ UNCHANGED <<failures, failCounter, loginBlock, seen>> /\ ~Past(c, "login")
    BY <1>5 DEF EnterHandler, Past
  <2>2. CASE pc'[c] \notin InLogin
    BY <1>3, <1>5, <2>1, <2>2 DEF CallStep, Guarded
  <2>3. CASE pc'[c] \in InLogin
    <3>1. kind[c] = "login" /\ ~loginBlock /\ pc'[c] = "compare"
      BY <1>5, <2>3, AccountGuardAssumption DEF CallsInv, TypeOK, CallOK, EnterHandler, Proceed, End, Finish, InLogin
    <3>2. \A e \in Calls : ~Past(e, "login")
      BY <1>1, <1>5, <3>1, EntersAlone, NotesGrow DEF Door
    <3>3. failures <= failCounter
      BY <1>1, <3>1, <3>2 DEF LoginOK
    <3>4. \A e \in Calls : pc'[e] \in InLogin => e = c
      BY <1>2, <1>5, <3>2, OthersUntouched DEF CallsInv, CallStep, Guarded
    <3> QED
      BY <1>1, <2>1, <3>1, <3>3, <3>4 DEF LoginOK, InLogin
  <2> QED
    BY <2>2, <2>3
<1>6. ASSUME NEW c \in Calls, Login(c) PROVE LoginOK'
  BY <1>1, <1>6, LoginMoves
<1>7. ASSUME NEW c \in Calls, Request(c) \/ Verify(c) \/ Reset(c) PROVE LoginOK'
  <2>1. pc[c] \in RequestSteps \cup VerifySteps \cup ResetSteps /\ UNCHANGED <<failures, failCounter, loginBlock>>
    BY <1>7 DEF Request, SetOtp, SendOtp, Verify, ReadOtp, DropOtp, BlockVerify, SetAttempts, SpendOtp, SetVerified,
       Reset, ReadAccount, SavePassword, DropVerified
  <2>2. ~Past(c, "login") /\ kind[c] # "login"
    BY <2>1 DEF CallsInv, CallOK, Past, Door
  <2>3. pc'[c] \notin InLogin
    <3>1. pc'[c] \in InLogin => kind'[c] = "login" /\ kind'[c] = kind[c]
      BY CallsStep, StaysOrEnters DEF CallsInv, CallOK, InLogin
    <3> QED
      BY <2>2, <3>1
  <2> QED
    BY <1>3, <1>7, <2>1, <2>2, <2>3 DEF CallStep, Guarded
<1>8. ASSUME NEW c \in Calls, HandlerThrows(c) PROVE LoginOK'
  <2>1. pc'[c] = "done" /\ UNCHANGED <<failures, failCounter, loginBlock>>
        /\ brokeOff' = brokeOff \cup {Door(kind[b]) : b \in {d \in {c} : pc[d] \in Counting}}
    BY <1>8 DEF CallsInv, TypeOK, HandlerThrows, BrokenOff, End, Finish
  <2>2. CASE ~Past(c, "login")
    BY <1>3, <1>8, <2>1, <2>2 DEF CallStep, Guarded, InLogin
  <2>3. CASE Past(c, "login")
    <3>1. pc[c] \notin LoginSteps
      BY <2>1, <2>3 DEF Past, Counting
    <3>2. pc[c] = "compare"
      <4>1. kind[c] = "login"
        BY <2>3 DEF Past, Door
      <4> QED
        BY <2>3, <3>1, <4>1 DEF CallsInv, CallOK, Past
    <3>3. failures <= failCounter
      BY <1>1, <3>2 DEF LoginOK
    <3>4. \A e \in Calls : pc'[e] \notin InLogin
      <4>1. \A e \in Calls : pc[e] \in InLogin => e = c
        BY <1>1, <1>2, <2>3 DEF LoginOK, Alone
      <4> QED
        BY <1>8, <2>1, <4>1, OthersUntouched DEF CallsInv, CallStep, Guarded, InLogin
    <3> QED
      BY <1>1, <2>1, <3>3, <3>4 DEF LoginOK, InLogin
  <2> QED
    BY <2>2, <2>3
<1>9. CASE CrashAll
  <2>1. /\ UNCHANGED <<failures, failCounter, loginBlock>> /\ \A e \in Calls : pc'[e] \in {"idle", "done"}
        /\ brokeOff' = brokeOff \cup {Door(kind[b]) : b \in {d \in Calls : pc[d] \in Counting}}
    BY <1>9 DEF CrashAll, Gated, GateCrash, BrokenOff, Finish, InFlight
  <2>2. failures <= failCounter \/ loginBlock
    <3>1. ASSUME NEW e \in Calls, Past(e, "login") PROVE failures <= failCounter
      <4>1. kind[e] = "login" /\ pc[e] \notin LoginSteps
        BY <2>1, <3>1 DEF Past, Door, Counting
      <4>2. pc[e] = "compare"
        BY <3>1, <4>1 DEF CallsInv, CallOK, Past
      <4> QED
        BY <1>1, <4>2 DEF LoginOK
    <3> QED
      BY <1>1, <3>1 DEF LoginOK
  <2> QED
    BY <1>1, <2>1, <2>2 DEF LoginOK
<1>10. CASE CounterExpires /\ UNCHANGED <<pc, kind, seen>>
  BY <1>1, <1>10 DEF CallsInv, TypeOK, LoginOK, CounterExpires, Past
<1>11. CASE LoginBlockExpires /\ UNCHANGED <<pc, kind, seen>>
  BY <1>1, <1>11 DEF CallsInv, TypeOK, LoginOK, LoginBlockExpires, Past
<1>12. CASE UNCHANGED <<failures, failCounter, loginBlock, pc, kind, seen>>
  BY <1>1, <1>12, LoginRests DEF Past
<1> QED
  BY <1>4, <1>5, <1>6, <1>7, <1>8, <1>9, <1>10, <1>11, <1>12
     DEF GuardNext, Gated, WindowEnds, KeyExpires, OtpExpires, VerifyBlockExpires, VerifiedExpires, Quiet

-----------------------------------------------------------------------------
(* Wrong codes run out, and a code buys one password.                       *)

LEMMA StoredStays ==
  ASSUME CallsInv, [GuardNext]_guardVars, NEW o \in Calls, Stored(o)
  PROVE  Stored(o)'
<1>1. ASSUME NEW c \in Calls, CallStep(c), c # o PROVE Stored(o)'
  BY <1>1, OthersUntouched DEF CallsInv, Stored
<1>2. CASE SendOtp(o) \/ HandlerThrows(o)
  BY <1>2 DEF CallsInv, TypeOK, SendOtp, HandlerThrows, End, Finish, Stored
<1>3. ~ArriveAtRoute(o) /\ ~Admission(o) /\ ~EnterHandler(o) /\ ~Login(o) /\ ~SetOtp(o) /\ ~Verify(o) /\ ~Reset(o)
  BY DEF Stored, ArriveAtRoute, Arrive, Admission, Gated, Admit, Incr, Expire, Ttl, TtlFirst, SetKey, GateThrows,
     EnterHandler, Login, Compare, ReadCounter, DropCounter, SetBlock, SetCounter, ClearCounter, ClearBlock, SetOtp,
     Verify, ReadOtp, DropOtp, BlockVerify, SetAttempts, SpendOtp, SetVerified, Reset, ReadAccount, SavePassword, DropVerified
<1>4. CASE CrashAll
  BY <1>4 DEF Stored, CrashAll, Gated, GateCrash, Finish, InFlight
<1>5. CASE UNCHANGED pc
  BY <1>5 DEF Stored
<1> QED
  BY <1>1, <1>2, <1>3, <1>4, <1>5
     DEF GuardNext, CallStep, Guarded, Request, Gated, WindowEnds, KeyExpires, Quiet

\* Which steps write the code, what a call has read of it, and what is on record of codes.
LEMMA CodeStep ==
  ASSUME CallsInv, [GuardNext]_guardVars
  PROVE  \/ \E c \in Calls : Request(c) \/ Verify(c)
         \/ /\ UNCHANGED <<wrong, accepted>>
            /\ otp' = otp \/ (OtpExpires /\ otp' = NoOtp)
            /\ \A c \in Calls : pc'[c] = "setAttempts" => pc[c] = "setAttempts" /\ seen'[c] = seen[c]
<1>1. ASSUME NEW c \in Calls, ArriveAtRoute(c) \/ Admission(c) \/ EnterHandler(c) \/ Login(c) \/ Reset(c) \/ HandlerThrows(c)
      PROVE  UNCHANGED <<otp, wrong, accepted>> /\ pc'[c] # "setAttempts"
  <2>1. CASE ArriveAtRoute(c) \/ Admission(c)
    <3>1. pc[c] \notin Handling
      BY <2>1 DEF ArriveAtRoute, Arrive, Admission, Gated, Admit, Incr, Expire, Ttl, TtlFirst, SetKey, GateThrows
    <3>2. pc'[c] # "setAttempts"
      BY <3>1, StaysOrEnters
    <3> QED
      BY <2>1, <3>2 DEF ArriveAtRoute, Admission, Gated
  <2>2. CASE EnterHandler(c) \/ HandlerThrows(c)
    BY <2>2 DEF CallsInv, TypeOK, EnterHandler, HandlerThrows, Proceed, End, Finish
  <2>3. CASE Login(c)
    BY <2>3 DEF CallsInv, TypeOK, Login, Compare, ReadCounter, DropCounter, SetBlock, SetCounter, ClearCounter,
       ClearBlock, Proceed, End, Finish
  <2>4. CASE Reset(c)
    BY <2>4 DEF CallsInv, TypeOK, Reset, ReadAccount, SavePassword, DropVerified, Proceed, End, Finish
  <2> QED
    BY <1>1, <2>1, <2>2, <2>3, <2>4
<1>2. ASSUME NEW c \in Calls, CallStep(c), UNCHANGED <<otp, wrong, accepted>>, pc'[c] # "setAttempts"
      PROVE  \A d \in Calls : pc'[d] = "setAttempts" => pc[d] = "setAttempts" /\ seen'[d] = seen[d]
  BY <1>2, OthersUntouched DEF CallsInv
<1>3. CASE CrashAll
  BY <1>3 DEF CrashAll, Gated, GateCrash, Finish, InFlight
<1>4. CASE KeyExpires
  BY <1>4 DEF KeyExpires, CounterExpires, LoginBlockExpires, OtpExpires, VerifyBlockExpires, VerifiedExpires
<1>5. ASSUME NEW l \in Limiters, Gated(WindowEnds(l)), UNCHANGED seen PROVE UNCHANGED <<otp, wrong, accepted, pc, seen>>
  BY <1>5 DEF Gated, WindowEnds
<1> QED
  BY <1>1, <1>2, <1>3, <1>4, <1>5 DEF GuardNext, CallStep, Guarded, Quiet

LEMMA CodesStoredStep ==
  ASSUME CallsInv, CodesStored, [GuardNext]_guardVars
  PROVE  CodesStored'
<1>1. \A o \in Calls : Stored(o) => Stored(o)'
  BY StoredStays
<1>2. otp # NoOtp => otp \in OtpData /\ otp.code \in Calls
  BY DEF CallsInv, TypeOK, OtpData
<1>3. \A c \in Calls : pc[c] = "setAttempts" => seen[c] \in OtpData /\ seen[c].code \in Calls
  BY DEF CallsInv, CallOK, OtpData
<1>4. ASSUME NEW c \in Calls, SetOtp(c) PROVE CodesStored'
  <2>1. otp'.code = c /\ pc'[c] = "sendOtp" /\ UNCHANGED <<wrong, accepted, seen>>
    BY <1>4 DEF CallsInv, TypeOK, SetOtp, Proceed
  <2>2. \A d \in Calls : pc'[d] = "setAttempts" => pc[d] = "setAttempts"
    BY <1>4, <2>1, OthersUntouched DEF CallsInv, CallStep, Guarded, Request
  <2> QED
    BY <1>1, <1>3, <2>1, <2>2 DEF CallsInv, TypeOK, CodesStored, Stored
<1>5. ASSUME NEW c \in Calls, SendOtp(c) \/ DropOtp(c) \/ BlockVerify(c) \/ SpendOtp(c) \/ SetVerified(c)
      PROVE  CodesStored'
  <2>1. pc'[c] # "setAttempts" /\ UNCHANGED <<wrong, accepted, seen>> /\ (otp' = otp \/ otp' = NoOtp)
    BY <1>5 DEF CallsInv, TypeOK, SendOtp, DropOtp, BlockVerify, SpendOtp, SetVerified, Proceed, End, Finish
  <2>2. \A d \in Calls : pc'[d] = "setAttempts" => pc[d] = "setAttempts"
    BY <1>5, <2>1, OthersUntouched DEF CallsInv, CallStep, Guarded, Request, Verify
  <2> QED
    BY <1>1, <1>2, <1>3, <2>1, <2>2 DEF CallsInv, TypeOK, CodesStored
<1>6. ASSUME NEW c \in Calls, SetAttempts(c) PROVE CodesStored'
  <2>1. otp'.code = seen[c].code /\ pc[c] = "setAttempts" /\ pc'[c] # "setAttempts" /\ UNCHANGED <<wrong, accepted>>
    BY <1>3, <1>6 DEF CallsInv, TypeOK, SetAttempts, OtpData, End, Finish
  <2>2. \A d \in Calls : pc'[d] = "setAttempts" => pc[d] = "setAttempts" /\ seen'[d] = seen[d]
    BY <1>6, <2>1, OthersUntouched DEF CallsInv, CallStep, Guarded, Verify
  <2> QED
    BY <1>1, <1>3, <2>1, <2>2 DEF CallsInv, TypeOK, CodesStored
<1>7. ASSUME NEW c \in Calls, ReadOtp(c) PROVE CodesStored'
  <2>1. /\ UNCHANGED otp
        /\ pc'[c] = "setAttempts" => otp # NoOtp /\ seen'[c] = otp
        /\ \A o \in Calls : wrong'[o] # wrong[o] => otp # NoOtp /\ o = otp.code
        /\ \A v \in accepted' : v \in accepted \/ (otp # NoOtp /\ v[1] = otp.code)
    BY <1>7 DEF CallsInv, TypeOK, ReadOtp, Proceed, End, Finish
  <2>2. \A d \in Calls : d # c /\ pc'[d] = "setAttempts" => pc[d] = "setAttempts" /\ seen'[d] = seen[d]
    BY <1>7, OthersUntouched DEF CallsInv, CallStep, Guarded, Verify
  <2> QED
    BY <1>1, <1>2, <1>3, <2>1, <2>2 DEF CodesStored
<1>8. ASSUME UNCHANGED <<wrong, accepted>>, otp' = otp \/ otp' = NoOtp,
             \A c \in Calls : pc'[c] = "setAttempts" => pc[c] = "setAttempts" /\ seen'[c] = seen[c]
      PROVE  CodesStored'
  BY <1>1, <1>2, <1>3, <1>8 DEF CodesStored
<1> QED
  BY <1>4, <1>5, <1>6, <1>7, <1>8, CodeStep DEF Request, Verify

InOtp == RequestSteps \cup VerifySteps \cup ResetSteps

LEMMA OtpIsPast ==
  ASSUME CallsInv, NEW c \in Calls, pc[c] \in InOtp
  PROVE  Past(c, "otp") /\ kind[c] # "login"
BY DEF CallsInv, CallOK, InOtp, Past, Door

\* What stands when no call takes a step of a reset, though one may end and a key expire.
LEMMA OtpRests ==
  ASSUME OtpOK, "otp" \notin crowded \cup brokeOff, Alone("otp")',
         otp' = otp \/ otp' = NoOtp, verified' => verified, UNCHANGED <<password, wrong, accepted>>,
         \A c \in Calls : pc'[c] \in InOtp => pc[c] = pc'[c] /\ seen'[c] = seen[c],
         \A c \in Calls : pc[c] \in {"spendOtp", "dropOtp", "setAttempts", "dropVerified"} => pc'[c] = pc[c]
  PROVE  OtpOK'
BY DEF OtpOK, InOtp, Unmatched

\* The steps of a request for a code, of a verification and of a reset.
LEMMA OtpMoves ==
  ASSUME CallsInv, CodesStored, OtpOK, NEW c \in Calls, Request(c) \/ Verify(c) \/ Reset(c), Alone("otp")',
         "otp" \notin crowded \cup brokeOff
  PROVE  OtpOK'
<1> USE AccountGuardAssumption DEF Proceed
<1> DEFINE N == Cardinality(accepted)
           Good(x) == wrong[x.code] <= x.attempts /\ x.attempts < OTP_MAX_ATTEMPTS /\ Unmatched(x.code)
<1>1. pc[c] \in InOtp /\ Past(c, "otp")
  BY OtpIsPast DEF Request, SetOtp, SendOtp, Verify, ReadOtp, DropOtp, BlockVerify, SetAttempts, SpendOtp, SetVerified,
     Reset, ReadAccount, SavePassword, DropVerified, InOtp
<1>2. \A e \in Calls : pc[e] \in InOtp \/ pc'[e] \in InOtp => e = c
  <2>1. \A e \in Calls : pc[e] \in InOtp => e = c
    BY <1>1, OtpIsPast DEF OtpOK, Alone
  <2> QED
    BY <2>1, OthersUntouched DEF CallsInv, CallStep, Guarded
<1>3. /\ password \in Nat \ {0} /\ N \in Nat /\ N' \in Nat
      /\ otp # NoOtp => otp.code \in Calls /\ otp.attempts \in Nat /\ otp \in OtpData
      /\ \A o \in Calls : wrong[o] \in Nat
  BY CallsStep, FS_CardinalityType, GuardedCallsInv DEF CallsInv, TypeOK, OtpData, Guarded
<1>4. /\ \A o \in Calls : wrong[o] <= OTP_MAX_ATTEMPTS
      /\ \A v, w \in accepted : v[1] = w[1] => v = w
      /\ otp = NoOtp \/ pc[c] \in {"spendOtp", "dropOtp", "setAttempts"} \/ Good(otp)
      /\ pc[c] = "setAttempts" =>
           /\ wrong[seen[c].code] <= seen[c].attempts + 1 /\ seen[c].attempts + 1 < OTP_MAX_ATTEMPTS
           /\ Unmatched(seen[c].code)
      /\ password - 1 <= N
      /\ verified => password <= N \/ pc[c] = "dropVerified"
      /\ pc[c] \in {"spendOtp", "setVerified", "readAccount", "savePassword"} => password <= N
  BY <1>2 DEF OtpOK, InOtp
<1> SUFFICES /\ \A o \in Calls : wrong'[o] <= OTP_MAX_ATTEMPTS
             /\ \A v, w \in accepted' : v[1] = w[1] => v = w
             /\ otp' = NoOtp \/ pc'[c] \in {"spendOtp", "dropOtp", "setAttempts"} \/ Good(otp)'
             /\ pc'[c] = "setAttempts" =>
                  /\ wrong'[seen'[c].code] <= seen'[c].attempts + 1 /\ seen'[c].attempts + 1 < OTP_MAX_ATTEMPTS
                  /\ Unmatched(seen[c].code)'
             /\ password' - 1 <= N'
             /\ verified' => password' <= N' \/ pc'[c] = "dropVerified"
             /\ pc'[c] \in {"spendOtp", "setVerified", "readAccount", "savePassword"} => password' <= N'
  BY <1>2 DEF OtpOK, InOtp
<1>5. CASE SetOtp(c)
  <2>1. /\ otp'.code = c /\ otp'.attempts = 0 /\ pc[c] = "setOtp" /\ pc'[c] = "sendOtp"
        /\ UNCHANGED <<wrong, accepted, password, verified>>
    BY <1>5 DEF CallsInv, TypeOK, SetOtp
  <2>2. wrong[c] = 0 /\ Unmatched(c)
    BY <1>3, <2>1 DEF CodesStored, Stored, Unmatched
  <2>3. Good(otp)'
    BY <2>1, <2>2 DEF Unmatched
  <2> QED
    BY <1>4, <2>1, <2>3
<1>6. CASE SendOtp(c) \/ BlockVerify(c) \/ ReadAccount(c)
  <2>1. /\ pc'[c] \in {"done", "savePassword"} /\ UNCHANGED <<otp, wrong, accepted, password, verified>>
        /\ pc[c] \in {"sendOtp", "blockVerify", "readAccount"} /\ (pc'[c] = "savePassword" => pc[c] = "readAccount")
    BY <1>6 DEF CallsInv, TypeOK, SendOtp, BlockVerify, ReadAccount, End, Finish
  <2> QED
    BY <1>4, <2>1 DEF Unmatched
<1>7. CASE DropOtp(c) \/ SpendOtp(c)
  <2>1. otp' = NoOtp /\ UNCHANGED <<wrong, accepted, password, verified>>
    BY <1>7 DEF DropOtp, SpendOtp
  <2>2. \/ pc[c] = "dropOtp" /\ pc'[c] = "blockVerify"
        \/ pc[c] = "spendOtp" /\ pc'[c] = "setVerified"
    BY <1>7 DEF CallsInv, TypeOK, DropOtp, SpendOtp
  <2> QED
    BY <1>4, <2>1, <2>2
<1>8. CASE SetAttempts(c)
  <2>1. seen[c] \in OtpData /\ pc[c] = "setAttempts"
    BY <1>8 DEF CallsInv, CallOK, SetAttempts
  <2>2. /\ otp'.code = seen[c].code /\ otp'.attempts = seen[c].attempts + 1 /\ pc'[c] = "done"
        /\ UNCHANGED <<wrong, accepted, password, verified>>
    BY <1>8, <2>1 DEF CallsInv, TypeOK, SetAttempts, Attempts, OtpData, End, Finish
  <2>3. Good(otp)'
    BY <1>4, <2>1, <2>2 DEF Unmatched
  <2> QED
    BY <1>4, <2>1, <2>2, <2>3
<1>9. CASE SetVerified(c)
  <2>1. pc[c] = "setVerified" /\ pc'[c] = "done" /\ UNCHANGED <<otp, wrong, accepted, password>>
    BY <1>9 DEF CallsInv, TypeOK, SetVerified, End, Finish
  <2> QED
    BY <1>4, <2>1 DEF Unmatched
<1>10. CASE SavePassword(c)
  <2>1. /\ pc[c] = "savePassword" /\ pc'[c] = "dropVerified" /\ password' = password + 1
        /\ UNCHANGED <<otp, wrong, accepted, verified>>
    BY <1>10 DEF CallsInv, TypeOK, SavePassword
  <2> QED
    BY <1>3, <1>4, <2>1 DEF Unmatched
<1>11. CASE DropVerified(c)
  <2>1. pc[c] = "dropVerified" /\ pc'[c] = "done" /\ verified' = FALSE /\ UNCHANGED <<otp, wrong, accepted, password>>
    BY <1>11 DEF CallsInv, TypeOK, DropVerified, VerifiedAfter, End, Finish
  <2> QED
    BY <1>4, <2>1 DEF Unmatched
<1>12. CASE ReadOtp(c)
  <2>1. pc[c] = "readOtp" /\ UNCHANGED <<otp, password, verified>> /\ (otp # NoOtp => Good(otp))
    BY <1>4, <1>12 DEF ReadOtp
  <2>2. CASE otp = NoOtp
    <3>1. pc'[c] = "done" /\ UNCHANGED <<wrong, accepted>>
      BY <1>12, <2>2 DEF CallsInv, TypeOK, ReadOtp, End, Finish
    <3> QED
      BY <1>4, <2>1, <2>2, <3>1
  <2>3. CASE otp # NoOtp /\ RightCode(brings[c], otp.code)
    <3>1. pc'[c] = "spendOtp" /\ accepted' = accepted \cup {<<otp.code, c>>} /\ UNCHANGED wrong
      BY <1>12, <2>3 DEF CallsInv, TypeOK, ReadOtp, RightCode
    <3>2. <<otp.code, c>> \notin accepted
      BY <2>1, <2>3 DEF Unmatched
    <3>3. N' = N + 1
      BY <3>1, <3>2, FS_AddElement DEF CallsInv, TypeOK
    <3>4. \A v, w \in accepted' : v[1] = w[1] => v = w
      BY <1>4, <2>1, <2>3, <3>1 DEF Unmatched
    <3> QED
      BY <1>3, <1>4, <2>1, <3>1, <3>3, <3>4
  <2>4. CASE otp # NoOtp /\ ~RightCode(brings[c], otp.code)
    <3>1. /\ wrong' = [wrong EXCEPT ![otp.code] = @ + 1] /\ UNCHANGED accepted
          /\ \/ pc'[c] = "dropOtp"
             \/ pc'[c] = "setAttempts" /\ seen'[c] = otp /\ otp.attempts + 1 < OTP_MAX_ATTEMPTS
      BY <1>12, <2>4 DEF CallsInv, TypeOK, ReadOtp, Attempts
    <3>2. /\ wrong'[otp.code] = wrong[otp.code] + 1 /\ wrong'[otp.code] <= otp.attempts + 1
          /\ otp.attempts + 1 <= OTP_MAX_ATTEMPTS
      BY <1>3, <2>1, <2>4, <3>1 DEF CallsInv, TypeOK
    <3>3. \A o \in Calls : wrong'[o] <= OTP_MAX_ATTEMPTS
      BY <1>3, <1>4, <2>4, <3>1, <3>2 DEF CallsInv, TypeOK
    <3> QED
      BY <1>4, <2>1, <2>4, <3>1, <3>2, <3>3 DEF Unmatched
  <2> QED
    BY <2>2, <2>3, <2>4
<1> QED
  BY <1>5, <1>6, <1>7, <1>8, <1>9, <1>10, <1>11, <1>12 DEF Request, Verify, Reset

LEMMA OtpStep ==
  ASSUME CallsInv, CodesStored, OtpOK, [GuardNext]_guardVars
  PROVE  OtpOK'
<1> SUFFICES ASSUME "otp" \notin crowded' \cup brokeOff' PROVE OtpOK'
  BY DEF OtpOK
<1> DEFINE Writing == {"spendOtp", "dropOtp", "setAttempts", "dropVerified"}
<1>1. "otp" \notin crowded \cup brokeOff /\ Alone("otp")'
  BY NotesGrow, AloneStep DEF OtpOK
<1>2. ASSUME NEW c \in Calls, CallStep(c), pc[c] \notin Writing, pc'[c] \notin InOtp,
             UNCHANGED <<otp, password, verified, wrong, accepted>>
      PROVE  OtpOK'
  <2>1. \A e \in Calls : e # c => pc'[e] = pc[e] /\ seen'[e] = seen[e]
    BY <1>2, OthersUntouched DEF CallsInv
  <2> QED
    BY <1>1, <1>2, <2>1, OtpRests
<1>3. ASSUME NEW c \in Calls, ArriveAtRoute(c) \/ Admission(c) PROVE OtpOK'
  <2>1. pc[c] \notin Handling /\ UNCHANGED <<otp, password, verified, wrong, accepted>>
    BY <1>3 DEF ArriveAtRoute, Arrive, Admission, Gated, Admit, Incr, Expire, Ttl, TtlFirst, SetKey, GateThrows
  <2>2. pc'[c] \notin InOtp
    BY <2>1, StaysOrEnters DEF InOtp
  <2> QED
    BY <1>2, <1>3, <2>1, <2>2 DEF CallStep
<1>4. ASSUME NEW c \in Calls, EnterHandler(c) PROVE OtpOK'
  <2>1. pc[c] = "handler" /\ UNCHANGED <<otp, password, verified, wrong, accepted, seen>>
    BY <1>4 DEF EnterHandler
  <2>2. CASE pc'[c] \notin InOtp
    BY <1>2, <1>4, <2>1, <2>2 DEF CallStep, Guarded
  <2>3. CASE pc'[c] \in InOtp
    <3>1. kind[c] # "login" /\ pc'[c] \in {"setOtp", "readOtp", "readAccount"} /\ (pc'[c] = "readAccount" => verified)
      BY <1>4, <2>3, AccountGuardAssumption DEF CallsInv, TypeOK, CallOK, EnterHandler, Proceed, End, Finish, InOtp
    <3>2. \A e \in Calls : pc[e] \notin InOtp
      BY <1>4, <3>1, EntersAlone, OtpIsPast DEF Door
    <3>3. \A e \in Calls : pc'[e] \in InOtp => e = c
      BY <1>4, <3>2, OthersUntouched DEF CallsInv, CallStep, Guarded
    <3>4. /\ \A o \in Calls : wrong[o] <= OTP_MAX_ATTEMPTS
          /\ \A v, w \in accepted : v[1] = w[1] => v = w
          /\ \/ otp = NoOtp
             \/ wrong[otp.code] <= otp.attempts /\ otp.attempts < OTP_MAX_ATTEMPTS /\ Unmatched(otp.code)
          /\ password - 1 <= Cardinality(accepted)
          /\ verified => password <= Cardinality(accepted)
      BY <1>1, <3>2 DEF OtpOK, InOtp
    <3> QED
      BY <1>1, <2>1, <3>1, <3>3, <3>4 DEF OtpOK, InOtp, Unmatched
  <2> QED
    BY <2>2, <2>3
<1>5. ASSUME NEW c \in Calls, Login(c) PROVE OtpOK'
  <2>1. pc[c] \in InLogin /\ UNCHANGED <<otp, password, verified, wrong, accepted>>
    BY <1>5 DEF Login, Compare, ReadCounter, DropCounter, SetBlock, SetCounter, ClearCounter, ClearBlock, InLogin
  <2>2. pc'[c] \notin InOtp
    BY <1>5 DEF CallsInv, TypeOK, Login, Compare, ReadCounter, DropCounter, SetBlock, SetCounter, ClearCounter,
       ClearBlock, Proceed, End, Finish, InOtp
  <2> QED
    BY <1>2, <1>5, <2>1, <2>2 DEF CallStep, Guarded, InLogin
<1>6. ASSUME NEW c \in Calls, Request(c) \/ Verify(c) \/ Reset(c) PROVE OtpOK'
  BY <1>1, <1>6, OtpMoves
<1>7. ASSUME NEW C \in SUBSET Calls, BrokenOff(C), NEW b \in C PROVE pc[b] \notin Writing
  BY <1>7 DEF BrokenOff, Counting, CallsInv, CallOK, Door
<1>8. ASSUME NEW c \in Calls, HandlerThrows(c) PROVE OtpOK'
  <2>1. pc'[c] = "done" /\ UNCHANGED <<otp, password, verified, wrong, accepted>> /\ BrokenOff({c})
    BY <1>8 DEF CallsInv, TypeOK, HandlerThrows, End, Finish
  <2>2. pc[c] \notin Writing
    BY <1>7, <2>1
  <2> QED
    BY <1>2, <1>8, <2>1, <2>2 DEF CallStep, Guarded, InOtp
<1>9. CASE CrashAll
  <2>1. /\ BrokenOff(Calls) /\ UNCHANGED <<otp, password, verified, wrong, accepted>>
        /\ \A e \in Calls : pc'[e] \in {"idle", "done"}
    BY <1>9 DEF CrashAll, Gated, GateCrash, Finish, InFlight
  <2>2. \A e \in Calls : pc[e] \notin Writing
    BY <1>7, <2>1
  <2> QED
    BY <1>1, <2>1, <2>2, OtpRests DEF InOtp
<1>10. CASE KeyExpires
  <2>1. /\ UNCHANGED <<pc, seen, password, wrong, accepted>> /\ (otp' = otp \/ otp' = NoOtp)
        /\ verified' => verified
    BY <1>10 DEF KeyExpires, CounterExpires, LoginBlockExpires, OtpExpires, VerifyBlockExpires, VerifiedExpires
  <2> QED
    BY <1>1, <2>1, OtpRests
<1>11. CASE UNCHANGED <<otp, password, verified, wrong, accepted, pc, seen>>
  BY <1>1, <1>11, OtpRests
<1> QED
  BY <1>3, <1>4, <1>5, <1>6, <1>8, <1>9, <1>10, <1>11
     DEF GuardNext, Gated, WindowEnds, Quiet

-----------------------------------------------------------------------------
(* The theorems.                                                            *)

LEMMA InitOK == GuardInit => IInv
<1> SUFFICES ASSUME GuardInit PROVE IInv
  OBVIOUS
<1> USE RateLimitAssumption, AccountGuardAssumption DEF GuardInit, GateInit
<1>1. CallsInv
  <2>1. IsFiniteSet(accepted)
    BY FS_EmptySet
  <2>2. seen \in [Calls -> [code : Calls \cup {"none"}, attempts : Nat]]
    BY DEF NoOtp
  <2>3. password \in Nat \ {0} /\ DOMAIN brings = Calls /\ stuck \subseteq Limiters
    OBVIOUS
  <2>4. TypeOK
    BY <2>1, <2>2, <2>3 DEF TypeOK
  <2>5. \A c \in Calls : CallOK(c)
    BY DEF CallOK
  <2> QED
    BY <2>4, <2>5 DEF CallsInv
<1>2. \A c \in Calls : pc[c] = "idle"
  OBVIOUS
<1>3. ASSUME NEW l \in Limiters PROVE LimiterOK(l)
  <2>1. AtLimiter(l) = {} /\ hits[l] = 0 /\ admitted[l] = 0 /\ ~timed[l] /\ maxRequests[l] \in Nat
    BY DEF AtLimiter
  <2> QED
    BY <2>1 DEF LimiterOK, Counts, Cools
<1>4. HasCause /\ CodesStored
  BY <1>2 DEF HasCause, CodesStored
<1>5. LoginOK
  BY <1>2 DEF LoginOK, Alone, Past
<1>6. OtpOK
  <2>1. Cardinality(accepted) = 0
    BY FS_EmptySet
  <2> QED
    BY <1>2, <2>1 DEF OtpOK, Alone, Past
<1> QED
  BY <1>1, <1>3, <1>4, <1>5, <1>6 DEF IInv

LEMMA StepOK == IInv /\ [GuardNext]_guardVars => IInv'
BY CallsStep, LimiterStep, CauseStep, LoginStep, CodesStoredStep, OtpStep DEF IInv

\* The inductive invariant of limiters, login, codes and reset holds in every state.
THEOREM Invariance == GuardSpec => []IInv
BY InitOK, StepOK, PTL DEF GuardSpec

\* A limiter lets no more requests through in a window than it may, however they overlap.
THEOREM LimitsHold == GuardSpec => []AdmittedWithinLimit
<1>1. IInv => AdmittedWithinLimit
  BY DEF IInv, LimiterOK, AdmittedWithinLimit
<1> QED
  BY <1>1, Invariance, PTL

\* A limiter's key never stays behind without a TTL, but for a call that broke off.
THEOREM KeysExpire == GuardSpec => []KeyWillExpire
<1>1. IInv => KeyWillExpire
  BY DEF IInv, LimiterOK, KeyWillExpire
<1> QED
  BY <1>1, Invariance, PTL

\* No account is verified and no password reset before a code was matched.
THEOREM ResetsHaveCause == GuardSpec => []ResetHasCause
<1>1. IInv => ResetHasCause
  BY DEF IInv, HasCause, ResetHasCause
<1> QED
  BY <1>1, Invariance, PTL

\* A code is good for one verification and a bounded number of wrong guesses.
THEOREM OtpsAreSpent == GuardSpec => []OtpIsSpent
<1>1. IInv => OtpIsSpent
  BY DEF IInv, OtpOK, OtpIsSpent
<1> QED
  BY <1>1, Invariance, PTL

\* The last allowed wrong password blocks the login.
THEOREM WrongPasswordsBlock == GuardSpec => []FailuresBlock
<1>1. IInv => FailuresBlock
  <2> SUFFICES ASSUME IInv, "login" \notin crowded \cup brokeOff PROVE FailuresBlock
    BY DEF FailuresBlock
  <2>1. /\ failures <= LOGIN_FAIL_MAX_ATTEMPTS /\ failCounter < LOGIN_FAIL_MAX_ATTEMPTS
        /\ failures <= failCounter \/ loginBlock \/ \E c \in Calls : Past(c, "login")
        /\ failures \in Nat /\ failCounter \in Nat
    BY DEF IInv, LoginOK, CallsInv, TypeOK
  <2>2. ASSUME InHandler("login") = {}, NEW c \in Calls, Past(c, "login") PROVE FALSE
    BY <2>2 DEF InHandler, Past
  <2> QED
    BY <2>1, <2>2, AccountGuardAssumption DEF FailuresBlock
<1> QED
  BY <1>1, Invariance, PTL
===============================================================================
