---------------------------- MODULE AccountGuard ----------------------------
(***************************************************************************)
(* What stands between a guess and an account: login with its fail counter *)
(* and block, and the password reset by one-time code (forgotPassword,     *)
(* verifyForgotPasswordOtp, resetPasswordWithOtp), for one account, behind *)
(* the limiters of their routes.                                           *)
(*                                                                         *)
(* Everything but the password is a Redis key with a TTL, read by one call *)
(* and written by a later one.  A code is named by the call that generated *)
(* it, a password by how often the account was given one.                  *)
(***************************************************************************)
EXTENDS RateLimit

CONSTANTS LOGIN_FAIL_MAX_ATTEMPTS, OTP_MAX_ATTEMPTS

ASSUME AccountGuardAssumption ==
  /\ LOGIN_FAIL_MAX_ATTEMPTS \in Nat \ {0} /\ OTP_MAX_ATTEMPTS \in Nat \ {0}
  /\ Kinds = {"login", "request", "verify", "reset"}

LoginSteps   == {"readCounter", "dropCounter", "setBlock", "setCounter", "clearCounter", "clearBlock"}
RequestSteps == {"setOtp", "sendOtp"}
VerifySteps  == {"readOtp", "dropOtp", "blockVerify", "setAttempts", "spendOtp", "setVerified"}
ResetSteps   == {"readAccount", "savePassword", "dropVerified"}
Handling     == {"handler", "compare"} \cup LoginSteps \cup RequestSteps \cup VerifySteps \cup ResetSteps

NoOtp == [code |-> "none", attempts |-> 0]

VARIABLES
  password,      \* how often the account was given a password
  failCounter,   \* auth:login:fail-counter
  loginBlock,    \* auth:login:fail-block is set
  otp,           \* the stored code and its attempts
  verifyBlock,   \* the OTP verification is blocked
  verified,      \* auth:forgot-password:verified is set
  seen,          \* call -> the counter or the OTP data it has read
  mailed,        \* the codes sendOTP has sent
  failures,      \* wrong passwords since the counter was last gone (history)
  wrong,         \* code -> wrong guesses compared with it (history)
  accepted,      \* the verifications that matched, each a code and its call (history)
  crowded,       \* doors with two calls in their handlers together (history)
  brokeOff       \* doors with a call that broke off before a write that counts (history)

keys      == <<failCounter, loginBlock, otp, verifyBlock, verified>>
guardNote == <<failures, wrong, accepted, crowded, brokeOff>>
guardVars == <<gateVars, password, keys, seen, mailed, guardNote>>

Door(k) == IF k = "login" THEN "login" ELSE "otp"

InHandler(d) == {c \in Calls : pc[c] \in Handling /\ Door(kind[c]) = d}

-----------------------------------------------------------------------------
GuardInit ==
  /\ GateInit
  /\ password = 1
  /\ failCounter = 0 /\ loginBlock = FALSE
  /\ otp = NoOtp /\ verifyBlock = FALSE /\ verified = FALSE
  /\ seen = [c \in Calls |-> NoOtp]
  /\ mailed = {}
  /\ failures = 0
  /\ wrong = [c \in Calls |-> 0]
  /\ accepted = {}
  /\ crowded = {}
  /\ brokeOff = {}

\* What a request may bring: the password or a code somebody knows, or a wrong one.
Guesses(k) ==
  CASE k = "login"  -> {password, Nothing}
    [] k = "verify" -> mailed \cup {Nothing}
    [] OTHER        -> {Nothing}

ArriveAtRoute(c) ==
  /\ \E k \in Kinds : \E g \in Guesses(k) : Arrive(c, k, g)
  /\ UNCHANGED <<password, keys, seen, mailed, guardNote>>

Gated(A) == A /\ UNCHANGED <<password, keys, mailed, failures, wrong, accepted>>

Admission(c) == Gated(Admit(c)) /\ UNCHANGED <<seen, crowded, brokeOff>>

Proceed(c, step) == Goto(c, step) /\ UNCHANGED <<gate, request, gateNote>>

\* The call is answered, with an error or not.
End(c) == Finish({c}) /\ UNCHANGED <<gate, gateNote>>

\* The first read of a handler: the block, the account, or the verified flag.
EnterHandler(c) ==
  LET k    == kind[c]
      open == CASE k = "login"  -> ~loginBlock
                [] k = "verify" -> ~verifyBlock
                [] k = "reset"  -> verified
                [] OTHER        -> TRUE IN
  /\ pc[c] = "handler"
  /\ \/ ~open /\ End(c)
     \/ /\ open
        /\ Proceed(c, CASE k = "login" -> "compare" [] k = "verify" -> "readOtp"
                        [] k = "reset" -> "readAccount" [] OTHER -> "setOtp")
  /\ crowded' = crowded \cup {d \in {Door(k)} : InHandler(d) # {c}}
  /\ UNCHANGED <<password, keys, seen, mailed, failures, wrong, accepted, brokeOff>>

-----------------------------------------------------------------------------
(* login.                                                                   *)

\* The account is read and its password compared; an unknown account counts as wrong.
Compare(c) ==
  /\ pc[c] = "compare"
  /\ \/ brings[c] = password /\ Proceed(c, "clearCounter") /\ UNCHANGED failures
     \/ brings[c] # password /\ Proceed(c, "readCounter") /\ failures' = failures + 1
  /\ UNCHANGED <<password, keys, seen, mailed, wrong, accepted, crowded, brokeOff>>

FailsTooOften_OneLate(n) == n > LOGIN_FAIL_MAX_ATTEMPTS

FailsTooOften(n) == n >= LOGIN_FAIL_MAX_ATTEMPTS

\* increaseLoginFailCounter.
ReadCounter(c) ==
  /\ pc[c] = "readCounter"
  /\ \/ /\ FailsTooOften(failCounter + 1) /\ Proceed(c, "dropCounter")
        /\ UNCHANGED seen
     \/ /\ ~FailsTooOften(failCounter + 1) /\ Proceed(c, "setCounter")
        /\ seen' = [seen EXCEPT ![c] = [NoOtp EXCEPT !.attempts = failCounter]]
  /\ UNCHANGED <<password, keys, mailed, guardNote>>

DropCounter(c) ==
  /\ pc[c] = "dropCounter"
  /\ failCounter' = 0
  /\ Proceed(c, "setBlock")
  /\ UNCHANGED <<password, loginBlock, otp, verifyBlock, verified, seen, mailed, guardNote>>

SetBlock(c) ==
  /\ pc[c] = "setBlock"
  /\ loginBlock' = TRUE
  /\ End(c)
  /\ UNCHANGED <<password, failCounter, otp, verifyBlock, verified, seen, mailed, guardNote>>

SetCounter(c) ==
  /\ pc[c] = "setCounter"
  /\ failCounter' = seen[c].attempts + 1
  /\ seen' = [seen EXCEPT ![c] = NoOtp]
  /\ End(c)
  /\ UNCHANGED <<password, loginBlock, otp, verifyBlock, verified, mailed, guardNote>>

\* clearLoginFailCounter; the tokens that follow are in Sessions.
ClearCounter(c) ==
  /\ pc[c] = "clearCounter"
  /\ failCounter' = 0
  /\ failures' = 0
  /\ Proceed(c, "clearBlock")
  /\ UNCHANGED <<password, loginBlock, otp, verifyBlock, verified, seen, mailed,
                 wrong, accepted, crowded, brokeOff>>

ClearBlock(c) ==
  /\ pc[c] = "clearBlock"
  /\ loginBlock' = FALSE
  /\ End(c)
  /\ UNCHANGED <<password, failCounter, otp, verifyBlock, verified, seen, mailed, guardNote>>

-----------------------------------------------------------------------------
(* forgotPassword.                                                          *)
SetOtp(c) ==
  /\ pc[c] = "setOtp"
  /\ otp' = [code |-> c, attempts |-> 0]
  /\ Proceed(c, "sendOtp")
  /\ UNCHANGED <<password, failCounter, loginBlock, verifyBlock, verified, seen, mailed, guardNote>>

SendOtp(c) ==
  /\ pc[c] = "sendOtp"
  /\ mailed' = mailed \cup {c}
  /\ End(c)
  /\ UNCHANGED <<password, keys, seen, guardNote>>

-----------------------------------------------------------------------------
(* verifyForgotPasswordOtp.                                                 *)
RightCode_Any(g, stored) == stored # "none"

RightCode(g, stored) == g = stored

Attempts(n) == n + 1

\* The code is compared with what was read here; the stored data may change meanwhile.
\* A stored count that has reached the maximum is never written: a count that would is
\* turned into a block (lines 690-698), so the check of lines 662-682 comes to the same.
ReadOtp(c) ==
  LET next == Attempts(otp.attempts) IN
  /\ pc[c] = "readOtp"
  /\ \/ otp = NoOtp /\ End(c) /\ UNCHANGED <<seen, wrong, accepted>>
     \/ /\ otp # NoOtp /\ RightCode(brings[c], otp.code)
        /\ Proceed(c, "spendOtp")
        /\ accepted' = accepted \cup {<<o, c>> : o \in {otp.code} \cap {brings[c]}}
        /\ UNCHANGED <<seen, wrong>>
     \/ /\ otp # NoOtp /\ ~RightCode(brings[c], otp.code)
        /\ \/ /\ next >= OTP_MAX_ATTEMPTS /\ Proceed(c, "dropOtp")
              /\ UNCHANGED seen
           \/ /\ next < OTP_MAX_ATTEMPTS /\ Proceed(c, "setAttempts")
              /\ seen' = [seen EXCEPT ![c] = otp]
        /\ wrong' = [wrong EXCEPT ![otp.code] = @ + 1]
        /\ UNCHANGED accepted
  /\ UNCHANGED <<password, keys, mailed, failures, crowded, brokeOff>>

DropOtp(c) ==
  /\ pc[c] = "dropOtp"
  /\ otp' = NoOtp
  /\ Proceed(c, "blockVerify")
  /\ UNCHANGED <<password, failCounter, loginBlock, verifyBlock, verified, seen, mailed, guardNote>>

BlockVerify(c) ==
  /\ pc[c] = "blockVerify"
  /\ verifyBlock' = TRUE
  /\ End(c)
  /\ UNCHANGED <<password, failCounter, loginBlock, otp, verified, seen, mailed, guardNote>>

\* The data read is written back with one attempt more and its full TTL.
SetAttempts(c) ==
  /\ pc[c] = "setAttempts"
  /\ otp' = [seen[c] EXCEPT !.attempts = Attempts(@)]
  /\ seen' = [seen EXCEPT ![c] = NoOtp]
  /\ End(c)
  /\ UNCHANGED <<password, failCounter, loginBlock, verifyBlock, verified, mailed, guardNote>>

SpendOtp(c) ==
  /\ pc[c] = "spendOtp"
  /\ otp' = NoOtp
  /\ Proceed(c, "setVerified")
  /\ UNCHANGED <<password, failCounter, loginBlock, verifyBlock, verified, seen, mailed, guardNote>>

SetVerified(c) ==
  /\ pc[c] = "setVerified"
  /\ verified' = TRUE
  /\ End(c)
  /\ UNCHANGED <<password, failCounter, loginBlock, otp, verifyBlock, seen, mailed, guardNote>>

-----------------------------------------------------------------------------
(* resetPasswordWithOtp.                                                    *)

\* The new password is the account's own or another.
ReadAccount(c) ==
  /\ pc[c] = "readAccount"
  /\ End(c) \/ Proceed(c, "savePassword")
  /\ UNCHANGED <<password, keys, seen, mailed, guardNote>>

SavePassword(c) ==
  /\ pc[c] = "savePassword"
  /\ password' = password + 1
  /\ Proceed(c, "dropVerified")
  /\ UNCHANGED <<keys, seen, mailed, failures, wrong, accepted, crowded, brokeOff>>

VerifiedAfter_Kept == verified

VerifiedAfter == FALSE

DropVerified(c) ==
  /\ pc[c] = "dropVerified"
  /\ verified' = VerifiedAfter
  /\ End(c)
  /\ UNCHANGED <<password, failCounter, loginBlock, otp, verifyBlock, seen, mailed, guardNote>>

-----------------------------------------------------------------------------
\* The writes without which a guess, a code or a verification goes on counting for new.
Counting == LoginSteps \cup {"setAttempts", "dropOtp", "spendOtp", "dropVerified"}

BrokenOff(C) == brokeOff' = brokeOff \cup {Door(kind[c]) : c \in {d \in C : pc[d] \in Counting}}

HandlerThrows(c) ==
  /\ pc[c] \in Handling \cap Failing
  /\ End(c)
  /\ BrokenOff({c})
  /\ seen' = [seen EXCEPT ![c] = NoOtp]
  /\ UNCHANGED <<password, keys, mailed, failures, wrong, accepted, crowded>>

CrashAll ==
  /\ Gated(GateCrash)
  /\ BrokenOff(Calls)
  /\ seen' = [c \in Calls |-> NoOtp]
  /\ UNCHANGED crowded

\* The TTLs: of the counter, the two blocks, the code and the verified flag.
CounterExpires ==
  /\ failCounter > 0 /\ failCounter' = 0 /\ failures' = 0
  /\ UNCHANGED <<loginBlock, otp, verifyBlock, verified, wrong, accepted, crowded, brokeOff>>

LoginBlockExpires ==
  /\ loginBlock /\ loginBlock' = FALSE /\ failures' = 0
  /\ UNCHANGED <<failCounter, otp, verifyBlock, verified, wrong, accepted, crowded, brokeOff>>

OtpExpires ==
  /\ otp # NoOtp /\ otp' = NoOtp
  /\ UNCHANGED <<failCounter, loginBlock, verifyBlock, verified, guardNote>>

VerifyBlockExpires ==
  /\ verifyBlock /\ verifyBlock' = FALSE
  /\ UNCHANGED <<failCounter, loginBlock, otp, verified, guardNote>>

VerifiedExpires ==
  /\ verified /\ verified' = FALSE
  /\ UNCHANGED <<failCounter, loginBlock, otp, verifyBlock, guardNote>>

KeyExpires ==
  /\ CounterExpires \/ LoginBlockExpires \/ OtpExpires \/ VerifyBlockExpires \/ VerifiedExpires
  /\ UNCHANGED <<gateVars, password, seen, mailed>>

Login(c)   == Compare(c) \/ ReadCounter(c) \/ DropCounter(c) \/ SetBlock(c) \/ SetCounter(c)
                \/ ClearCounter(c) \/ ClearBlock(c)
Request(c) == SetOtp(c) \/ SendOtp(c)
Verify(c)  == ReadOtp(c) \/ DropOtp(c) \/ BlockVerify(c) \/ SetAttempts(c) \/ SpendOtp(c) \/ SetVerified(c)
Reset(c)   == ReadAccount(c) \/ SavePassword(c) \/ DropVerified(c)

Quiet == (\A c \in Calls : pc[c] = "done") /\ UNCHANGED guardVars

GuardNext ==
  \/ \E c \in Calls :
       \/ ArriveAtRoute(c) \/ Admission(c) \/ EnterHandler(c)
       \/ Login(c) \/ Request(c) \/ Verify(c) \/ Reset(c) \/ HandlerThrows(c)
  \/ \E l \in Limiters : Gated(WindowEnds(l)) /\ UNCHANGED <<seen, crowded, brokeOff>>
  \/ KeyExpires
  \/ CrashAll
  \/ Quiet

GuardSpec == GuardInit /\ [][GuardNext]_guardVars

-----------------------------------------------------------------------------
(* Properties.                                                              *)

\* "OTP verification is required" (services/access.service.js:771): whatever overlaps,
\* expires, fails or is lost, the account counts as verified and its password is changed
\* only after somebody brought the code that was stored for it.
ResetHasCause == verified \/ password > 1 => accepted # {}

\* A code is good for one verification and OTP_MAX_ATTEMPTS wrong guesses, and one
\* verification for one new password (lines 657-737, 768-791), unless two calls of the
\* reset were in their handlers together or one broke off before a write that counts.
OtpIsSpent ==
  "otp" \notin crowded \cup brokeOff =>
    /\ \A o \in Calls : wrong[o] <= OTP_MAX_ATTEMPTS
    /\ \A v, w \in accepted : v[1] = w[1] => v = w
    /\ password - 1 <= Cardinality(accepted)

\* "Too many failed login attempts" (line 401): when the last allowed password was wrong
\* the login is blocked, and no further password is compared until a key expires, unless
\* logins overlapped or one broke off on its way to the block.
FailuresBlock ==
  "login" \notin crowded \cup brokeOff =>
    /\ failures <= LOGIN_FAIL_MAX_ATTEMPTS
    /\ failures = LOGIN_FAIL_MAX_ATTEMPTS /\ InHandler("login") = {} => loginBlock
=============================================================================
