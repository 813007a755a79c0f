---------------------------- MODULE SessionsProofs ----------------------------
(***************************************************************************)
(* What Sessions promises, for every set of accounts and calls, any        *)
(* lifetimes, and whichever steps fail: revoked tokens stay refused, a     *)
(* session that is over stays over, and rotation keeps one token.  The     *)
(* last theorem is that Sessions implements SessionLife.                   *)
(***************************************************************************)
EXTENDS Sessions, Sequences, FiniteSetTheorems, TLAPS

Kinds    == {"none", "signIn", "refresh", "logout", "logoutAll"}
Carriers == {"refresh", "logout"}
Requests == [kind : Kinds, account : Accounts \cup {"none"}, token : Tokens \cup {NoToken}]

TypeOK ==
  /\ now \in Seconds
  /\ doc \in [Tokens -> {"absent", "active", "blacklisted"}]
  /\ request \in [Calls -> Requests]
  /\ pc \in [Calls -> Steps \cup {"idle", "done", "lost"}]
  /\ minted \in [Calls -> Tokens \cup {NoToken}]
  /\ ended \in [Calls -> {"none", "ok", "refused"}]
  /\ session \in [Tokens -> Calls \cup {"none"}]
  /\ late \subseteq Calls

\* What the fields of a call say of each other.
CallOK(c) ==
  /\ pc[c] = "idle" => Kind(c) = "none" /\ minted[c] = NoToken /\ ended[c] = "none" /\ c \notin late
  /\ pc[c] # "idle" => Account(c) \in Accounts
  /\ Kind(c) \in Carriers =>
       Carried(c) \in Tokens /\ session[Carried(c)] \in Calls /\ Account(c) = Carried(c)[1]
  /\ UnderWay(c) /\ Kind(c) \notin Carriers => Carried(c) = NoToken
  /\ pc[c] \in {"check", "find", "revoke"} => Kind(c) \in Carriers
  /\ pc[c] = "account" => Kind(c) = "refresh"
  /\ pc[c] = "save" => Kind(c) \in {"signIn", "refresh"}
  /\ pc[c] = "revokeAll" => Kind(c) = "logoutAll"
  /\ UnderWay(c) => ended[c] = "none"
  /\ pc[c] \in Steps \ {"save"} => minted[c] = NoToken
  /\ pc[c] = "save" => minted[c] \in Tokens /\ minted[c][1] = Account(c) /\ minted[c][2] <= now
  /\ ended[c] = "ok" /\ minted[c] # NoToken => session[minted[c]] \in Calls

\* A session is named by the sign-in that began it; a token is saved only once, because
\* its document outlives the second in which it can be signed.
TokenOK(t) ==
  /\ doc[t] # "absent" => session[t] \in Calls
  /\ session[t] \in Calls =>
       /\ t[2] <= now
       /\ Kind(session[t]) = "signIn" /\ pc[session[t]] = "done" /\ Account(session[t]) = t[1]
  /\ session[t] \in Calls /\ doc[t] = "absent" =>
       t[2] < now /\ \A c \in Calls : pc[c] = "save" => minted[c] # t

CallsInv == TypeOK /\ (\A c \in Calls : CallOK(c)) /\ (\A t \in Tokens : TokenOK(t))

\* A late call passes its check only when the document is gone, and then finds none.
LateRefused ==
  \A c \in late :
    /\ Kind(c) \in Carriers /\ doc[Carried(c)] # "active"
    /\ pc[c] \in {"check", "account", "find", "done", "lost"}
    /\ pc[c] \in {"account", "find"} => doc[Carried(c)] = "absent"
    /\ ended[c] # "ok" /\ minted[c] = NoToken

\* A call that has passed its check and whose token the server knows, and one that has
\* revoked its token and is about to save the next.
Heir(c)  == pc[c] \in {"account", "find", "revoke"} /\ doc[Carried(c)] # "absent"
Saver(c) == pc[c] = "save" /\ Kind(c) = "refresh"
On(c, s) == Kind(c) \in Carriers /\ session[Carried(c)] = s

DoubledNoted ==
  \A c, d \in Calls :
    UnderWay(c) /\ UnderWay(d) /\ c # d /\ Kind(c) \in Carriers /\ Carried(c) = Carried(d)
    => session[Carried(c)] \in doubled

\* Of a session that no two calls were at with one token, one token is active or one call
\* carries it on.
OneHeir(s) ==
  /\ \A t, u \in Active(s) : t = u
  /\ \A c \in Calls : Heir(c) /\ On(c, s) => Active(s) \subseteq {Carried(c)}
  /\ \A c \in Calls : Saver(c) /\ On(c, s) => Active(s) = {}
  /\ \A c, d \in Calls :
       (Heir(c) \/ Saver(c)) /\ On(c, s) /\ (Heir(d) \/ Saver(d)) /\ On(d, s) => c = d

\* Nothing is left of a session that a logout has ended.
OutIsOver == \A s \in out : s \in Begun /\ Active(s) = {} /\ ~MayRenew(s)

\* What may have ended session s.
Reason(s) ==
  \/ s \in torn
  \/ \E c \in Calls : Kind(c) = "logout" /\ session[Carried(c)] = s
  \/ \E c \in Calls, t \in Tokens : Kind(c) = "logoutAll" /\ session[t] = s /\ t[1] = Account(c)
  \/ \E t \in Tokens : session[t] = s /\ now >= t[2] + DocLifetime

\* A session goes on, in a token or in a call, as long as nothing has ended it.
GoesOn(s) ==
  \/ \A t \in Tokens : session[t] # s
  \/ Active(s) # {}
  \/ \E c \in Calls : Saver(c) /\ On(c, s)
  \/ Reason(s)

IInv ==
  /\ CallsInv /\ LateRefused /\ DoubledNoted /\ OutIsOver
  /\ \A s \in Calls \ doubled : OneHeir(s)
  /\ \A s \in Calls : GoesOn(s)

Serve(c) == Arrive(c) \/ Handle(c)

USE DEF Goto, Finish, Refuse, Account, Carried, Kind, UnderWay, history

-----------------------------------------------------------------------------
(* Tokens and sets.                                                         *)

LEMMA TokenParts ==
  ASSUME NEW t \in Tokens
  PROVE  t[1] \in Accounts /\ t[2] \in Seconds /\ t = <<t[1], t[2]>>
BY DEF Tokens

LEMMA SignedToken ==
  ASSUME NEW a \in Accounts, now \in Seconds
  PROVE  SignedAt(a) \in Tokens /\ SignedAt(a)[1] = a /\ SignedAt(a)[2] = now
BY DEF Tokens, SignedAt

LEMMA NoTokenIsNone == NoToken \notin Tokens
<1> SUFFICES ASSUME NoToken \in Tokens PROVE FALSE
  OBVIOUS
<1>1. PICK a \in Accounts, n \in Seconds : <<"none">> = <<a, n>>
  BY DEF Tokens, NoToken
<1>2. Len(<<"none">>) = 1 /\ Len(<<a, n>>) = 2
  OBVIOUS
<1> QED
  BY <1>1, <1>2

\* A set whose elements are all equal has at most one.
LEMMA AtMostOne ==
  ASSUME NEW S, \A x, y \in S : x = y
  PROVE  Cardinality(S) <= 1
<1>1. CASE S = {}
  BY <1>1, FS_EmptySet
<1>2. CASE S # {}
  <2>1. PICK x \in S : S = {x}
    BY <1>2
  <2> QED
    BY <2>1, FS_Singleton
<1> QED
  BY <1>1, <1>2

-----------------------------------------------------------------------------
(* Types, and what the fields of calls and tokens say of each other.        *)

\* A step of one call leaves what the others carry alone.
LEMMA OthersUntouched ==
  ASSUME TypeOK, NEW c \in Calls, Serve(c), NEW d \in Calls, d # c
  PROVE  /\ pc'[d] = pc[d] /\ request'[d] = request[d] /\ minted'[d] = minted[d]
         /\ ended'[d] = ended[d] /\ (d \in late' <=> d \in late)
<1>1. CASE SignIn(c) \/ Present(c, "refresh") \/ Present(c, "logout") \/ AskLogoutAll(c)
  BY <1>1 DEF TypeOK, SignIn, Present, AskLogoutAll
<1>2. CASE Check(c) \/ FindAccount(c) \/ FindToken(c) \/ CallThrows(c)
  BY <1>2 DEF TypeOK, Check, FindAccount, FindToken, CallThrows
<1>3. CASE RevokeToken(c) \/ SaveToken(c) \/ RevokeAll(c)
  BY <1>3 DEF TypeOK, RevokeToken, Sign, SaveToken, RevokeAll
<1> QED
  BY <1>1, <1>2, <1>3 DEF Serve, Arrive, Handle

\* The clock goes on, and a token that has its session keeps it.
LEMMA Onward ==
  ASSUME CallsInv, [Next]_vars
  PROVE  /\ now' \in Nat /\ now <= now'
         /\ \A t \in Tokens : session[t] \in Calls => session'[t] = session[t]
<1>1. now' = now \/ Tick
  BY DEF Next, Arrive, Handle, SignIn, Present, AskLogoutAll, Check, FindAccount, FindToken, RevokeToken,
     SaveToken, RevokeAll, CallThrows, Remove, Crash, Quiet, vars
<1>2. now' \in Nat /\ now <= now'
  BY <1>1, SessionsAssumption DEF CallsInv, TypeOK, Seconds, Tick
<1>3. UNCHANGED session \/ \E c \in Calls : SaveToken(c)
  BY DEF Next, Arrive, Handle, SignIn, Present, AskLogoutAll, Check, FindAccount, FindToken, RevokeToken,
     RevokeAll, CallThrows, Remove, Tick, Crash, Quiet, vars
<1>4. ASSUME NEW c \in Calls, SaveToken(c), NEW t \in Tokens, session[t] \in Calls
      PROVE  session'[t] = session[t]
  BY <1>4 DEF CallsInv, TypeOK, TokenOK, SaveToken
<1> QED
  BY <1>2, <1>3, <1>4

\* What a call that takes no step carries stays true of it.
LEMMA CallRests ==
  ASSUME CallsInv, [Next]_vars, NEW d \in Calls,
         pc'[d] = pc[d], request'[d] = request[d], minted'[d] = minted[d], ended'[d] = ended[d],
         d \in late' <=> d \in late
  PROVE  CallOK(d)'
<1>1. CallOK(d)
  BY DEF CallsInv
<1>2. minted[d] \in Tokens \cup {NoToken} /\ now \in Int
  BY SessionsAssumption DEF CallsInv, TypeOK, Seconds
<1>3. minted[d] \in Tokens => minted[d][2] \in Int
  BY TokenParts, SessionsAssumption DEF Seconds
<1> QED
  BY <1>1, <1>2, <1>3, Onward DEF CallOK

\* What a token says of its session stays true when its document and session are left alone.
LEMMA TokenRests ==
  ASSUME CallsInv, [Next]_vars, NEW t \in Tokens, doc'[t] = doc[t], session'[t] = session[t],
         session[t] \in Calls =>
            /\ Kind(session[t])' = Kind(session[t]) /\ pc'[session[t]] = pc[session[t]]
            /\ Account(session[t])' = Account(session[t]),
         \A c \in Calls : pc'[c] = "save" =>
            (pc[c] = "save" /\ minted'[c] = minted[c]) \/ minted'[c][2] = now
  PROVE  TokenOK(t)'
<1>1. TokenOK(t) /\ t[2] \in Int /\ now \in Int
  BY TokenParts, SessionsAssumption DEF CallsInv, TypeOK, Seconds
<1>2. now' \in Int /\ now <= now'
  BY Onward
<1>3. session[t] \in Calls /\ doc[t] = "absent" => \A c \in Calls : pc'[c] = "save" => minted'[c] # t
  BY <1>1 DEF TokenOK
<1> QED
  BY <1>1, <1>2, <1>3 DEF TokenOK

LEMMA CallsInit == Init => CallsInv
BY SessionsAssumption DEF Init, CallsInv, TypeOK, CallOK, TokenOK, NoCall, Requests, Kinds, Carriers, Seconds, Steps

LEMMA ArriveCallsInv ==
  ASSUME CallsInv, [Next]_vars, NEW c \in Calls, Arrive(c)
  PROVE  TypeOK' /\ CallOK(c)'
<1> USE DEF Steps, Carriers
<1>1. CASE SignIn(c)
  <2>1. PICK a \in Accounts :
          /\ request' = [request EXCEPT ![c] = [kind |-> "signIn", account |-> a, token |-> NoToken]]
          /\ minted' = [minted EXCEPT ![c] = SignedAt(a)]
    BY <1>1 DEF SignIn
  <2>2. SignedAt(a) \in Tokens /\ SignedAt(a)[1] = a /\ SignedAt(a)[2] = now /\ now <= now
    BY SignedToken, SessionsAssumption DEF CallsInv, TypeOK, Seconds
  <2>3. TypeOK'
    BY <1>1, <2>1, <2>2 DEF CallsInv, TypeOK, SignIn, Requests, Kinds
  <2>4. CallOK(c)'
    BY <1>1, <2>1, <2>2 DEF CallsInv, TypeOK, CallOK, SignIn
  <2> QED
    BY <2>3, <2>4
<1>2. ASSUME NEW kind \in Carriers, Present(c, kind) PROVE TypeOK' /\ CallOK(c)'
  <2>1. PICK t \in Issued :
          /\ request' = [request EXCEPT ![c] = [kind |-> kind, account |-> t[1], token |-> t]]
          /\ late' = late \cup {d \in {c} : doc[t] = "blacklisted"}
    BY <1>2 DEF Present
  <2>2. t \in Tokens /\ t[1] \in Accounts /\ session[t] \in Calls
    BY TokenParts, NoTokenIsNone DEF Issued, CallsInv, CallOK
  <2>3. TypeOK'
    BY <1>2, <2>1, <2>2 DEF CallsInv, TypeOK, Present, Requests, Kinds
  <2>4. CallOK(c)'
    BY <1>2, <2>1, <2>2 DEF CallsInv, TypeOK, CallOK, Present
  <2> QED
    BY <2>3, <2>4
<1>3. CASE AskLogoutAll(c)
  <2>1. PICK a \in Accounts :
          request' = [request EXCEPT ![c] = [kind |-> "logoutAll", account |-> a, token |-> NoToken]]
    BY <1>3 DEF AskLogoutAll
  <2>2. TypeOK'
    BY <1>3, <2>1 DEF CallsInv, TypeOK, AskLogoutAll, Requests, Kinds
  <2>3. CallOK(c)'
    BY <1>3, <2>1 DEF CallsInv, TypeOK, CallOK, AskLogoutAll
  <2> QED
    BY <2>2, <2>3
<1> QED
  BY <1>1, <1>2, <1>3 DEF Arrive

LEMMA HandleCallsInv ==
  ASSUME CallsInv, [Next]_vars, NEW c \in Calls, Handle(c)
  PROVE  TypeOK' /\ CallOK(c)'
<1> USE DEF Steps, Carriers
<1>1. CASE Check(c) \/ FindAccount(c) \/ FindToken(c)
  BY <1>1, NoTokenIsNone DEF CallsInv, TypeOK, CallOK, Check, FindAccount, FindToken
<1>2. CASE RevokeToken(c)
  <2>1. Account(c) \in Accounts /\ Carried(c) \in Tokens
    BY <1>2 DEF CallsInv, CallOK, RevokeToken
  <2>2. SignedAt(Account(c)) \in Tokens /\ SignedAt(Account(c))[1] = Account(c)
        /\ SignedAt(Account(c))[2] = now /\ now <= now
    BY <2>1, SignedToken, SessionsAssumption DEF CallsInv, TypeOK, Seconds
  <2>3. TypeOK'
    BY <1>2, <2>1, <2>2 DEF CallsInv, TypeOK, RevokeToken, Sign, Blacklisted
  <2>4. CallOK(c)'
    BY <1>2, <2>1, <2>2, NoTokenIsNone DEF CallsInv, TypeOK, CallOK, RevokeToken, Sign
  <2> QED
    BY <2>3, <2>4
<1>3. CASE SaveToken(c)
  <2>1. minted[c] \in Tokens /\ Kind(c) \in {"signIn", "refresh"}
        /\ (Kind(c) = "refresh" => Carried(c) \in Tokens /\ session[Carried(c)] \in Calls)
    BY <1>3 DEF CallsInv, CallOK, SaveToken
  <2>2. TypeOK'
    BY <1>3, <2>1 DEF CallsInv, TypeOK, SaveToken
  <2>3. session'[minted[c]] \in Calls \/ ended'[c] = "refused"
    BY <1>3, <2>1 DEF CallsInv, TypeOK, SaveToken
  <2>4. Kind(c) = "refresh" => session'[Carried(c)] \in Calls
    BY <2>1, Onward
  <2>5. CallOK(c)'
    BY <1>3, <2>1, <2>3, <2>4 DEF CallsInv, TypeOK, CallOK, SaveToken
  <2> QED
    BY <2>2, <2>5
<1>4. CASE RevokeAll(c)
  <2>1. pc[c] = "revokeAll" /\ CallOK(c) /\ UNCHANGED <<now, request, minted, session, late>>
    BY <1>4 DEF CallsInv, RevokeAll
  <2>2. TypeOK'
    BY <1>4 DEF CallsInv, TypeOK, RevokeAll
  <2>3. CallOK(c)'
    BY <1>4, <2>1 DEF CallsInv, TypeOK, CallOK, RevokeAll
  <2> QED
    BY <2>2, <2>3
<1>5. CASE CallThrows(c)
  <2>1. pc[c] \in Steps
    BY <1>5, SessionsAssumption DEF CallThrows
  <2> QED
    BY <1>5, <2>1 DEF CallsInv, TypeOK, CallOK, CallThrows
<1> QED
  BY <1>1, <1>2, <1>3, <1>4, <1>5 DEF Handle

\* A call is still at its sign-in until the token is saved, and then done; a call comes to
\* its save with a token signed now.
LEMMA TokensKept ==
  ASSUME CallsInv, [Next]_vars, NEW c \in Calls, Serve(c)
  PROVE  \A t \in Tokens : TokenOK(t)'
<1> USE DEF Steps, Carriers
<1>1. ASSUME NEW s \in Calls, Kind(s) = "signIn", pc[s] = "done"
      PROVE  Kind(s)' = Kind(s) /\ pc'[s] = pc[s] /\ Account(s)' = Account(s)
  <2>1. pc[c] # "done"
    BY SessionsAssumption DEF Serve, Arrive, Handle, SignIn, Present, AskLogoutAll, Check, FindAccount, FindToken,
       RevokeToken, SaveToken, RevokeAll, CallThrows
  <2> QED
    BY <1>1, <2>1, OthersUntouched DEF CallsInv
<1>2. ASSUME NEW d \in Calls, pc'[d] = "save"
      PROVE  (pc[d] = "save" /\ minted'[d] = minted[d]) \/ minted'[d][2] = now
  <2>1. CASE d # c
    BY <1>2, <2>1, OthersUntouched DEF CallsInv
  <2>2. CASE SignIn(c) \/ RevokeToken(c)
    <3>1. \A a \in Accounts : SignedAt(a)[2] = now
      BY SignedToken DEF CallsInv, TypeOK
    <3>2. pc[c] = "revoke" => Account(c) \in Accounts
      BY DEF CallsInv, CallOK
    <3> QED
      BY <1>2, <2>1, <2>2, <3>1, <3>2 DEF CallsInv, TypeOK, SignIn, RevokeToken, Sign
  <2>3. ASSUME d = c, \/ Present(c, "refresh") \/ Present(c, "logout") \/ AskLogoutAll(c) \/ Check(c) \/ FindAccount(c)
                      \/ FindToken(c) \/ SaveToken(c) \/ RevokeAll(c) \/ CallThrows(c)
        PROVE  FALSE
    BY <1>2, <2>3 DEF CallsInv, TypeOK, Present, AskLogoutAll, Check, FindAccount, FindToken, SaveToken, RevokeAll,
       CallThrows
  <2> QED
    BY <2>1, <2>2, <2>3 DEF Serve, Arrive, Handle
<1>3. ASSUME NEW t \in Tokens, doc'[t] = doc[t], session'[t] = session[t] PROVE TokenOK(t)'
  <2>1. TokenOK(t)
    BY DEF CallsInv
  <2> QED
    BY <1>1, <1>2, <1>3, <2>1, TokenRests DEF TokenOK
<1>4. ASSUME NEW t \in Tokens, doc[t] # "absent", doc'[t] # "absent", session'[t] = session[t] PROVE TokenOK(t)'
  <2>1. TokenOK(t) /\ t[2] \in Int /\ now \in Int
    BY TokenParts, SessionsAssumption DEF CallsInv, TypeOK, Seconds
  <2>2. now' \in Int /\ now <= now'
    BY Onward
  <2> QED
    BY <1>1, <1>4, <2>1, <2>2 DEF TokenOK
<1>5. CASE RevokeToken(c) \/ RevokeAll(c)
  <2>1. session' = session /\ \A t \in Tokens : doc'[t] = doc[t] \/ (doc[t] # "absent" /\ doc'[t] # "absent")
    BY <1>5 DEF CallsInv, TypeOK, CallOK, RevokeToken, Blacklisted, RevokeAll, OwnedBy
  <2> QED
    BY <1>3, <1>4, <2>1
<1>6. CASE SaveToken(c)
  <2>1. /\ minted[c] \in Tokens /\ minted[c][1] = Account(c) /\ minted[c][2] <= now
        /\ Kind(c) \in {"signIn", "refresh"} /\ pc[c] = "save"
        /\ (Kind(c) = "refresh" => /\ Carried(c) \in Tokens /\ session[Carried(c)] \in Calls
                                   /\ Account(c) = Carried(c)[1] /\ TokenOK(Carried(c)))
    BY <1>6 DEF CallsInv, CallOK, SaveToken
  <2>2. ASSUME NEW t \in Tokens, t # minted[c] PROVE TokenOK(t)'
    BY <1>3, <1>6, <2>2 DEF CallsInv, TypeOK, SaveToken
  <2>3. CASE doc[minted[c]] # "absent"
    BY <1>3, <1>6, <2>3 DEF SaveToken
  <2>4. CASE doc[minted[c]] = "absent"
    <3>1. doc'[minted[c]] = "active"
      BY <1>6, <2>1, <2>4 DEF CallsInv, TypeOK, SaveToken
    <3>2. UNCHANGED <<now, request, minted>> /\ pc'[c] = "done"
      BY <1>6 DEF CallsInv, TypeOK, SaveToken
    <3>3. CASE Kind(c) = "signIn"
      <4>1. session'[minted[c]] = c
        BY <1>6, <2>1, <2>4, <3>3 DEF CallsInv, TypeOK, SaveToken
      <4>2. TokenOK(minted[c])'
        BY <2>1, <3>1, <3>2, <3>3, <4>1 DEF TokenOK
      <4> QED
        BY <2>2, <3>2, <4>2
    <3>4. CASE Kind(c) = "refresh"
      <4> DEFINE s == session[Carried(c)]
      <4>1. session'[minted[c]] = s
        BY <1>6, <2>1, <2>4, <3>4 DEF CallsInv, TypeOK, SaveToken
      <4>2. s \in Calls /\ Kind(s) = "signIn" /\ pc[s] = "done" /\ Account(s) = minted[c][1]
        BY <2>1, <3>4 DEF TokenOK
      <4>3. TokenOK(minted[c])'
        BY <1>1, <2>1, <3>1, <3>2, <4>1, <4>2 DEF TokenOK
      <4> QED
        BY <2>2, <3>2, <4>3
    <3> QED
      BY <2>1, <3>3, <3>4
  <2> QED
    BY <2>3, <2>4
<1>7. CASE UNCHANGED <<doc, session>>
  BY <1>3, <1>7
<1> QED
  BY <1>5, <1>6, <1>7 DEF Serve, Arrive, Handle, SignIn, Present, AskLogoutAll, Check, FindAccount, FindToken, CallThrows

LEMMA CallsStep ==
  ASSUME CallsInv, [Next]_vars
  PROVE  CallsInv'
<1>1. CASE UNCHANGED vars
  BY <1>1 DEF CallsInv, TypeOK, CallOK, TokenOK, vars
<1>2. ASSUME NEW c \in Calls, Serve(c) PROVE CallsInv'
  <2>1. TypeOK' /\ CallOK(c)'
    BY <1>2, ArriveCallsInv, HandleCallsInv DEF Serve
  <2>2. ASSUME NEW d \in Calls, d # c PROVE CallOK(d)'
    BY <1>2, <2>2, OthersUntouched, CallRests DEF CallsInv
  <2> QED
    BY <1>2, <2>1, <2>2, TokensKept DEF CallsInv
<1>3. CASE Crash
  BY <1>3 DEF CallsInv, TypeOK, CallOK, TokenOK, Crash, Steps
<1>4. CASE Tick
  <2>1. TypeOK'
    BY <1>4, SessionsAssumption DEF CallsInv, TypeOK, Tick, Seconds
  <2>2. ASSUME NEW d \in Calls PROVE CallOK(d)'
    BY <1>4, CallRests DEF Tick
  <2>3. ASSUME NEW t \in Tokens PROVE TokenOK(t)'
    BY <1>4, TokenRests DEF Tick
  <2> QED
    BY <2>1, <2>2, <2>3 DEF CallsInv
<1>5. ASSUME NEW t \in Tokens, Remove(t) PROVE CallsInv'
  <2>1. TypeOK'
    BY <1>5 DEF CallsInv, TypeOK, Remove
  <2>2. ASSUME NEW d \in Calls PROVE CallOK(d)'
    BY <1>5, CallRests DEF Remove
  <2>3. ASSUME NEW u \in Tokens, u # t PROVE TokenOK(u)'
    BY <1>5, <2>3, TokenRests DEF CallsInv, TypeOK, Remove
  <2>4. TokenOK(t)'
    <3>1. TokenOK(t) /\ t[2] \in Int /\ now \in Int /\ DocLifetime \in Nat \ {0}
      BY TokenParts, SessionsAssumption DEF CallsInv, TypeOK, Seconds
    <3>2. t[2] < now
      BY <1>5, <3>1 DEF Remove
    <3> QED
      BY <1>5, <3>1, <3>2 DEF CallsInv, TypeOK, TokenOK, Remove
  <2> QED
    BY <2>1, <2>2, <2>3, <2>4 DEF CallsInv
<1> QED
  BY <1>1, <1>2, <1>3, <1>4, <1>5 DEF Next, Serve, Quiet

-----------------------------------------------------------------------------
(* What a step can do to tokens and to the calls that carry them.           *)

\* A call that has begun keeps its request.
LEMMA KeepsRequest ==
  ASSUME CallsInv, [Next]_vars, NEW c \in Calls, pc[c] # "idle"
  PROVE  request'[c] = request[c]
<1>1. ASSUME NEW b \in Calls, Serve(b), b # c PROVE request'[c] = request[c]
  BY <1>1, OthersUntouched DEF CallsInv
<1>2. CASE Serve(c)
  BY <1>2 DEF Serve, Arrive, Handle, SignIn, Present, AskLogoutAll, Check, FindAccount, FindToken, RevokeToken,
     SaveToken, RevokeAll, CallThrows
<1> QED
  BY <1>1, <1>2 DEF Next, Serve, Remove, Tick, Crash, Quiet, vars

\* The document of a token that has its session is never active again, nor found again.
LEMMA DocStep ==
  ASSUME CallsInv, [Next]_vars, NEW t \in Tokens, session[t] \in Calls
  PROVE  \/ doc'[t] = doc[t] \/ doc'[t] = "absent"
         \/ doc'[t] = "blacklisted" /\ doc[t] # "absent"
<1>1. ASSUME NEW c \in Calls, RevokeToken(c) \/ RevokeAll(c)
      PROVE  doc'[t] = doc[t] \/ (doc'[t] = "blacklisted" /\ doc[t] # "absent")
  BY <1>1 DEF CallsInv, TypeOK, RevokeToken, Blacklisted, RevokeAll, OwnedBy
<1>2. ASSUME NEW c \in Calls, SaveToken(c) PROVE doc'[t] = doc[t]
  BY <1>2 DEF CallsInv, TypeOK, TokenOK, SaveToken
<1>3. ASSUME NEW u \in Tokens, Remove(u) PROVE doc'[t] = doc[t] \/ doc'[t] = "absent"
  BY <1>3 DEF CallsInv, TypeOK, Remove
<1> QED
  BY <1>1, <1>2, <1>3 DEF Next, Arrive, Handle, SignIn, Present, AskLogoutAll, Check, FindAccount, FindToken,
     CallThrows, Tick, Crash, Quiet, vars

\* A session gets an active token only from its sign-in or from a refresh that is about to
\* save one.
LEMMA ActiveStep ==
  ASSUME CallsInv, [Next]_vars, NEW s \in Calls
  PROVE  \/ Active(s)' \subseteq Active(s)
         \/ \E c \in Calls :
              /\ SaveToken(c) /\ doc[minted[c]] = "absent" /\ pc'[c] = "done"
              /\ Active(s)' = Active(s) \cup {minted[c]} /\ minted[c] \in Tokens
              /\ session' = [session EXCEPT ![minted[c]] = s]
              /\ (Kind(c) = "signIn" /\ s = c) \/ (Saver(c) /\ On(c, s))
<1>1. ASSUME NEW c \in Calls, SaveToken(c)
      PROVE  \/ Active(s)' \subseteq Active(s)
             \/ /\ doc[minted[c]] = "absent" /\ pc'[c] = "done"
                /\ Active(s)' = Active(s) \cup {minted[c]} /\ minted[c] \in Tokens
                /\ session' = [session EXCEPT ![minted[c]] = s]
                /\ (Kind(c) = "signIn" /\ s = c) \/ (Saver(c) /\ On(c, s))
  <2>1. minted[c] \in Tokens /\ Kind(c) \in {"signIn", "refresh"} /\ pc[c] = "save"
    BY <1>1 DEF CallsInv, CallOK, SaveToken
  <2>2. CASE doc[minted[c]] # "absent"
    BY <1>1, <2>2 DEF SaveToken, Active
  <2>3. CASE doc[minted[c]] = "absent"
    <3> DEFINE r == IF Kind(c) = "signIn" THEN c ELSE session[Carried(c)]
    <3>1. /\ doc' = [doc EXCEPT ![minted[c]] = "active"]
          /\ session' = [session EXCEPT ![minted[c]] = r]
          /\ pc'[c] = "done"
      BY <1>1, <2>3 DEF CallsInv, TypeOK, SaveToken
    <3>2. r # s => Active(s)' \subseteq Active(s)
      BY <2>1, <3>1 DEF CallsInv, TypeOK, Active
    <3>3. r = s => Active(s)' = Active(s) \cup {minted[c]}
      <4>1. session[minted[c]] \notin Calls
        BY <2>1, <2>3 DEF CallsInv, TokenOK
      <4> QED
        BY <2>1, <3>1, <4>1 DEF CallsInv, TypeOK, Active
    <3>4. r = s => (Kind(c) = "signIn" /\ s = c) \/ (Saver(c) /\ On(c, s))
      BY <2>1 DEF Saver, On, Carriers
    <3> QED
      BY <2>1, <2>3, <3>1, <3>2, <3>3, <3>4
  <2> QED
    BY <2>2, <2>3
<1>2. CASE UNCHANGED session
  <2>1. ASSUME NEW t \in Active(s)' PROVE t \in Active(s)
    BY <1>2, <2>1, DocStep DEF Active
  <2> QED
    BY <2>1
<1>3. UNCHANGED session \/ \E c \in Calls : SaveToken(c)
  BY DEF Next, Arrive, Handle, SignIn, Present, AskLogoutAll, Check, FindAccount, FindToken, RevokeToken,
     RevokeAll, CallThrows, Remove, Tick, Crash, Quiet, vars
<1> QED
  BY <1>1, <1>2, <1>3

\* A call under way with a token has just presented it or carried it before.
LEMMA CarrierStep ==
  ASSUME CallsInv, [Next]_vars, NEW c \in Calls, pc'[c] \in Steps, Kind(c)' \in Carriers
  PROVE  \/ Present(c, "refresh") \/ Present(c, "logout")
         \/ /\ UnderWay(c) /\ request'[c] = request[c] /\ Carried(c) \in Tokens
            /\ session[Carried(c)] \in Calls /\ session'[Carried(c)] = session[Carried(c)]
<1> USE DEF Steps
<1>1. ASSUME NEW b \in Calls, Serve(b), b # c PROVE UnderWay(c)
  BY <1>1, OthersUntouched DEF CallsInv
<1>2. ASSUME SignIn(c) \/ AskLogoutAll(c) PROVE FALSE
  BY <1>2 DEF CallsInv, TypeOK, SignIn, AskLogoutAll, Carriers
<1>3. ASSUME Handle(c) PROVE UnderWay(c)
  BY <1>3, SessionsAssumption DEF Handle, Check, FindAccount, FindToken, RevokeToken, SaveToken, RevokeAll, CallThrows
<1>4. ASSUME UNCHANGED pc \/ Crash PROVE UnderWay(c)
  BY <1>4 DEF CallsInv, TypeOK, Crash
<1>5. UnderWay(c) \/ Present(c, "refresh") \/ Present(c, "logout")
  BY <1>1, <1>2, <1>3, <1>4 DEF Next, Serve, Arrive, Remove, Tick, Quiet, vars
<1>6. CASE UnderWay(c)
  <2>1. pc[c] # "idle" /\ request'[c] = request[c]
    BY <1>6, KeepsRequest
  <2>2. Carried(c) \in Tokens /\ session[Carried(c)] \in Calls
    BY <2>1 DEF CallsInv, CallOK
  <2> QED
    BY <1>6, <2>1, <2>2, Onward
<1> QED
  BY <1>5, <1>6

\* A call comes to hold a token by passing its check while the token is active.
LEMMA HeirStep ==
  ASSUME CallsInv, [Next]_vars, NEW c \in Calls, NEW s \in Calls, Heir(c)', On(c, s)'
  PROVE  /\ On(c, s) /\ Carried(c)' = Carried(c) /\ Carried(c) \in Tokens /\ UnderWay(c)
         /\ Heir(c) \/ (Check(c) /\ UNCHANGED <<doc, session>> /\ Carried(c) \in Active(s))
<1> USE DEF Steps
<1>1. /\ UnderWay(c) /\ request'[c] = request[c] /\ Carried(c) \in Tokens
      /\ session[Carried(c)] \in Calls /\ session'[Carried(c)] = session[Carried(c)]
  BY CarrierStep DEF CallsInv, TypeOK, Heir, On, Present
<1>2. On(c, s)
  BY <1>1 DEF On
<1>3. doc'[Carried(c)] # "absent" /\ doc[Carried(c)] # "absent"
  BY <1>1, DocStep DEF Heir
<1>4. CASE pc[c] \in {"account", "find", "revoke"}
  BY <1>1, <1>2, <1>3, <1>4 DEF Heir
<1>5. CASE pc[c] \notin {"account", "find", "revoke"}
  <2>1. ASSUME NEW b \in Calls, Serve(b), b # c PROVE FALSE
    BY <1>5, <2>1, OthersUntouched DEF CallsInv, Heir
  <2>2. CASE Check(c)
    <3>1. doc[Carried(c)] = "active" /\ UNCHANGED <<doc, session>>
      BY <1>1, <1>3, <2>2 DEF CallsInv, TypeOK, Check, IsTokenBlacklisted, Heir
    <3> QED
      BY <1>1, <1>2, <2>2, <3>1 DEF Active, On
  <2>3. ASSUME SaveToken(c) \/ RevokeAll(c) \/ CallThrows(c) PROVE FALSE
    BY <2>3 DEF CallsInv, TypeOK, SaveToken, RevokeAll, CallThrows, Heir
  <2>4. ~Arrive(c) /\ ~FindAccount(c) /\ ~FindToken(c) /\ ~RevokeToken(c)
    BY <1>1, <1>5 DEF Arrive, SignIn, Present, AskLogoutAll, FindAccount, FindToken, RevokeToken
  <2>5. ASSUME UNCHANGED pc \/ Crash PROVE FALSE
    BY <1>5, <2>5 DEF CallsInv, TypeOK, Crash, Heir
  <2> QED
    BY <1>1, <1>2, <2>1, <2>2, <2>3, <2>4, <2>5 DEF Next, Serve, Handle, Remove, Tick, Quiet, vars
<1> QED
  BY <1>4, <1>5

\* A call comes to save the next token by revoking the one it holds.
LEMMA SaverStep ==
  ASSUME CallsInv, [Next]_vars, NEW c \in Calls, NEW s \in Calls, Saver(c)', On(c, s)'
  PROVE  /\ On(c, s) /\ Carried(c)' = Carried(c) /\ Carried(c) \in Tokens /\ UnderWay(c)
         /\ \/ Saver(c)
            \/ Heir(c) /\ RevokeToken(c) /\ doc' = Blacklisted(c) /\ UNCHANGED session
<1> USE DEF Steps
<1>1. /\ UnderWay(c) /\ request'[c] = request[c] /\ Carried(c) \in Tokens
      /\ session[Carried(c)] \in Calls /\ session'[Carried(c)] = session[Carried(c)]
  BY CarrierStep DEF CallsInv, TypeOK, Saver, On, Present
<1>2. On(c, s) /\ Kind(c) = "refresh"
  BY <1>1 DEF On, Saver
<1>3. CASE pc[c] = "save"
  BY <1>1, <1>2, <1>3 DEF Saver
<1>4. CASE pc[c] # "save"
  <2>1. ASSUME NEW b \in Calls, Serve(b), b # c PROVE FALSE
    BY <1>4, <2>1, OthersUntouched DEF CallsInv, Saver
  <2>2. CASE RevokeToken(c)
    <3>1. pc[c] = "revoke" /\ doc[Carried(c)] # "absent" /\ doc' = Blacklisted(c) /\ UNCHANGED session
      BY <2>2 DEF CallsInv, TypeOK, RevokeToken, Saver
    <3> QED
      BY <1>1, <1>2, <2>2, <3>1 DEF Heir
  <2>3. ASSUME Check(c) \/ FindAccount(c) \/ FindToken(c) \/ SaveToken(c) \/ RevokeAll(c) \/ CallThrows(c) PROVE FALSE
    BY <2>3 DEF CallsInv, TypeOK, Check, FindAccount, FindToken, SaveToken, RevokeAll, CallThrows, Saver
  <2>4. ~Arrive(c)
    BY <1>1 DEF Arrive, SignIn, Present, AskLogoutAll
  <2>5. ASSUME UNCHANGED pc \/ Crash PROVE FALSE
    BY <1>4, <2>5 DEF CallsInv, TypeOK, Crash, Saver
  <2> QED
    BY <1>1, <1>2, <2>1, <2>2, <2>3, <2>4, <2>5 DEF Next, Serve, Handle, Remove, Tick, Quiet, vars
<1> QED
  BY <1>3, <1>4

-----------------------------------------------------------------------------
(* What is revoked is refused.                                              *)

LEMMA LateStep ==
  ASSUME CallsInv, LateRefused, [Next]_vars
  PROVE  LateRefused'
<1> USE DEF Steps, Carriers
<1> DEFINE Late(c) == /\ Kind(c) \in Carriers /\ doc[Carried(c)] # "active"
                      /\ pc[c] \in {"check", "account", "find", "done", "lost"}
                      /\ pc[c] \in {"account", "find"} => doc[Carried(c)] = "absent"
                      /\ ended[c] # "ok" /\ minted[c] = NoToken
<1> SUFFICES ASSUME NEW c \in Calls, c \in late' PROVE Late(c)'
  BY CallsStep DEF LateRefused, CallsInv, TypeOK
<1>1. CASE c \notin late
  <2>1. Present(c, "refresh") \/ Present(c, "logout")
    <3>1. UNCHANGED late \/ \E b \in Calls : Present(b, "refresh") \/ Present(b, "logout")
      BY DEF Next, Arrive, Handle, SignIn, AskLogoutAll, Check, FindAccount, FindToken,
         RevokeToken, SaveToken, RevokeAll, CallThrows, Remove, Tick, Crash, Quiet, vars
    <3>2. ASSUME NEW b \in Calls, Present(b, "refresh") \/ Present(b, "logout") PROVE late' \subseteq late \cup {b}
      BY <3>2 DEF Present
    <3> QED
      BY <1>1, <3>1, <3>2
  <2>2. PICK t \in Issued, kind \in {"refresh", "logout"} :
          /\ request' = [request EXCEPT ![c] = [kind |-> kind, account |-> t[1], token |-> t]]
          /\ doc[t] = "blacklisted"
          /\ pc[c] = "idle" /\ pc' = [pc EXCEPT ![c] = "check"] /\ UNCHANGED <<doc, minted, ended>>
    BY <1>1, <2>1 DEF Present
  <2> QED
    BY <2>2 DEF CallsInv, TypeOK, CallOK
<1>2. CASE c \in late
  <2>1. Late(c) /\ pc[c] # "idle" /\ Carried(c) \in Tokens /\ session[Carried(c)] \in Calls
    BY <1>2 DEF LateRefused, CallsInv, CallOK
  <2>2. request'[c] = request[c] /\ doc'[Carried(c)] # "active"
        /\ (doc[Carried(c)] = "absent" => doc'[Carried(c)] = "absent")
    BY <2>1, KeepsRequest, DocStep
  <2>3. ASSUME NEW b \in Calls, Serve(b), b # c PROVE Late(c)'
    <3>1. pc'[c] = pc[c] /\ minted'[c] = minted[c] /\ ended'[c] = ended[c]
      BY <2>3, OthersUntouched DEF CallsInv
    <3> QED
      BY <2>1, <2>2, <3>1
  <2>4. CASE Check(c)
    BY <2>1, <2>2, <2>4 DEF CallsInv, TypeOK, Check, IsTokenBlacklisted
  <2>5. CASE FindAccount(c) \/ FindToken(c) \/ CallThrows(c)
    BY <2>1, <2>2, <2>5 DEF CallsInv, TypeOK, FindAccount, FindToken, CallThrows
  <2>6. ~RevokeToken(c) /\ ~SaveToken(c) /\ ~RevokeAll(c) /\ ~Arrive(c)
    BY <2>1 DEF RevokeToken, SaveToken, RevokeAll, Arrive, SignIn, Present, AskLogoutAll
  <2>7. CASE UNCHANGED <<pc, minted, ended>>
    BY <2>1, <2>2, <2>7
  <2>8. CASE Crash
    BY <2>1, <2>2, <2>8 DEF CallsInv, TypeOK, Crash
  <2> QED
    BY <2>3, <2>4, <2>5, <2>6, <2>7, <2>8 DEF Next, Serve, Handle, Remove, Tick, Quiet, vars
<1> QED
  BY <1>1, <1>2

-----------------------------------------------------------------------------
(* One token or one call carries a session on.                              *)

\* A call that presents a token another one carries puts the session on record.
LEMMA DoubledStep ==
  ASSUME CallsInv, DoubledNoted, [Next]_vars
  PROVE  DoubledNoted' /\ doubled \subseteq doubled'
<1> USE DEF Steps
<1>1. doubled \subseteq doubled'
  BY DEF Next, Arrive, Handle, SignIn, Present, AskLogoutAll, Check, FindAccount, FindToken,
     RevokeToken, SaveToken, RevokeAll, CallThrows, Remove, Tick, Crash, Quiet, vars
<1> SUFFICES ASSUME NEW c \in Calls, NEW d \in Calls, pc'[c] \in Steps, pc'[d] \in Steps, c # d,
                    Kind(c)' \in Carriers, Carried(c)' = Carried(d)'
             PROVE  session'[Carried(c)'] \in doubled'
  BY <1>1 DEF DoubledNoted
<1>2. Kind(d)' \in Carriers
  <2>1. Carried(c)' \in Tokens
    BY CallsStep DEF CallsInv, CallOK
  <2> QED
    BY <2>1, CallsStep, NoTokenIsNone DEF CallsInv, CallOK
<1>3. ASSUME NEW a \in Calls, NEW b \in Calls, pc'[a] \in Steps, pc'[b] \in Steps, a # b,
             Kind(b)' \in Carriers, Carried(a)' = Carried(b)', Present(a, "refresh") \/ Present(a, "logout")
      PROVE  session'[Carried(a)'] \in doubled'
  <2>1. Serve(a) /\ pc'[b] = pc[b] /\ request'[b] = request[b]
    BY <1>3, OthersUntouched DEF CallsInv, Serve, Arrive
  <2>2. PICK t \in Issued :
          /\ Carried(a)' = t
          /\ doubled' = doubled \cup {session[t] : e \in {x \in Calls : pc[x] \in Steps /\ Carried(x) = t}}
    BY <1>3 DEF CallsInv, TypeOK, Present
  <2>3. UNCHANGED session
    BY <1>3 DEF Present
  <2> QED
    BY <1>3, <2>1, <2>2, <2>3
<1>4. CASE Present(c, "refresh") \/ Present(c, "logout")
  BY <1>2, <1>3, <1>4
<1>5. CASE Present(d, "refresh") \/ Present(d, "logout")
  BY <1>3, <1>5
<1>6. ASSUME ~(Present(c, "refresh") \/ Present(c, "logout")), ~(Present(d, "refresh") \/ Present(d, "logout"))
      PROVE  session'[Carried(c)'] \in doubled'
  <2>1. UnderWay(c) /\ request'[c] = request[c] /\ session'[Carried(c)] = session[Carried(c)]
    BY <1>6, CarrierStep
  <2>2. UnderWay(d) /\ request'[d] = request[d]
    BY <1>2, <1>6, CarrierStep
  <2> QED
    BY <1>1, <2>1, <2>2 DEF DoubledNoted
<1> QED
  BY <1>1, <1>4, <1>5, <1>6

\* The session that a sign-in is about to begin has no token yet.
LEMMA SignInIsNew ==
  ASSUME CallsInv, NEW c \in Calls, pc[c] # "done", NEW t \in Tokens
  PROVE  session[t] # c
BY DEF CallsInv, TokenOK

LEMMA HeirsStep ==
  ASSUME CallsInv, DoubledNoted, NEW s \in Calls, s \notin doubled, OneHeir(s), [Next]_vars
  PROVE  OneHeir(s)'
<1> DEFINE Holds(c) == (Heir(c) \/ Saver(c)) /\ On(c, s)
<1>1. ASSUME NEW c \in Calls, (Heir(c) /\ On(c, s))' \/ (Saver(c) /\ On(c, s))'
      PROVE  /\ On(c, s) /\ Carried(c)' = Carried(c) /\ Carried(c) \in Tokens /\ UnderWay(c)
             /\ Heir(c) \/ Saver(c) \/ (Check(c) /\ UNCHANGED <<doc, session>> /\ Carried(c) \in Active(s))
  BY <1>1, HeirStep, SaverStep
<1>2. ASSUME NEW c \in Calls, NEW d \in Calls, c # d, Check(c), UnderWay(c), On(c, s), Carried(c) \in Active(s)
      PROVE  ~Holds(d)
  <2>1. Carried(d) = Carried(c) /\ UnderWay(d) => FALSE
    BY <1>2 DEF DoubledNoted, On
  <2> QED
    BY <1>2, <2>1 DEF OneHeir, Heir, Saver, Steps
<1>3. ASSUME NEW c \in Calls, NEW d \in Calls, c # d, Check(c), Holds(d)' PROVE Holds(d)
  <2>1. pc'[d] = pc[d]
    BY <1>3, OthersUntouched DEF CallsInv, Serve, Handle
  <2>2. ~Check(d) \/ pc[d] = "check"
    BY DEF Check
  <2>3. pc'[d] # "check"
    BY <1>3 DEF Heir, Saver
  <2> QED
    BY <1>1, <1>3, <2>1, <2>2, <2>3
<1>4. ASSUME NEW c \in Calls, NEW d \in Calls, Holds(c)', Holds(d)' PROVE c = d
  <2>1. CASE Holds(c) /\ Holds(d)
    BY <2>1 DEF OneHeir
  <2>2. ASSUME ~Holds(c), c # d PROVE FALSE
    BY <1>1, <1>2, <1>3, <1>4, <2>2
  <2>3. ASSUME ~Holds(d), c # d PROVE FALSE
    BY <1>1, <1>2, <1>3, <1>4, <2>3
  <2> QED
    BY <2>1, <2>2, <2>3
<1>5. CASE Active(s)' \subseteq Active(s)
  <2>1. \A t, u \in Active(s)' : t = u
    BY <1>5 DEF OneHeir
  <2>2. ASSUME NEW c \in Calls, (Heir(c) /\ On(c, s))' PROVE Active(s)' \subseteq {Carried(c)'}
    <3>1. On(c, s) /\ Carried(c)' = Carried(c) /\ (Heir(c) \/ Carried(c) \in Active(s))
      BY <2>2, HeirStep
    <3> QED
      BY <1>5, <3>1 DEF OneHeir
  <2>3. ASSUME NEW c \in Calls, (Saver(c) /\ On(c, s))' PROVE Active(s)' = {}
    <3>1. /\ On(c, s) /\ Carried(c) \in Tokens
          /\ Saver(c) \/ (Heir(c) /\ doc' = Blacklisted(c) /\ UNCHANGED session)
      BY <2>3, SaverStep
    <3>2. CASE Saver(c)
      BY <1>5, <3>1, <3>2 DEF OneHeir
    <3>3. ASSUME Heir(c), doc' = Blacklisted(c) PROVE Active(s)' = {}
      <4>1. Active(s) \subseteq {Carried(c)}
        BY <3>1, <3>3 DEF OneHeir
      <4>2. Carried(c) \notin Active(s)'
        BY <3>1, <3>3 DEF CallsInv, TypeOK, Blacklisted, Active
      <4> QED
        BY <1>5, <4>1, <4>2
    <3> QED
      BY <3>1, <3>2, <3>3
  <2> QED
    BY <1>4, <2>1, <2>2, <2>3 DEF OneHeir
<1>6. ASSUME NEW c \in Calls,
             /\ SaveToken(c) /\ doc[minted[c]] = "absent" /\ pc'[c] = "done"
             /\ Active(s)' = Active(s) \cup {minted[c]} /\ minted[c] \in Tokens
             /\ (Kind(c) = "signIn" /\ s = c) \/ (Saver(c) /\ On(c, s))
      PROVE  OneHeir(s)'
  <2>1. Active(s) = {} /\ pc[c] = "save"
    BY <1>6, SignInIsNew DEF SaveToken, Active, OneHeir
  <2>2. ASSUME NEW d \in Calls, Holds(d)' PROVE FALSE
    <3>1. d # c
      BY <1>6, <2>2 DEF Heir, Saver
    <3>2. On(d, s) /\ Carried(d) \in Tokens /\ Holds(d)
      BY <1>1, <2>1, <2>2
    <3>3. CASE Saver(c) /\ On(c, s)
      BY <3>1, <3>2, <3>3 DEF OneHeir
    <3>4. CASE s = c
      BY <2>1, <3>2, <3>4, SignInIsNew DEF On
    <3> QED
      BY <1>6, <3>3, <3>4
  <2> QED
    BY <1>6, <2>1, <2>2 DEF OneHeir
<1> QED
  BY <1>5, <1>6, ActiveStep

-----------------------------------------------------------------------------
(* What is over stays over.                                                 *)

LEMMA Renewal ==
  ASSUME NEW s
  PROVE  MayRenew(s) <=> \E d \in Calls : Kind(d) = "refresh" /\ On(d, s) /\ (Heir(d) \/ Saver(d))
BY DEF MayRenew, On, Heir, Saver, Carriers

\* The sessions that have begun are calls, and stay begun.
LEMMA BegunStep ==
  ASSUME CallsInv, [Next]_vars
  PROVE  Begun \subseteq Calls /\ Begun \subseteq Begun'
<1>1. Begun \subseteq Calls
  BY DEF CallsInv, TypeOK, Begun
<1>2. ASSUME NEW s \in Begun PROVE s \in Begun'
  <2>1. PICK t \in Tokens : session[t] = s
    BY DEF Begun
  <2>2. s \in Calls /\ s # "none" /\ session'[t] = s
    BY <1>1, <2>1, Onward, SessionsAssumption
  <2> QED
    BY <2>2 DEF Begun
<1> QED
  BY <1>1, <1>2

LEMMA OverStep ==
  ASSUME CallsInv, [Next]_vars, NEW s \in Begun, Active(s) = {}, ~MayRenew(s)
  PROVE  Active(s)' = {} /\ ~MayRenew(s)'
<1>1. s \in Calls /\ \A d \in Calls : Kind(d) = "refresh" /\ On(d, s) => ~Heir(d) /\ ~Saver(d)
  BY BegunStep, Renewal
<1>2. Active(s)' = {}
  <2>1. ASSUME NEW c \in Calls, SaveToken(c), Kind(c) = "signIn", s = c PROVE FALSE
    <3>1. pc[c] # "done" /\ \E t \in Tokens : session[t] = c
      BY <2>1 DEF SaveToken, Begun
    <3> QED
      BY <3>1, SignInIsNew
  <2>2. \A c \in Calls : ~(Saver(c) /\ On(c, s))
    BY <1>1 DEF Saver
  <2> QED
    BY <1>1, <2>1, <2>2, ActiveStep
<1>3. ASSUME NEW d \in Calls, Kind(d)' = "refresh", On(d, s)', Heir(d)' \/ Saver(d)' PROVE FALSE
  <2>1. On(d, s) /\ pc[d] # "idle" /\ (Heir(d) \/ Saver(d) \/ Carried(d) \in Active(s))
    BY <1>1, <1>3, HeirStep, SaverStep DEF Steps
  <2>2. Kind(d) = "refresh"
    BY <1>3, <2>1, KeepsRequest
  <2> QED
    BY <1>1, <2>1, <2>2
<1>4. ~MayRenew(s)'
  BY <1>3 DEF MayRenew, On, Heir, Saver, Carriers
<1> QED
  BY <1>2, <1>4

LEMMA OutStep ==
  ASSUME CallsInv, OutIsOver, \A s \in Calls \ doubled : OneHeir(s), [Next]_vars
  PROVE  OutIsOver'
<1> SUFFICES ASSUME NEW s \in out' PROVE (s \in Begun)' /\ Active(s)' = {} /\ ~MayRenew(s)'
  BY DEF OutIsOver
<1>1. CASE s \in out
  BY <1>1, OverStep, BegunStep DEF OutIsOver
<1>2. ASSUME NEW c \in Calls, ~Refreshing(s), UNCHANGED <<request, session>>, s \in Calls,
             pc' = [pc EXCEPT ![c] = "done"]
      PROVE  ~MayRenew(s)'
  BY <1>2 DEF CallsInv, TypeOK, MayRenew, Refreshing, Steps
<1>3. ASSUME NEW c \in Calls, RevokeToken(c), s \notin out
      PROVE  (s \in Begun)' /\ Active(s)' = {} /\ ~MayRenew(s)'
  <2>1. /\ pc[c] = "revoke" /\ doc[Carried(c)] # "absent" /\ doc' = Blacklisted(c)
        /\ UNCHANGED <<request, session>> /\ pc' = [pc EXCEPT ![c] = "done"]
        /\ s = session[Carried(c)] /\ s \notin doubled /\ ~Refreshing(s) /\ Kind(c) \in Carriers
    BY <1>3 DEF RevokeToken, Carriers
  <2>2. Carried(c) \in Tokens /\ s \in Calls
    BY <2>1 DEF CallsInv, CallOK
  <2>3. OneHeir(s) /\ Heir(c) /\ On(c, s)
    BY <2>1, <2>2 DEF Heir, On
  <2>4. Active(s) \subseteq {Carried(c)}
    BY <2>3 DEF OneHeir
  <2>5. Active(s)' = {}
    BY <2>1, <2>2, <2>4 DEF CallsInv, TypeOK, Blacklisted, Active
  <2>6. (s \in Begun)'
    BY <2>1, <2>2, SessionsAssumption DEF Begun
  <2> QED
    BY <1>2, <2>1, <2>2, <2>5, <2>6
<1>4. ASSUME NEW c \in Calls, RevokeAll(c), s \notin out
      PROVE  (s \in Begun)' /\ Active(s)' = {} /\ ~MayRenew(s)'
  <2>1. /\ UNCHANGED <<request, session>> /\ pc' = [pc EXCEPT ![c] = "done"] /\ ~Refreshing(s)
        /\ doc' = [t \in Tokens |-> IF t \in OwnedBy(Account(c)) THEN "blacklisted" ELSE doc[t]]
    BY <1>4 DEF RevokeAll
  <2>2. PICK u \in Tokens : u[1] = Account(c) /\ session[u] = s /\ s # "none"
    BY <1>4 DEF RevokeAll
  <2>3. s \in Calls
    BY <2>2 DEF CallsInv, TypeOK
  <2>4. \A t \in Tokens : session[t] = s => t[1] = Account(c)
    BY <2>2, <2>3 DEF CallsInv, TokenOK
  <2>5. Active(s)' = {}
    BY <2>1, <2>4 DEF Active, OwnedBy
  <2>6. (s \in Begun)'
    BY <2>1, <2>2 DEF Begun
  <2> QED
    BY <1>2, <2>1, <2>3, <2>5, <2>6
<1>5. UNCHANGED out \/ \E c \in Calls : RevokeToken(c) \/ RevokeAll(c)
  BY DEF Next, Arrive, Handle, SignIn, Present, AskLogoutAll, Check, FindAccount, FindToken, SaveToken, CallThrows,
     Remove, Tick, Crash, Quiet, vars
<1> QED
  BY <1>1, <1>3, <1>4, <1>5

-----------------------------------------------------------------------------
(* A session goes on until something ends it.                               *)

LEMMA ReasonStep ==
  ASSUME CallsInv, [Next]_vars, NEW s \in Calls, Reason(s)
  PROVE  Reason(s)'
<1>1. CASE s \in torn
  <2>1. torn \subseteq torn'
    BY DEF Next, Arrive, Handle, SignIn, Present, AskLogoutAll, Check, FindAccount, FindToken,
       RevokeToken, SaveToken, RevokeAll, CallThrows, Remove, Tick, Crash, Quiet, vars
  <2> QED
    BY <1>1, <2>1 DEF Reason
<1>2. ASSUME NEW c \in Calls, Kind(c) \in {"logout", "logoutAll"}
      PROVE  request'[c] = request[c]
  BY <1>2, KeepsRequest DEF CallsInv, CallOK
<1>3. ASSUME NEW c \in Calls, Kind(c) = "logout", session[Carried(c)] = s PROVE Reason(s)'
  <2>1. session'[Carried(c)] = s
    BY <1>3, Onward DEF CallsInv, CallOK, Carriers
  <2> QED
    BY <1>2, <1>3, <2>1 DEF Reason
<1>4. ASSUME NEW c \in Calls, NEW t \in Tokens, Kind(c) = "logoutAll", session[t] = s, t[1] = Account(c)
      PROVE  Reason(s)'
  BY <1>2, <1>4, Onward DEF Reason
<1>5. ASSUME NEW t \in Tokens, session[t] = s, now >= t[2] + DocLifetime PROVE Reason(s)'
  <2>1. t[2] \in Int /\ now \in Int /\ DocLifetime \in Int
    BY TokenParts, SessionsAssumption DEF CallsInv, TypeOK, Seconds
  <2>2. session'[t] = s /\ now' \in Nat /\ now <= now'
    BY <1>5, Onward
  <2>3. now' >= t[2] + DocLifetime
    BY <1>5, <2>1, <2>2
  <2> QED
    BY <2>2, <2>3 DEF Reason
<1> QED
  BY <1>1, <1>3, <1>4, <1>5 DEF Reason

LEMMA GoesOnStep ==
  ASSUME CallsInv, [Next]_vars, NEW s \in Calls, GoesOn(s)
  PROVE  GoesOn(s)'
<1> USE DEF Steps
<1>1. CASE Reason(s)
  BY <1>1, ReasonStep DEF GoesOn
<1>2. ASSUME \A t \in Tokens : session[t] # s, \E t \in Tokens : session'[t] = s
      PROVE  Active(s)' # {}
  <2>1. PICK c \in Calls : SaveToken(c) /\ session' # session
    BY <1>2 DEF Next, Arrive, Handle, SignIn, Present, AskLogoutAll, Check, FindAccount, FindToken,
       RevokeToken, RevokeAll, CallThrows, Remove, Tick, Crash, Quiet, vars
  <2>2. minted[c] \in Tokens
    BY <2>1 DEF CallsInv, CallOK, SaveToken
  <2>3. session'[minted[c]] = s /\ doc'[minted[c]] = "active"
    BY <1>2, <2>1, <2>2 DEF CallsInv, TypeOK, SaveToken
  <2> QED
    BY <2>2, <2>3 DEF Active
<1>3. ASSUME NEW t \in Active(s), Active(s)' = {} PROVE GoesOn(s)'
  <2>1. t \in Tokens /\ doc[t] = "active" /\ session[t] = s /\ session'[t] = s /\ doc'[t] # "active"
    BY <1>3, Onward DEF Active
  <2>2. ASSUME Remove(t) PROVE GoesOn(s)'
    BY <2>1, <2>2, ReasonStep DEF Remove, Reason, GoesOn
  <2>3. ASSUME NEW c \in Calls, RevokeToken(c) PROVE GoesOn(s)'
    <3>1. Carried(c) = t /\ Kind(c) \in Carriers
      BY <2>1, <2>3 DEF CallsInv, TypeOK, CallOK, RevokeToken, Blacklisted
    <3>2. CASE Kind(c) = "logout"
      BY <2>1, <3>1, <3>2, ReasonStep DEF Reason, GoesOn
    <3>3. CASE Kind(c) = "refresh"
      <4>1. pc'[c] = "save" /\ UNCHANGED <<request, session>>
        BY <2>1, <2>3, <3>1, <3>3 DEF CallsInv, TypeOK, RevokeToken
      <4> QED
        BY <2>1, <3>1, <3>3, <4>1 DEF GoesOn, Saver, On
    <3> QED
      BY <3>1, <3>2, <3>3 DEF Carriers
  <2>4. ASSUME NEW c \in Calls, RevokeAll(c) PROVE GoesOn(s)'
    <3>1. Kind(c) = "logoutAll" /\ t[1] = Account(c)
      BY <2>1, <2>4 DEF CallsInv, CallOK, RevokeAll, OwnedBy
    <3> QED
      BY <2>1, <3>1, ReasonStep DEF Reason, GoesOn
  <2>5. ASSUME NEW u \in Tokens, u # t, Remove(u) PROVE FALSE
    BY <2>1, <2>5 DEF CallsInv, TypeOK, Remove
  <2>6. ASSUME NEW c \in Calls, SaveToken(c) PROVE FALSE
    BY <2>1, <2>6 DEF CallsInv, TypeOK, SaveToken
  <2> QED
    BY <2>1, <2>2, <2>3, <2>4, <2>5, <2>6 DEF Next, Arrive, Handle, SignIn, Present, AskLogoutAll, Check, FindAccount,
       FindToken, CallThrows, Tick, Crash, Quiet, vars
<1>4. ASSUME NEW c \in Calls, Saver(c), On(c, s) PROVE GoesOn(s)'
  <2>1. /\ pc[c] = "save" /\ Kind(c) = "refresh" /\ session[Carried(c)] = s /\ Carried(c) \in Tokens
        /\ request'[c] = request[c] /\ session'[Carried(c)] = s
    BY <1>4, KeepsRequest, Onward DEF CallsInv, CallOK, Saver, On
  <2>2. CASE pc'[c] = "save"
    BY <2>1, <2>2 DEF GoesOn, Saver, On, Carriers
  <2>3. CASE SaveToken(c) /\ doc[minted[c]] = "absent"
    <3>1. minted[c] \in Tokens
      BY <2>1 DEF CallsInv, CallOK
    <3>2. session'[minted[c]] = s /\ doc'[minted[c]] = "active"
      BY <2>1, <2>3, <3>1 DEF CallsInv, TypeOK, SaveToken
    <3> QED
      BY <3>1, <3>2 DEF GoesOn, Active
  <2>4. ASSUME torn' = torn \cup TornBy({c}) \/ torn' = torn \cup TornBy(Calls) PROVE GoesOn(s)'
    BY <2>1, <2>4 DEF TornBy, GoesOn, Reason
  <2>5. CASE SaveToken(c) /\ doc[minted[c]] # "absent"
    BY <2>4, <2>5 DEF SaveToken
  <2>6. CASE CallThrows(c)
    BY <2>4, <2>6 DEF CallThrows
  <2>7. CASE Crash
    BY <2>4, <2>7 DEF Crash
  <2>8. ASSUME NEW b \in Calls, Serve(b), b # c PROVE GoesOn(s)'
    BY <2>1, <2>2, <2>8, OthersUntouched DEF CallsInv
  <2>9. ~Arrive(c) /\ ~Check(c) /\ ~FindAccount(c) /\ ~FindToken(c) /\ ~RevokeToken(c) /\ ~RevokeAll(c)
    BY <2>1 DEF Arrive, SignIn, Present, AskLogoutAll, Check, FindAccount, FindToken, RevokeToken, RevokeAll
  <2>10. CASE UNCHANGED pc
    BY <2>1, <2>2, <2>10
  <2> QED
    BY <2>3, <2>5, <2>6, <2>7, <2>8, <2>9, <2>10 DEF Next, Serve, Handle, Remove, Tick, Quiet, vars
<1> QED
  BY <1>1, <1>2, <1>3, <1>4 DEF GoesOn

-----------------------------------------------------------------------------
LEMMA Invariance == Spec => []IInv
<1>1. Init => IInv
  <2> SUFFICES ASSUME Init PROVE IInv
    OBVIOUS
  <2>1. CallsInv /\ LateRefused /\ DoubledNoted /\ OutIsOver
    BY CallsInit DEF Init, LateRefused, DoubledNoted, OutIsOver, Steps
  <2>2. ASSUME NEW s \in Calls PROVE OneHeir(s) /\ GoesOn(s)
    BY SessionsAssumption DEF Init, OneHeir, GoesOn, Active, Heir, Saver
  <2> QED
    BY <2>1, <2>2 DEF IInv
<1>2. IInv /\ [Next]_vars => IInv'
  <2> SUFFICES ASSUME IInv, [Next]_vars PROVE IInv'
    OBVIOUS
  <2>1. CallsInv' /\ LateRefused' /\ DoubledNoted' /\ OutIsOver' /\ doubled \subseteq doubled'
    BY CallsStep, LateStep, DoubledStep, OutStep DEF IInv
  <2>2. ASSUME NEW s \in Calls, s \notin doubled' PROVE OneHeir(s)'
    BY <2>1, <2>2, HeirsStep DEF IInv
  <2>3. ASSUME NEW s \in Calls PROVE GoesOn(s)'
    BY GoesOnStep DEF IInv
  <2> QED
    BY <2>1, <2>2, <2>3 DEF IInv
<1> QED
  BY <1>1, <1>2, PTL DEF Spec

\* A refresh or a logout that comes after its token was revoked is refused and signs
\* nothing (auth/authentication.js, verifyRefreshTokenMiddleware; blacklistToken).
THEOREM RevokedAreRefused == Spec => []RevokedIsRefused
<1>1. IInv => RevokedIsRefused
  BY DEF IInv, LateRefused, RevokedIsRefused
<1> QED
  BY <1>1, Invariance, PTL

\* A logout or a logoutAll ends its sessions for good, unless a refresh had passed its
\* check (logout, logoutAll, refreshToken).
THEOREM OutStaysOut == Spec => []LoggedOutStaysOut
<1>1. IInv => LoggedOutStaysOut
  BY DEF IInv, OutIsOver, LoggedOutStaysOut
<1> QED
  BY <1>1, Invariance, PTL

\* Rotation leaves a session one live token at most, and one as long as nothing has ended
\* the session, unless two calls carried one of its tokens together (refreshToken).
THEOREM RotationKeepsOne == Spec => []OneTokenPerSession
<1>1. IInv => OneTokenPerSession
  <2> SUFFICES ASSUME IInv, NEW s \in Calls \ doubled
               PROVE  Cardinality(Active(s)) <= 1 /\ (Undisturbed(s) => Active(s) # {})
    BY DEF OneTokenPerSession
  <2>1. Cardinality(Active(s)) <= 1
    BY AtMostOne DEF IInv, OneHeir
  <2>2. ASSUME Undisturbed(s) PROVE Active(s) # {}
    <3>1. GoesOn(s) /\ \E t \in Tokens : session[t] = s
      BY <2>2 DEF IInv, Undisturbed
    <3>2. ASSUME NEW c \in Calls, Saver(c), On(c, s) PROVE FALSE
      <4>1. Carried(c) \in Tokens /\ session[Carried(c)] = s /\ UnderWay(c)
        BY <3>2 DEF IInv, CallsInv, CallOK, Saver, On, Steps
      <4> QED
        BY <2>2, <4>1 DEF Undisturbed
    <3>3. ~Reason(s)
      <4>1. \A t \in Tokens : t[2] \in Int /\ now \in Int /\ DocLifetime \in Int
        BY TokenParts, SessionsAssumption DEF IInv, CallsInv, TypeOK, Seconds
      <4>2. \A t \in Tokens : session[t] = s => ~(now >= t[2] + DocLifetime)
        BY <2>2, <4>1 DEF Undisturbed
      <4> QED
        BY <2>2, <4>2 DEF Undisturbed, Reason
    <3> QED
      BY <3>1, <3>2, <3>3 DEF GoesOn
  <2> QED
    BY <2>1, <2>2
<1> QED
  BY <1>1, Invariance, PTL

\* Sessions implements SessionLife: saving the first token begins a session, and every
\* other step, a crash and a logoutAll included, leaves sessions as they are or ends some.
THEOREM ImplementsLife == Spec => EndsForGood
<1> DEFINE over == {s \in Begun : Active(s) = {} /\ ~MayRenew(s)}
<1>1. Init => Life!Init
  BY SessionsAssumption DEF Init, Life!Init, Begun
<1>2. IInv /\ [Next]_vars => [Life!Next]_<<Begun, over>>
  <2> SUFFICES ASSUME IInv, [Next]_vars PROVE Life!Next \/ (Begun' = Begun /\ over' = over)
    OBVIOUS
  <2>1. CallsInv /\ CallsInv' /\ Begun \subseteq Calls
    BY CallsStep, BegunStep DEF IInv
  <2>2. over \subseteq over'
    BY <2>1, OverStep, BegunStep
  <2>3. CASE Begun' = Begun
    <3> DEFINE S == over' \ over
    <3>1. S \subseteq Begun \ over /\ S \in SUBSET Calls /\ over' = over \cup S
      BY <2>1, <2>2, <2>3
    <3>2. Life!End(S)
      BY <2>3, <3>1 DEF Life!End
    <3> QED
      BY <3>1, <3>2 DEF Life!Next
  <2>4. CASE Begun' # Begun
    <3>1. PICK c \in Calls : SaveToken(c) /\ session' # session
      BY <2>4 DEF Begun, Next, Arrive, Handle, SignIn, Present, AskLogoutAll, Check, FindAccount, FindToken,
         RevokeToken, RevokeAll, CallThrows, Remove, Tick, Crash, Quiet, vars
    <3> DEFINE t == minted[c]
    <3>2. /\ t \in Tokens /\ pc[c] = "save" /\ doc[t] = "absent" /\ session[t] = "none"
          /\ doc' = [doc EXCEPT ![t] = "active"] /\ UNCHANGED request
      BY <2>1, <3>1 DEF CallsInv, TypeOK, CallOK, TokenOK, SaveToken
    <3>3. CASE Kind(c) = "refresh"
      <4>1. Carried(c) \in Tokens /\ session[Carried(c)] \in Calls
        BY <2>1, <3>2, <3>3 DEF CallsInv, CallOK, Carriers
      <4>2. session' = [session EXCEPT ![t] = session[Carried(c)]]
        BY <3>1, <3>2, <3>3 DEF SaveToken
      <4>3. Begun' = Begun
        BY <2>1, <3>2, <4>1, <4>2, SessionsAssumption DEF CallsInv, TypeOK, Begun
      <4> QED
        BY <2>4, <4>3
    <3>4. CASE Kind(c) = "signIn"
      <4>1. session' = [session EXCEPT ![t] = c]
        BY <3>1, <3>2, <3>4 DEF SaveToken
      <4>2. Begun' = Begun \cup {c} /\ c \notin Begun
        BY <2>1, <3>2, <4>1, SignInIsNew, SessionsAssumption DEF CallsInv, TypeOK, Begun
      <4>3. Active(c)' # {}
        BY <2>1, <3>2, <4>1 DEF CallsInv, TypeOK, Active
      <4>4. ASSUME NEW s \in Begun, Active(s)' = {} PROVE Active(s) = {}
        BY <2>1, <3>2, <4>1, <4>4 DEF CallsInv, TypeOK, Active, Begun
      <4>5. ASSUME NEW s \in Begun, MayRenew(s) PROVE MayRenew(s)'
        <5>1. PICK d \in Calls :
                /\ Kind(d) = "refresh" /\ session[Carried(d)] = s
                /\ \/ pc[d] \in {"account", "find", "revoke"} /\ doc[Carried(d)] # "absent"
                   \/ pc[d] = "save"
          BY <4>5 DEF MayRenew
        <5>2. d # c /\ Carried(d) \in Tokens /\ Carried(d) # t
          BY <2>1, <3>2, <3>4, <5>1 DEF CallsInv, CallOK, Carriers, Begun
        <5>3. pc'[d] = pc[d]
          BY <2>1, <3>1, <5>2, OthersUntouched DEF CallsInv, Serve, Handle
        <5>4. session'[Carried(d)] = s /\ doc'[Carried(d)] = doc[Carried(d)] /\ request'[d] = request[d]
          BY <2>1, <3>2, <4>1, <5>1, <5>2 DEF CallsInv, TypeOK
        <5> QED
          BY <5>1, <5>3, <5>4 DEF MayRenew
      <4>6. over' = over
        BY <2>2, <4>2, <4>3, <4>4, <4>5
      <4>7. Life!Begin(c)
        BY <4>2, <4>6 DEF Life!Begin
      <4> QED
        BY <4>7 DEF Life!Next
    <3> QED
      BY <2>1, <3>2, <3>3, <3>4 DEF CallsInv, CallOK
  <2> QED
    BY <2>3, <2>4
<1> QED
  BY <1>1, <1>2, Invariance, PTL DEF Spec, EndsForGood, Life!Spec
===============================================================================
