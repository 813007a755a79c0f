------------------------------- MODULE Sessions -------------------------------
(***************************************************************************)
(* Refresh tokens: sign-in (every path of AccessService that ends in       *)
(* buildAuthResponse), refreshToken, logout and logoutAll, with the        *)
(* middleware that checks a refresh token before its handler runs and the  *)
(* Token documents of token.service.js.                                    *)
(*                                                                         *)
(* A refresh token is a JWT over an account and the second it is signed    *)
(* in, nothing else, so that pair is what a token is here, and two signed  *)
(* in one second are one token.  MongoDB removes a document some time      *)
(* after its expiresAt, which local-time arithmetic may put before or      *)
(* after the expiry inside the JWT.                                        *)
(***************************************************************************)
EXTENDS Integers, FiniteSets

CONSTANTS
  Accounts,
  Calls,
  LastSecond,   \* bound: the clock stops there
  Lifetime,     \* ticks until the JWT expires (seven days)
  DocLifetime,  \* ticks until its document may be removed
  Failing,      \* the steps whose call may throw
  MayCrash      \* the API process may stop

Steps == {"check", "account", "find", "revoke", "save", "revokeAll"}

ASSUME SessionsAssumption ==
  /\ "none" \notin Calls
  /\ LastSecond \in Nat /\ Lifetime \in Nat \ {0} /\ DocLifetime \in Nat \ {0}
  /\ Failing \subseteq Steps
  /\ MayCrash \in BOOLEAN

Seconds == 0 .. LastSecond
Tokens  == Accounts \X Seconds
NoToken == <<"none">>
NoCall  == [kind |-> "none", account |-> "none", token |-> NoToken]

VARIABLES
  now,      \* the clock, in seconds
  doc,      \* token -> its Token document
  request,  \* call -> kind, account, and the refresh token it carries
  pc,       \* call -> the step it takes next
  minted,   \* call -> the refresh token it has signed
  ended,    \* call -> "none", "ok" or "refused"
  session,  \* token -> the sign-in it descends from (history)
  out,      \* the sign-ins a logout has ended (history)
  late,     \* the calls whose token was revoked before they arrived (history)
  torn,     \* the sign-ins with a refresh that revoked and saved nothing (history)
  doubled   \* the sign-ins with a token two calls carried at the same time (history)

history == <<session, out, late, torn, doubled>>
vars    == <<now, doc, request, pc, minted, ended, history>>

Account(c)  == request[c].account
Carried(c)  == request[c].token
UnderWay(c) == pc[c] \in Steps
Kind(c)     == request[c].kind

Issued == {t \in Tokens : \E c \in Calls : minted[c] = t /\ ended[c] = "ok"}

Active(s) == {t \in Tokens : doc[t] = "active" /\ session[t] = s}

-----------------------------------------------------------------------------
Init ==
  /\ now = 0
  /\ doc = [t \in Tokens |-> "absent"]
  /\ request = [c \in Calls |-> NoCall]
  /\ pc = [c \in Calls |-> "idle"]
  /\ minted = [c \in Calls |-> NoToken]
  /\ ended = [c \in Calls |-> "none"]
  /\ session = [t \in Tokens |-> "none"]
  /\ out = {}
  /\ late = {}
  /\ torn = {}
  /\ doubled = {}

Goto(c, step) == pc' = [pc EXCEPT ![c] = step]

Finish(c, how) == Goto(c, "done") /\ ended' = [ended EXCEPT ![c] = how]

Refuse(c) == Finish(c, "refused") /\ UNCHANGED <<now, doc, request, minted, history>>

\* generateRefreshToken: jsonwebtoken rounds the time of signing down to a second.
SignedAt(a) == <<a, now>>

Sign(c) == minted' = [minted EXCEPT ![c] = SignedAt(Account(c))]

\* A sign-in whose account has been found and whose password or Google profile is right.
SignIn(c) ==
  /\ pc[c] = "idle"
  /\ \E a \in Accounts :
       /\ request' = [request EXCEPT ![c] = [kind |-> "signIn", account |-> a, token |-> NoToken]]
       /\ minted' = [minted EXCEPT ![c] = SignedAt(a)]
  /\ Goto(c, "save")
  /\ UNCHANGED <<now, doc, ended, history>>

Present(c, kind) ==
  /\ pc[c] = "idle"
  /\ \E t \in Issued :
       /\ request' = [request EXCEPT ![c] = [kind |-> kind, account |-> t[1], token |-> t]]
       /\ late' = late \cup {d \in {c} : doc[t] = "blacklisted"}
       /\ doubled' = doubled \cup {session[t] : d \in {e \in Calls : UnderWay(e) /\ Carried(e) = t}}
  /\ Goto(c, "check")
  /\ UNCHANGED <<now, doc, minted, ended, session, out, torn>>

\* authentication needs no database: an access token is good for its fifteen minutes.
AskLogoutAll(c) ==
  /\ pc[c] = "idle"
  /\ \E a \in Accounts :
       request' = [request EXCEPT ![c] = [kind |-> "logoutAll", account |-> a, token |-> NoToken]]
  /\ Goto(c, "revokeAll")
  /\ UNCHANGED <<now, doc, minted, ended, history>>

IsTokenBlacklisted_Never(t) == FALSE

\* A token without a document is not blacklisted.
IsTokenBlacklisted(t) == doc[t] = "blacklisted"

Expired(t) == now >= t[2] + Lifetime

\* verifyRefreshTokenMiddleware.
Check(c) ==
  LET accepted == ~IsTokenBlacklisted(Carried(c)) /\ ~Expired(Carried(c)) IN
  /\ pc[c] = "check"
  /\ \/ /\ accepted
        /\ Goto(c, IF Kind(c) = "refresh" THEN "account" ELSE "find")
        /\ UNCHANGED <<now, doc, request, minted, ended, history>>
     \/ ~accepted /\ Refuse(c)

\* refreshToken looks its account up; nothing deletes accounts.
FindAccount(c) ==
  /\ pc[c] = "account"
  /\ Goto(c, "find")
  /\ UNCHANGED <<now, doc, request, minted, ended, history>>

\* blacklistToken: the lookup does not ask whether the token is already blacklisted.
FindToken(c) ==
  /\ pc[c] = "find"
  /\ \/ /\ doc[Carried(c)] # "absent"
        /\ Goto(c, "revoke")
        /\ UNCHANGED <<now, doc, request, minted, ended, history>>
     \/ doc[Carried(c)] = "absent" /\ Refuse(c)

\* A refresh of s has passed its check and may still save a token.
Refreshing(s) ==
  \E d \in Calls : Kind(d) = "refresh" /\ UnderWay(d) /\ pc[d] # "check" /\ session[Carried(d)] = s

\* The sessions of those calls in C that are between the two saves of a refresh.
TornBy(C) == {session[Carried(d)] : d \in {e \in C : pc[e] = "save" /\ Kind(e) = "refresh"}}

Blacklisted_Kept(c) == doc

Blacklisted(c) == [doc EXCEPT ![Carried(c)] = "blacklisted"]

\* token.save(), and what the handler does with the rest of its turn.
RevokeToken(c) ==
  LET s == session[Carried(c)] IN
  /\ pc[c] = "revoke"
  /\ \/ /\ doc[Carried(c)] # "absent"
        /\ doc' = Blacklisted(c)
        /\ \/ /\ Kind(c) = "refresh"
              /\ Sign(c) /\ Goto(c, "save") /\ UNCHANGED <<ended, out>>
           \/ /\ Kind(c) = "logout"
              /\ Finish(c, "ok") /\ UNCHANGED minted
              /\ out' = out \cup {e \in {s} \ doubled : ~Refreshing(e)}
        /\ UNCHANGED <<now, request, session, late, torn, doubled>>
     \/ doc[Carried(c)] = "absent" /\ Refuse(c)

\* Token.create; a token equal to one stored is refused by the unique index.
SaveToken(c) ==
  LET t == minted[c] IN
  /\ pc[c] = "save"
  /\ \/ /\ doc[t] = "absent"
        /\ doc' = [doc EXCEPT ![t] = "active"]
        /\ session' = [session EXCEPT ![t] = IF Kind(c) = "signIn" THEN c ELSE session[Carried(c)]]
        /\ Finish(c, "ok")
        /\ UNCHANGED torn
     \/ /\ doc[t] # "absent"
        /\ torn' = torn \cup TornBy({c})
        /\ Finish(c, "refused")
        /\ UNCHANGED <<doc, session>>
  /\ UNCHANGED <<now, request, minted, out, late, doubled>>

OwnedBy_First(a) ==
  LET mine == {t \in Tokens : t[1] = a /\ doc[t] = "active"} IN
  {t \in mine : \A u \in mine : t[2] <= u[2]}

OwnedBy(a) == {t \in Tokens : t[1] = a /\ doc[t] = "active"}

\* blacklistAllUserTokens: one updateMany.
RevokeAll(c) ==
  LET begun == {session[t] : t \in {u \in Tokens : u[1] = Account(c) /\ session[u] # "none"}} IN
  /\ pc[c] = "revokeAll"
  /\ doc' = [t \in Tokens |-> IF t \in OwnedBy(Account(c)) THEN "blacklisted" ELSE doc[t]]
  /\ out' = out \cup {s \in begun : ~Refreshing(s)}
  /\ Finish(c, "ok")
  /\ UNCHANGED <<now, request, minted, session, late, torn, doubled>>

\* A call throws and has done nothing.
CallThrows(c) ==
  /\ pc[c] \in Failing
  /\ Finish(c, "refused")
  /\ torn' = torn \cup TornBy({c})
  /\ UNCHANGED <<now, doc, request, minted, session, out, late, doubled>>

Crash ==
  /\ MayCrash
  /\ \E c \in Calls : UnderWay(c)
  /\ pc' = [c \in Calls |-> IF UnderWay(c) THEN "lost" ELSE pc[c]]
  /\ torn' = torn \cup TornBy(Calls)
  /\ UNCHANGED <<now, doc, request, minted, ended, session, out, late, doubled>>

Tick ==
  /\ now < LastSecond
  /\ now' = now + 1
  /\ UNCHANGED <<doc, request, pc, minted, ended, history>>

\* The TTL index on expiresAt.  No call takes as long as a document lives.
Remove(t) ==
  /\ doc[t] # "absent" /\ now >= t[2] + DocLifetime
  /\ \A c \in Calls : pc[c] = "save" => minted[c] # t
  /\ doc' = [doc EXCEPT ![t] = "absent"]
  /\ UNCHANGED <<now, request, pc, minted, ended, history>>

Arrive(c) == SignIn(c) \/ Present(c, "refresh") \/ Present(c, "logout") \/ AskLogoutAll(c)

Handle(c) ==
  \/ Check(c) \/ FindAccount(c) \/ FindToken(c) \/ RevokeToken(c)
  \/ SaveToken(c) \/ RevokeAll(c) \/ CallThrows(c)

Quiet ==
  /\ \A c \in Calls : pc[c] \in {"done", "lost"}
  /\ now = LastSecond
  /\ UNCHANGED vars

Next ==
  \/ \E c \in Calls : Arrive(c) \/ Handle(c)
  \/ \E t \in Tokens : Remove(t)
  \/ Tick
  \/ Crash
  \/ Quiet

Spec == Init /\ [][Next]_vars

-----------------------------------------------------------------------------
(* Properties.                                                              *)

\* "Token has been revoked" (auth/authentication.js:50): a refresh or a logout that
\* arrives after its token was revoked, by whichever call, is refused and signs nothing,
\* also when the document is removed while the call is under way.
RevokedIsRefused ==
  \A c \in late : ended[c] # "ok" /\ minted[c] = NoToken

\* "Logged out from all devices" (services/access.service.js:492), and one device: a
\* session is over for good after its logout or a logoutAll, unless a refresh of it had
\* already passed the check of the middleware.
LoggedOutStaysOut == \A s \in out : Active(s) = {}

\* "JWT auth with refresh token rotation" (README.md:5): a session never has two live
\* tokens, and it keeps one for as long as it is not logged out, no call on it is under
\* way, no refresh broke off between its two saves (lines 517-544) and no document is
\* due for removal; all of this unless two calls carried one of its tokens together.
Undisturbed(s) ==
  LET own == {t \in Tokens : session[t] = s} IN
  /\ own # {} /\ s \notin torn
  /\ \A c \in Calls :
       /\ Kind(c) = "logout" => session[Carried(c)] # s
       /\ Kind(c) = "logoutAll" => \A t \in own : t[1] # Account(c)
       /\ UnderWay(c) => Carried(c) \notin own
  /\ \A t \in own : now < t[2] + DocLifetime

OneTokenPerSession ==
  \A s \in Calls \ doubled :
    /\ Cardinality(Active(s)) <= 1
    /\ Undisturbed(s) => Active(s) # {}

\* A refresh of s that holds a token the server still knows, or has revoked it and is
\* about to save the next one.
MayRenew(s) ==
  \E d \in Calls :
    /\ Kind(d) = "refresh" /\ session[Carried(d)] = s
    /\ \/ pc[d] \in {"account", "find", "revoke"} /\ doc[Carried(d)] # "absent"
       \/ pc[d] = "save"

Begun == {session[t] : t \in Tokens} \ {"none"}

Life == INSTANCE SessionLife
          WITH SignIns <- Calls,
               begun <- Begun,
               over <- {s \in Begun : Active(s) = {} /\ ~MayRenew(s)}

\* A session that has no live token and no refresh under way never has one again: not
\* after a logout, nor after the removal of its documents (models/token.model.js:32) while
\* the JWTs are still good, nor after a refresh that broke off or lost its race.
EndsForGood == Life!Spec
=============================================================================
