---------------------------- MODULE AccountsProofs ----------------------------
(***************************************************************************)
(* What Accounts promises, for every set of calls, profiles, states and    *)
(* addresses, whatever Google reports and whichever steps fail: the unique *)
(* index and the lookups leave no twin accounts, and a state key lets one  *)
(* callback through.                                                       *)
(***************************************************************************)
EXTENDS Accounts, FiniteSetTheorems, TLAPS

Kinds     == {"none", "user", "shop", "google"}
Addresses == Typed \cup Reported \cup {Nothing}
Ended     == {"signedIn", "refused", "lost"}

Requests ==
  [kind : Kinds, profile : Profiles \cup {Nothing}, state : States \cup {Nothing}, email : Addresses]

TypeOK ==
  /\ address \in [Calls -> Addresses]
  /\ linked \in [Calls -> Profiles \cup {Nothing}]
  /\ stateKey \in [States -> {"undrawn", "stored", "gone"}]
  /\ pc \in [Calls -> Steps \cup Ended \cup {"ready"}]
  /\ request \in [Calls -> Requests]
  /\ account \in [Calls -> Calls \cup {Nothing}]
  /\ admitted \subseteq Calls

\* The steps only a callback takes, and those before an account is created.
OfCallback   == {"dropState", "exchange", "profile", "findById", "findByEmail", "saveUser"}
BeforeCreate == OfCallback \cup {"ready", "create"}

\* What the fields of a call say of each other.
CallOK(c) ==
  /\ pc[c] = "ready" => request[c] = NoRequest
  /\ pc[c] \in OfCallback \/ c \in admitted => Kind(c) = "google"
  /\ pc[c] \in {"ready", "dropState"} => c \notin admitted
  /\ Kind(c) = "google" => Profile(c) \in Profiles /\ State(c) \in States
  /\ Kind(c) # "google" => Profile(c) = Nothing /\ State(c) = Nothing
  /\ pc[c] = "create" => Email(c) # Nothing
  /\ pc[c] = "saveUser" => account[c] \in Calls
  /\ pc[c] \in BeforeCreate => address[c] = Nothing
  /\ address[c] # Nothing => address[c] = Email(c)

CallsInv == TypeOK /\ \A c \in Calls : CallOK(c)

\* The unique index: one account per address in a collection.
OneIndexed ==
  \A a, b \in Calls :
    /\ address[a] # Nothing /\ address[b] = address[a]
    /\ Collection(Kind(a)) = Collection(Kind(b))
    => a = b

\* Callbacks of one profile that are under way together are on record.
CrowdNoted ==
  \A c, d \in Calls :
    UnderWay(c) /\ UnderWay(d) /\ c # d /\ Profile(c) \in Profiles /\ Profile(c) = Profile(d)
    => Profile(c) \in crowded

\* A callback that looked its profile up and found none is the only one to link it.
MayLink(c) == pc[c] \in {"findByEmail", "saveUser", "create"}

OneLinked ==
  \A g \in Profiles \ crowded :
    /\ \A c \in Calls : MayLink(c) /\ Profile(c) = g => LinkedTo(g) = {}
    /\ \A a, b \in LinkedTo(g) : a = b

\* A state whose key a callback has deleted stays gone.
SpentIsGone == \A c \in admitted : stateKey[State(c)] = "gone"

\* Callbacks that are about to delete the same key are on record, and one that is alone
\* with a key is the first.
OneAdmitted ==
  \A s \in States \ raced :
    /\ \A c, d \in Calls :
         pc[c] = "dropState" /\ pc[d] = "dropState" /\ State(c) = s /\ State(d) = s => c = d
    /\ \A c \in Calls, d \in admitted : pc[c] = "dropState" /\ State(c) = s => State(d) # s
    /\ \A c, d \in admitted : State(c) = s /\ State(d) = s => c = d

IInv == CallsInv /\ OneIndexed /\ CrowdNoted /\ OneLinked /\ SpentIsGone /\ OneAdmitted

USE DEF Goto, UnderWay, Kind, Profile, State, Email, documents, history

-----------------------------------------------------------------------------
\* A set whose elements are all equal has at most one.
LEMMA AtMostOne ==
  ASSUME NEW S, \A x, y \in S : x = y
  PROVE  Cardinality(S) <= 1
<1>1. CASE S = {}
  BY <1>1, FS_EmptySet
<1>2. CASE S # {}
  <2>1. PICK x \in S : S = {x}
    BY <1>2
  <2> QED
    BY <2>1, FS_Singleton
<1> QED
  BY <1>1, <1>2

\* What Google reports is among the addresses.
LEMMA ReportedType ==
  ASSUME NEW g \in Profiles
  PROVE  ReportedOf[g] \subseteq Addresses
BY DEF Addresses, Reported

\* A step of one call leaves what the others carry alone.
LEMMA OthersUntouched ==
  ASSUME TypeOK, NEW c \in Calls, Serve(c), NEW d \in Calls, d # c
  PROVE  pc'[d] = pc[d] /\ request'[d] = request[d] /\ account'[d] = account[d]
         /\ address'[d] = address[d] /\ (d \in admitted' <=> d \in admitted)
<1>1. CASE SignUp(c, "user") \/ SignUp(c, "shop") \/ Callback(c)
  BY <1>1 DEF TypeOK, SignUp, Callback
<1>2. CASE DropState(c) \/ Exchange(c) \/ GetProfile(c) \/ SaveUser(c) \/ SaveToken(c) \/ CallThrows(c)
  BY <1>2 DEF TypeOK, DropState, Exchange, GetProfile, SaveUser, SaveToken, CallThrows
<1>3. CASE FindById(c) \/ FindByEmail(c) \/ Create(c)
  BY <1>3 DEF TypeOK, FindById, FindByEmail, Create
<1> QED
  BY <1>1, <1>2, <1>3 DEF Serve

-----------------------------------------------------------------------------
(* Types, and what the fields of a call say of each other.                  *)

LEMMA CallsInit == Init => CallsInv
BY AccountsAssumption
   DEF Init, CallsInv, TypeOK, CallOK, Requests, NoRequest, Kinds, Addresses, OfCallback, BeforeCreate, Steps

LEMMA SignUpCallsInv ==
  ASSUME CallsInv, NEW c \in Calls, NEW kind \in {"user", "shop"}, SignUp(c, kind)
  PROVE  CallsInv'
<1>1. PICK e \in Typed :
        /\ request' = [request EXCEPT ![c] = [NoRequest EXCEPT !.kind = kind, !.email = e]]
        /\ Goto(c, "create") \/ Goto(c, "refused")
  BY DEF SignUp
<1>2. /\ pc[c] = "ready" /\ e # Nothing
      /\ UNCHANGED <<documents, stateKey, account, history>>
  BY AccountsAssumption DEF SignUp
<1>3. TypeOK'
  BY <1>1, <1>2 DEF CallsInv, TypeOK, Requests, NoRequest, Kinds, Addresses, Steps, Ended
<1>4. CallOK(c)'
  BY <1>1, <1>2 DEF CallsInv, TypeOK, CallOK, NoRequest, OfCallback, BeforeCreate
<1>5. ASSUME NEW d \in Calls, d # c PROVE CallOK(d)'
  BY <1>5, OthersUntouched DEF CallsInv, CallOK, Serve
<1> QED
  BY <1>3, <1>4, <1>5 DEF CallsInv

LEMMA CallbackCallsInv ==
  ASSUME CallsInv, NEW c \in Calls, Callback(c)
  PROVE  CallsInv'
<1>1. PICK g \in Profiles, s \in States :
        /\ request' = [request EXCEPT ![c] =
                          [NoRequest EXCEPT !.kind = "google", !.profile = g, !.state = s]]
        /\ Goto(c, "dropState") \/ Goto(c, "refused")
  BY DEF Callback
<1>2. pc[c] = "ready" /\ UNCHANGED <<documents, stateKey, account, admitted>>
  BY DEF Callback
<1>3. TypeOK'
  BY <1>1, <1>2 DEF CallsInv, TypeOK, Requests, NoRequest, Kinds, Addresses, Steps, Ended
<1>4. CallOK(c)'
  BY <1>1, <1>2 DEF CallsInv, TypeOK, CallOK, NoRequest, OfCallback, BeforeCreate
<1>5. ASSUME NEW d \in Calls, d # c PROVE CallOK(d)'
  BY <1>5, OthersUntouched DEF CallsInv, CallOK, Serve
<1> QED
  BY <1>3, <1>4, <1>5 DEF CallsInv

LEMMA ServeCallsInv ==
  ASSUME CallsInv, NEW c \in Calls,
         \/ DropState(c) \/ Exchange(c) \/ GetProfile(c) \/ FindById(c) \/ FindByEmail(c)
         \/ SaveUser(c) \/ Create(c) \/ SaveToken(c) \/ CallThrows(c)
  PROVE  CallsInv'
<1>1. TypeOK' /\ CallOK(c)'
  <2>1. CASE DropState(c)
    BY <2>1 DEF CallsInv, TypeOK, CallOK, DropState, WithoutState, OfCallback, BeforeCreate, Steps, Ended
  <2>2. CASE Exchange(c) \/ SaveToken(c)
    BY <2>2 DEF CallsInv, TypeOK, CallOK, Exchange, SaveToken, OfCallback, BeforeCreate, Steps, Ended
  <2>3. CASE GetProfile(c)
    <3>1. PICK e \in ReportedOf[Profile(c)] :
            \/ e # Nothing /\ request' = [request EXCEPT ![c].email = e] /\ Goto(c, "findById")
            \/ Goto(c, "refused") /\ UNCHANGED request
      BY <2>3 DEF GetProfile
    <3>2. Profile(c) \in Profiles /\ address[c] = Nothing /\ e \in Addresses
      BY <2>3, <3>1, ReportedType DEF CallsInv, CallOK, GetProfile, OfCallback, BeforeCreate
    <3>3. /\ pc[c] = "profile" /\ pc'[c] \in {"findById", "refused"} /\ pc' = [pc EXCEPT ![c] = pc'[c]]
          /\ UNCHANGED <<documents, stateKey, account, admitted>>
      BY <2>3, <3>1 DEF CallsInv, TypeOK, GetProfile
    <3>4. request' \in [Calls -> Requests]
      BY <3>1, <3>2 DEF CallsInv, TypeOK, Requests
    <3>5. TypeOK'
      BY <3>3, <3>4 DEF CallsInv, TypeOK, Steps, Ended
    <3>6. CallOK(c)'
      BY <3>1, <3>2, <3>3 DEF CallsInv, TypeOK, CallOK, Requests, OfCallback, BeforeCreate, Ended
    <3> QED
      BY <3>5, <3>6
  <2>4. CASE FindById(c)
    BY <2>4 DEF CallsInv, TypeOK, CallOK, FindById, FoundById, LinkedTo, OfCallback, BeforeCreate, Steps, Ended
  <2>5. CASE FindByEmail(c)
    <3>1. WithEmail("google", Email(c)) = {} => Email(c) # Nothing
      BY <2>5 DEF CallsInv, CallOK, FindByEmail, WithEmail, OfCallback, BeforeCreate
    <3> QED
      BY <2>5, <3>1
         DEF CallsInv, TypeOK, CallOK, FindByEmail, WithEmail, OfCallback, BeforeCreate, Steps, Ended
  <2>6. CASE SaveUser(c)
    BY <2>6 DEF CallsInv, TypeOK, CallOK, SaveUser, OfCallback, BeforeCreate, Steps, Ended
  <2>7. CASE Create(c)
    <3>1. Email(c) \in Addresses /\ Email(c) # Nothing /\ Profile(c) \in Profiles \cup {Nothing}
      BY <2>7 DEF CallsInv, TypeOK, CallOK, Create, Requests
    <3>2. TypeOK'
      BY <2>7, <3>1 DEF CallsInv, TypeOK, Create, Steps, Ended
    <3>3. CallOK(c)'
      BY <2>7, <3>1 DEF CallsInv, TypeOK, CallOK, Create, OfCallback, BeforeCreate
    <3> QED
      BY <3>2, <3>3
  <2>8. CASE CallThrows(c)
    BY <2>8, AccountsAssumption
       DEF CallsInv, TypeOK, CallOK, CallThrows, OfCallback, BeforeCreate, Steps, Ended
  <2> QED
    BY <2>1, <2>2, <2>3, <2>4, <2>5, <2>6, <2>7, <2>8
<1>2. ASSUME NEW d \in Calls, d # c PROVE CallOK(d)'
  BY <1>2, OthersUntouched DEF CallsInv, CallOK, Serve
<1> QED
  BY <1>1, <1>2 DEF CallsInv

LEMMA CallsStep ==
  ASSUME CallsInv, [Next]_vars
  PROVE  CallsInv'
<1>1. CASE UNCHANGED vars
  BY <1>1 DEF CallsInv, TypeOK, CallOK, vars
<1>2. CASE Crash
  BY <1>2 DEF CallsInv, TypeOK, CallOK, Crash, OfCallback, BeforeCreate, Steps, Ended
<1>3. ASSUME NEW s \in States, DrawState(s) \/ StateExpires(s) PROVE CallsInv'
  BY <1>3 DEF CallsInv, TypeOK, CallOK, DrawState, StateExpires
<1> QED
  BY <1>1, <1>2, <1>3, SignUpCallsInv, CallbackCallsInv, ServeCallsInv DEF Next, Serve, Quiet

-----------------------------------------------------------------------------
(* Which accounts have an address.                                          *)

\* An address is only set by the call that creates the account, and then for good.
LEMMA AddressStep ==
  ASSUME CallsInv, [Next]_vars
  PROVE  \/ /\ UNCHANGED address
            /\ \A a \in Calls : address[a] # Nothing => request'[a] = request[a]
         \/ \E c \in Calls :
              /\ Create(c)
              /\ WithEmail(Kind(c), Email(c)) = {}
              /\ address' = [address EXCEPT ![c] = Email(c)]
              /\ UNCHANGED request
<1>1. CASE \E c \in Calls : Create(c)
  BY <1>1 DEF Create
<1>2. ASSUME NEW c \in Calls,
             \/ SignUp(c, "user") \/ SignUp(c, "shop") \/ Callback(c) \/ DropState(c) \/ Exchange(c)
             \/ GetProfile(c) \/ FindById(c) \/ FindByEmail(c) \/ SaveUser(c) \/ SaveToken(c)
             \/ CallThrows(c)
      PROVE  /\ UNCHANGED address
             /\ \A a \in Calls : address[a] # Nothing => request'[a] = request[a]
  <2>1. UNCHANGED address /\ Serve(c)
    BY <1>2 DEF Serve, SignUp, Callback, DropState, Exchange, GetProfile, FindById, FindByEmail, SaveUser,
       SaveToken, CallThrows
  <2>2. ASSUME NEW a \in Calls, address[a] # Nothing PROVE request'[a] = request[a]
    <3>1. a # c => request'[a] = request[a]
      BY <2>1, OthersUntouched DEF CallsInv
    <3>2. pc[a] \notin {"ready", "profile"}
      BY <2>2 DEF CallsInv, CallOK, BeforeCreate, OfCallback
    <3>3. a = c => UNCHANGED request
      BY <1>2, <3>2 DEF SignUp, Callback, DropState, Exchange, GetProfile, FindById, FindByEmail, SaveUser,
         SaveToken, CallThrows
    <3> QED
      BY <3>1, <3>3
  <2> QED
    BY <2>1, <2>2
<1>3. CASE UNCHANGED <<address, request>>
  BY <1>3
<1> QED
  BY <1>1, <1>2, <1>3 DEF Next, Serve, DrawState, StateExpires, Crash, Quiet, vars

LEMMA IndexStep ==
  ASSUME CallsInv, OneIndexed, [Next]_vars
  PROVE  OneIndexed'
<1> SUFFICES ASSUME NEW a \in Calls, NEW b \in Calls, address'[a] # Nothing, address'[b] = address'[a],
                    Collection(Kind(a))' = Collection(Kind(b))'
             PROVE  a = b
  BY DEF OneIndexed
<1>1. CASE UNCHANGED address /\ \A e \in Calls : address[e] # Nothing => request'[e] = request[e]
  BY <1>1 DEF OneIndexed, Collection
<1>2. ASSUME NEW c \in Calls, WithEmail(Kind(c), Email(c)) = {},
             address' = [address EXCEPT ![c] = Email(c)], UNCHANGED request
      PROVE  a = b
  <2>1. CASE a = c /\ b # c
    BY <1>2, <2>1 DEF CallsInv, TypeOK, WithEmail, Collection
  <2>2. CASE a # c /\ b = c
    BY <1>2, <2>2 DEF CallsInv, TypeOK, WithEmail, Collection
  <2>3. CASE a # c /\ b # c
    BY <1>2, <2>3 DEF CallsInv, TypeOK, OneIndexed, Collection
  <2> QED
    BY <2>1, <2>2, <2>3
<1> QED
  BY <1>1, <1>2, AddressStep

-----------------------------------------------------------------------------
(* Which accounts are linked.                                               *)

\* A callback that joins others of its profile is put on record.
LEMMA CrowdStep ==
  ASSUME CallsInv, CrowdNoted, [Next]_vars
  PROVE  CrowdNoted' /\ crowded \subseteq crowded'
<1>1. crowded \subseteq crowded'
  BY DEF Next, Serve, SignUp, Callback, DropState, Exchange, GetProfile, FindById, FindByEmail, SaveUser,
     Create, SaveToken, CallThrows, DrawState, StateExpires, Crash, Quiet, vars
<1> SUFFICES ASSUME NEW c \in Calls, NEW d \in Calls, UnderWay(c)', UnderWay(d)', c # d,
                    Profile(c)' \in Profiles, Profile(c)' = Profile(d)'
             PROVE  Profile(c)' \in crowded'
  BY <1>1 DEF CrowdNoted
<1>2. ASSUME NEW e \in Calls, pc'[e] \in Steps, Profile(e)' \in Profiles
      PROVE  Callback(e) \/ (UnderWay(e) /\ Profile(e)' = Profile(e))
  <2>1. ASSUME NEW b \in Calls, Serve(b), b # e PROVE UnderWay(e) /\ Profile(e)' = Profile(e)
    BY <1>2, <2>1, OthersUntouched DEF CallsInv
  <2>2. ASSUME NEW kind, SignUp(e, kind) PROVE FALSE
    BY <1>2, <2>2, AccountsAssumption DEF CallsInv, TypeOK, SignUp, NoRequest
  <2>3. CASE Exchange(e) \/ DropState(e) \/ FindById(e) \/ FindByEmail(e) \/ SaveUser(e) \/ Create(e)
             \/ SaveToken(e) \/ CallThrows(e)
    BY <2>3, AccountsAssumption DEF Exchange, DropState, FindById, FindByEmail, SaveUser, Create, SaveToken,
       CallThrows, Steps
  <2>4. CASE GetProfile(e)
    BY <2>4 DEF CallsInv, TypeOK, GetProfile, Steps, Requests
  <2>5. CASE UNCHANGED <<pc, request>> \/ Crash
    BY <1>2, <2>5 DEF CallsInv, TypeOK, Crash, Steps
  <2> QED
    BY <2>1, <2>2, <2>3, <2>4, <2>5 DEF Next, Serve, DrawState, StateExpires, Quiet, vars
<1>3. ASSUME NEW e \in Calls, NEW b \in Calls, Callback(e), b # e, UnderWay(e)',
             UnderWay(b)', Profile(e)' = Profile(b)', Profile(e)' \in Profiles
      PROVE  Profile(e)' \in crowded'
  <2>1. Serve(e) /\ UnderWay(b) /\ Profile(b)' = Profile(b)
    BY <1>3, OthersUntouched DEF CallsInv, Serve
  <2>2. PICK g \in Profiles :
          /\ Profile(e)' = g
          /\ \/ crowded' = crowded \cup {Profile(x) : x \in {y \in Calls :
                                           UnderWay(y) /\ Profile(y) = g}}
             \/ pc'[e] = "refused"
    BY <1>3 DEF CallsInv, TypeOK, Callback
  <2> QED
    BY <1>3, <2>1, <2>2 DEF Steps
<1>4. CASE Callback(c)
  BY <1>3, <1>4
<1>5. CASE Callback(d)
  BY <1>3, <1>5
<1>6. CASE ~Callback(c) /\ ~Callback(d)
  BY <1>1, <1>2, <1>6 DEF CrowdNoted
<1> QED
  BY <1>1, <1>4, <1>5, <1>6

\* A profile gets at most one account more in a step, from a callback that may link it.
LEMMA LinksStep ==
  ASSUME CallsInv, [Next]_vars
  PROVE  \/ \A g \in Profiles : LinkedTo(g)' \subseteq LinkedTo(g)
         \/ \E c, a \in Calls :
              /\ MayLink(c) /\ ~MayLink(c)'
              /\ \A g \in Profiles :
                   LinkedTo(g)' \subseteq LinkedTo(g) \cup (IF Profile(c) = g THEN {a} ELSE {})
<1>1. ASSUME NEW c \in Calls, SaveUser(c)
      PROVE  \E a \in Calls : \A g \in Profiles :
               LinkedTo(g)' \subseteq LinkedTo(g) \cup (IF Profile(c) = g THEN {a} ELSE {})
  <2>1. account[c] \in Calls
    BY <1>1 DEF CallsInv, CallOK, SaveUser
  <2>2. \A g \in Profiles :
          LinkedTo(g)' \subseteq LinkedTo(g) \cup (IF Profile(c) = g THEN {account[c]} ELSE {})
    BY <1>1 DEF CallsInv, TypeOK, SaveUser, LinkedTo
  <2> QED
    BY <2>1, <2>2
<1>2. ASSUME NEW c \in Calls, Create(c)
      PROVE  \A g \in Profiles :
               LinkedTo(g)' \subseteq LinkedTo(g) \cup (IF Profile(c) = g THEN {c} ELSE {})
  BY <1>2 DEF CallsInv, TypeOK, Create, LinkedTo
<1>3. ASSUME NEW c \in Calls, SaveUser(c) \/ Create(c)
      PROVE  MayLink(c) /\ ~MayLink(c)'
  BY <1>3 DEF CallsInv, TypeOK, SaveUser, Create, MayLink
<1>4. CASE UNCHANGED <<address, linked>>
  BY <1>4 DEF LinkedTo
<1>5. CASE \E c \in Calls : SaveUser(c)
  BY <1>1, <1>3, <1>5
<1>6. CASE \E c \in Calls : Create(c)
  BY <1>2, <1>3, <1>6
<1>7. ASSUME \A c \in Calls : ~SaveUser(c) /\ ~Create(c)
      PROVE  UNCHANGED <<address, linked>>
  BY <1>7 DEF Next, Serve, SignUp, Callback, DropState, Exchange, GetProfile, FindById, FindByEmail, SaveToken,
     CallThrows, DrawState, StateExpires, Crash, Quiet, vars
<1> QED
  BY <1>4, <1>5, <1>6, <1>7

\* A call comes to where it may link a profile by having found no account of it.
LEMMA ComesToLink ==
  ASSUME CallsInv, [Next]_vars, NEW c \in Calls, MayLink(c)', Profile(c)' \in Profiles
  PROVE  /\ Profile(c)' = Profile(c) /\ UnderWay(c)
         /\ MayLink(c) \/ LinkedTo(Profile(c)) = {}
<1> USE DEF Steps
<1>1. ASSUME NEW b \in Calls, Serve(b), b # c
      PROVE  MayLink(c) /\ UnderWay(c) /\ Profile(c)' = Profile(c)
  BY <1>1, OthersUntouched DEF CallsInv, MayLink
<1>2. ASSUME NEW kind, SignUp(c, kind) PROVE FALSE
  BY <1>2, AccountsAssumption DEF CallsInv, TypeOK, SignUp, NoRequest
<1>3. CASE FindById(c)
  BY <1>3 DEF CallsInv, TypeOK, FindById, FoundById, MayLink
<1>4. CASE FindByEmail(c) \/ SaveUser(c) \/ Create(c)
  BY <1>4 DEF FindByEmail, SaveUser, Create, MayLink
<1>5. ASSUME Callback(c) \/ DropState(c) \/ Exchange(c) \/ GetProfile(c) \/ SaveToken(c) \/ CallThrows(c)
      PROVE  FALSE
  BY <1>5 DEF CallsInv, TypeOK, Callback, DropState, Exchange, GetProfile, SaveToken, CallThrows, MayLink
<1>6. CASE UNCHANGED <<pc, request>> \/ Crash
  BY <1>6 DEF CallsInv, TypeOK, Crash, MayLink
<1> QED
  BY <1>1, <1>2, <1>3, <1>4, <1>5, <1>6 DEF Next, Serve, DrawState, StateExpires, Quiet, vars

LEMMA LinkStep ==
  ASSUME CallsInv, CrowdNoted, OneLinked, [Next]_vars
  PROVE  OneLinked'
<1> SUFFICES ASSUME NEW g \in Profiles, g \notin crowded'
             PROVE  /\ \A c \in Calls : MayLink(c)' /\ Profile(c)' = g => LinkedTo(g)' = {}
                    /\ \A a, b \in LinkedTo(g)' : a = b
  BY DEF OneLinked
<1>1. g \notin crowded
  BY CrowdStep
<1>2. ASSUME NEW c \in Calls, MayLink(c)', Profile(c)' = g
      PROVE  Profile(c) = g /\ LinkedTo(g) = {}
  BY <1>1, <1>2, ComesToLink DEF OneLinked
<1>3. CASE LinkedTo(g)' \subseteq LinkedTo(g)
  BY <1>1, <1>2, <1>3 DEF OneLinked
<1>4. ASSUME NEW c \in Calls, NEW a \in Calls, MayLink(c), ~MayLink(c)', Profile(c) = g,
             LinkedTo(g)' \subseteq LinkedTo(g) \cup {a}
      PROVE  /\ \A d \in Calls : ~(MayLink(d)' /\ Profile(d)' = g)
             /\ \A x, y \in LinkedTo(g)' : x = y
  <2>1. LinkedTo(g) = {}
    BY <1>1, <1>4 DEF OneLinked
  <2>2. ASSUME NEW d \in Calls, MayLink(d)', Profile(d)' = g PROVE FALSE
    <3>1. d # c /\ UnderWay(c)
      BY <1>4, <2>2 DEF MayLink, Steps
    <3>2. Profile(d) = g /\ UnderWay(d)
      BY <2>2, ComesToLink
    <3> QED
      BY <1>1, <1>4, <3>1, <3>2 DEF CrowdNoted
  <2> QED
    BY <1>4, <2>1, <2>2
<1> QED
  BY <1>3, <1>4, LinksStep

-----------------------------------------------------------------------------
(* Which states are spent.                                                  *)

\* A callback that has deleted its key carries the same state for good.
LEMMA AdmittedKeepState ==
  ASSUME CallsInv, [Next]_vars, NEW d \in admitted
  PROVE  d \in Calls /\ State(d)' = State(d)
<1>1. d \in Calls /\ Kind(d) = "google" /\ pc[d] # "ready"
  BY DEF CallsInv, TypeOK, CallOK
<1>2. ASSUME NEW b \in Calls, Serve(b), b # d PROVE State(d)' = State(d)
  BY <1>1, <1>2, OthersUntouched DEF CallsInv
<1>3. CASE Serve(d)
  <2>1. CASE GetProfile(d)
    BY <1>1, <2>1 DEF CallsInv, TypeOK, Requests, GetProfile
  <2>2. ~SignUp(d, "user") /\ ~SignUp(d, "shop") /\ ~Callback(d)
    BY <1>1 DEF SignUp, Callback
  <2>3. CASE DropState(d) \/ Exchange(d) \/ FindById(d) \/ FindByEmail(d) \/ SaveUser(d) \/ Create(d)
             \/ SaveToken(d) \/ CallThrows(d)
    BY <1>1, <2>3 DEF DropState, Exchange, FindById, FindByEmail, SaveUser, Create, SaveToken, CallThrows
  <2> QED
    BY <1>3, <2>1, <2>2, <2>3 DEF Serve
<1> QED
  BY <1>1, <1>2, <1>3 DEF Next, DrawState, StateExpires, Crash, Quiet, vars

LEMMA SpentStep ==
  ASSUME CallsInv, SpentIsGone, [Next]_vars
  PROVE  SpentIsGone'
<1> SUFFICES ASSUME NEW d \in admitted' PROVE stateKey'[State(d)'] = "gone"
  BY DEF SpentIsGone
<1>1. ASSUME NEW s \in States, stateKey[s] = "gone" PROVE stateKey'[s] = "gone"
  BY <1>1 DEF CallsInv, TypeOK, Next, Serve, SignUp, Callback, DropState, WithoutState, Exchange, GetProfile,
     FindById, FindByEmail, SaveUser, Create, SaveToken, CallThrows, DrawState, StateExpires, Crash, Quiet, vars
<1>2. ASSUME d \in admitted
      PROVE  State(d)' = State(d) /\ State(d) \in States /\ stateKey[State(d)] = "gone"
  BY <1>2, AdmittedKeepState DEF CallsInv, CallOK, SpentIsGone
<1>3. CASE d \in admitted
  BY <1>1, <1>2, <1>3
<1>4. CASE d \notin admitted
  <2>1. d \in Calls /\ DropState(d)
    BY <1>4 DEF Next, Serve, SignUp, Callback, DropState, Exchange, GetProfile, FindById, FindByEmail,
       SaveUser, Create, SaveToken, CallThrows, DrawState, StateExpires, Crash, Quiet, vars
  <2>2. State(d) \in States /\ UNCHANGED request
    BY <2>1 DEF CallsInv, CallOK, DropState, OfCallback
  <2> QED
    BY <2>1, <2>2 DEF CallsInv, TypeOK, DropState, WithoutState
<1> QED
  BY <1>3, <1>4

\* A call comes to a key by finding it stored, and joins those on record if others are at it.
LEMMA ComesToKey ==
  ASSUME CallsInv, [Next]_vars, NEW c \in Calls, pc'[c] = "dropState"
  PROVE  \/ pc[c] = "dropState" /\ State(c)' = State(c)
         \/ /\ pc[c] = "ready" /\ stateKey[State(c)'] = "stored" /\ Serve(c) /\ c \notin admitted
            /\ UNCHANGED admitted
            /\ \A d \in Calls : pc[d] = "dropState" /\ State(d) = State(c)' => State(c)' \in raced'
<1>1. ASSUME NEW b \in Calls, Serve(b), b # c PROVE pc[c] = "dropState" /\ State(c)' = State(c)
  BY <1>1, OthersUntouched DEF CallsInv
<1>2. CASE Callback(c)
  <2>1. PICK g \in Profiles, s \in States :
          /\ request' = [request EXCEPT ![c] =
                            [NoRequest EXCEPT !.kind = "google", !.profile = g, !.state = s]]
          /\ stateKey[s] = "stored"
          /\ raced' = raced \cup {State(d) : d \in {e \in Calls : pc[e] = "dropState" /\ State(e) = s}}
    <3>1. pc' # [pc EXCEPT ![c] = "refused"]
      BY DEF CallsInv, TypeOK
    <3> QED
      BY <1>2, <3>1 DEF Callback
  <2>2. State(c)' = s
    BY <2>1 DEF CallsInv, TypeOK, NoRequest
  <2>3. pc[c] = "ready" /\ Serve(c) /\ c \notin admitted /\ UNCHANGED admitted
    BY <1>2 DEF CallsInv, CallOK, Callback, Serve
  <2> QED
    BY <2>1, <2>2, <2>3
<1>3. ASSUME \/ (\E kind \in {"user", "shop"} : SignUp(c, kind)) \/ DropState(c) \/ Exchange(c) \/ GetProfile(c)
             \/ FindById(c) \/ FindByEmail(c) \/ SaveUser(c) \/ Create(c) \/ SaveToken(c) \/ CallThrows(c)
      PROVE  FALSE
  BY <1>3 DEF CallsInv, TypeOK, SignUp, DropState, Exchange, GetProfile, FindById, FindByEmail, SaveUser, Create,
     SaveToken, CallThrows
<1>4. CASE UNCHANGED <<pc, request>> \/ Crash
  BY <1>4 DEF CallsInv, TypeOK, Crash
<1> QED
  BY <1>1, <1>2, <1>3, <1>4 DEF Next, Serve, DrawState, StateExpires, Quiet, vars

LEMMA AdmitStep ==
  ASSUME CallsInv, SpentIsGone, OneAdmitted, [Next]_vars
  PROVE  OneAdmitted'
<1> SUFFICES ASSUME NEW s \in States, s \notin raced'
             PROVE  /\ \A c, d \in Calls : pc'[c] = "dropState" /\ pc'[d] = "dropState"
                                           /\ State(c)' = s /\ State(d)' = s => c = d
                    /\ \A c \in Calls, d \in admitted' : pc'[c] = "dropState" /\ State(c)' = s => State(d)' # s
                    /\ \A c, d \in admitted' : State(c)' = s /\ State(d)' = s => c = d
  BY DEF OneAdmitted
<1>1. s \notin raced
  BY DEF Next, Serve, SignUp, Callback, DropState, Exchange, GetProfile, FindById, FindByEmail, SaveUser,
     Create, SaveToken, CallThrows, DrawState, StateExpires, Crash, Quiet, vars
<1>2. ASSUME NEW c \in Calls, NEW d \in Calls, pc'[c] = "dropState", pc'[d] = "dropState",
             State(c)' = s, State(d)' = s, c # d
      PROVE  FALSE
  <2>1. ASSUME NEW a \in Calls, NEW b \in Calls, a # b, pc'[a] = "dropState", pc'[b] = "dropState",
               State(a)' = s, State(b)' = s, pc[a] # "dropState"
        PROVE  FALSE
    <3>1. Serve(a) /\ \A e \in Calls : pc[e] = "dropState" => State(e) # s
      BY <2>1, ComesToKey
    <3>2. pc[b] = "dropState" /\ State(b) = s
      BY <2>1, <3>1, OthersUntouched DEF CallsInv
    <3> QED
      BY <3>1, <3>2
  <2>2. pc[c] = "dropState" /\ pc[d] = "dropState"
    BY <1>2, <2>1
  <2>3. State(c) = s /\ State(d) = s
    BY <1>2, <2>2, ComesToKey
  <2> QED
    BY <1>1, <1>2, <2>2, <2>3 DEF OneAdmitted
<1>3. ASSUME NEW d \in admitted
      PROVE  d \in Calls /\ State(d)' = State(d)
  BY <1>3, AdmittedKeepState
<1>4. ASSUME NEW d \in admitted', d \notin admitted
      PROVE  /\ d \in Calls /\ pc[d] = "dropState" /\ State(d)' = State(d)
             /\ admitted' = admitted \cup {d}
             /\ \A c \in Calls : pc'[c] = "dropState" => c # d /\ pc[c] = "dropState" /\ State(c)' = State(c)
  <2>1. d \in Calls /\ DropState(d)
    BY <1>4 DEF Next, Serve, SignUp, Callback, DropState, Exchange, GetProfile, FindById, FindByEmail,
       SaveUser, Create, SaveToken, CallThrows, DrawState, StateExpires, Crash, Quiet, vars
  <2> QED
    BY <2>1 DEF CallsInv, TypeOK, DropState
<1>5. ASSUME NEW c \in Calls, NEW d \in admitted', pc'[c] = "dropState", State(c)' = s, State(d)' = s
      PROVE  FALSE
  <2>1. CASE d \in admitted
    <3>1. stateKey[s] = "gone"
      BY <1>3, <1>5, <2>1 DEF SpentIsGone
    <3>2. pc[c] = "dropState" /\ State(c) = s
      BY <1>5, <3>1, ComesToKey
    <3> QED
      BY <1>1, <1>3, <1>5, <2>1, <3>2 DEF OneAdmitted
  <2>2. CASE d \notin admitted
    BY <1>1, <1>4, <1>5, <2>2 DEF OneAdmitted
  <2> QED
    BY <2>1, <2>2
<1>6. ASSUME NEW c \in admitted', NEW d \in admitted', State(c)' = s, State(d)' = s, c # d
      PROVE  FALSE
  <2>1. CASE c \in admitted /\ d \in admitted
    BY <1>1, <1>3, <1>6, <2>1 DEF OneAdmitted
  <2>2. ASSUME NEW a \in admitted', NEW b \in admitted', State(a)' = s, State(b)' = s, a # b, a \notin admitted
        PROVE  FALSE
    BY <1>1, <1>3, <1>4, <2>2 DEF OneAdmitted
  <2> QED
    BY <1>6, <2>1, <2>2
<1> QED
  BY <1>2, <1>5, <1>6

-----------------------------------------------------------------------------
LEMMA Invariance == Spec => []IInv
<1>1. Init => IInv
  <2> SUFFICES ASSUME Init PROVE OneIndexed /\ CrowdNoted /\ OneLinked /\ SpentIsGone /\ OneAdmitted
    BY CallsInit DEF IInv
  <2> QED
    BY DEF Init, OneIndexed, CrowdNoted, OneLinked, MayLink, LinkedTo, SpentIsGone, OneAdmitted, Steps
<1>2. IInv /\ [Next]_vars => IInv'
  BY CallsStep, IndexStep, CrowdStep, LinkStep, SpentStep, AdmitStep DEF IInv
<1> QED
  BY <1>1, <1>2, PTL DEF Spec

\* An address has one account in a collection, and a profile of Google one account, unless
\* two callbacks of the profile were handled together (signUp, signUpShop, loginWithGoogle).
THEOREM NoTwins == Spec => []NoTwinAccounts
<1>1. IInv => NoTwinAccounts
  <2> SUFFICES ASSUME IInv PROVE NoTwinAccounts
    OBVIOUS
  <2>1. ASSUME NEW a \in Calls, address[a] # Nothing PROVE WithEmail(Kind(a), address[a]) = {a}
    BY <2>1 DEF IInv, OneIndexed, WithEmail
  <2>2. ASSUME NEW g \in Profiles \ crowded PROVE Cardinality(LinkedTo(g)) <= 1
    BY <2>2, AtMostOne DEF IInv, OneLinked
  <2> QED
    BY <2>1, <2>2 DEF NoTwinAccounts
<1> QED
  BY <1>1, Invariance, PTL

\* The state of one round trip admits one callback, unless a second one had found its key
\* before the first deleted it (loginWithGoogle).
THEOREM StatesAreSpentOnce == Spec => []StateIsSpentOnce
<1>1. IInv => StateIsSpentOnce
  <2> SUFFICES ASSUME IInv, NEW s \in States \ raced
               PROVE  Cardinality({c \in admitted : State(c) = s}) <= 1
    BY DEF StateIsSpentOnce
  <2> QED
    BY AtMostOne DEF IInv, OneAdmitted
<1> QED
  BY <1>1, Invariance, PTL
===============================================================================
