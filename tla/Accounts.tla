------------------------------ MODULE Accounts ------------------------------
(***************************************************************************)
(* How accounts come into being: signUp, signUpShop, and Google sign-in    *)
(* with the state key of its flow.  Every awaited call is one step; a      *)
(* request comes in with its first one, and the hashing of a password      *)
(* belongs to the step that creates the account.                           *)
(*                                                                         *)
(* An account is named by the call that created it.  Google sign-in makes  *)
(* an account active, verified and "google" and gives it its google_id by  *)
(* one write, so what is linked to it, or nothing, says all of the four.   *)
(***************************************************************************)
EXTENDS Naturals, FiniteSets

CONSTANTS
  Calls,
  Profiles,      \* the ids of Google's users
  States,        \* what randomBytes may draw, each once
  Typed,         \* the addresses a sign-up may bring
  ReportedOf,    \* profile -> the addresses Google may report of it, or Nothing
  Failing,       \* the steps whose call may throw
  MayCrash,      \* the process may stop
  Nothing

Steps == {"create", "dropState", "exchange", "profile", "findById", "findByEmail",
          "saveUser", "saveToken"}

Reported  == UNION {ReportedOf[g] : g \in Profiles}

ASSUME AccountsAssumption ==
  /\ ReportedOf \in [Profiles -> SUBSET Reported]
  /\ Nothing \notin Typed \cup Profiles \cup States \cup Calls
  /\ Failing \subseteq Steps
  /\ MayCrash \in BOOLEAN

VARIABLES
  address,   \* account -> the email of its document, or Nothing: there is none
  linked,    \* account -> its google_id, or Nothing
  stateKey,  \* state -> auth:google-oauth:state: "undrawn", "stored", "gone"
  pc,        \* call -> the step it takes next
  request,   \* call -> what it is, its profile and state, and the address it is about
  account,   \* call -> the account it has found or created
  admitted,  \* the callbacks that have deleted their state key (history)
  raced,     \* states that two callbacks found stored before either deleted them (history)
  crowded    \* profiles with two callbacks at one time (history)

documents == <<address, linked>>
history   == <<admitted, raced, crowded>>
vars      == <<documents, stateKey, pc, request, account, history>>

UnderWay(c) == pc[c] \in Steps
Kind(c)     == request[c].kind
Profile(c)  == request[c].profile
State(c)    == request[c].state
Email(c)    == request[c].email

NoRequest == [kind |-> "none", profile |-> Nothing, state |-> Nothing, email |-> Nothing]

Collection(kind) == IF kind = "shop" THEN "Shops" ELSE "Users"

\* The accounts of kind's collection with address e.
WithEmail(kind, e) ==
  {a \in Calls : address[a] = e /\ Collection(Kind(a)) = Collection(kind)}

LinkedTo(g) == {a \in Calls : address[a] # Nothing /\ linked[a] = g}

-----------------------------------------------------------------------------
Init ==
  /\ address = [a \in Calls |-> Nothing]
  /\ linked = [a \in Calls |-> Nothing]
  /\ stateKey = [s \in States |-> "undrawn"]
  /\ pc = [c \in Calls |-> "ready"]
  /\ request = [c \in Calls |-> NoRequest]
  /\ account = [c \in Calls |-> Nothing]
  /\ admitted = {} /\ raced = {} /\ crowded = {}

Goto(c, step) == pc' = [pc EXCEPT ![c] = step]

(* signUp and signUpShop: an address that is taken is refused, and for a     *)
(* user so is a role that is not one.                                        *)
SignUp(c, kind) ==
  /\ pc[c] = "ready"
  /\ \E e \in Typed :
       /\ request' = [request EXCEPT ![c] = [NoRequest EXCEPT !.kind = kind, !.email = e]]
       /\ \/ WithEmail(kind, e) = {} /\ Goto(c, "create")
          \/ (WithEmail(kind, e) # {} \/ kind = "user") /\ Goto(c, "refused")
  /\ UNCHANGED <<documents, stateKey, account, history>>

\* getGoogleAuthorizationUrl.
DrawState(s) ==
  /\ stateKey[s] = "undrawn"
  /\ stateKey' = [stateKey EXCEPT ![s] = "stored"]
  /\ UNCHANGED <<documents, pc, request, account, history>>

StateExpires(s) ==
  /\ stateKey[s] = "stored"
  /\ stateKey' = [stateKey EXCEPT ![s] = "gone"]
  /\ UNCHANGED <<documents, pc, request, account, history>>

(* loginWithGoogle, whose code stands for profile g, up to reading the key.  *)
Callback(c) ==
  /\ pc[c] = "ready"
  /\ \E g \in Profiles, s \in States :
       /\ stateKey[s] # "undrawn"
       /\ request' = [request EXCEPT ![c] =
                        [NoRequest EXCEPT !.kind = "google", !.profile = g, !.state = s]]
       /\ \/ /\ stateKey[s] = "stored"
             /\ Goto(c, "dropState")
             /\ raced' = raced \cup {State(d) : d \in {e \in Calls :
                                       pc[e] = "dropState" /\ State(e) = s}}
             /\ crowded' = crowded \cup {Profile(d) : d \in {e \in Calls :
                                           UnderWay(e) /\ Profile(e) = g}}
          \/ /\ stateKey[s] = "gone"
             /\ Goto(c, "refused")
             /\ UNCHANGED <<raced, crowded>>
  /\ UNCHANGED <<documents, stateKey, account, admitted>>

WithoutState_Kept(s) == stateKey

WithoutState(s) == [stateKey EXCEPT ![s] = "gone"]

DropState(c) ==
  /\ pc[c] = "dropState"
  /\ stateKey' = WithoutState(State(c))
  /\ admitted' = admitted \cup {c}
  /\ Goto(c, "exchange")
  /\ UNCHANGED <<documents, request, account, raced, crowded>>

\* exchangeGoogleAuthorizationCodeForTokens.
Exchange(c) ==
  /\ pc[c] = "exchange"
  /\ Goto(c, "profile")
  /\ UNCHANGED <<documents, stateKey, request, account, history>>

\* getGoogleUserProfile; one without an address is refused.
GetProfile(c) ==
  /\ pc[c] = "profile"
  /\ \E e \in ReportedOf[Profile(c)] :
       \/ /\ e # Nothing
          /\ request' = [request EXCEPT ![c].email = e]
          /\ Goto(c, "findById")
       \/ e = Nothing /\ Goto(c, "refused") /\ UNCHANGED request
  /\ UNCHANGED <<documents, stateKey, account, history>>

FoundById_Never(c) == {}

FoundById(c) == LinkedTo(Profile(c))

FindById(c) ==
  /\ pc[c] = "findById"
  /\ \/ \E a \in FoundById(c) :
          account' = [account EXCEPT ![c] = a] /\ Goto(c, "saveToken")
     \/ FoundById(c) = {} /\ Goto(c, "findByEmail") /\ UNCHANGED account
  /\ UNCHANGED <<documents, stateKey, request, history>>

(* An account that is linked already, be it to another profile, needs no     *)
(* save: the picture is left out.                                            *)
FindByEmail(c) ==
  /\ pc[c] = "findByEmail"
  /\ \/ \E a \in WithEmail("google", Email(c)) :
          /\ account' = [account EXCEPT ![c] = a]
          /\ Goto(c, IF linked[a] = Nothing THEN "saveUser" ELSE "saveToken")
     \/ /\ WithEmail("google", Email(c)) = {}
        /\ Goto(c, "create")
        /\ UNCHANGED account
  /\ UNCHANGED <<documents, stateKey, request, history>>

\* save() writes the paths set on the copy, whatever the document holds by now.
SaveUser(c) ==
  /\ pc[c] = "saveUser"
  /\ linked' = [linked EXCEPT ![account[c]] = Profile(c)]
  /\ Goto(c, "saveToken")
  /\ UNCHANGED <<address, stateKey, request, account, history>>

\* User.create or Shop.create, whose unique index refuses an address that is taken.
Create(c) ==
  /\ pc[c] = "create"
  /\ \/ /\ WithEmail(Kind(c), Email(c)) = {}
        /\ address' = [address EXCEPT ![c] = Email(c)]
        /\ linked' = [linked EXCEPT ![c] = Profile(c)]
        /\ account' = [account EXCEPT ![c] = c]
        /\ Goto(c, "saveToken")
     \/ /\ WithEmail(Kind(c), Email(c)) # {}
        /\ Goto(c, "refused")
        /\ UNCHANGED <<documents, account>>
  /\ UNCHANGED <<stateKey, request, history>>

\* buildAuthResponse.
SaveToken(c) ==
  /\ pc[c] = "saveToken"
  /\ Goto(c, "signedIn")
  /\ UNCHANGED <<documents, stateKey, request, account, history>>

\* A call of MongoDB, Redis or Google throws, or Google answers with an error.
CallThrows(c) ==
  /\ pc[c] \in Failing
  /\ Goto(c, "refused")
  /\ UNCHANGED <<documents, stateKey, request, account, history>>

Crash ==
  /\ MayCrash
  /\ \E c \in Calls : UnderWay(c)
  /\ pc' = [c \in Calls |-> IF UnderWay(c) THEN "lost" ELSE pc[c]]
  /\ UNCHANGED <<documents, stateKey, request, account, history>>

Serve(c) ==
  \/ SignUp(c, "user") \/ SignUp(c, "shop") \/ Callback(c)
  \/ DropState(c) \/ Exchange(c) \/ GetProfile(c) \/ FindById(c) \/ FindByEmail(c)
  \/ SaveUser(c) \/ Create(c) \/ SaveToken(c) \/ CallThrows(c)

Quiet ==
  /\ \A c \in Calls : pc[c] \in {"signedIn", "refused", "lost"}
  /\ UNCHANGED vars

Next ==
  \/ \E c \in Calls : Serve(c)
  \/ \E s \in States : DrawState(s) \/ StateExpires(s)
  \/ Crash
  \/ Quiet

Spec == Init /\ [][Next]_vars

-----------------------------------------------------------------------------
(* Properties.                                                              *)

\* However sign-ups and callbacks overlap, break off or are repeated, an address has one
\* account in a collection, and a profile of Google has one account even when the address
\* that Google reports of it changes, unless two of its callbacks were handled together.
NoTwinAccounts ==
  /\ \A a \in Calls : address[a] # Nothing => WithEmail(Kind(a), address[a]) = {a}
  /\ \A g \in Profiles \ crowded : Cardinality(LinkedTo(g)) <= 1

\* "Google OAuth state is invalid or expired" (access.service.js:180): the state of one
\* round trip lets one callback through, also when deleting it failed the first time,
\* unless a second callback had found it before the first deleted it.
StateIsSpentOnce ==
  \A s \in States \ raced : Cardinality({c \in admitted : State(c) = s}) <= 1
=============================================================================
