---------------------------- MODULE PaymentProofs ----------------------------
(***************************************************************************)
(* What Payment promises, for every set of orders, requests and calls,     *)
(* every step that may throw, with and without crashes.  The cause of a    *)
(* payment needs nothing else; that it is final, and what follows from it, *)
(* is proved for reports that do not contradict each other while they are  *)
(* handled together (~MayDisagree).                                        *)
(***************************************************************************)
EXTENDS Payment, TLAPS

Statuses == {"pending", "requires_action", "paid", "failed"}
Outcomes == {"paid", "failed"}
Answers  == {"none", "refused", "00", "01", "02", "04", "97"}

TypeOK ==
  /\ payment \in [Orders -> Statuses]
  /\ snapshot \in [Orders -> Statuses]
  /\ announced \in [Orders -> BOOLEAN]
  /\ request \in [Calls -> Traffic \cup {Nothing}]
  /\ pc \in [Calls -> Steps \cup {"idle", "done", "lost"}]
  /\ seenPayment \in [Calls -> Statuses]
  /\ seenSnapshot \in [Calls -> Statuses]
  /\ answer \in [Calls -> Answers]
  /\ failedAt \in [Calls -> Steps \cup {"none"}]

\* A request with nothing wrong, for the method it is meant for.
Sound(m) ==
  /\ m.defect = "none"
  /\ MethodOf[m.order] = (IF m.kind = "ipn" THEN "vnpay" ELSE "mock")

HasRead(c) == pc[c] \in {"savePayment", "saveOrder", "notify"}
HasSaved(c) == pc[c] \in {"saveOrder", "notify"}

\* What the fields of a call say of each other.
CallOK(c) ==
  /\ pc[c] = "idle" =>
       /\ request[c] = Nothing /\ answer[c] = "none"
       /\ seenPayment[c] = "pending" /\ seenSnapshot[c] = "pending"
  /\ pc[c] # "idle" => request[c] \in Traffic
  /\ failedAt[c] # "none" => pc[c] \in {"done", "lost"}
  /\ UnderWay(c) => answer[c] = "none"
  /\ pc[c] = "readOther" =>
       request[c].defect \notin (IF request[c].kind = "confirm" THEN {"stranger"}
                                 ELSE {"unsigned", "unknownRef"})
  /\ HasRead(c) => Sound(request[c])
  /\ pc[c] = "notify" => request[c].outcome = "paid"
  /\ answer[c] = "04" => request[c].defect = "wrongAmount" \/ AmountOf[Order(c)] % 10 # 0

CallsInv == TypeOK /\ \A c \in Calls : CallOK(c)

\* Calls on one payment that are under way together report the same.
Agree ==
  \A c, d \in Calls :
    UnderWay(c) /\ UnderWay(d) /\ Order(c) = Order(d) => request[c].outcome = request[d].outcome

\* What a call has seen of its payment, against the payment as it is now.
Fresh(c) ==
  /\ seenPayment[c] = "paid" => payment[Order(c)] = "paid"
  /\ seenPayment[c] = "failed" => payment[Order(c)] \in Outcomes
  /\ pc[c] = "savePayment" => seenPayment[c] # "paid"
  /\ /\ pc[c] \in {"readOther", "savePayment"} /\ request[c].outcome = "failed"
     /\ seenPayment[c] # "paid"
     => payment[Order(c)] # "paid"
  /\ HasSaved(c) => payment[Order(c)] = request[c].outcome
  /\ UnderWay(c) /\ request[c].outcome = "failed" /\ seenSnapshot[c] = "failed"
     => snapshot[Order(c)] = "failed"

\* What a call has been told.
Told(c) ==
  /\ answer[c] = "00" => payment[Order(c)] \in {request[c].outcome, "paid"}
  /\ answer[c] = "02" => payment[Order(c)] = "paid"

\* An order lags behind its payment only while, or because, a call did not finish.
Catching(o) ==
  /\ \/ snapshot[o] = payment[o]
     \/ \E c \in Calls : About(c, o) /\ (pc[c] = "saveOrder" \/ failedAt[c] = "saveOrder")
  /\ payment[o] = "paid" =>
       \/ announced[o]
       \/ \E c \in Calls :
            About(c, o) /\ (HasSaved(c) \/ failedAt[c] \in {"saveOrder", "notify"})

IInv ==
  /\ CallsInv /\ Agree
  /\ \A c \in Calls : Fresh(c) /\ Told(c)
  /\ \A o \in Orders : Catching(o)

-----------------------------------------------------------------------------
\* What a request may be.
LEMMA TrafficType ==
  ASSUME NEW m \in Traffic
  PROVE  /\ m.order \in Orders /\ m.outcome \in Outcomes
         /\ m.kind \in {"confirm", "ipn"}
         /\ m.kind = "confirm" =>
              /\ m.outcome = "paid"
              /\ m.defect \in {"none", "stranger", "wrongRef"}
         /\ m.kind = "ipn" =>
              /\ MethodOf[m.order] = "vnpay"
              /\ m.defect \in {"none", "unsigned", "unknownRef", "wrongAmount"}
BY PaymentAssumption DEF Confirms, Ipns, Outcomes

\* An amount without a third decimal comes back as it was sent.
LEMMA RoundedBack ==
  ASSUME NEW o \in Orders, AmountOf[o] % 10 = 0
  PROVE  10 * VnpAmount(o) = AmountOf[o]
<1>1. AmountOf[o] \in Nat
  BY PaymentAssumption
<1> QED
  BY <1>1 DEF VnpAmount

USE DEF Goto, Answer, UnderWay, documents, local

\* A step of one call leaves the fields of the others alone.
LEMMA OthersUntouched ==
  ASSUME TypeOK, NEW c \in Calls, Handle(c), NEW d \in Calls, d # c
  PROVE  /\ request'[d] = request[d] /\ pc'[d] = pc[d] /\ answer'[d] = answer[d]
         /\ seenPayment'[d] = seenPayment[d] /\ seenSnapshot'[d] = seenSnapshot[d]
         /\ failedAt'[d] = failedAt[d]
<1>1. CASE \E m \in Traffic : ReadOrderToConfirm(c, m) \/ ReadPaymentForIpn(c, m)
  BY <1>1 DEF TypeOK, ReadOrderToConfirm, ReadPaymentForIpn, Arrives, CopyOrder, CopyPayment
<1>2. CASE ReadPaymentToConfirm(c) \/ ReadOrderForIpn(c)
  BY <1>2 DEF TypeOK, ReadPaymentToConfirm, ReadOrderForIpn, CopyOrder, CopyPayment
<1>3. CASE SavePayment(c) \/ SaveOrder(c) \/ NotifyPaid(c) \/ CallThrows(c)
  BY <1>3 DEF TypeOK, SavePayment, SaveOrder, NotifyPaid, CallThrows
<1> QED
  BY <1>1, <1>2, <1>3 DEF Handle

-----------------------------------------------------------------------------
(* Types, and what the fields of a call say of each other.                  *)

LEMMA ArriveCallsInv ==
  ASSUME CallsInv, NEW c \in Calls, NEW m \in Traffic,
         ReadOrderToConfirm(c, m) \/ ReadPaymentForIpn(c, m)
  PROVE  CallsInv'
<1>1. TypeOK'
  <2>1. CASE ReadOrderToConfirm(c, m)
    BY <2>1, TrafficType DEF CallsInv, TypeOK, ReadOrderToConfirm, Arrives, CopyOrder, Steps, Answers
  <2>2. CASE ReadPaymentForIpn(c, m)
    BY <2>2, TrafficType DEF CallsInv, TypeOK, ReadPaymentForIpn, Arrives, CopyPayment, Steps, Answers
  <2> QED
    BY <2>1, <2>2
<1>2. CallOK(c)'
  <2>1. CASE ReadOrderToConfirm(c, m)
    BY <2>1 DEF CallsInv, TypeOK, CallOK, ReadOrderToConfirm, Arrives, HasRead, Steps
  <2>2. CASE ReadPaymentForIpn(c, m)
    BY <2>2 DEF CallsInv, TypeOK, CallOK, ReadPaymentForIpn, Arrives, HasRead, Steps, IsValidSignature
  <2> QED
    BY <2>1, <2>2
<1>3. ASSUME NEW d \in Calls, d # c PROVE CallOK(d)'
  BY <1>3, OthersUntouched DEF CallsInv, CallOK, HasRead, Handle, Order, Sound
<1> QED
  BY <1>1, <1>2, <1>3 DEF CallsInv

LEMMA DecideCallsInv ==
  ASSUME CallsInv, NEW c \in Calls, ReadPaymentToConfirm(c) \/ ReadOrderForIpn(c)
  PROVE  CallsInv'
<1>1. request[c] \in Traffic
  BY DEF CallsInv, CallOK, ReadPaymentToConfirm, ReadOrderForIpn
<1>2. TypeOK'
  BY <1>1, TrafficType
     DEF CallsInv, TypeOK, ReadPaymentToConfirm, ReadOrderForIpn, CopyOrder, CopyPayment, Steps, Answers
<1>3. CallOK(c)'
  <2>1. CASE ReadPaymentToConfirm(c)
    BY <2>1, <1>1, TrafficType
       DEF CallsInv, TypeOK, CallOK, ReadPaymentToConfirm, HasRead, Steps, Sound, TakesConfirmation, Order
  <2>2. CASE ReadOrderForIpn(c)
    BY <2>2, <1>1, TrafficType, RoundedBack
       DEF CallsInv, TypeOK, CallOK, ReadOrderForIpn, HasRead, Steps, Sound, AmountMatches, Order
  <2> QED
    BY <2>1, <2>2
<1>4. ASSUME NEW d \in Calls, d # c PROVE CallOK(d)'
  BY <1>4, OthersUntouched DEF CallsInv, CallOK, HasRead, Handle, Order, Sound
<1> QED
  BY <1>2, <1>3, <1>4 DEF CallsInv

LEMMA WriteCallsInv ==
  ASSUME CallsInv, NEW c \in Calls,
         SavePayment(c) \/ SaveOrder(c) \/ NotifyPaid(c) \/ CallThrows(c)
  PROVE  CallsInv'
<1>1. request[c] \in Traffic /\ pc[c] \in Steps
  BY PaymentAssumption DEF CallsInv, CallOK, SavePayment, SaveOrder, NotifyPaid, CallThrows, Steps
<1>2. TypeOK'
  <2>1. Order(c) \in Orders /\ request[c].outcome \in Statuses
    BY <1>1, TrafficType DEF Order, Outcomes, Statuses
  <2>2. CASE SavePayment(c)
    BY <2>1, <2>2 DEF CallsInv, TypeOK, SavePayment, Written, Steps
  <2>3. CASE SaveOrder(c)
    BY <2>1, <2>3 DEF CallsInv, TypeOK, SaveOrder, SnapshotValue, Written, Steps, Answers
  <2>4. CASE NotifyPaid(c) \/ CallThrows(c)
    BY <1>1, <2>4 DEF CallsInv, TypeOK, NotifyPaid, CallThrows, Answers
  <2> QED
    BY <2>2, <2>3, <2>4
<1>3. CallOK(c)'
  BY <1>1 DEF CallsInv, TypeOK, CallOK, SavePayment, SaveOrder, NotifyPaid, CallThrows, HasRead, Steps, Order, Sound
<1>4. ASSUME NEW d \in Calls, d # c PROVE CallOK(d)'
  BY <1>4, OthersUntouched DEF CallsInv, CallOK, HasRead, Handle, Order, Sound
<1> QED
  BY <1>2, <1>3, <1>4 DEF CallsInv

LEMMA CrashCallsInv ==
  ASSUME CallsInv, Crash
  PROVE  CallsInv'
<1>1. TypeOK'
  BY DEF CallsInv, TypeOK, Crash
<1>2. ASSUME NEW d \in Calls PROVE CallOK(d)'
  BY DEF CallsInv, TypeOK, CallOK, Crash, HasRead, Order, Sound, Steps
<1> QED
  BY <1>1, <1>2 DEF CallsInv

LEMMA CallsStep ==
  ASSUME CallsInv, [Next]_vars
  PROVE  CallsInv'
<1>1. CASE UNCHANGED vars
  BY <1>1 DEF CallsInv, TypeOK, CallOK, HasRead, Order, Sound, vars
<1> QED
  BY <1>1, ArriveCallsInv, DecideCallsInv, WriteCallsInv, CrashCallsInv DEF Next, Handle, Quiet

LEMMA CallsInit == Init => CallsInv
BY PaymentAssumption
   DEF Init, CallsInv, TypeOK, CallOK, HasRead, InitialStatus, Statuses, Answers, Steps

-----------------------------------------------------------------------------
(* Why a payment is paid.                                                   *)

\* A step of a call leaves standing what has made a payment paid.
LEMMA CauseStep ==
  ASSUME CallsInv, PaidHasCause, [Next]_vars
  PROVE  PaidHasCause'
<1> SUFFICES ASSUME NEW o \in Orders, payment'[o] = "paid"
             PROVE  \E c \in Calls :
                      /\ About(c, o)' /\ request'[c].outcome = "paid" /\ request'[c].defect = "none"
                      /\ MethodOf[o] = (IF request'[c].kind = "ipn" THEN "vnpay" ELSE "mock")
                      /\ pc'[c] \notin {"readOther", "savePayment"}
  BY DEF PaidHasCause
<1>1. ASSUME NEW c \in Calls, SavePayment(c), Order(c) = o, request[c].outcome = "paid"
      PROVE  /\ About(c, o)' /\ request'[c].outcome = "paid" /\ request'[c].defect = "none"
             /\ MethodOf[o] = (IF request'[c].kind = "ipn" THEN "vnpay" ELSE "mock")
             /\ pc'[c] \notin {"readOther", "savePayment"}
  BY <1>1 DEF CallsInv, TypeOK, CallOK, HasRead, Sound, SavePayment, About, Order
<1>2. CASE payment[o] = "paid"
  <2>1. PICK c \in Calls :
          /\ About(c, o) /\ request[c].outcome = "paid" /\ request[c].defect = "none"
          /\ MethodOf[o] = (IF request[c].kind = "ipn" THEN "vnpay" ELSE "mock")
          /\ pc[c] \notin {"readOther", "savePayment"}
    BY <1>2 DEF PaidHasCause
  <2>2. request'[c] = request[c] /\ pc'[c] \notin {"idle", "readOther", "savePayment"}
    <3>1. CASE UNCHANGED vars
      BY <2>1, <3>1 DEF vars, About
    <3>2. CASE Crash
      BY <2>1, <3>2 DEF Crash, About
    <3>3. ASSUME NEW d \in Calls, Handle(d), d # c
          PROVE  request'[c] = request[c] /\ pc'[c] = pc[c]
      BY <3>3, OthersUntouched DEF CallsInv
    <3>4. CASE Handle(c)
      BY <2>1, <3>4 DEF CallsInv, TypeOK, Handle, About, ReadOrderToConfirm, ReadPaymentForIpn,
         Arrives, ReadPaymentToConfirm, ReadOrderForIpn, SavePayment, SaveOrder, NotifyPaid, CallThrows
    <3> QED
      BY <2>1, <3>1, <3>2, <3>3, <3>4 DEF Next, Quiet, About
  <2> QED
    BY <2>1, <2>2 DEF About
<1>3. CASE payment[o] # "paid"
  <2>1. PICK c \in Calls : SavePayment(c)
    BY <1>3 DEF CallsInv, Next, Handle, ReadOrderToConfirm, ReadPaymentForIpn, ReadPaymentToConfirm,
       ReadOrderForIpn, SaveOrder, NotifyPaid, CallThrows, Crash, Quiet, vars
  <2>2. Order(c) = o /\ request[c].outcome = "paid"
    BY <1>3, <2>1 DEF CallsInv, TypeOK, SavePayment, Written
  <2> QED
    BY <1>1, <2>1, <2>2
<1> QED
  BY <1>2, <1>3

\* A payment is paid because of a call that says so and has nothing wrong with it, whatever
\* else is reported, breaks off or is lost (handleVnpayIpn and confirmMockPayment).
THEOREM PaidForCause == Spec => []PaidHasCause
<1>1. Init => CallsInv /\ PaidHasCause
  BY CallsInit DEF Init, PaidHasCause, InitialStatus
<1>2. CallsInv /\ PaidHasCause /\ [Next]_vars => (CallsInv /\ PaidHasCause)'
  BY CallsStep, CauseStep
<1> QED
  BY <1>1, <1>2, PTL DEF Spec

-----------------------------------------------------------------------------
(* A payment is final, and what follows it.                                 *)

\* Requests that come in agree with those under way.
LEMMA AgreeStep ==
  ASSUME ~MayDisagree, CallsInv, Agree, [Next]_vars
  PROVE  Agree'
<1> SUFFICES ASSUME NEW c \in Calls, NEW d \in Calls,
                    UnderWay(c)', UnderWay(d)', Order(c)' = Order(d)'
             PROVE  request'[c].outcome = request'[d].outcome
  BY DEF Agree
<1>1. ASSUME NEW e \in Calls, pc[e] \in Steps
      PROVE  request'[e] = request[e]
  <2>2. ASSUME NEW b \in Calls, Handle(b), b # e PROVE request'[e] = request[e]
    BY <2>2, OthersUntouched DEF CallsInv
  <2>3. CASE Handle(e)
    BY <1>1, <2>3 DEF Handle, ReadOrderToConfirm, ReadPaymentForIpn, Arrives, Steps,
       ReadPaymentToConfirm, ReadOrderForIpn, SavePayment, SaveOrder, NotifyPaid, CallThrows
  <2> QED
    BY <2>2, <2>3 DEF Next, Crash, Quiet, vars
<1>2. ASSUME NEW e \in Calls, pc'[e] \in Steps, pc[e] \notin Steps
      PROVE  /\ \A b \in Calls : pc[b] \in Steps /\ request[b].order = request'[e].order
                                 => request[b].outcome = request'[e].outcome
             /\ \A b \in Calls : b # e => pc'[b] = pc[b] /\ request'[b] = request[b]
  <2>1. PICK m \in Traffic : ReadOrderToConfirm(e, m) \/ ReadPaymentForIpn(e, m)
    <3>1. ASSUME NEW b \in Calls, Handle(b), b # e PROVE FALSE
      BY <1>2, <3>1, OthersUntouched DEF CallsInv
    <3>2. Handle(e)
      BY <1>2, <3>1 DEF CallsInv, TypeOK, Next, Crash, Quiet, vars, Steps
    <3> QED
      BY <1>2, <3>2, PaymentAssumption DEF Handle, ReadPaymentToConfirm, ReadOrderForIpn, SavePayment, SaveOrder,
         NotifyPaid, CallThrows, Steps
  <2>2. Arrives(e, m) /\ request'[e] = m /\ Handle(e)
    BY <2>1 DEF CallsInv, TypeOK, ReadOrderToConfirm, ReadPaymentForIpn, Arrives, Handle
  <2>3. \A b \in Calls : pc[b] \in Steps /\ request[b].order = m.order => request[b].outcome = m.outcome
    BY <2>2 DEF Arrives, About, Steps
  <2> QED
    BY <2>2, <2>3, OthersUntouched DEF CallsInv
<1>3. CASE pc[c] \in Steps /\ pc[d] \in Steps
  BY <1>1, <1>3 DEF Agree, Order
<1>4. CASE pc[c] \notin Steps \/ pc[d] \notin Steps
  BY <1>1, <1>2, <1>4 DEF Order
<1> QED
  BY <1>3, <1>4

Documented == \A c \in Calls : Fresh(c) /\ Told(c)

\* Saving a payment writes what was reported, and never over a payment that is paid.
LEMMA SavesReport ==
  ASSUME CallsInv, Documented, NEW c \in Calls, SavePayment(c)
  PROVE  /\ payment' = [payment EXCEPT ![Order(c)] = request[c].outcome]
         /\ Order(c) \in Orders /\ request[c].outcome \in Outcomes
         /\ payment[Order(c)] = "paid" => request[c].outcome = "paid"
<1>1. Order(c) \in Orders /\ request[c].outcome \in Outcomes
  BY TrafficType DEF CallsInv, CallOK, SavePayment, Order
<1>2. payment[Order(c)] = "paid" => request[c].outcome = "paid"
  BY <1>1 DEF Documented, Fresh, SavePayment, Outcomes
<1>3. Written(payment[Order(c)], seenPayment[c], request[c].outcome) = request[c].outcome
  BY <1>1, <1>2 DEF Documented, Fresh, SavePayment, Outcomes, Written
<1> QED
  BY <1>1, <1>2, <1>3 DEF SavePayment

\* Reading, deciding and answering keep what calls have seen and been told.
LEMMA ReadDocumented ==
  ASSUME CallsInv, Documented, NEW c \in Calls,
         \/ \E m \in Traffic : ReadOrderToConfirm(c, m) \/ ReadPaymentForIpn(c, m)
         \/ ReadPaymentToConfirm(c) \/ ReadOrderForIpn(c)
  PROVE  Documented'
<1>1. UNCHANGED documents /\ Handle(c)
  BY DEF Handle, ReadOrderToConfirm, ReadPaymentForIpn, ReadPaymentToConfirm, ReadOrderForIpn
<1>2. Fresh(c)' /\ Told(c)'
  <2>1. ASSUME NEW m \in Traffic, ReadOrderToConfirm(c, m) PROVE Fresh(c)' /\ Told(c)'
    BY <2>1, TrafficType DEF CallsInv, TypeOK, CallOK, Fresh, Told, HasSaved, Order,
       ReadOrderToConfirm, Arrives, CopyOrder, Steps
  <2>2. ASSUME NEW m \in Traffic, ReadPaymentForIpn(c, m) PROVE Fresh(c)' /\ Told(c)'
    BY <2>2, TrafficType DEF CallsInv, TypeOK, CallOK, Fresh, Told, HasSaved, Order, Outcomes,
       ReadPaymentForIpn, Arrives, CopyPayment, Steps
  <2>3. CASE ReadPaymentToConfirm(c)
    BY <2>3, TrafficType DEF CallsInv, TypeOK, CallOK, Documented, Fresh, Told, HasSaved, Order, Outcomes,
       ReadPaymentToConfirm, AlreadyPaid, CopyPayment, Steps
  <2>4. CASE ReadOrderForIpn(c)
    BY <2>4, TrafficType DEF CallsInv, TypeOK, CallOK, Documented, Fresh, Told, HasSaved, Order,
       ReadOrderForIpn, AlreadyPaid, CopyOrder, Steps
  <2> QED
    BY <2>1, <2>2, <2>3, <2>4
<1>3. ASSUME NEW d \in Calls, d # c PROVE Fresh(d)' /\ Told(d)'
  BY <1>1, <1>3, OthersUntouched DEF CallsInv, Documented, Fresh, Told, HasSaved, Order
<1> QED
  BY <1>2, <1>3 DEF Documented

\* Saving a payment keeps what the others have seen of it: those that are under way with it
\* report the same, and none of those that are done was told otherwise.
LEMMA SavePaymentDocumented ==
  ASSUME CallsInv, Agree, Documented, NEW c \in Calls, SavePayment(c)
  PROVE  Documented'
<1>0. /\ payment' = [payment EXCEPT ![Order(c)] = request[c].outcome]
      /\ Order(c) \in Orders /\ request[c].outcome \in Outcomes
      /\ payment[Order(c)] = "paid" => request[c].outcome = "paid"
  BY SavesReport
<1> USE <1>0
<1>1. Fresh(c)' /\ Told(c)'
  BY DEF CallsInv, TypeOK, CallOK, Documented, Fresh, Told, HasSaved, Order, Outcomes, SavePayment, Steps
<1>2. ASSUME NEW d \in Calls, d # c PROVE Fresh(d)' /\ Told(d)'
  <2>1. /\ UNCHANGED <<request, snapshot, seenPayment, seenSnapshot>>
        /\ pc'[d] = pc[d] /\ answer'[d] = answer[d]
    BY <1>2, OthersUntouched DEF SavePayment, CallsInv, Handle
  <2>2. CASE Order(d) # Order(c) \/ pc[d] = "idle"
    BY <2>1, <2>2 DEF CallsInv, TypeOK, CallOK, Documented, Fresh, Told, HasSaved, Order, Steps
  <2>3. CASE Order(d) = Order(c) /\ pc[d] # "idle"
    <3>1. UnderWay(d) => request[d].outcome = request[c].outcome
      BY <2>3 DEF Agree, SavePayment, Steps
    <3>2. payment'[Order(d)] = request[c].outcome
      BY <2>3 DEF CallsInv, TypeOK
    <3>3. request[d].outcome \in Outcomes
      BY <2>3, TrafficType DEF CallsInv, CallOK
    <3>4. Fresh(d)'
      BY <2>1, <2>3, <3>1, <3>2, <3>3 DEF Documented, Fresh, HasSaved, Order, Outcomes, Steps
    <3>5. Told(d)'
      BY <2>1, <2>3, <3>2, <3>3 DEF Documented, Told, Order, Outcomes
    <3> QED
      BY <3>4, <3>5
  <2> QED
    BY <2>2, <2>3
<1> QED
  BY <1>1, <1>2 DEF Documented

\* So do saving an order, notifying, and steps that fail.
LEMMA FinishDocumented ==
  ASSUME CallsInv, Agree, Documented, NEW c \in Calls,
         SaveOrder(c) \/ NotifyPaid(c) \/ CallThrows(c)
  PROVE  Documented'
<1>1. UNCHANGED <<payment, request, seenPayment, seenSnapshot>> /\ Handle(c)
  BY DEF SaveOrder, NotifyPaid, CallThrows, Handle
<1>2. request[c].outcome \in Outcomes /\ Order(c) \in Orders /\ pc[c] \in Steps
  BY TrafficType, PaymentAssumption
     DEF CallsInv, CallOK, SaveOrder, NotifyPaid, CallThrows, Order, Steps
<1>3. Fresh(c)' /\ Told(c)'
  <2>1. CASE SaveOrder(c)
    BY <1>1, <1>2, <2>1 DEF CallsInv, TypeOK, CallOK, Documented, Fresh, Told, HasSaved, Order, Outcomes,
       SaveOrder, SnapshotValue, Written, Steps
  <2>2. CASE NotifyPaid(c) \/ CallThrows(c)
    BY <1>1, <1>2, <2>2 DEF CallsInv, TypeOK, CallOK, Documented, Fresh, Told, HasSaved, Order, Outcomes,
       NotifyPaid, CallThrows, Steps
  <2> QED
    BY <2>1, <2>2
<1>4. ASSUME NEW d \in Calls, d # c PROVE Fresh(d)' /\ Told(d)'
  <2>1. pc'[d] = pc[d] /\ answer'[d] = answer[d]
    BY <1>1, <1>4, OthersUntouched DEF CallsInv
  <2>2. UnderWay(d) /\ request[d].outcome = "failed" /\ seenSnapshot[d] = "failed"
        => snapshot'[Order(d)] = "failed"
    <3> SUFFICES ASSUME UnderWay(d), request[d].outcome = "failed", seenSnapshot[d] = "failed"
                 PROVE  snapshot'[Order(d)] = "failed"
      OBVIOUS
    <3>1. snapshot[Order(d)] = "failed" /\ Order(d) \in Orders
      BY TrafficType DEF CallsInv, CallOK, Documented, Fresh, Order, Steps
    <3>2. CASE SaveOrder(c) /\ Order(c) = Order(d)
      <4>1. request[c].outcome = "failed"
        BY <1>2, <3>2 DEF Agree
      <4> QED
        BY <3>1, <3>2, <4>1, <1>2 DEF CallsInv, TypeOK, SaveOrder, SnapshotValue, Written
    <3>3. CASE ~(SaveOrder(c) /\ Order(c) = Order(d))
      BY <3>1, <3>3, <1>2 DEF CallsInv, TypeOK, SaveOrder, NotifyPaid, CallThrows
    <3> QED
      BY <3>2, <3>3
  <2> QED
    BY <1>1, <2>1, <2>2 DEF Documented, Fresh, Told, HasSaved, Order
<1> QED
  BY <1>3, <1>4 DEF Documented

LEMMA DocumentedStep ==
  ASSUME CallsInv, Agree, Documented, [Next]_vars
  PROVE  Documented'
<1>1. CASE UNCHANGED vars
  BY <1>1 DEF Documented, Fresh, Told, HasSaved, Order, vars
<1>2. CASE Crash
  BY <1>2 DEF CallsInv, TypeOK, Documented, Fresh, Told, HasSaved, Order, Crash, Steps
<1> QED
  BY <1>1, <1>2, ReadDocumented, SavePaymentDocumented, FinishDocumented DEF Next, Handle, Quiet

Behind == \A o \in Orders : Catching(o)

\* A save writes what was reported into the order, and the payment says the same.
LEMMA SavesSnapshot ==
  ASSUME CallsInv, Documented, NEW c \in Calls, SaveOrder(c)
  PROVE  Order(c) \in Orders /\ snapshot'[Order(c)] = payment[Order(c)]
<1>1. Order(c) \in Orders /\ request[c].outcome \in Outcomes
  BY TrafficType DEF CallsInv, CallOK, SaveOrder, Order
<1>2. payment[Order(c)] = request[c].outcome
  BY DEF Documented, Fresh, HasSaved, SaveOrder
<1>3. request[c].outcome = "failed" /\ seenSnapshot[c] = "failed" => snapshot[Order(c)] = "failed"
  BY DEF Documented, Fresh, SaveOrder, Steps
<1> QED
  BY <1>1, <1>2, <1>3 DEF CallsInv, TypeOK, SaveOrder, SnapshotValue, Written, Outcomes

\* An order goes on lagging only behind calls that are on their way or broke off.
LEMMA BehindStep ==
  ASSUME CallsInv, Documented, Behind, [Next]_vars
  PROVE  Behind'
<1> SUFFICES ASSUME NEW o \in Orders PROVE Catching(o)'
  BY DEF Behind
<1>0. Catching(o)
  BY DEF Behind
<1>1. CASE UNCHANGED vars
  BY <1>0, <1>1 DEF Catching, About, HasSaved, vars
<1>2. CASE Crash
  <2>1. ASSUME NEW c \in Calls, About(c, o), HasSaved(c) \/ failedAt[c] \in {"saveOrder", "notify"}
        PROVE  /\ About(c, o)'
               /\ failedAt'[c] = (IF UnderWay(c) THEN pc[c] ELSE failedAt[c])
    BY <1>2, <2>1 DEF CallsInv, TypeOK, Crash, About
  <2>2. ASSUME NEW c \in Calls, failedAt[c] \in {"saveOrder", "notify"} PROVE ~UnderWay(c)
    BY <2>2 DEF CallsInv, CallOK, Steps
  <2>3. UNCHANGED documents
    BY <1>2 DEF Crash
  <2> QED
    BY <1>0, <2>1, <2>2, <2>3 DEF Catching, HasSaved, Steps
<1>3. ASSUME NEW c \in Calls, Handle(c) PROVE Catching(o)'
  <2>1. ASSUME NEW d \in Calls, d # c, About(d, o)
        PROVE  About(d, o)' /\ pc'[d] = pc[d] /\ failedAt'[d] = failedAt[d]
    BY <1>3, <2>1, OthersUntouched DEF CallsInv, About
  <2>2. CASE \/ \E m \in Traffic : ReadOrderToConfirm(c, m) \/ ReadPaymentForIpn(c, m)
             \/ ReadPaymentToConfirm(c) \/ ReadOrderForIpn(c)
    <3>1. UNCHANGED documents /\ pc[c] \in {"idle", "readOther"}
      BY <2>2 DEF ReadOrderToConfirm, ReadPaymentForIpn, Arrives, ReadPaymentToConfirm, ReadOrderForIpn
    <3>2. ~HasSaved(c) /\ failedAt[c] = "none"
      BY <3>1 DEF CallsInv, CallOK, HasSaved
    <3> QED
      BY <1>0, <2>1, <3>1, <3>2 DEF Catching, HasSaved
  <2>3. CASE SavePayment(c)
    <3>1. failedAt[c] = "none" /\ ~HasSaved(c)
      BY <2>3 DEF CallsInv, CallOK, SavePayment, HasSaved
    <3>2. CASE o = Order(c)
      BY <2>3, <3>2 DEF CallsInv, TypeOK, SavePayment, Catching, About, HasSaved, Order
    <3>3. CASE o # Order(c)
      BY <1>0, <2>1, <2>3, <3>1, <3>3 DEF CallsInv, TypeOK, SavePayment, Catching, HasSaved
    <3> QED
      BY <3>2, <3>3
  <2>4. CASE SaveOrder(c)
    <3>1. failedAt[c] = "none" /\ UNCHANGED <<payment, announced, failedAt, request>>
      BY <2>4 DEF CallsInv, CallOK, SaveOrder
    <3>2. CASE o = Order(c)
      <4>1. snapshot'[o] = payment'[o]
        BY <2>4, <3>1, <3>2, SavesSnapshot
      <4>2. request[c].outcome = payment[o] /\ (payment[o] = "paid" => About(c, o)' /\ HasSaved(c)')
        BY <2>4, <3>1, <3>2 DEF CallsInv, TypeOK, Documented, Fresh, SaveOrder, HasSaved, About, Order
      <4> QED
        BY <1>0, <3>1, <4>1, <4>2 DEF Catching
    <3>3. CASE o # Order(c)
      <4>1. snapshot'[o] = snapshot[o] /\ ~About(c, o)
        BY <2>4, <3>3 DEF CallsInv, TypeOK, SaveOrder, About, Order
      <4> QED
        BY <1>0, <2>1, <3>1, <4>1 DEF Catching, HasSaved
    <3> QED
      BY <3>2, <3>3
  <2>5. CASE NotifyPaid(c)
    <3>1. UNCHANGED <<payment, snapshot>> /\ failedAt[c] = "none" /\ pc[c] = "notify"
      BY <2>5 DEF CallsInv, CallOK, NotifyPaid
    <3>2. CASE o = Order(c)
      BY <1>0, <2>1, <2>5, <3>1, <3>2 DEF CallsInv, TypeOK, NotifyPaid, Catching
    <3>3. CASE o # Order(c)
      <4>1. announced'[o] = announced[o] /\ ~About(c, o)
        BY <2>5, <3>3 DEF CallsInv, TypeOK, NotifyPaid, About, Order
      <4> QED
        BY <1>0, <2>1, <3>1, <4>1 DEF Catching, HasSaved
    <3> QED
      BY <3>2, <3>3
  <2>6. CASE CallThrows(c)
    <3>1. UNCHANGED documents /\ failedAt'[c] = pc[c] /\ request' = request /\ pc'[c] = "done"
      BY <2>6 DEF CallsInv, TypeOK, CallThrows
    <3>2. failedAt[c] = "none"
      BY <2>6, PaymentAssumption DEF CallsInv, CallOK, CallThrows, Steps
    <3> QED
      BY <1>0, <2>1, <3>1, <3>2 DEF Catching, HasSaved, About
  <2> QED
    BY <1>3, <2>2, <2>3, <2>4, <2>5, <2>6 DEF Handle
<1> QED
  BY <1>1, <1>2, <1>3 DEF Next, Quiet

\* The invariant that holds while reports handled together agree.
LEMMA Invariance ==
  ASSUME ~MayDisagree
  PROVE  Spec => []IInv
<1>1. Init => CallsInv /\ Agree /\ Documented /\ Behind
  <2> SUFFICES ASSUME Init PROVE Agree /\ Documented /\ Behind
    BY CallsInit
  <2> QED
    BY DEF Init, Agree, Documented, Fresh, Told, HasSaved, Behind, Catching, InitialStatus, Steps
<1>2. CallsInv /\ Agree /\ Documented /\ Behind /\ [Next]_vars
      => (CallsInv /\ Agree /\ Documented /\ Behind)'
  BY CallsStep, AgreeStep, DocumentedStep, BehindStep
<1>3. CallsInv /\ Agree /\ Documented /\ Behind => IInv
  BY DEF IInv, Documented, Behind
<1> QED
  BY <1>1, <1>2, <1>3, PTL DEF Spec

\* With nothing under way and no call broken off, the order shows what the payment says,
\* and a payment that is paid has been announced.
THEOREM OrdersShowTheirPayments ==
  ASSUME ~MayDisagree
  PROVE  Spec => []SnapshotFollows
<1>1. IInv => SnapshotFollows
  <2> SUFFICES ASSUME IInv, NEW o \in Orders, Idle(o), ~BrokeOff(o)
               PROVE  snapshot[o] = payment[o] /\ (payment[o] = "paid" => announced[o])
    BY DEF SnapshotFollows
  <2> QED
    BY DEF IInv, Catching, Idle, BrokeOff, HasSaved, Steps
<1> QED
  BY <1>1, Invariance, PTL

\* The answers 00, 02 and 04 are true when they are given, and stay true.
THEOREM AnswersAreTrue ==
  ASSUME ~MayDisagree
  PROVE  Spec => []AnswerIsTrue
<1>1. IInv => AnswerIsTrue
  BY DEF IInv, CallsInv, CallOK, Told, AnswerIsTrue
<1> QED
  BY <1>1, Invariance, PTL

\* No call takes a payment back once it is paid.
THEOREM PaidStaysPaid ==
  ASSUME ~MayDisagree
  PROVE  Spec => PaidIsFinal
<1>1. IInv /\ [Next]_vars => [\A o \in Orders : payment[o] = "paid" => payment'[o] = "paid"]_vars
  <2> SUFFICES ASSUME IInv, Next, NEW o \in Orders, payment[o] = "paid"
               PROVE  payment'[o] = "paid"
    OBVIOUS
  <2>1. ASSUME NEW c \in Calls, SavePayment(c) PROVE payment'[o] = "paid"
    BY <2>1, SavesReport DEF IInv, CallsInv, TypeOK, Documented
  <2>2. CASE UNCHANGED payment
    BY <2>2
  <2> QED
    BY <2>1, <2>2 DEF Next, Handle, ReadOrderToConfirm, ReadPaymentForIpn, ReadPaymentToConfirm,
       ReadOrderForIpn, SaveOrder, NotifyPaid, CallThrows, Crash, Quiet, vars
<1> QED
  BY <1>1, Invariance, PTL DEF Spec, PaidIsFinal
=============================================================================
