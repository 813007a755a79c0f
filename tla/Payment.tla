------------------------------- MODULE Payment -------------------------------
(***************************************************************************)
(* What happens to a payment after checkout has made it: confirmMockPayment*)
(* called by the buyer and handleVnpayIpn called by the gateway, on the    *)
(* payment document and on the order_payment snapshot inside the order.    *)
(*                                                                         *)
(* A call reads both documents, decides on the copies, then saves the      *)
(* payment, saves the order and notifies, one awaited step each.  save()   *)
(* writes only what differs from the copy and checks no version.  Requests *)
(* repeat: the gateway sends a report until it likes the answer, and a     *)
(* buyer may confirm again.                                                *)
(***************************************************************************)
EXTENDS Integers, FiniteSets

CONSTANTS
  Orders,
  MethodOf,     \* order -> "COD", "mock" (credit_card, paypal, bank_transfer) or "vnpay"
  AmountOf,     \* order -> payment_amount, in thousandths
  Orphans,      \* orders a failed checkout deleted while their payment stayed
  Traffic,      \* the requests that may arrive
  Calls,        \* the requests of one behaviour, each an element of Traffic
  Failing,      \* the steps whose call may throw
  MayCrash,     \* the API process may stop
  MayDisagree   \* calls on one payment may report different outcomes at the same time

\* outcome is what the gateway reports (a confirm says "paid"), defect what is wrong.
Confirms == [kind : {"confirm"}, order : Orders, outcome : {"paid"},
             defect : {"none", "stranger", "wrongRef"}]
Ipns     == [kind : {"ipn"}, order : Orders, outcome : {"paid", "failed"},
             defect : {"none", "unsigned", "unknownRef", "wrongAmount"}]

Steps == {"readOther", "savePayment", "saveOrder", "notify"}

ASSUME PaymentAssumption ==
  /\ MethodOf \in [Orders -> {"COD", "mock", "vnpay"}]
  /\ AmountOf \in [Orders -> Nat]
  /\ Orphans \subseteq Orders
  /\ Traffic \subseteq Confirms \cup Ipns
  \* A signed report is about a payment VNPay was sent.
  /\ \A m \in Traffic : m.kind = "ipn" => MethodOf[m.order] = "vnpay"
  /\ Failing \subseteq Steps
  /\ MayCrash \in BOOLEAN /\ MayDisagree \in BOOLEAN

VARIABLES
  payment,       \* order -> payment_status
  snapshot,      \* order -> order_payment.status
  announced,     \* order -> notifyPaymentSucceeded has run for it
  request,       \* call -> the request it carries, once it has arrived
  pc,            \* call -> the step it takes next
  seenPayment,   \* call -> payment_status in its copy of the payment
  seenSnapshot,  \* call -> order_payment.status in its copy of the order
  answer,        \* call -> what the caller is told
  failedAt       \* call -> the step at which it threw or was lost (history)

documents == <<payment, snapshot, announced>>
local     == <<seenPayment, seenSnapshot>>
vars      == <<documents, request, pc, local, answer, failedAt>>

Nothing  == [kind |-> "none"]

UnderWay(c) == pc[c] \in Steps
About(c, o) == pc[c] # "idle" /\ request[c].order = o
Idle(o)     == \A c \in Calls : About(c, o) => ~UnderWay(c)
Order(c)    == request[c].order

-----------------------------------------------------------------------------
InitialStatus(o) == IF MethodOf[o] = "COD" THEN "pending" ELSE "requires_action"

Init ==
  /\ payment = [o \in Orders |-> InitialStatus(o)]
  /\ snapshot = [o \in Orders |-> InitialStatus(o)]
  /\ announced = [o \in Orders |-> FALSE]
  /\ request = [c \in Calls |-> Nothing]
  /\ pc = [c \in Calls |-> "idle"]
  /\ seenPayment = [c \in Calls |-> "pending"]
  /\ seenSnapshot = [c \in Calls |-> "pending"]
  /\ answer = [c \in Calls |-> "none"]
  /\ failedAt = [c \in Calls |-> "none"]

Answer(c, a) ==
  /\ pc' = [pc EXCEPT ![c] = "done"]
  /\ answer' = [answer EXCEPT ![c] = a]

Goto(c, step) ==
  /\ pc' = [pc EXCEPT ![c] = step]
  /\ UNCHANGED answer

CopyPayment(c, o) == seenPayment' = [seenPayment EXCEPT ![c] = payment[o]]
CopyOrder(c, o)   == seenSnapshot' = [seenSnapshot EXCEPT ![c] = snapshot[o]]

Arrives(c, m) ==
  /\ pc[c] = "idle"
  /\ request' = [request EXCEPT ![c] = m]
  /\ \/ MayDisagree
     \/ \A d \in Calls : UnderWay(d) /\ About(d, m.order) => request[d].outcome = m.outcome

\* confirmMockPayment: the order first, then the payment.
ReadOrderToConfirm(c, m) ==
  /\ m.kind = "confirm" /\ Arrives(c, m)
  /\ \/ /\ m.order \notin Orphans /\ m.defect # "stranger"
        /\ CopyOrder(c, m.order)
        /\ Goto(c, "readOther")
     \/ /\ m.order \in Orphans \/ m.defect = "stranger"
        /\ Answer(c, "refused")
        /\ UNCHANGED seenSnapshot
  /\ UNCHANGED <<documents, seenPayment, failedAt>>

TakesConfirmation(m) == MethodOf[m.order] = "mock" /\ m.defect # "wrongRef"

AlreadyPaid_Ignored(status) == FALSE

AlreadyPaid(status) == status = "paid"

ReadPaymentToConfirm(c) ==
  LET m    == request[c]
      paid == AlreadyPaid(payment[m.order]) IN
  /\ pc[c] = "readOther" /\ m.kind = "confirm"
  /\ CopyPayment(c, m.order)
  /\ \/ ~TakesConfirmation(m) /\ Answer(c, "refused")
     \/ TakesConfirmation(m) /\ paid /\ Answer(c, "02")
     \/ TakesConfirmation(m) /\ ~paid /\ Goto(c, "savePayment")
  /\ UNCHANGED <<documents, request, seenSnapshot, failedAt>>

\* handleVnpayIpn: the payment first, found by its transaction reference, then the order.
IsValidSignature(m) == m.defect # "unsigned"

ReadPaymentForIpn(c, m) ==
  /\ m.kind = "ipn" /\ Arrives(c, m)
  /\ \/ ~IsValidSignature(m) /\ Answer(c, "97") /\ UNCHANGED seenPayment
     \/ m.defect = "unknownRef" /\ Answer(c, "01") /\ UNCHANGED seenPayment
     \/ /\ m.defect \notin {"unsigned", "unknownRef"}
        /\ CopyPayment(c, m.order)
        /\ Goto(c, "readOther")
  /\ UNCHANGED <<documents, seenSnapshot, failedAt>>

AmountMatches_Unchecked(m) == TRUE

\* VNPay is told the amount in hundredths: Math.round(Number(amount) * 100).
VnpAmount(o) == (AmountOf[o] + 5) \div 10

\* A report without defect brings back what VNPay was told, and is divided by 100.
AmountMatches(m) ==
  m.defect # "wrongAmount" /\ 10 * VnpAmount(m.order) = AmountOf[m.order]

\* The report is decided on by the payment as it was one read earlier.
ReadOrderForIpn(c) ==
  LET m    == request[c]
      paid == AlreadyPaid(seenPayment[c]) IN
  /\ pc[c] = "readOther" /\ m.kind = "ipn"
  /\ CopyOrder(c, m.order)
  /\ \/ m.order \in Orphans /\ Answer(c, "01")
     \/ m.order \notin Orphans /\ ~AmountMatches(m) /\ Answer(c, "04")
     \/ m.order \notin Orphans /\ AmountMatches(m) /\ paid /\ Answer(c, "02")
     \/ m.order \notin Orphans /\ AmountMatches(m) /\ ~paid /\ Goto(c, "savePayment")
  /\ UNCHANGED <<documents, request, seenPayment, failedAt>>

\* save() after an assignment: a value equal to the copy's is not written.
Written(stored, copy, value) == IF value = copy THEN stored ELSE value

SavePayment(c) ==
  /\ pc[c] = "savePayment"
  /\ payment' = [payment EXCEPT ![Order(c)] = Written(@, seenPayment[c], request[c].outcome)]
  /\ Goto(c, "saveOrder")
  /\ UNCHANGED <<snapshot, announced, request, local, failedAt>>

SnapshotValue_Stale(c) == IF request[c].outcome = "paid" THEN "paid" ELSE seenSnapshot[c]

SnapshotValue(c) == request[c].outcome

\* A snapshot set to paid carries a new paidAt, so it always differs from the copy.
SaveOrder(c) ==
  /\ pc[c] = "saveOrder"
  /\ snapshot' = [snapshot EXCEPT ![Order(c)] =
                    IF request[c].outcome = "paid" THEN SnapshotValue(c)
                    ELSE Written(@, seenSnapshot[c], SnapshotValue(c))]
  /\ \/ request[c].outcome = "paid" /\ Goto(c, "notify")
     \/ request[c].outcome = "failed" /\ Answer(c, "00")
  /\ UNCHANGED <<payment, announced, request, local, failedAt>>

\* notifyPaymentSucceeded, and the answer.
NotifyPaid(c) ==
  /\ pc[c] = "notify"
  /\ announced' = [announced EXCEPT ![Order(c)] = TRUE]
  /\ Answer(c, "00")
  /\ UNCHANGED <<payment, snapshot, request, local, failedAt>>

CallThrows_Confirms(c) ==
  /\ pc[c] \in Failing
  /\ Answer(c, "00")
  /\ failedAt' = [failedAt EXCEPT ![c] = pc[c]]
  /\ UNCHANGED <<documents, request, local>>

\* The error handler answers; nothing undoes what earlier steps wrote.
CallThrows(c) ==
  /\ pc[c] \in Failing
  /\ Answer(c, "refused")
  /\ failedAt' = [failedAt EXCEPT ![c] = pc[c]]
  /\ UNCHANGED <<documents, request, local>>

Crash ==
  /\ MayCrash
  /\ \E c \in Calls : UnderWay(c)
  /\ pc' = [c \in Calls |-> IF UnderWay(c) THEN "lost" ELSE pc[c]]
  /\ failedAt' = [c \in Calls |-> IF UnderWay(c) THEN pc[c] ELSE failedAt[c]]
  /\ UNCHANGED <<documents, request, local, answer>>

Quiet ==
  /\ \A c \in Calls : pc[c] \in {"done", "lost"}
  /\ UNCHANGED vars

Handle(c) ==
  \/ \E m \in Traffic : ReadOrderToConfirm(c, m) \/ ReadPaymentForIpn(c, m)
  \/ ReadPaymentToConfirm(c) \/ ReadOrderForIpn(c)
  \/ SavePayment(c) \/ SaveOrder(c) \/ NotifyPaid(c)
  \/ CallThrows(c)

Next == (\E c \in Calls : Handle(c)) \/ Crash \/ Quiet

Spec == Init /\ [][Next]_vars

-----------------------------------------------------------------------------
(* Properties.                                                              *)

\* A payment once paid stays paid, whatever the gateway repeats or reports later, as
\* long as reports that contradict each other are not handled at the same time: a
\* failure report that starts after the payment was saved is answered 02 (lines 280-282).
PaidIsFinal == [][\A o \in Orders : payment[o] = "paid" => payment'[o] = "paid"]_vars

\* A payment is paid because of a call that says so and has nothing wrong with it: the
\* buyer's own for the mock methods, the gateway's for VNPay (lines 203-233, 256-305).
PaidHasCause ==
  \A o \in Orders :
    payment[o] = "paid" =>
      \E c \in Calls :
        /\ About(c, o) /\ request[c].outcome = "paid" /\ request[c].defect = "none"
        /\ MethodOf[o] = (IF request[c].kind = "ipn" THEN "vnpay" ELSE "mock")
        /\ pc[c] \notin {"readOther", "savePayment"}

\* Some call saved the payment and did not get to the end.
BrokeOff(o) ==
  \E c \in Calls : About(c, o) /\ failedAt[c] \in {"saveOrder", "notify"}

\* "Payment transaction becomes `paid`, order payment snapshot is updated, and
\* notifications are emitted" (docs/notification-payment-architecture.md:57): with no
\* call under way and none that broke off, the order shows what the payment says.
SnapshotFollows ==
  \A o \in Orders :
    Idle(o) /\ ~BrokeOff(o) =>
      snapshot[o] = payment[o] /\ (payment[o] = "paid" => announced[o])

\* What the caller is told holds, then and later: 00 means the report is recorded or has
\* been overtaken by a payment, 02 that the payment is paid, and 04 ("Invalid amount",
\* line 277) that the report names another amount than the order, or that the order's has
\* more decimals than VNPay was told (utils/vnpay.js:104).
AnswerIsTrue ==
  \A c \in Calls :
    /\ answer[c] = "00" => payment[Order(c)] \in {request[c].outcome, "paid"}
    /\ answer[c] = "02" => payment[Order(c)] = "paid"
    /\ answer[c] = "04" => request[c].defect = "wrongAmount" \/ AmountOf[Order(c)] % 10 # 0
=============================================================================
