--------------------------- MODULE CheckoutProofs ---------------------------
(***************************************************************************)
(* Type correctness and the safety properties of Checkout, for every value *)
(* of its constants.  First come facts about the units of order lines: they*)
(* are finite, grow with the lines, and one more line brings exactly its   *)
(* quantity.  They let the stock be accounted for without a sum over       *)
(* requests.                                                               *)
(*                                                                         *)
(* The second part is the order desk, which extends Checkout: what Checkout*)
(* promises of an order stands beside the desk, a cancelled order has      *)
(* returned its lines, the stock is accounted for and a sold order has its *)
(* stock, whatever calls are under way together.  What the proofs add to   *)
(* the checkout's invariant is which calls have met: two that are under    *)
(* way together have, and one that reads the order later finds what an     *)
(* earlier one has saved.                                                  *)
(***************************************************************************)
EXTENDS OrderDesk, FiniteSetTheorems, SequenceTheorems, TLAPS

-----------------------------------------------------------------------------
(* Order lines and their units.                                             *)

\* A line of some basket is a well-formed record (item_products of shop_order_ids).
LEMMA LineType ==
  ASSUME NEW l \in Lines
  PROVE  /\ l = <<l[1], l[2]>> /\ l[1] \in Requests /\ l[2] \in 1 .. Len(Basket[l[1]])
         /\ LineOf(l).product \in Products /\ LineOf(l).quantity \in Nat \ {0}
<1>1. PICK r \in Requests : l \in {r} \X DOMAIN Basket[r]
  BY DEF Lines
<1>2. Basket[r] \in Seq([product : Products, quantity : Nat \ {0}])
  BY BasketsAssumption
<1>3. DOMAIN Basket[r] = 1 .. Len(Basket[r])
  BY <1>2
<1>4. l = <<l[1], l[2]>> /\ l[1] = r /\ l[2] \in 1 .. Len(Basket[r])
  BY <1>1, <1>3
<1>5. Basket[r][l[2]] \in [product : Products, quantity : Nat \ {0}]
  <2>1. l[2] \in 1 .. Len(Basket[r])
    BY <1>4
  <2> QED
    BY <1>2, <2>1, ElementOfSeq
<1> QED
  BY <1>4, <1>5 DEF LineOf

\* Every position of a basket is a line.
LEMMA LineExists ==
  ASSUME NEW r \in Requests, NEW i \in 1 .. Len(Basket[r])
  PROVE  <<r, i>> \in Lines /\ LineOf(<<r, i>>) = Basket[r][i]
<1>1. DOMAIN Basket[r] = 1 .. Len(Basket[r])
  BY BasketsAssumption
<1> QED
  BY <1>1 DEF Lines, LineOf

\* The quantity of a line is the number of its units.
LEMMA LineUnits ==
  ASSUME NEW l \in Lines
  PROVE  IsFiniteSet(UnitsOf(l)) /\ Cardinality(UnitsOf(l)) = LineOf(l).quantity
<1>1. LineOf(l).quantity \in Nat \ {0}
  BY LineType
<1>2. /\ IsFiniteSet(1 .. LineOf(l).quantity)
      /\ Cardinality(1 .. LineOf(l).quantity) = LineOf(l).quantity
  BY <1>1, FS_Interval
<1>3. IsFiniteSet({l}) /\ Cardinality({l}) = 1
  BY FS_Singleton
<1> QED
  BY <1>1, <1>2, <1>3, FS_Product DEF UnitsOf

\* There are finitely many lines.
LEMMA LinesFinite == IsFiniteSet(Lines)
<1> DEFINE f == [r \in Requests |-> {r} \X DOMAIN Basket[r]]
           T == {{r} \X DOMAIN Basket[r] : r \in Requests}
<1>1. f \in Surjection(Requests, T)
  BY DEF Surjection
<1>2. IsFiniteSet(T)
  BY <1>1, FS_Surjection, BasketsAssumption
<1>3. ASSUME NEW r \in Requests PROVE IsFiniteSet({r} \X DOMAIN Basket[r])
  <2>1. DOMAIN Basket[r] = 1 .. Len(Basket[r]) /\ Len(Basket[r]) \in Nat
    BY BasketsAssumption
  <2>2. IsFiniteSet(DOMAIN Basket[r])
    BY <2>1, FS_Interval
  <2> QED
    BY <2>2, FS_Singleton, FS_Product
<1>4. \A t \in T : IsFiniteSet(t)
  BY <1>3
<1> QED
  BY <1>2, <1>4, FS_UNION DEF Lines

\* There are finitely many units.
LEMMA AllUnitsFinite == IsFiniteSet(AllUnits)
<1> DEFINE f == [l \in Lines |-> UnitsOf(l)]
           T == {UnitsOf(l) : l \in Lines}
<1>1. f \in Surjection(Lines, T)
  BY DEF Surjection
<1>2. IsFiniteSet(T)
  BY <1>1, LinesFinite, FS_Surjection
<1>3. \A t \in T : IsFiniteSet(t)
  BY LineUnits
<1> QED
  BY <1>2, <1>3, FS_UNION DEF AllUnits

\* The units of some lines are finitely many, and no more than those of all lines.
LEMMA UnitsInFinite ==
  ASSUME NEW L, NEW p
  PROVE  IsFiniteSet(UnitsIn(L, p)) /\ Cardinality(UnitsIn(L, p)) \in Nat
<1>1. UnitsIn(L, p) \in SUBSET AllUnits
  BY DEF UnitsIn
<1> QED
  BY <1>1, AllUnitsFinite, FS_Subset, FS_CardinalityType

\* More lines, more units.
LEMMA UnitsInMonotone ==
  ASSUME NEW L, NEW M, L \subseteq M, NEW p
  PROVE  Cardinality(UnitsIn(L, p)) <= Cardinality(UnitsIn(M, p))
<1>1. UnitsIn(L, p) \in SUBSET UnitsIn(M, p)
  BY DEF UnitsIn
<1> QED
  BY <1>1, UnitsInFinite, FS_Subset

\* No line, no unit.
LEMMA UnitsInNone ==
  ASSUME NEW p PROVE Cardinality(UnitsIn({}, p)) = 0
<1>1. UnitsIn({}, p) = {}
  BY DEF UnitsIn
<1> QED
  BY <1>1, FS_EmptySet

\* One line more brings its quantity of its product, and nothing of any other.
LEMMA UnitsInAdd ==
  ASSUME NEW L, NEW l \in Lines, l \notin L, NEW p
  PROVE  Cardinality(UnitsIn(L \cup {l}, p)) =
           Cardinality(UnitsIn(L, p)) + (IF LineOf(l).product = p THEN LineOf(l).quantity ELSE 0)
<1>0. UnitsOf(l) \subseteq AllUnits
  BY DEF AllUnits
<1>1. \A u \in AllUnits : u[1] = l <=> u \in UnitsOf(l)
  BY DEF AllUnits, UnitsOf
<1>2. CASE LineOf(l).product = p
  <2>1. UnitsIn(L \cup {l}, p) = UnitsIn(L, p) \cup UnitsOf(l)
    BY <1>0, <1>1, <1>2 DEF UnitsIn
  <2>2. UnitsIn(L, p) \cap UnitsOf(l) = {}
    BY <1>1 DEF UnitsIn
  <2>3. Cardinality(UnitsIn(L, p) \cap UnitsOf(l)) = 0
    BY <2>2, FS_EmptySet
  <2>4. Cardinality(UnitsIn(L, p) \cup UnitsOf(l)) =
          Cardinality(UnitsIn(L, p)) + Cardinality(UnitsOf(l)) - 0
    BY <2>3, UnitsInFinite, LineUnits, FS_Union
  <2>5. Cardinality(UnitsOf(l)) = LineOf(l).quantity /\ LineOf(l).quantity \in Nat
    BY LineUnits, LineType
  <2>6. Cardinality(UnitsIn(L, p)) \in Nat
    BY UnitsInFinite
  <2>7. Cardinality(UnitsIn(L \cup {l}, p)) =
          Cardinality(UnitsIn(L, p)) + Cardinality(UnitsOf(l)) - 0
    BY <2>1, <2>4, Zenon
  <2> QED
    BY <1>2, <2>5, <2>6, <2>7
<1>3. CASE LineOf(l).product # p
  <2>1. UnitsIn(L \cup {l}, p) = UnitsIn(L, p)
    BY <1>3 DEF UnitsIn
  <2> QED
    BY <1>3, <2>1, UnitsInFinite
<1> QED
  BY <1>2, <1>3

\* The same step the other way round.
LEMMA UnitsInRemove ==
  ASSUME NEW L, NEW l \in Lines, l \in L, NEW p
  PROVE  Cardinality(UnitsIn(L, p)) =
           Cardinality(UnitsIn(L \ {l}, p)) + (IF LineOf(l).product = p THEN LineOf(l).quantity ELSE 0)
<1>1. L = (L \ {l}) \cup {l}
  OBVIOUS
<1> QED
  BY <1>1, UnitsInAdd

-----------------------------------------------------------------------------
(* What each request's own fields say of each other.                        *)

\* What one request's own fields say of each other.
Local(r) == CountersOK(r) /\ OrderOK(r) /\ VerdictOK(r)

LocalInv == TypeOK /\ \A q \in Requests : Local(q)

USE DEF Goto, Ends, service, cache, process,
        Calls, BeforeTry, InTry, InCatch, InFinally, Verdicts

\* The line a request reserves or restores next is there.
LEMMA LinePresent ==
  ASSUME NEW r \in Requests, NEW i \in Nat, i < Len(Basket[r])
  PROVE  Basket[r][i + 1].product \in Products /\ Basket[r][i + 1].quantity \in Nat \ {0}
<1>1. i + 1 \in 1 .. Len(Basket[r])
  BY BasketsAssumption
<1> QED
  BY <1>1, LineExists, LineType

\* Baskets have a length.
LEMMA BasketLength == \A r \in Requests : Len(Basket[r]) \in Nat
BY BasketsAssumption

\* A step that leaves a request's fields alone keeps what they say.
LEMMA LocalFrame ==
  ASSUME NEW q \in Requests, Local(q),
         pc'[q] = pc[q], reserved'[q] = reserved[q], restored'[q] = restored[q],
         orders'[q] = orders[q], payments'[q] = payments[q],
         notices'[q] = notices[q], verdict'[q] = verdict[q]
  PROVE  Local(q)'
BY DEF Local, CountersOK, NothingTaken, OrderOK, VerdictOK, HasKey

\* Reserving goes on, or is over.
LEMMA AfterReservingType ==
  \A r \in Requests, n \in Nat : AfterReserving(r, n) \in {"reserve", "createOrder"}
BY DEF AfterReserving

\* A call of the try block throws: control goes where the catch block starts.
LEMMA ThrowLocal ==
  ASSUME LocalInv, NEW r \in Requests, pc[r] \in InTry, Throw(r)
  PROVE  LocalInv'
<1>1. TypeOK'
  BY DEF LocalInv, Local, CountersOK, VerdictOK, HasKey, TypeOK, Throw, Catch,
       AfterDelete, Finally
<1>2. ASSUME NEW q \in Requests, q # r PROVE Local(q)'
  BY <1>2, LocalFrame DEF LocalInv, TypeOK, Throw, Catch, AfterDelete, Finally
<1>3. Local(r)'
  BY BasketLength, CheckoutAssumption DEF LocalInv, TypeOK, Local, CountersOK,
       NothingTaken, OrderOK, VerdictOK, HasKey, Throw, Catch, AfterDelete, Finally
<1> QED
  BY <1>1, <1>2, <1>3 DEF LocalInv

\* A request comes in.
LEMMA ArriveLocal ==
  ASSUME LocalInv, NEW r \in Requests, Arrive(r)
  PROVE  LocalInv'
<1>1. TypeOK'
  <2>1. pc' \in [Requests -> Calls \cup {"idle", "done", "lost"}]
    BY DEF LocalInv, TypeOK, Arrive
  <2>2. verdict' \in [Requests -> Verdicts]
    BY DEF LocalInv, TypeOK, Arrive
  <2>3. lateRetry' \in [Requests -> BOOLEAN]
    BY Zenon DEF LocalInv, TypeOK, Arrive
  <2>4. answer' \in [Requests -> Requests \cup {NoOrder}]
    BY DEF LocalInv, Local, VerdictOK, HasKey, TypeOK, Arrive
  <2>5. stock' \in [Products -> Nat] /\ reserved' \in [Requests -> Nat]
    BY DEF LocalInv, TypeOK, Arrive
  <2> QED
    BY <2>1, <2>2, <2>3, <2>4, <2>5 DEF LocalInv, TypeOK, Arrive
<1>2. ASSUME NEW q \in Requests, q # r PROVE Local(q)'
  BY <1>2, LocalFrame DEF LocalInv, TypeOK, Arrive
<1>3. Local(r)'
  BY BasketLength, CheckoutAssumption DEF LocalInv, TypeOK, Local, CountersOK,
       NothingTaken, OrderOK, VerdictOK, HasKey, Arrive
<1> QED
  BY <1>1, <1>2, <1>3 DEF LocalInv

\* The stored result is read.
LEMMA ReadResultLocal ==
  ASSUME LocalInv, NEW r \in Requests, ReadResult(r)
  PROVE  LocalInv'
<1>1. TypeOK'
  <2>1. pc' \in [Requests -> Calls \cup {"idle", "done", "lost"}]
    BY DEF LocalInv, TypeOK, ReadResult
  <2>2. verdict' \in [Requests -> Verdicts]
    BY DEF LocalInv, TypeOK, ReadResult
  <2>3. lateRetry' \in [Requests -> BOOLEAN]
    BY Zenon DEF LocalInv, TypeOK, ReadResult
  <2>4. answer' \in [Requests -> Requests \cup {NoOrder}]
    BY DEF LocalInv, Local, VerdictOK, HasKey, TypeOK, ReadResult
  <2>5. stock' \in [Products -> Nat] /\ reserved' \in [Requests -> Nat]
    BY DEF LocalInv, TypeOK, ReadResult
  <2> QED
    BY <2>1, <2>2, <2>3, <2>4, <2>5 DEF LocalInv, TypeOK, ReadResult
<1>2. ASSUME NEW q \in Requests, q # r PROVE Local(q)'
  BY <1>2, LocalFrame DEF LocalInv, TypeOK, ReadResult
<1>3. Local(r)'
  BY BasketLength, CheckoutAssumption DEF LocalInv, TypeOK, Local, CountersOK,
       NothingTaken, OrderOK, VerdictOK, HasKey, ReadResult
<1> QED
  BY <1>1, <1>2, <1>3 DEF LocalInv

\* The lock is read.
LEMMA ReadLockLocal ==
  ASSUME LocalInv, NEW r \in Requests, ReadLock(r)
  PROVE  LocalInv'
<1>1. TypeOK'
  <2>1. pc' \in [Requests -> Calls \cup {"idle", "done", "lost"}]
    BY DEF LocalInv, TypeOK, ReadLock
  <2>2. verdict' \in [Requests -> Verdicts]
    BY DEF LocalInv, TypeOK, ReadLock
  <2>3. lateRetry' \in [Requests -> BOOLEAN]
    BY Zenon DEF LocalInv, TypeOK, ReadLock
  <2>4. answer' \in [Requests -> Requests \cup {NoOrder}]
    BY DEF LocalInv, Local, VerdictOK, HasKey, TypeOK, ReadLock
  <2>5. stock' \in [Products -> Nat] /\ reserved' \in [Requests -> Nat]
    BY DEF LocalInv, TypeOK, ReadLock
  <2> QED
    BY <2>1, <2>2, <2>3, <2>4, <2>5 DEF LocalInv, TypeOK, ReadLock
<1>2. ASSUME NEW q \in Requests, q # r PROVE Local(q)'
  BY <1>2, LocalFrame DEF LocalInv, TypeOK, ReadLock
<1>3. Local(r)'
  BY BasketLength, CheckoutAssumption DEF LocalInv, TypeOK, Local, CountersOK,
       NothingTaken, OrderOK, VerdictOK, HasKey, ReadLock
<1> QED
  BY <1>1, <1>2, <1>3 DEF LocalInv

\* The lock is set.
LEMMA SetLockLocal ==
  ASSUME LocalInv, NEW r \in Requests, SetLock(r)
  PROVE  LocalInv'
<1>1. TypeOK'
  BY DEF LocalInv, Local, CountersOK, VerdictOK, HasKey, TypeOK, SetLock
<1>2. ASSUME NEW q \in Requests, q # r PROVE Local(q)'
  BY <1>2, LocalFrame DEF LocalInv, TypeOK, SetLock
<1>3. Local(r)'
  BY BasketLength, CheckoutAssumption DEF LocalInv, TypeOK, Local, CountersOK,
       NothingTaken, OrderOK, VerdictOK, HasKey, SetLock
<1> QED
  BY <1>1, <1>2, <1>3 DEF LocalInv

\* checkoutReview prices the items or throws.
LEMMA ReviewLocal ==
  ASSUME LocalInv, NEW r \in Requests, Review(r)
  PROVE  LocalInv'
<1>0. CASE Throw(r)
  BY <1>0, ThrowLocal DEF Review
<1>. SUFFICES ASSUME ~Throw(r) PROVE LocalInv'
  BY <1>0
<1>1. TypeOK'
  <2>1. pc' \in [Requests -> Calls \cup {"idle", "done", "lost"}]
    BY AfterReservingType DEF LocalInv, TypeOK, Review
  <2>2. verdict' \in [Requests -> Verdicts]
    BY DEF LocalInv, TypeOK, Review, AfterReserving
  <2>3. lateRetry' \in [Requests -> BOOLEAN]
    BY Zenon DEF LocalInv, TypeOK, Review, AfterReserving
  <2>4. answer' \in [Requests -> Requests \cup {NoOrder}]
    BY DEF LocalInv, Local, VerdictOK, HasKey, TypeOK, Review, AfterReserving
  <2>5. stock' \in [Products -> Nat] /\ reserved' \in [Requests -> Nat]
    BY DEF LocalInv, TypeOK, Review, AfterReserving
  <2> QED
    BY <2>1, <2>2, <2>3, <2>4, <2>5 DEF LocalInv, TypeOK, Review, AfterReserving
<1>2. ASSUME NEW q \in Requests, q # r PROVE Local(q)'
  BY <1>2, LocalFrame DEF LocalInv, TypeOK, Review, AfterReserving
<1>3. Local(r)'
  BY BasketLength, CheckoutAssumption DEF LocalInv, TypeOK, Local, CountersOK,
       NothingTaken, OrderOK, VerdictOK, HasKey, Review, AfterReserving
<1> QED
  BY <1>1, <1>2, <1>3 DEF LocalInv

\* One line is reserved, or the stock is short.
LEMMA ReserveLocal ==
  ASSUME LocalInv, NEW r \in Requests, Reserve(r)
  PROVE  LocalInv'
<1>0. CASE Throw(r)
  BY <1>0, ThrowLocal DEF Reserve
<1>. SUFFICES ASSUME ~Throw(r) PROVE LocalInv'
  BY <1>0
<1>1. TypeOK'
  <2>1. pc' \in [Requests -> Calls \cup {"idle", "done", "lost"}]
    <3>1. reserved[r] + 1 \in Nat
      BY DEF LocalInv, TypeOK
    <3>2. pc' = [pc EXCEPT ![r] = AfterReserving(r, reserved[r] + 1)]
      BY DEF Reserve
    <3> QED
      BY <3>1, <3>2, AfterReservingType DEF LocalInv, TypeOK
  <2>2. verdict' \in [Requests -> Verdicts]
    BY DEF LocalInv, TypeOK, Reserve, AfterReserving, StockAllows
  <2>3. lateRetry' \in [Requests -> BOOLEAN]
    BY Zenon DEF LocalInv, TypeOK, Reserve, AfterReserving, StockAllows
  <2>4. answer' \in [Requests -> Requests \cup {NoOrder}]
    BY DEF LocalInv, Local, VerdictOK, HasKey, TypeOK, Reserve, AfterReserving,
         StockAllows
  <2>5. stock' \in [Products -> Nat] /\ reserved' \in [Requests -> Nat]
    <3>1. Basket[r][reserved[r] + 1].product \in Products
          /\ Basket[r][reserved[r] + 1].quantity \in Nat
      BY LinePresent DEF LocalInv, Local, CountersOK, TypeOK, Reserve
    <3> QED
      BY <3>1 DEF LocalInv, TypeOK, Reserve, StockAllows
  <2> QED
    BY <2>1, <2>2, <2>3, <2>4, <2>5 DEF LocalInv, TypeOK, Reserve, AfterReserving,
         StockAllows
<1>2. ASSUME NEW q \in Requests, q # r PROVE Local(q)'
  BY <1>2, LocalFrame DEF LocalInv, TypeOK, Reserve, AfterReserving, StockAllows
<1>3. Local(r)'
  BY BasketLength, CheckoutAssumption DEF LocalInv, TypeOK, Local, CountersOK,
       NothingTaken, OrderOK, VerdictOK, HasKey, Reserve, AfterReserving, StockAllows
<1> QED
  BY <1>1, <1>2, <1>3 DEF LocalInv

\* The order is created, or fails validation.
LEMMA CreateOrderLocal ==
  ASSUME LocalInv, NEW r \in Requests, CreateOrder(r)
  PROVE  LocalInv'
<1>0. CASE Throw(r)
  BY <1>0, ThrowLocal DEF CreateOrder
<1>. SUFFICES ASSUME ~Throw(r) PROVE LocalInv'
  BY <1>0
<1>1. TypeOK'
  <2>1. pc' \in [Requests -> Calls \cup {"idle", "done", "lost"}]
    BY DEF LocalInv, TypeOK, CreateOrder
  <2>2. verdict' \in [Requests -> Verdicts]
    BY DEF LocalInv, TypeOK, CreateOrder
  <2>3. lateRetry' \in [Requests -> BOOLEAN]
    BY Zenon DEF LocalInv, TypeOK, CreateOrder
  <2>4. answer' \in [Requests -> Requests \cup {NoOrder}]
    BY DEF LocalInv, Local, VerdictOK, HasKey, TypeOK, CreateOrder
  <2>5. stock' \in [Products -> Nat] /\ reserved' \in [Requests -> Nat]
    BY DEF LocalInv, TypeOK, CreateOrder
  <2> QED
    BY <2>1, <2>2, <2>3, <2>4, <2>5 DEF LocalInv, TypeOK, CreateOrder
<1>2. ASSUME NEW q \in Requests, q # r PROVE Local(q)'
  BY <1>2, LocalFrame DEF LocalInv, TypeOK, CreateOrder
<1>3. Local(r)'
  BY BasketLength, CheckoutAssumption DEF LocalInv, TypeOK, Local, CountersOK,
       NothingTaken, OrderOK, VerdictOK, HasKey, CreateOrder
<1> QED
  BY <1>1, <1>2, <1>3 DEF LocalInv

\* The payment document is created.
LEMMA CreatePaymentLocal ==
  ASSUME LocalInv, NEW r \in Requests, CreatePayment(r)
  PROVE  LocalInv'
<1>1. TypeOK'
  BY DEF LocalInv, Local, CountersOK, VerdictOK, HasKey, TypeOK, CreatePayment,
       SnapshotStatus
<1>2. ASSUME NEW q \in Requests, q # r PROVE Local(q)'
  BY <1>2, LocalFrame DEF LocalInv, TypeOK, CreatePayment, SnapshotStatus
<1>3. Local(r)'
  BY BasketLength, CheckoutAssumption DEF LocalInv, TypeOK, Local, CountersOK,
       NothingTaken, OrderOK, VerdictOK, HasKey, CreatePayment, SnapshotStatus
<1> QED
  BY <1>1, <1>2, <1>3 DEF LocalInv

\* The order is saved with its payment snapshot.
LEMMA SaveSnapshotLocal ==
  ASSUME LocalInv, NEW r \in Requests, SaveSnapshot(r)
  PROVE  LocalInv'
<1>1. TypeOK'
  BY DEF LocalInv, Local, CountersOK, VerdictOK, HasKey, TypeOK, SaveSnapshot
<1>2. ASSUME NEW q \in Requests, q # r PROVE Local(q)'
  BY <1>2, LocalFrame DEF LocalInv, TypeOK, SaveSnapshot
<1>3. Local(r)'
  BY BasketLength, CheckoutAssumption DEF LocalInv, TypeOK, Local, CountersOK,
       NothingTaken, OrderOK, VerdictOK, HasKey, SaveSnapshot
<1> QED
  BY <1>1, <1>2, <1>3 DEF LocalInv

\* The cart is emptied.
LEMMA EmptyCartLocal ==
  ASSUME LocalInv, NEW r \in Requests, EmptyCart(r)
  PROVE  LocalInv'
<1>1. TypeOK'
  BY DEF LocalInv, Local, CountersOK, VerdictOK, HasKey, TypeOK, EmptyCart
<1>2. ASSUME NEW q \in Requests, q # r PROVE Local(q)'
  BY <1>2, LocalFrame DEF LocalInv, TypeOK, EmptyCart
<1>3. Local(r)'
  BY BasketLength, CheckoutAssumption DEF LocalInv, TypeOK, Local, CountersOK,
       NothingTaken, OrderOK, VerdictOK, HasKey, EmptyCart
<1> QED
  BY <1>1, <1>2, <1>3 DEF LocalInv

\* The response is stored under the key.
LEMMA StoreResultLocal ==
  ASSUME LocalInv, NEW r \in Requests, StoreResult(r)
  PROVE  LocalInv'
<1>1. TypeOK'
  BY DEF LocalInv, Local, CountersOK, VerdictOK, HasKey, TypeOK, StoreResult
<1>2. ASSUME NEW q \in Requests, q # r PROVE Local(q)'
  BY <1>2, LocalFrame DEF LocalInv, TypeOK, StoreResult
<1>3. Local(r)'
  BY BasketLength, CheckoutAssumption DEF LocalInv, TypeOK, Local, CountersOK,
       NothingTaken, OrderOK, VerdictOK, HasKey, StoreResult
<1> QED
  BY <1>1, <1>2, <1>3 DEF LocalInv

\* The notification is recorded.
LEMMA NotifyLocal ==
  ASSUME LocalInv, NEW r \in Requests, Notify(r)
  PROVE  LocalInv'
<1>1. TypeOK'
  <2>1. pc' \in [Requests -> Calls \cup {"idle", "done", "lost"}]
    BY DEF LocalInv, TypeOK, Notify, Return, Finally
  <2>2. verdict' \in [Requests -> Verdicts]
    BY DEF LocalInv, TypeOK, Notify, Return, Finally
  <2>3. lateRetry' \in [Requests -> BOOLEAN]
    BY Zenon DEF LocalInv, TypeOK, Notify, Return, Finally
  <2>4. answer' \in [Requests -> Requests \cup {NoOrder}]
    BY DEF LocalInv, Local, VerdictOK, HasKey, TypeOK, Notify, Return, Finally
  <2>5. stock' \in [Products -> Nat] /\ reserved' \in [Requests -> Nat]
    BY DEF LocalInv, TypeOK, Notify, Return, Finally
  <2> QED
    BY <2>1, <2>2, <2>3, <2>4, <2>5 DEF LocalInv, TypeOK, Notify, Return, Finally
<1>2. ASSUME NEW q \in Requests, q # r PROVE Local(q)'
  BY <1>2, LocalFrame DEF LocalInv, TypeOK, Notify, Return, Finally
<1>3. Local(r)'
  BY BasketLength, CheckoutAssumption DEF LocalInv, TypeOK, Local, CountersOK,
       NothingTaken, OrderOK, VerdictOK, HasKey, Notify, Return, Finally
<1> QED
  BY <1>1, <1>2, <1>3 DEF LocalInv

\* The email job is queued.
LEMMA EnqueueLocal ==
  ASSUME LocalInv, NEW r \in Requests, Enqueue(r)
  PROVE  LocalInv'
<1>1. TypeOK'
  BY DEF LocalInv, Local, CountersOK, VerdictOK, HasKey, TypeOK, Enqueue, Return,
       Finally
<1>2. ASSUME NEW q \in Requests, q # r PROVE Local(q)'
  BY <1>2, LocalFrame DEF LocalInv, TypeOK, Enqueue, Return, Finally
<1>3. Local(r)'
  BY BasketLength, CheckoutAssumption DEF LocalInv, TypeOK, Local, CountersOK,
       NothingTaken, OrderOK, VerdictOK, HasKey, Enqueue, Return, Finally
<1> QED
  BY <1>1, <1>2, <1>3 DEF LocalInv

\* The catch block deletes the order.
LEMMA DeleteOrderLocal ==
  ASSUME LocalInv, NEW r \in Requests, DeleteOrder(r)
  PROVE  LocalInv'
<1>1. TypeOK'
  BY DEF LocalInv, Local, CountersOK, VerdictOK, HasKey, TypeOK, DeleteOrder,
       AfterDelete, Finally
<1>2. ASSUME NEW q \in Requests, q # r PROVE Local(q)'
  BY <1>2, LocalFrame DEF LocalInv, TypeOK, DeleteOrder, AfterDelete, Finally
<1>3. Local(r)'
  BY BasketLength, CheckoutAssumption DEF LocalInv, TypeOK, Local, CountersOK,
       NothingTaken, OrderOK, VerdictOK, HasKey, DeleteOrder, AfterDelete, Finally
<1> QED
  BY <1>1, <1>2, <1>3 DEF LocalInv

\* The catch block restores one line.
LEMMA RestoreLocal ==
  ASSUME LocalInv, NEW r \in Requests, Restore(r)
  PROVE  LocalInv'
<1>1. TypeOK'
  BY LinePresent, BasketLength DEF LocalInv, Local, CountersOK, VerdictOK, HasKey,
       TypeOK, Restore, AfterRestoring, Finally, PutBack
<1>2. ASSUME NEW q \in Requests, q # r PROVE Local(q)'
  BY <1>2, LocalFrame DEF LocalInv, TypeOK, Restore, AfterRestoring, Finally, PutBack
<1>3. Local(r)'
  BY BasketLength, CheckoutAssumption DEF LocalInv, TypeOK, Local, CountersOK,
       NothingTaken, OrderOK, VerdictOK, HasKey, Restore, AfterRestoring, Finally,
       PutBack
<1> QED
  BY <1>1, <1>2, <1>3 DEF LocalInv

\* The finally block deletes the lock.
LEMMA UnlockLocal ==
  ASSUME LocalInv, NEW r \in Requests, Unlock(r)
  PROVE  LocalInv'
<1>1. TypeOK'
  BY DEF LocalInv, Local, CountersOK, VerdictOK, HasKey, TypeOK, Unlock
<1>2. ASSUME NEW q \in Requests, q # r PROVE Local(q)'
  BY <1>2, LocalFrame DEF LocalInv, TypeOK, Unlock
<1>3. Local(r)'
  BY BasketLength, CheckoutAssumption DEF LocalInv, TypeOK, Local, CountersOK,
       NothingTaken, OrderOK, VerdictOK, HasKey, Unlock
<1> QED
  BY <1>1, <1>2, <1>3 DEF LocalInv

\* Any call throws.
LEMMA CallThrowsLocal ==
  ASSUME LocalInv, NEW r \in Requests, CallThrows(r)
  PROVE  LocalInv'
<1>0. CASE pc[r] \in InTry
  BY <1>0, ThrowLocal DEF CallThrows
<1>. SUFFICES ASSUME pc[r] \notin InTry PROVE LocalInv'
  BY <1>0
<1>1. TypeOK'
  <2>1. pc' \in [Requests -> Calls \cup {"idle", "done", "lost"}]
    BY DEF LocalInv, TypeOK, CallThrows, Finally
  <2>2. verdict' \in [Requests -> Verdicts]
    BY DEF LocalInv, TypeOK, CallThrows, Finally
  <2>3. lateRetry' \in [Requests -> BOOLEAN]
    BY Zenon DEF LocalInv, TypeOK, CallThrows, Finally
  <2>4. answer' \in [Requests -> Requests \cup {NoOrder}]
    BY DEF LocalInv, Local, VerdictOK, HasKey, TypeOK, CallThrows, Finally
  <2>5. stock' \in [Products -> Nat] /\ reserved' \in [Requests -> Nat]
    BY DEF LocalInv, TypeOK, CallThrows, Finally
  <2> QED
    BY <2>1, <2>2, <2>3, <2>4, <2>5 DEF LocalInv, TypeOK, CallThrows, Finally
<1>2. ASSUME NEW q \in Requests, q # r PROVE Local(q)'
  BY <1>2, LocalFrame DEF LocalInv, TypeOK, CallThrows, Finally
<1>3. Local(r)'
  <2>1. CountersOK(r)' /\ OrderOK(r)'
    BY DEF LocalInv, TypeOK, Local, CountersOK, NothingTaken, OrderOK, VerdictOK, CallThrows, Finally
  <2>2. VerdictOK(r)'
    <3>1. CASE pc[r] \in BeforeTry
      BY <3>1 DEF LocalInv, TypeOK, Local, CountersOK, NothingTaken, VerdictOK, CallThrows
    <3>2. CASE pc[r] \in InCatch
      BY <3>2 DEF LocalInv, TypeOK, Local, VerdictOK, CallThrows, Finally, HasKey
    <3>3. CASE pc[r] = "unlock"
      BY <3>3 DEF LocalInv, TypeOK, Local, VerdictOK, CallThrows
    <3> QED
      BY <3>1, <3>2, <3>3, CheckoutAssumption DEF CallThrows
  <2> QED
    BY <2>1, <2>2 DEF Local
<1> QED
  BY <1>1, <1>2, <1>3 DEF LocalInv

\* The process stops.
LEMMA CrashLocal ==
  ASSUME LocalInv, Crash
  PROVE  LocalInv'
<1>1. TypeOK'
  BY DEF LocalInv, TypeOK, Crash
<1>2. ASSUME NEW q \in Requests PROVE Local(q)'
  BY DEF LocalInv, TypeOK, Local, CountersOK, NothingTaken, OrderOK, VerdictOK, HasKey, Crash
<1> QED
  BY <1>1, <1>2 DEF LocalInv

\* A lock or a result expires, or nothing happens.
LEMMA ExpiryLocal ==
  ASSUME LocalInv,
         \/ \E k \in Keys : LockExpires(k) \/ ResultExpires(k)
         \/ UNCHANGED vars
  PROVE  LocalInv'
<1>1. TypeOK'
  <2>1. CASE UNCHANGED vars
    BY <2>1 DEF LocalInv, TypeOK, vars
  <2>2. ASSUME NEW k \in Keys, LockExpires(k) PROVE TypeOK'
    <3>1. lock' \in [Keys -> Requests \cup {NoOrder}]
      BY <2>2 DEF LocalInv, TypeOK, LockExpires
    <3>2. UNCHANGED <<service, result, process>>
      BY <2>2 DEF LockExpires
    <3> QED
      BY <3>1, <3>2 DEF LocalInv, TypeOK
  <2>3. ASSUME NEW k \in Keys, ResultExpires(k) PROVE TypeOK'
    <3>1. result' \in [Keys -> Requests \cup {NoOrder}]
      BY <2>3 DEF LocalInv, TypeOK, ResultExpires
    <3>2. UNCHANGED <<service, lock, process>>
      BY <2>3 DEF ResultExpires
    <3> QED
      BY <3>1, <3>2 DEF LocalInv, TypeOK
  <2> QED
    BY <2>1, <2>2, <2>3
<1>2. ASSUME NEW q \in Requests PROVE Local(q)'
  <2>1. UNCHANGED <<service, process>>
    BY DEF LockExpires, ResultExpires, vars
  <2> QED
    BY <2>1, LocalFrame DEF LocalInv
<1> QED
  BY <1>1, <1>2 DEF LocalInv

\* Every step keeps the types and what each request's fields say of each other.
LEMMA LocalStep ==
  ASSUME LocalInv, [Next]_vars
  PROVE  LocalInv'
<1>1. ASSUME NEW r \in Requests, Serve(r) PROVE LocalInv'
  BY <1>1, ReadResultLocal, ReadLockLocal, SetLockLocal, ReviewLocal, ReserveLocal,
     CreateOrderLocal, CreatePaymentLocal, SaveSnapshotLocal, EmptyCartLocal,
     StoreResultLocal, NotifyLocal, EnqueueLocal, DeleteOrderLocal, RestoreLocal,
     UnlockLocal, CallThrowsLocal DEF Serve
<1> QED
  BY <1>1, ArriveLocal, ExpiryLocal, CrashLocal DEF Next, Quiet

\* The parts of the invariant hold at the start.
LEMMA LocalInit == Init => LocalInv
BY BasketsAssumption, BasketLength
   DEF Init, LocalInv, TypeOK, Local, CountersOK, NothingTaken, OrderOK, VerdictOK

-----------------------------------------------------------------------------
\* The held lines change only with the counters.
LEMMA HeldFrame ==
  ASSUME reserved' = reserved, restored' = restored
  PROVE  HeldLines' = HeldLines
BY DEF HeldLines, HeldBy

\* Steps that touch neither the stock nor the counters keep the account.
LEMMA AccountFrame ==
  ASSUME StockAccounted, stock' = stock, reserved' = reserved, restored' = restored
  PROVE  StockAccounted'
<1>1. HeldLines' = HeldLines
  BY HeldFrame
<1> QED
  BY <1>1 DEF StockAccounted

\* The line a reservation takes: it was not held, is held now, and the stock has it no more.
LEMMA ReserveMoves ==
  ASSUME LocalInv, NEW r \in Requests, Reserve(r), ~Throw(r)
  PROVE  LET l == <<r, reserved[r] + 1>> IN
         /\ l \in Lines /\ l \notin HeldLines /\ HeldLines' = HeldLines \cup {l}
         /\ stock' = [stock EXCEPT ![LineOf(l).product] = @ - LineOf(l).quantity]
<1> DEFINE i == reserved[r] + 1
           l == <<r, i>>
<1>1. i \in 1 .. Len(Basket[r]) /\ restored[r] = 0 /\ reserved[r] \in Nat
  BY BasketLength DEF LocalInv, Local, CountersOK, TypeOK, Reserve
<1>2. l \in Lines /\ LineOf(l) = Basket[r][i]
  BY <1>1, LineExists
<1>3. l \notin HeldLines
  BY <1>1 DEF HeldLines, HeldBy
<1>4. HeldLines' = HeldLines \cup {l}
  <2>1. /\ reserved' = [reserved EXCEPT ![r] = reserved[r] + 1]
        /\ restored' = restored
    BY DEF Reserve
  <2>2. ASSUME NEW m \in Lines PROVE m[2] \in HeldBy(m[1])' <=> (m[2] \in HeldBy(m[1]) \/ m = l)
    <3>1. m = <<m[1], m[2]>> /\ m[1] \in Requests /\ m[2] \in Int
      BY LineType, BasketLength
    <3>2. reserved[m[1]] \in Nat /\ restored[m[1]] \in Nat
      BY <3>1 DEF LocalInv, TypeOK
    <3>3. CASE m[1] # r
      BY <2>1, <3>1, <3>3 DEF HeldBy, LocalInv, TypeOK
    <3>4. CASE m[1] = r
      BY <1>1, <2>1, <3>1, <3>2, <3>4 DEF HeldBy, LocalInv, TypeOK
    <3> QED
      BY <3>3, <3>4
  <2> QED
    BY <1>2, <2>2 DEF HeldLines
<1>5. stock' = [stock EXCEPT ![LineOf(l).product] = @ - LineOf(l).quantity]
  BY <1>2 DEF Reserve
<1> QED
  BY <1>2, <1>3, <1>4, <1>5

\* The line a restore puts back.
LEMMA RestoreMoves ==
  ASSUME LocalInv, NEW r \in Requests, Restore(r)
  PROVE  LET l == <<r, restored[r] + 1>> IN
         /\ l \in Lines /\ l \in HeldLines /\ HeldLines' = HeldLines \ {l}
         /\ stock' = [stock EXCEPT ![LineOf(l).product] = @ + LineOf(l).quantity]
<1> DEFINE i == restored[r] + 1
           l == <<r, i>>
<1>1. i \in 1 .. Len(Basket[r]) /\ i <= reserved[r] /\ restored[r] \in Nat /\ reserved[r] \in Nat
  BY BasketLength DEF LocalInv, Local, CountersOK, TypeOK, Restore
<1>2. l \in Lines /\ LineOf(l) = Basket[r][i]
  BY <1>1, LineExists
<1>3. l \in HeldLines
  BY <1>1, <1>2 DEF HeldLines, HeldBy
<1>4. HeldLines' = HeldLines \ {l}
  <2>1. /\ restored' = [restored EXCEPT ![r] = restored[r] + 1]
        /\ reserved' = reserved
    BY DEF Restore
  <2>2. ASSUME NEW m \in Lines PROVE m[2] \in HeldBy(m[1])' <=> (m[2] \in HeldBy(m[1]) /\ m # l)
    <3>1. m = <<m[1], m[2]>> /\ m[1] \in Requests /\ m[2] \in Int
      BY LineType, BasketLength
    <3>2. reserved[m[1]] \in Nat /\ restored[m[1]] \in Nat
      BY <3>1 DEF LocalInv, TypeOK
    <3>3. CASE m[1] # r
      BY <2>1, <3>1, <3>3 DEF HeldBy, LocalInv, TypeOK
    <3>4. CASE m[1] = r
      BY <1>1, <2>1, <3>1, <3>2, <3>4 DEF HeldBy, LocalInv, TypeOK
    <3> QED
      BY <3>3, <3>4
  <2> QED
    BY <1>2, <2>2 DEF HeldLines
<1>5. stock' = [stock EXCEPT ![LineOf(l).product] = @ + LineOf(l).quantity]
  BY <1>2 DEF Restore, PutBack
<1> QED
  BY <1>2, <1>3, <1>4, <1>5

\* Taking a line out of the stock, or bringing one back, keeps what a product and the lines
\* that are out come to.
LEMMA TakeLine ==
  ASSUME stock \in [Products -> Nat], NEW L, NEW l \in Lines, l \notin L, NEW p \in Products,
         stock' = [stock EXCEPT ![LineOf(l).product] = @ - LineOf(l).quantity],
         stock[p] + Cardinality(UnitsIn(L, p)) = InitialStock[p]
  PROVE  stock'[p] + Cardinality(UnitsIn(L \cup {l}, p)) = InitialStock[p]
<1>1. Cardinality(UnitsIn(L \cup {l}, p)) = Cardinality(UnitsIn(L, p))
        + (IF LineOf(l).product = p THEN LineOf(l).quantity ELSE 0)
  BY UnitsInAdd
<1>2. LineOf(l).product \in Products /\ LineOf(l).quantity \in Nat
  BY LineType
<1> QED
  BY <1>1, <1>2, UnitsInFinite

LEMMA BringLine ==
  ASSUME stock \in [Products -> Nat], NEW L, NEW l \in Lines, l \in L, NEW p \in Products,
         stock' = [stock EXCEPT ![LineOf(l).product] = @ + LineOf(l).quantity],
         stock[p] + Cardinality(UnitsIn(L, p)) = InitialStock[p]
  PROVE  stock'[p] + Cardinality(UnitsIn(L \ {l}, p)) = InitialStock[p]
<1>1. Cardinality(UnitsIn(L, p)) = Cardinality(UnitsIn(L \ {l}, p))
        + (IF LineOf(l).product = p THEN LineOf(l).quantity ELSE 0)
  BY UnitsInRemove
<1>2. LineOf(l).product \in Products /\ LineOf(l).quantity \in Nat
  BY LineType
<1> QED
  BY <1>1, <1>2, UnitsInFinite

\* A reservation moves a line's units from the stock to the held lines.
LEMMA ReserveAccount ==
  ASSUME LocalInv, StockAccounted, NEW r \in Requests, Reserve(r)
  PROVE  StockAccounted'
<1>1. CASE Throw(r)
  BY <1>1, AccountFrame DEF Throw
<1>2. CASE ~Throw(r)
  <2> DEFINE l == <<r, reserved[r] + 1>>
  <2>1. /\ l \in Lines /\ l \notin HeldLines /\ HeldLines' = HeldLines \cup {l}
        /\ stock' = [stock EXCEPT ![LineOf(l).product] = @ - LineOf(l).quantity]
    BY <1>2, ReserveMoves
  <2> HIDE DEF l
  <2>2. ASSUME NEW p \in Products PROVE stock'[p] + Cardinality(UnitsIn(HeldLines \cup {l}, p)) = InitialStock[p]
    <3>1. stock \in [Products -> Nat] /\ stock[p] + Cardinality(UnitsIn(HeldLines, p)) = InitialStock[p]
      BY DEF StockAccounted, LocalInv, TypeOK
    <3>2. /\ l \in Lines /\ l \notin HeldLines
          /\ stock' = [stock EXCEPT ![LineOf(l).product] = @ - LineOf(l).quantity]
      BY <2>1
    <3> QED
      BY <3>1, <3>2, TakeLine
  <2> QED
    BY <2>1, <2>2 DEF StockAccounted
<1> QED
  BY <1>1, <1>2

\* A restore moves them back.
LEMMA RestoreAccount ==
  ASSUME LocalInv, StockAccounted, NEW r \in Requests, Restore(r)
  PROVE  StockAccounted'
<1> DEFINE l == <<r, restored[r] + 1>>
<1>1. /\ l \in Lines /\ l \in HeldLines /\ HeldLines' = HeldLines \ {l}
      /\ stock' = [stock EXCEPT ![LineOf(l).product] = @ + LineOf(l).quantity]
  BY RestoreMoves
<1> HIDE DEF l
<1>2. ASSUME NEW p \in Products PROVE stock'[p] + Cardinality(UnitsIn(HeldLines \ {l}, p)) = InitialStock[p]
  BY <1>1, BringLine DEF StockAccounted, LocalInv, TypeOK
<1> QED
  BY <1>1, <1>2 DEF StockAccounted

\* The account is kept by every step.
LEMMA AccountStep ==
  ASSUME LocalInv, StockAccounted, [Next]_vars
  PROVE  StockAccounted'
<1>1. ASSUME NEW r \in Requests, Arrive(r) PROVE StockAccounted'
  BY <1>1, AccountFrame DEF Arrive
<1>2. ASSUME NEW r \in Requests, Serve(r) PROVE StockAccounted'
  <2>1. CASE Reserve(r)
    BY <2>1, ReserveAccount
  <2>2. CASE Restore(r)
    BY <2>2, RestoreAccount
  <2>3. CASE ReadResult(r) \/ ReadLock(r) \/ SetLock(r) \/ Review(r)
    BY <2>3, AccountFrame DEF ReadResult, ReadLock, SetLock, Review, Throw
  <2>4. CASE CreateOrder(r) \/ CreatePayment(r) \/ SaveSnapshot(r) \/ EmptyCart(r)
    BY <2>4, AccountFrame DEF CreateOrder, CreatePayment, SaveSnapshot, EmptyCart, Throw
  <2>5. CASE StoreResult(r) \/ Notify(r) \/ Enqueue(r) \/ DeleteOrder(r) \/ Unlock(r)
    BY <2>5, AccountFrame DEF StoreResult, Notify, Enqueue, DeleteOrder, Unlock
  <2>6. CASE CallThrows(r)
    BY <2>6, AccountFrame DEF CallThrows, Throw
  <2> QED
    BY <1>2, <2>1, <2>2, <2>3, <2>4, <2>5, <2>6 DEF Serve
<1>3. CASE Crash
  BY <1>3, AccountFrame DEF Crash
<1>4. ASSUME NEW k \in Keys, LockExpires(k) \/ ResultExpires(k) PROVE StockAccounted'
  BY <1>4, AccountFrame DEF LockExpires, ResultExpires
<1>5. CASE UNCHANGED vars
  BY <1>5, AccountFrame DEF vars
<1> QED
  BY <1>1, <1>2, <1>3, <1>4, <1>5 DEF Next, Quiet

\* At the start nothing is held.
LEMMA AccountInit == Init => StockAccounted
<1> SUFFICES ASSUME Init PROVE StockAccounted
  OBVIOUS
<1>1. HeldLines = {}
  <2> SUFFICES ASSUME NEW l \in Lines PROVE l[2] \notin HeldBy(l[1])
    BY DEF HeldLines
  <2>1. l[1] \in Requests
    BY LineType
  <2> QED
    BY <2>1 DEF Init, HeldBy
<1> QED
  BY <1>1, UnitsInNone, BasketsAssumption DEF StockAccounted, Init

-----------------------------------------------------------------------------
\* Orders in the database hold all of their lines.
LEMMA LocalOrderBacked == LocalInv => OrderBacked
<1> SUFFICES ASSUME LocalInv, NEW r \in Requests, orders[r] # "absent"
             PROVE  HeldBy(r) = DOMAIN Basket[r]
  BY DEF OrderBacked
<1>1. DOMAIN Basket[r] = 1 .. Len(Basket[r])
  BY BasketsAssumption
<1>2. reserved[r] = Len(Basket[r]) /\ restored[r] = 0
  BY DEF LocalInv, Local, OrderOK
<1> QED
  BY <1>1, <1>2 DEF HeldBy

\* A request that is done and refused has gone through the whole rollback.
LEMMA LocalRollback == LocalInv => RollbackComplete
<1> SUFFICES ASSUME LocalInv, Failing \cap InCatch = {}, NEW r \in Requests,
                    pc[r] = "done", verdict[r] \in {"refused", "unreleased"}
             PROVE  orders[r] = "absent" /\ HeldBy(r) = {}
  BY DEF RollbackComplete
<1>1. orders[r] = "absent" /\ restored[r] = reserved[r] /\ reserved[r] \in Nat
  BY DEF LocalInv, TypeOK, Local, VerdictOK
<1> QED
  BY <1>1 DEF HeldBy

\* A verdict of success comes after the last save and the notification.
LEMMA LocalComplete == LocalInv => PlacedIsComplete
BY DEF LocalInv, Local, VerdictOK, PlacedIsComplete

-----------------------------------------------------------------------------
ResultInv == \A r \in Requests : KeyOf[r] \notin Fleeting => ResultOK(r)

\* A step that leaves a request's fields and the results alone keeps ResultOK.
LEMMA ResultFrame ==
  ASSUME NEW q \in Requests, ResultOK(q),
         HasKey(q) /\ result[KeyOf[q]] # NoOrder => result'[KeyOf[q]] # NoOrder,
         pc'[q] = pc[q], reserved'[q] = reserved[q], restored'[q] = restored[q],
         orders'[q] = orders[q], verdict'[q] = verdict[q], lateRetry'[q] = lateRetry[q]
  PROVE  ResultOK(q)'
BY DEF ResultOK, NothingTaken, HasKey

\* Nothing but its own 600 seconds takes a stored result away.
LEMMA ResultKept ==
  ASSUME LocalInv, [Next]_vars, NEW k \in Keys \ Fleeting, result[k] # NoOrder
  PROVE  result'[k] # NoOrder
<1>1. ASSUME NEW r \in Requests, StoreResult(r) PROVE result'[k] # NoOrder
  BY <1>1, CheckoutAssumption DEF StoreResult, LocalInv, TypeOK
<1>2. ASSUME NEW r \in Requests, Serve(r), ~StoreResult(r) PROVE result' = result
  BY <1>2 DEF Serve, ReadResult, ReadLock, SetLock, Review, Reserve, CreateOrder, CreatePayment,
     SaveSnapshot, EmptyCart, Notify, Enqueue, DeleteOrder, Restore, Unlock, CallThrows, Throw
<1>3. ASSUME NEW r \in Requests, Arrive(r) PROVE result' = result
  BY <1>3 DEF Arrive
<1> QED
  BY <1>1, <1>2, <1>3 DEF Next, Quiet, LockExpires, ResultExpires, Crash, LocalInv, TypeOK, vars

\* Only request r's own fields change when it is served or arrives.
LEMMA OthersKept ==
  ASSUME LocalInv, NEW r \in Requests, Arrive(r) \/ Serve(r), NEW q \in Requests, q # r
  PROVE  /\ pc'[q] = pc[q] /\ reserved'[q] = reserved[q] /\ restored'[q] = restored[q]
         /\ orders'[q] = orders[q] /\ verdict'[q] = verdict[q] /\ lateRetry'[q] = lateRetry[q]
         /\ payments'[q] = payments[q] /\ answer'[q] = answer[q]
<1>1. CASE Arrive(r)
  BY <1>1 DEF LocalInv, TypeOK, Arrive
<1>2. CASE ReadResult(r) \/ ReadLock(r) \/ SetLock(r)
  BY <1>2 DEF LocalInv, TypeOK, ReadResult, ReadLock, SetLock
<1>3. CASE Review(r) \/ Reserve(r)
  BY <1>3 DEF LocalInv, TypeOK, Review, Reserve, Throw
<1>4. CASE CreateOrder(r) \/ CreatePayment(r) \/ SaveSnapshot(r) \/ EmptyCart(r)
  BY <1>4 DEF LocalInv, TypeOK, CreateOrder, CreatePayment, SaveSnapshot, EmptyCart, Throw
<1>5. CASE StoreResult(r) \/ Notify(r) \/ Enqueue(r)
  BY <1>5 DEF LocalInv, TypeOK, StoreResult, Notify, Enqueue, Return
<1>6. CASE DeleteOrder(r) \/ Restore(r) \/ Unlock(r) \/ CallThrows(r)
  BY <1>6 DEF LocalInv, TypeOK, DeleteOrder, Restore, Unlock, CallThrows, Throw
<1> QED
  BY <1>1, <1>2, <1>3, <1>4, <1>5, <1>6 DEF Serve

\* A request that is served has a call to make.
LEMMA ServedIsCalling ==
  ASSUME NEW r \in Requests, Serve(r)
  PROVE  pc[r] \in Calls
BY CheckoutAssumption
   DEF Serve, ReadResult, ReadLock, SetLock, Review, Reserve, CreateOrder, CreatePayment,
       SaveSnapshot, EmptyCart, StoreResult, Notify, Enqueue, DeleteOrder, Restore, Unlock,
       CallThrows

\* A late retry finds the result and stops there.
LEMMA LateRetryServed ==
  ASSUME LocalInv, NEW r \in Requests, ResultOK(r), lateRetry[r], Serve(r),
         HasKey(r) /\ result[KeyOf[r]] # NoOrder => result'[KeyOf[r]] # NoOrder
  PROVE  ResultOK(r)'
<1>1. pc[r] = "readResult" /\ HasKey(r) /\ result[KeyOf[r]] # NoOrder /\ NothingTaken(r)
  BY ServedIsCalling DEF ResultOK
<1>2. ReadResult(r) \/ CallThrows(r)
  BY <1>1 DEF Serve, ReadLock, SetLock, Review, Reserve, CreateOrder, CreatePayment,
     SaveSnapshot, EmptyCart, StoreResult, Notify, Enqueue, DeleteOrder, Restore, Unlock
<1>3. CASE ReadResult(r)
  BY <1>1, <1>3 DEF LocalInv, TypeOK, ResultOK, ReadResult, NothingTaken, HasKey
<1>4. CASE CallThrows(r)
  BY <1>1, <1>4 DEF LocalInv, TypeOK, ResultOK, CallThrows, NothingTaken, HasKey
<1> QED
  BY <1>2, <1>3, <1>4

\* Any other request reaches its end only past StoreResult.
LEMMA OtherServed ==
  ASSUME LocalInv, NEW r \in Requests, ResultOK(r), ~lateRetry[r], Serve(r),
         HasKey(r) /\ result[KeyOf[r]] # NoOrder => result'[KeyOf[r]] # NoOrder
  PROVE  ResultOK(r)'
<1>0. ~lateRetry'[r]
  BY DEF LocalInv, TypeOK, Serve, ReadResult, ReadLock, SetLock, Review, Reserve, CreateOrder,
     CreatePayment, SaveSnapshot, EmptyCart, StoreResult, Notify, Enqueue, DeleteOrder,
     Restore, Unlock, CallThrows, Throw
<1>1. SUFFICES ASSUME HasKey(r), pc'[r] \in {"notify", "enqueue"} \/ verdict'[r] = "placed"
               PROVE  result'[KeyOf[r]] # NoOrder
  BY <1>0 DEF ResultOK, HasKey
<1>2. CASE StoreResult(r)
  <2>1. result' = [result EXCEPT ![KeyOf[r]] = r]
    BY <1>2 DEF StoreResult
  <2> QED
    BY <1>1, <2>1, CheckoutAssumption DEF LocalInv, TypeOK, HasKey
<1>3. CASE Notify(r) \/ Enqueue(r)
  BY <1>1, <1>3 DEF ResultOK, Notify, Enqueue
<1>4. CASE ReadResult(r) \/ ReadLock(r) \/ SetLock(r) \/ CreatePayment(r) \/ SaveSnapshot(r)
  BY <1>1, <1>4 DEF LocalInv, TypeOK, Local, VerdictOK, ReadResult, ReadLock, SetLock,
     CreatePayment, SaveSnapshot
<1>5. CASE EmptyCart(r)
  BY <1>1, <1>5 DEF LocalInv, TypeOK, Local, VerdictOK, EmptyCart, HasKey
<1>6. CASE Throw(r)
  BY <1>1, <1>6 DEF LocalInv, TypeOK, Throw, Catch, AfterDelete, Finally
<1>7. CASE Review(r) \/ Reserve(r) \/ CreateOrder(r)
  BY <1>1, <1>6, <1>7 DEF LocalInv, TypeOK, Local, VerdictOK, Review, Reserve, CreateOrder,
     AfterReserving
<1>8. CASE DeleteOrder(r) \/ Restore(r) \/ Unlock(r)
  BY <1>1, <1>8 DEF LocalInv, TypeOK, Local, VerdictOK, ResultOK, DeleteOrder, Restore, Unlock,
     AfterDelete, AfterRestoring, Finally
<1>9. CASE CallThrows(r)
  BY <1>1, <1>6, <1>9 DEF LocalInv, TypeOK, Local, VerdictOK, ResultOK, CallThrows, Finally
<1> QED
  BY <1>2, <1>3, <1>4, <1>5, <1>7, <1>8, <1>9 DEF Serve

\* ResultOK is kept by every step.
LEMMA ResultStep ==
  ASSUME LocalInv, ResultInv, [Next]_vars
  PROVE  ResultInv'
<1> SUFFICES ASSUME NEW q \in Requests, KeyOf[q] \notin Fleeting PROVE ResultOK(q)'
  BY DEF ResultInv
<1>0. ResultOK(q)
  BY DEF ResultInv
<1>1. HasKey(q) /\ result[KeyOf[q]] # NoOrder => result'[KeyOf[q]] # NoOrder
  BY ResultKept DEF HasKey
<1>2. ASSUME NEW r \in Requests, Arrive(r) \/ Serve(r), r # q PROVE ResultOK(q)'
  BY <1>0, <1>1, <1>2, OthersKept, ResultFrame
<1>3. CASE Serve(q)
  BY <1>0, <1>1, <1>3, LateRetryServed, OtherServed
<1>4. CASE Arrive(q)
  <2>1. NothingTaken(q) /\ verdict[q] = "none" /\ result' = result
    BY <1>4 DEF LocalInv, Local, CountersOK, VerdictOK, Arrive
  <2>2. HasKey(q) /\ AnsweredFor(KeyOf[q]) => result[KeyOf[q]] # NoOrder
    BY DEF AnsweredFor, ResultInv, ResultOK, HasKey
  <2>3. NothingTaken(q)'
    BY <1>4, <2>1 DEF Arrive, NothingTaken
  <2>4. /\ pc'[q] \in {"review", "readResult", "done"} /\ verdict'[q] \in {"none", "refused"}
        /\ HasKey(q) => pc'[q] = "readResult"
    BY <1>4, <2>1, CheckoutAssumption DEF LocalInv, TypeOK, Arrive, HasKey
  <2>5. lateRetry'[q] => HasKey(q) /\ AnsweredFor(KeyOf[q])
    BY <1>4 DEF LocalInv, TypeOK, Arrive
  <2> QED
    BY <2>1, <2>2, <2>3, <2>4, <2>5 DEF ResultOK, HasKey
<1>5. CASE Crash
  BY <1>0, <1>1, <1>5 DEF LocalInv, TypeOK, ResultOK, NothingTaken, HasKey, Crash
<1>6. ASSUME NEW k \in Keys, LockExpires(k) \/ ResultExpires(k) PROVE ResultOK(q)'
  BY <1>0, <1>1, <1>6, ResultFrame DEF LockExpires, ResultExpires
<1>7. CASE UNCHANGED vars
  BY <1>0, <1>1, <1>7, ResultFrame DEF vars
<1> QED
  BY <1>2, <1>3, <1>4, <1>5, <1>6, <1>7 DEF Next, Quiet

\* No late retry at the start.
LEMMA ResultInit == Init => ResultInv
BY DEF Init, ResultInv, ResultOK

\* ResultOK is what the property about late retries needs.
LEMMA ResultLateRetry == LocalInv /\ ResultInv => LateRetryReplayed
BY DEF ResultInv, ResultOK, NothingTaken, LateRetryReplayed

-----------------------------------------------------------------------------
\* The parts above are the inductive invariant.
LEMMA IInvParts == IInv <=> LocalInv /\ StockAccounted /\ ResultInv
BY DEF IInv, LocalInv, Local, ResultInv

\* Every reachable state satisfies the inductive invariant.
THEOREM Invariance == Spec => []IInv
<1>1. Init => IInv
  BY LocalInit, AccountInit, ResultInit, IInvParts
<1>2. IInv /\ [Next]_vars => IInv'
  <2> SUFFICES ASSUME LocalInv, StockAccounted, ResultInv, [Next]_vars
               PROVE  LocalInv' /\ StockAccounted' /\ ResultInv'
    BY DEF IInv, LocalInv, Local, ResultInv
  <2> QED
    BY LocalStep, AccountStep, ResultStep
<1> QED
  BY <1>1, <1>2, PTL DEF Spec

\* Type correctness of orderByUser's state: in particular inven_stock never goes negative.
THEOREM TypeCorrect == Spec => []TypeOK
<1>1. IInv => TypeOK
  BY DEF IInv
<1> QED
  BY <1>1, Invariance, PTL

\* Stock is never created or lost (reserveInventory and restoreReservedInventory).
THEOREM StockIsAccounted == Spec => []StockAccounted
<1>1. IInv => StockAccounted
  BY DEF IInv
<1> QED
  BY <1>1, Invariance, PTL

\* No order without the stock of its lines, whatever fails or crashes.
THEOREM OrdersAreBacked == Spec => []OrderBacked
<1>1. IInv => OrderBacked
  BY IInvParts, LocalOrderBacked
<1> QED
  BY <1>1, Invariance, PTL

\* A refused checkout leaves no order and no reservation, if its rollback can run.
THEOREM RollbackIsComplete == Spec => []RollbackComplete
<1>1. IInv => RollbackComplete
  BY IInvParts, LocalRollback
<1> QED
  BY <1>1, Invariance, PTL

\* A placed order is complete: linked payment, recorded notification.
THEOREM PlacedAreComplete == Spec => []PlacedIsComplete
<1>1. IInv => PlacedIsComplete
  BY IInvParts, LocalComplete
<1> QED
  BY <1>1, Invariance, PTL

\* A retry sent after the answer makes no second order while the result lasts.
THEOREM LateRetriesAreReplayed == Spec => []LateRetryReplayed
<1>1. IInv => LateRetryReplayed
  BY IInvParts, ResultLateRetry
<1> QED
  BY <1>1, Invariance, PTL

-----------------------------------------------------------------------------
(* The order a replayed request is shown.                                   *)

\* The order of o is there with its payment, or its checkout has failed since.
Kept(o) == payments[o] # "absent" /\ (orders[o] = "linked" \/ verdict[o] \in {"refused", "unreleased"})

\* Every stored result, and every replayed answer, names a kept order of its key.
ShownInv ==
  /\ \A k \in Keys : result[k] # NoOrder => KeyOf[result[k]] = k /\ Kept(result[k])
  /\ \A r \in Requests : verdict[r] = "replayed" =>
       answer[r] \in Requests /\ KeyOf[answer[r]] = KeyOf[r] /\ Kept(answer[r])

\* An order in the database is deleted by its own failed checkout only, and a failure is final.
LEMMA KeptServed ==
  ASSUME LocalInv, NEW r \in Requests, Kept(r), Arrive(r) \/ Serve(r)
  PROVE  Kept(r)'
<1>1. pc[r] \notin {"idle", "reserve", "createOrder", "createPayment", "saveSnapshot", "review"} \cup BeforeTry
  BY DEF Kept, LocalInv, Local, CountersOK, NothingTaken, OrderOK, VerdictOK
<1>2. CASE EmptyCart(r) \/ StoreResult(r)
  BY <1>2 DEF EmptyCart, StoreResult, Kept
<1>3. CASE Notify(r) \/ Enqueue(r)
  BY <1>3 DEF LocalInv, Local, OrderOK, Notify, Enqueue, Kept
<1>4. CASE DeleteOrder(r) \/ Restore(r) \/ Unlock(r)
  BY <1>4 DEF LocalInv, Local, VerdictOK, DeleteOrder, Restore, Unlock, Kept
<1>5. CASE CallThrows(r)
  <2>1. UNCHANGED <<orders, payments>>
    BY <1>5 DEF CallThrows, Throw
  <2>2. verdict[r] \in {"refused", "unreleased"} => verdict'[r] \in {"refused", "unreleased"}
    BY <1>5 DEF LocalInv, TypeOK, Local, VerdictOK, CallThrows, Throw
  <2> QED
    BY <2>1, <2>2 DEF Kept
<1> QED
  BY <1>1, <1>2, <1>3, <1>4, <1>5
     DEF Serve, Arrive, ReadResult, ReadLock, SetLock, Review, Reserve, CreateOrder,
         CreatePayment, SaveSnapshot

LEMMA KeptStays ==
  ASSUME LocalInv, [Next]_vars, NEW o \in Requests, Kept(o)
  PROVE  Kept(o)'
<1>1. ASSUME NEW r \in Requests, Arrive(r) \/ Serve(r), r # o PROVE Kept(o)'
  BY <1>1, OthersKept DEF Kept
<1>2. CASE Crash \/ UNCHANGED vars
  BY <1>2 DEF Crash, vars, Kept
<1>3. ASSUME NEW k \in Keys, LockExpires(k) \/ ResultExpires(k) PROVE Kept(o)'
  BY <1>3 DEF LockExpires, ResultExpires, Kept
<1> QED
  BY <1>1, <1>2, <1>3, KeptServed DEF Next, Quiet

\* A request is answered from the stored result once, and that is its end.
LEMMA ReplayedOnce ==
  ASSUME LocalInv, [Next]_vars, NEW q \in Requests, verdict'[q] = "replayed"
  PROVE  \/ verdict[q] = "replayed" /\ answer'[q] = answer[q]
         \/ HasKey(q) /\ result[KeyOf[q]] # NoOrder /\ answer'[q] = result[KeyOf[q]]
<1>1. ASSUME NEW r \in Requests, Arrive(r) \/ Serve(r), r # q
      PROVE  verdict[q] = "replayed" /\ answer'[q] = answer[q]
  BY <1>1, OthersKept
<1>2. CASE ReadResult(q)
  BY <1>2 DEF LocalInv, TypeOK, Local, VerdictOK, ReadResult
<1>3. CASE Arrive(q) \/ (Serve(q) /\ ~ReadResult(q))
  <2>1. verdict[q] # "replayed"
    BY <1>3, ServedIsCalling DEF LocalInv, Local, VerdictOK, Arrive
  <2>2. CASE Arrive(q) \/ ReadLock(q) \/ SetLock(q) \/ Review(q) \/ Reserve(q) \/ CreateOrder(q)
    BY <2>1, <2>2 DEF LocalInv, TypeOK, Arrive, ReadLock, SetLock, Review, Reserve, CreateOrder, Throw
  <2>3. CASE CreatePayment(q) \/ SaveSnapshot(q) \/ EmptyCart(q) \/ StoreResult(q) \/ Notify(q) \/ Enqueue(q)
    BY <2>1, <2>3 DEF LocalInv, TypeOK, CreatePayment, SaveSnapshot, EmptyCart, StoreResult, Notify, Enqueue, Return
  <2>4. CASE DeleteOrder(q) \/ Restore(q) \/ Unlock(q) \/ CallThrows(q)
    BY <2>1, <2>4 DEF LocalInv, TypeOK, DeleteOrder, Restore, Unlock, CallThrows, Throw
  <2> QED
    BY <1>3, <2>2, <2>3, <2>4 DEF Serve
<1>4. CASE Crash \/ UNCHANGED vars
  BY <1>4 DEF Crash, vars
<1>5. ASSUME NEW k \in Keys, LockExpires(k) \/ ResultExpires(k)
      PROVE  verdict[q] = "replayed" /\ answer'[q] = answer[q]
  BY <1>5 DEF LockExpires, ResultExpires
<1> QED
  BY <1>1, <1>2, <1>3, <1>4, <1>5 DEF Next, Quiet

\* A result is stored by a request of its key, once its order names its payment.
LEMMA StoredBy ==
  ASSUME LocalInv, [Next]_vars, NEW k \in Keys, result'[k] # NoOrder, result'[k] # result[k]
  PROVE  result'[k] \in Requests /\ KeyOf[result'[k]] = k /\ Kept(result'[k])
<1>1. ASSUME NEW r \in Requests, StoreResult(r)
      PROVE  result'[k] \in Requests /\ KeyOf[result'[k]] = k /\ Kept(result'[k])
  <2>1. k = KeyOf[r] /\ result'[k] = r
    BY <1>1 DEF LocalInv, TypeOK, StoreResult
  <2> QED
    BY <1>1, <2>1 DEF LocalInv, Local, OrderOK, StoreResult, Kept
<1>2. ASSUME NEW r \in Requests, Arrive(r) \/ (Serve(r) /\ ~StoreResult(r)) PROVE result' = result
  BY <1>2 DEF Arrive, Serve, ReadResult, ReadLock, SetLock, Review, Reserve, CreateOrder, CreatePayment,
     SaveSnapshot, EmptyCart, Notify, Enqueue, DeleteOrder, Restore, Unlock, CallThrows, Throw
<1> QED
  BY <1>1, <1>2 DEF Next, Quiet, LockExpires, ResultExpires, Crash, LocalInv, TypeOK, vars

LEMMA ShownStep ==
  ASSUME LocalInv, ShownInv, [Next]_vars
  PROVE  ShownInv'
<1>1. \A k \in Keys : result[k] # NoOrder => result[k] \in Requests /\ KeyOf[result[k]] = k /\ Kept(result[k])
  BY DEF ShownInv, LocalInv, TypeOK
<1>2. ASSUME NEW k \in Keys, result'[k] # NoOrder
      PROVE  KeyOf[result'[k]] = k /\ Kept(result[k])'
  <2>1. result'[k] \in Requests /\ KeyOf[result'[k]] = k /\ Kept(result'[k])
    BY <1>1, <1>2, StoredBy
  <2>2. PICK o \in Requests : o = result'[k] /\ KeyOf[o] = k /\ Kept(o)
    BY <2>1
  <2> QED
    BY <2>2, KeptStays DEF Kept
<1>3. ASSUME NEW q \in Requests, verdict'[q] = "replayed"
      PROVE  answer'[q] \in Requests /\ KeyOf[answer'[q]] = KeyOf[q] /\ Kept(answer[q])'
  <2>1. answer'[q] \in Requests /\ KeyOf[answer'[q]] = KeyOf[q] /\ Kept(answer'[q])
    BY <1>1, <1>3, ReplayedOnce DEF ShownInv, HasKey
  <2>2. PICK o \in Requests : o = answer'[q] /\ KeyOf[o] = KeyOf[q] /\ Kept(o)
    BY <2>1
  <2> QED
    BY <2>2, KeptStays DEF Kept
<1> QED
  BY <1>2, <1>3 DEF ShownInv

\* The order a retry is shown is its key's, and there, unless its own checkout failed.
THEOREM ReplaysShowOrders == Spec => []ReplayShowsAnOrder
<1>1. Init => ShownInv
  BY DEF Init, ShownInv
<1>2. IInv /\ ShownInv /\ [Next]_vars => ShownInv'
  BY IInvParts, ShownStep
<1>3. ShownInv => ReplayShowsAnOrder
  BY DEF ShownInv, ReplayShowsAnOrder, Kept
<1> QED
  BY <1>1, <1>2, <1>3, Invariance, PTL DEF Spec

-----------------------------------------------------------------------------
(* The lock.                                                                *)

\* Who sets a lock still has its finally block to come, and comes to it with the lock's key.
LEMMA HolderServed ==
  ASSUME LocalInv, LockHasHolder, NEW r \in Requests, Serve(r), NEW k \in Keys, lock'[k] = r
  PROVE  /\ KeyOf[r] = k
         /\ \/ pc'[r] \in Calls \ BeforeTry
            \/ pc'[r] = "done" /\ verdict'[r] \in {"unreported", "unreleased"}
<1>1. CASE SetLock(r)
  <2>1. KeyOf[r] \in Keys
    BY <1>1 DEF SetLock, LocalInv, Local, VerdictOK, HasKey
  <2>2. k = KeyOf[r]
    <3>1. k # KeyOf[r] => lock[k] = r
      BY <1>1, <2>1 DEF SetLock, LocalInv, TypeOK
    <3>2. lock[k] = r => KeyOf[r] = k
      BY CheckoutAssumption DEF LockHasHolder, Locked
    <3> QED
      BY <3>1, <3>2
  <2> QED
    BY <1>1, <2>2 DEF SetLock, LocalInv, TypeOK
<1>2. CASE ~SetLock(r)
  <2>1. lock[k] = r
    BY <1>2, CheckoutAssumption DEF Serve, ReadResult, ReadLock, Review, Reserve, CreateOrder, CreatePayment, SaveSnapshot,
       EmptyCart, StoreResult, Notify, Enqueue, DeleteOrder, Restore, Unlock, CallThrows, Throw, LocalInv, TypeOK
  <2>2. KeyOf[r] = k /\ pc[r] \in Calls \ BeforeTry /\ Finally(r) = "unlock"
    BY <2>1, ServedIsCalling, CheckoutAssumption DEF LockHasHolder, Locked, Finally, HasKey
  <2>3. CASE Throw(r)
    BY <2>2, <2>3 DEF Throw, Catch, AfterDelete, LocalInv, TypeOK
  <2>4. CASE (Review(r) \/ Reserve(r) \/ CreateOrder(r)) /\ ~Throw(r)
    BY <2>2, <2>4 DEF Review, Reserve, CreateOrder, AfterReserving, LocalInv, TypeOK
  <2>5. CASE CreatePayment(r) \/ SaveSnapshot(r) \/ EmptyCart(r) \/ StoreResult(r) \/ Notify(r) \/ Enqueue(r)
    BY <2>2, <2>5 DEF CreatePayment, SaveSnapshot, EmptyCart, StoreResult, Notify, Enqueue, Return, LocalInv, TypeOK
  <2>6. CASE DeleteOrder(r) \/ Restore(r)
    BY <2>2, <2>6 DEF DeleteOrder, Restore, AfterDelete, AfterRestoring, LocalInv, TypeOK
  <2>7. CASE Unlock(r)
    BY <2>1, <2>2, <2>7, CheckoutAssumption DEF Unlock, LocalInv, TypeOK
  <2>8. CASE CallThrows(r) /\ ~Throw(r)
    BY <2>2, <2>8 DEF CallThrows, LocalInv, TypeOK, Local, VerdictOK
  <2>9. CASE ReadResult(r) \/ ReadLock(r)
    BY <2>2, <2>9 DEF ReadResult, ReadLock
  <2> QED
    BY <1>2, <2>3, <2>4, <2>5, <2>6, <2>7, <2>8, <2>9 DEF Serve
<1> QED
  BY <1>1, <1>2

LEMMA HolderStep ==
  ASSUME LocalInv, LockHasHolder, [Next]_vars
  PROVE  LockHasHolder'
<1> SUFFICES ASSUME NEW k \in Keys, NEW h \in Requests, lock'[k] = h
             PROVE  /\ KeyOf[h] = k
                    /\ \/ pc'[h] \in (Calls \ BeforeTry) \cup {"lost"}
                       \/ pc'[h] = "done" /\ verdict'[h] \in {"unreported", "unreleased"}
  <2>1. TypeOK'
    BY LocalStep DEF LocalInv
  <2> QED
    BY <2>1 DEF LockHasHolder, Locked, TypeOK
<1>1. lock[k] = h => /\ KeyOf[h] = k
                     /\ \/ pc[h] \in (Calls \ BeforeTry) \cup {"lost"}
                        \/ pc[h] = "done" /\ verdict[h] \in {"unreported", "unreleased"}
  BY CheckoutAssumption DEF LockHasHolder, Locked
<1>2. ASSUME NEW r \in Requests, r # h, Arrive(r) \/ Serve(r)
      PROVE  lock[k] = h /\ pc'[h] = pc[h] /\ verdict'[h] = verdict[h]
  <2>1. lock[k] = h
    BY <1>2, CheckoutAssumption DEF Arrive, Serve, ReadResult, ReadLock, SetLock, Review, Reserve, CreateOrder, CreatePayment,
       SaveSnapshot, EmptyCart, StoreResult, Notify, Enqueue, DeleteOrder, Restore, Unlock, CallThrows, Throw, LocalInv, TypeOK
  <2> QED
    BY <1>2, <2>1, OthersKept
<1>3. ASSUME Arrive(h) PROVE FALSE
  <2>1. lock[k] = h /\ pc[h] = "idle"
    BY <1>3 DEF Arrive
  <2> QED
    BY <1>1, <2>1
<1>4. CASE Crash
  BY <1>1, <1>4 DEF Crash, LocalInv, TypeOK
<1>5. ASSUME NEW q \in Keys, LockExpires(q) \/ ResultExpires(q)
      PROVE  lock[k] = h /\ pc' = pc /\ verdict' = verdict
  BY <1>5, CheckoutAssumption DEF LockExpires, ResultExpires, LocalInv, TypeOK
<1>6. CASE UNCHANGED vars
  BY <1>1, <1>6 DEF vars
<1> QED
  BY <1>1, <1>2, <1>3, <1>4, <1>5, <1>6, HolderServed DEF Next, Quiet

\* Behind a lock that is there is a request under way, a crash, or an unlock that threw.
THEOREM LocksHaveHolders == Spec => []LockHasHolder
<1>1. Init => LockHasHolder
  BY DEF Init, LockHasHolder, Locked
<1>2. IInv /\ LockHasHolder /\ [Next]_vars => LockHasHolder'
  BY IInvParts, HolderStep
<1> QED
  BY <1>1, <1>2, Invariance, PTL DEF Spec

-----------------------------------------------------------------------------
(* Checkout implements StockLedger.                                         *)
Placed == {r \in Requests : verdict[r] \in {"placed", "unreported"}}

\* Every step of a request but its successful return leaves the placed orders as they are.
LEMMA PlacedKept ==
  ASSUME LocalInv, NEW r \in Requests, Arrive(r) \/ Serve(r),
         ~(verdict[r] = "none" /\ verdict'[r] = "placed")
  PROVE  Placed' = Placed
<1>1. r \in Placed' <=> r \in Placed
  <2>1. CASE pc[r] \in {"idle"} \cup BeforeTry \cup InTry
    <3>1. verdict[r] = "none"
      BY <2>1 DEF LocalInv, Local, VerdictOK
    <3>2. verdict'[r] \in {"none", "replayed", "refused", "placed"}
      <4>1. CASE Arrive(r)
        BY <3>1, <4>1 DEF LocalInv, TypeOK, Arrive
      <4>2. CASE ReadResult(r) \/ ReadLock(r) \/ SetLock(r) \/ CallThrows(r)
        BY <2>1, <3>1, <4>2 DEF LocalInv, TypeOK, ReadResult, ReadLock, SetLock, CallThrows, Throw
      <4>3. CASE Review(r) \/ Reserve(r) \/ CreateOrder(r) \/ CreatePayment(r)
        BY <3>1, <4>3 DEF LocalInv, TypeOK, Review, Reserve, CreateOrder, CreatePayment, Throw
      <4>4. CASE SaveSnapshot(r) \/ EmptyCart(r) \/ StoreResult(r) \/ Notify(r) \/ Enqueue(r)
        BY <3>1, <4>4 DEF LocalInv, TypeOK, SaveSnapshot, EmptyCart, StoreResult, Notify,
           Enqueue, Return
      <4>5. CASE DeleteOrder(r) \/ Restore(r) \/ Unlock(r)
        BY <2>1, <4>5 DEF DeleteOrder, Restore, Unlock
      <4> QED
        BY <4>1, <4>2, <4>3, <4>4, <4>5 DEF Serve
    <3> QED
      BY <3>1, <3>2 DEF Placed
  <2>2. CASE pc[r] \in InCatch \cup InFinally
    <3>1. DeleteOrder(r) \/ Restore(r) \/ Unlock(r) \/ CallThrows(r)
      BY <2>2 DEF Arrive, Serve, ReadResult, ReadLock, SetLock, Review, Reserve, CreateOrder,
         CreatePayment, SaveSnapshot, EmptyCart, StoreResult, Notify, Enqueue
    <3>2. CASE DeleteOrder(r) \/ Restore(r) \/ Unlock(r)
      BY <3>2 DEF DeleteOrder, Restore, Unlock, Placed
    <3>3. CASE CallThrows(r)
      BY <2>2, <3>3 DEF LocalInv, TypeOK, Local, VerdictOK, CallThrows, Placed
    <3> QED
      BY <3>1, <3>2, <3>3
  <2> QED
    BY <2>1, <2>2, ServedIsCalling DEF Arrive
<1>2. ASSUME NEW q \in Requests, q # r PROVE q \in Placed' <=> q \in Placed
  BY <1>2, OthersKept DEF Placed
<1>3. Placed \subseteq Requests /\ Placed' \subseteq Requests
  BY DEF Placed
<1> QED
  BY <1>1, <1>2, <1>3

\* Only the return of orderByUser places an order, and by then the order holds its lines.
LEMMA PlacedBy ==
  ASSUME LocalInv, NEW r \in Requests, Arrive(r) \/ Serve(r),
         verdict[r] = "none", verdict'[r] = "placed"
  PROVE  r \notin Placed /\ Placed' = Placed \cup {r} /\ orders[r] # "absent"
<1>1. CASE Notify(r) \/ Enqueue(r)
  <2>1. orders[r] # "absent"
    BY <1>1 DEF LocalInv, Local, OrderOK, Notify, Enqueue
  <2>2. ASSUME NEW q \in Requests, q # r PROVE q \in Placed' <=> q \in Placed
    BY <2>2, OthersKept DEF Placed
  <2>3. r \notin Placed /\ r \in Placed'
    BY DEF Placed
  <2>4. Placed \subseteq Requests /\ Placed' \subseteq Requests
    BY DEF Placed
  <2> QED
    BY <2>1, <2>2, <2>3, <2>4
<1>2. CASE Arrive(r)
  BY <1>2 DEF LocalInv, TypeOK, Arrive
<1>3. CASE ReadResult(r) \/ ReadLock(r) \/ SetLock(r)
  BY <1>3 DEF LocalInv, TypeOK, ReadResult, ReadLock, SetLock
<1>4. CASE Review(r) \/ Reserve(r) \/ CreateOrder(r) \/ CallThrows(r)
  BY <1>4 DEF LocalInv, TypeOK, Review, Reserve, CreateOrder, CallThrows, Throw
<1>5. CASE CreatePayment(r) \/ SaveSnapshot(r) \/ EmptyCart(r) \/ StoreResult(r)
  BY <1>5 DEF CreatePayment, SaveSnapshot, EmptyCart, StoreResult
<1>6. CASE DeleteOrder(r) \/ Restore(r) \/ Unlock(r)
  BY <1>6 DEF DeleteOrder, Restore, Unlock
<1> QED
  BY <1>1, <1>2, <1>3, <1>4, <1>5, <1>6 DEF Serve

\* StockLedger counts the same units.
LEMMA LedgerUnits ==
  ASSUME NEW S, NEW p
  PROVE  Ledger!UnitsIn(Ledger!OrderedLines(S), p) = UnitsIn({l \in Lines : l[1] \in S}, p)
BY DEF Ledger!UnitsIn, Ledger!OrderedLines, Ledger!AllUnits, Ledger!Lines, Ledger!UnitsOf,
       Ledger!LineOf, UnitsIn, AllUnits, Lines, UnitsOf, LineOf

\* Orders that are in the database fit the stock together.
LEMMA BackedIsCovered ==
  ASSUME LocalInv, StockAccounted, NEW S \in SUBSET Requests,
         \A r \in S : orders[r] # "absent"
  PROVE  Ledger!Covered(S)
<1> DEFINE L == {l \in Lines : l[1] \in S}
<1>1. L \subseteq HeldLines
  <2> SUFFICES ASSUME NEW l \in L PROVE l[2] \in HeldBy(l[1])
    BY DEF HeldLines
  <2>1. l[1] \in S /\ l[2] \in 1 .. Len(Basket[l[1]])
    BY LineType
  <2>2. reserved[l[1]] = Len(Basket[l[1]]) /\ restored[l[1]] = 0
    BY <2>1 DEF LocalInv, Local, OrderOK
  <2> QED
    BY <2>1, <2>2 DEF HeldBy
<1>2. ASSUME NEW p \in Products PROVE Cardinality(UnitsIn(L, p)) <= InitialStock[p]
  <2>1. Cardinality(UnitsIn(L, p)) <= Cardinality(UnitsIn(HeldLines, p))
    BY <1>1, UnitsInMonotone
  <2>2. stock[p] + Cardinality(UnitsIn(HeldLines, p)) = InitialStock[p]
    BY DEF StockAccounted
  <2>3. /\ Cardinality(UnitsIn(HeldLines, p)) \in Nat /\ stock[p] \in Nat
        /\ Cardinality(UnitsIn(L, p)) \in Nat
    BY UnitsInFinite DEF LocalInv, TypeOK
  <2> QED
    BY <2>1, <2>2, <2>3
<1>3. ASSUME NEW p \in Products
      PROVE  Cardinality(Ledger!UnitsIn(Ledger!OrderedLines(S), p)) <= InitialStock[p]
  <2>1. Cardinality(Ledger!UnitsIn(Ledger!OrderedLines(S), p)) = Cardinality(UnitsIn(L, p))
    BY LedgerUnits, Zenon
  <2> QED
    BY <1>2, <2>1
<1>4. \A X : Ledger!Cardinality(X) = Cardinality(X)
  BY DEF Ledger!Cardinality, Cardinality
<1> QED
  BY <1>3, <1>4, Zenon DEF Ledger!Covered

\* Every step of Checkout is a step of StockLedger, or changes nothing it sees.
LEMMA LedgerStep ==
  ASSUME LocalInv, StockAccounted, [Next]_vars
  PROVE  [Ledger!Next]_Placed
<1>1. ASSUME NEW r \in Requests, Arrive(r) \/ Serve(r) PROVE [Ledger!Next]_Placed
  <2>1. CASE ~(verdict[r] = "none" /\ verdict'[r] = "placed")
    BY <1>1, <2>1, PlacedKept
  <2>2. CASE verdict[r] = "none" /\ verdict'[r] = "placed"
    <3>1. r \notin Placed /\ Placed' = Placed \cup {r} /\ orders[r] # "absent"
      BY <1>1, <2>2, PlacedBy
    <3>2. \A q \in Placed \cup {r} : orders[q] # "absent"
      BY <3>1 DEF Placed, LocalInv, Local, VerdictOK
    <3>3. Ledger!Covered(Placed \cup {r})
      BY <3>2, BackedIsCovered DEF Placed
    <3>4. Ledger!Place(r)
      BY <3>1, <3>3 DEF Ledger!Place, Placed
    <3> QED
      BY <3>4 DEF Ledger!Next
  <2> QED
    BY <2>1, <2>2
<1>2. CASE Crash
  BY <1>2 DEF Crash, Placed
<1>3. ASSUME NEW k \in Keys, LockExpires(k) \/ ResultExpires(k) PROVE Placed' = Placed
  BY <1>3 DEF LockExpires, ResultExpires, Placed
<1>4. CASE UNCHANGED vars
  BY <1>4 DEF vars, Placed
<1> QED
  BY <1>1, <1>2, <1>3, <1>4 DEF Next, Quiet

\* orderByUser, step by step and through failures, implements atomic placement in stock.
THEOREM ImplementsLedger == Spec => PlacesAtomically
<1>1. Init => Ledger!Init
  BY DEF Init, Ledger!Init
<1>2. IInv /\ [Next]_vars => [Ledger!Next]_Placed
  BY IInvParts, LedgerStep
<1> QED
  BY <1>1, <1>2, Invariance, PTL DEF Spec, PlacesAtomically, Ledger!Spec, Placed

-----------------------------------------------------------------------------
(* The order desk: what its fields say of each other.                       *)

DeskTypeOK ==
  /\ status \in [Requests -> Statuses]
  /\ step \in [DeskCalls -> DeskSteps \cup {"idle", "done", "lost"}]
  /\ putBack \in [Cancels -> Nat]
  /\ ended \in [DeskCalls -> {"none", "saved", "refused", "ok", "unreported"}]

HasSaved(x) == ended[x] \in {"saved", "ok", "unreported"}

\* How far a cancellation has come; what it returns was reserved.
CancelOK(c) ==
  LET lines == Len(Basket[OrderOf[c]]) IN
  /\ step[c] = "idle" => putBack[c] = 0
  /\ putBack[c] <= lines
  /\ step[c] = "putBack" => putBack[c] < lines
  /\ step[c] = "save" \/ HasSaved(c) => putBack[c] = lines
  /\ step[c] \in {"idle", "putBack", "save"} => ended[c] = "none"
  /\ step[c] = "notify" => ended[c] = "saved"
  /\ step[c] \in {"putBack", "save"} \/ putBack[c] > 0 => reserved[OrderOf[c]] = lines

CancelledOK ==
  \A o \in Requests :
    status[o] = "cancelled" => \E c \in Cancels : OrderOf[c] = o /\ HasSaved(c)

UpdateOK(u) == step[u] = "save" => Wanted[u] \in Statuses \ {"pending", "cancelled"}

DeskInv ==
  /\ LocalInv /\ DeskTypeOK
  /\ (\A c \in Cancels : CancelOK(c)) /\ (\A u \in Updates : UpdateOK(u)) /\ CancelledOK

DeskMove(x) ==
  \/ x \in Cancels /\ Cancel(x)
  \/ x \in Updates /\ Update(x)

USE DEF vars, desk, all, DeskCalls, DeskSteps, Statuses, Advance, Finish, Exists, GoesOn

-----------------------------------------------------------------------------
(* The checkout beside the desk.                                            *)

\* A step of the desk is none of the checkout, but for the stock.
LEMMA DeskMoveFrame ==
  ASSUME NEW x \in DeskCalls, DeskMove(x)
  PROVE  UNCHANGED <<cart, orders, payments, notices, cache, process>>
BY DEF DeskMove, Cancel, ReadToCancel, PutBackLine, SaveCancelled, Save, NotifyStatus, DeskCallThrows,
   Update, ReadToUpdate, SaveUpdate

\* What a step of the checkout is.
LEMMA CheckoutStep ==
  ASSUME [DeskNext]_all
  PROVE  \/ [Next]_vars /\ UNCHANGED desk
         \/ \E x \in DeskCalls : DeskMove(x)
         \/ CrashAll
<1>1. ASSUME NEW r \in Requests, Arrive(r) \/ Serve(r), UNCHANGED desk PROVE [Next]_vars
  BY <1>1 DEF Next
<1>2. ASSUME NEW k \in Keys, LockExpires(k) \/ ResultExpires(k), UNCHANGED desk PROVE [Next]_vars
  BY <1>2 DEF Next
<1>3. ASSUME NEW c \in Cancels, Cancel(c) PROVE c \in DeskCalls /\ DeskMove(c)
  BY <1>3 DEF DeskMove
<1>4. ASSUME NEW u \in Updates, Update(u) PROVE u \in DeskCalls /\ DeskMove(u)
  BY <1>4 DEF DeskMove
<1> QED
  BY <1>1, <1>2, <1>3, <1>4 DEF DeskNext, AllQuiet

LEMMA CrashAllFrame ==
  ASSUME DeskInv, CrashAll
  PROVE  [Next]_vars /\ UNCHANGED <<stock, reserved, restored, status, putBack, ended>>
<1>1. Crash \/ pc' = pc
  BY DEF DeskInv, LocalInv, TypeOK, CrashAll, Crash
<1> QED
  BY <1>1 DEF CrashAll, Next

\* The line a cancellation returns next is there, and was reserved.
LEMMA LineReturned ==
  ASSUME DeskInv, NEW c \in Cancels, PutBackLine(c)
  PROVE  LET n == putBack[c] + 1 line == Basket[OrderOf[c]][n] IN
         /\ OrderOf[c] \in Requests /\ n \in 1 .. Len(Basket[OrderOf[c]]) /\ n \in Nat
         /\ line.product \in Products /\ line.quantity \in Nat \ {0}
         /\ stock' = [stock EXCEPT ![line.product] = @ + line.quantity]
         /\ putBack' = [putBack EXCEPT ![c] = n] /\ UNCHANGED <<reserved, restored>>
<1>1. OrderOf[c] \in Requests /\ putBack[c] \in Nat /\ putBack[c] < Len(Basket[OrderOf[c]])
      /\ Len(Basket[OrderOf[c]]) \in Nat
  BY DeskAssumption, BasketLength DEF DeskInv, DeskTypeOK, CancelOK, PutBackLine
<1>2. putBack[c] + 1 \in 1 .. Len(Basket[OrderOf[c]])
  BY <1>1
<1> QED
  BY <1>1, <1>2, LinePresent DEF PutBackLine, PutBack

LEMMA LocalDesk ==
  ASSUME DeskInv, [DeskNext]_all
  PROVE  LocalInv'
<1>1. CASE [Next]_vars
  BY <1>1, LocalStep DEF DeskInv
<1>2. ASSUME NEW x \in DeskCalls, DeskMove(x) PROVE LocalInv'
  <2>1. stock' \in [Products -> Nat]
    <3>1. CASE x \in Cancels /\ PutBackLine(x)
      <4> DEFINE line == Basket[OrderOf[x]][putBack[x] + 1]
      <4>1. /\ line.product \in Products /\ line.quantity \in Nat
            /\ stock' = [stock EXCEPT ![line.product] = @ + line.quantity]
        BY <3>1, LineReturned
      <4>2. stock[line.product] + line.quantity \in Nat /\ stock \in [Products -> Nat]
        BY <4>1 DEF DeskInv, LocalInv, TypeOK
      <4> HIDE DEF line
      <4> QED
        BY <4>1, <4>2
    <3>2. CASE ~(x \in Cancels /\ PutBackLine(x))
      BY <1>2, <3>2 DEF DeskInv, LocalInv, TypeOK, DeskMove, Cancel, ReadToCancel, SaveCancelled, Save, NotifyStatus,
         DeskCallThrows, Update, ReadToUpdate, SaveUpdate
    <3> QED
      BY <3>1, <3>2
  <2>2. TypeOK'
    BY <1>2, <2>1, DeskMoveFrame DEF DeskInv, LocalInv, TypeOK
  <2>3. ASSUME NEW q \in Requests PROVE Local(q)'
    BY <1>2, DeskMoveFrame, LocalFrame DEF DeskInv, LocalInv
  <2> QED
    BY <2>2, <2>3 DEF LocalInv
<1>3. CASE CrashAll
  BY <1>3, CrashAllFrame, LocalStep DEF DeskInv
<1> QED
  BY <1>1, <1>2, <1>3, CheckoutStep

\* An order's lines stay reserved: what is put back is counted in restored.
LEMMA ReservedStays ==
  ASSUME DeskInv, [DeskNext]_all, NEW o \in Requests, reserved[o] = Len(Basket[o])
  PROVE  reserved'[o] = Len(Basket[o])
<1>1. reserved'[o] <= Len(Basket[o]) /\ reserved'[o] \in Nat /\ Len(Basket[o]) \in Nat
  BY LocalDesk, BasketLength DEF LocalInv, Local, CountersOK, TypeOK
<1>2. reserved' = reserved \/ \E r \in Requests : reserved' = [reserved EXCEPT ![r] = @ + 1]
  <2>1. ASSUME NEW r \in Requests, Serve(r)
        PROVE  reserved' = reserved \/ reserved' = [reserved EXCEPT ![r] = @ + 1]
    BY <2>1 DEF Serve, ReadResult, ReadLock, SetLock, Review, Reserve, CreateOrder, CreatePayment, SaveSnapshot,
       EmptyCart, StoreResult, Notify, Enqueue, DeleteOrder, Restore, Unlock, CallThrows, Throw
  <2>2. ASSUME [Next]_vars PROVE \/ reserved' = reserved
                                 \/ \E r \in Requests : reserved' = [reserved EXCEPT ![r] = @ + 1]
    BY <2>1, <2>2 DEF Next, Arrive, LockExpires, ResultExpires, Crash, Quiet
  <2> QED
    BY <2>2, CheckoutStep, DeskMoveFrame, CrashAllFrame
<1> QED
  BY <1>1, <1>2 DEF DeskInv, LocalInv, TypeOK

-----------------------------------------------------------------------------
(* The calls of the desk.                                                   *)

LEMMA DeskMoveType ==
  ASSUME DeskInv, NEW x \in DeskCalls, DeskMove(x)
  PROVE  DeskTypeOK'
<1>1. step' \in [DeskCalls -> DeskSteps \cup {"idle", "done", "lost"}]
  BY DEF DeskInv, DeskTypeOK, DeskMove, Cancel, ReadToCancel, PutBackLine, AfterPutBack, SaveCancelled, Save,
     NotifyStatus, DeskCallThrows, Update, ReadToUpdate, SaveUpdate
<1>2. ended' \in [DeskCalls -> {"none", "saved", "refused", "ok", "unreported"}]
  BY DEF DeskInv, DeskTypeOK, DeskMove, Cancel, ReadToCancel, PutBackLine, SaveCancelled, Save,
     NotifyStatus, DeskCallThrows, Update, ReadToUpdate, SaveUpdate
<1>3. status' \in [Requests -> Statuses]
  <2>1. x \in Updates /\ step[x] = "save" => Wanted[x] \in Statuses
    BY DEF DeskInv, UpdateOK
  <2> QED
    BY <2>1 DEF DeskInv, DeskTypeOK, DeskMove, Cancel, ReadToCancel, PutBackLine, SaveCancelled, Save,
       NotifyStatus, DeskCallThrows, Update, ReadToUpdate, SaveUpdate
<1>4. putBack' \in [Cancels -> Nat]
  BY LineReturned DEF DeskInv, DeskTypeOK, DeskMove, Cancel, ReadToCancel, PutBackLine, SaveCancelled, Save,
     NotifyStatus, DeskCallThrows, Update, ReadToUpdate, SaveUpdate
<1> QED
  BY <1>1, <1>2, <1>3, <1>4 DEF DeskTypeOK

LEMMA DeskOthers ==
  ASSUME DeskInv, NEW x \in DeskCalls, DeskMove(x)
  PROVE  /\ \A y \in DeskCalls : y # x => step'[y] = step[y] /\ ended'[y] = ended[y]
         /\ \A c \in Cancels : c # x => putBack'[c] = putBack[c]
<1>1. \A y \in DeskCalls : y # x => step'[y] = step[y] /\ ended'[y] = ended[y]
  BY DEF DeskInv, DeskTypeOK, DeskMove, Cancel, ReadToCancel, PutBackLine, SaveCancelled, Save,
     NotifyStatus, DeskCallThrows, Update, ReadToUpdate, SaveUpdate
<1>2. \A c \in Cancels : c # x => putBack'[c] = putBack[c]
  BY LineReturned DEF DeskInv, DeskTypeOK, DeskMove, Cancel, ReadToCancel, PutBackLine, SaveCancelled, Save,
     NotifyStatus, DeskCallThrows, Update, ReadToUpdate, SaveUpdate
<1> QED
  BY <1>1, <1>2

\* The steps of a cancellation.
LEMMA CancelMoves ==
  ASSUME DeskInv, NEW c \in Cancels, Cancel(c)
  PROVE  CancelOK(c)'
<1> DEFINE o == OrderOf[c]
           lines == Len(Basket[o])
<1>1. o \in Requests /\ lines \in Nat /\ c \in DeskCalls /\ CancelOK(c)
  BY DeskAssumption, BasketLength DEF DeskInv
<1>2. reserved[o] = lines => reserved'[o] = lines
  BY <1>1, DeskMoveFrame DEF DeskMove
<1>3. CASE ReadToCancel(c)
  <2>1. step[c] = "idle" /\ putBack[c] = 0 /\ ended[c] = "none" /\ putBack'[c] = 0 /\ UNCHANGED reserved
    BY <1>1, <1>3 DEF CancelOK, ReadToCancel
  <2>2. CASE MayCancel(c) /\ UNCHANGED ended
    <3>1. reserved[o] = lines
      BY <1>1, <2>2 DEF MayCancel, DeskInv, LocalInv, Local, OrderOK
    <3>2. step'[c] = (IF Basket[o] = <<>> THEN "save" ELSE "putBack")
      BY <1>1, <1>3, <2>2 DEF ReadToCancel, DeskInv, DeskTypeOK, MayCancel
    <3>3. Basket[o] = <<>> <=> lines = 0
      BY <1>1, BasketsAssumption, EmptySeq
    <3> QED
      BY <1>1, <2>1, <2>2, <3>1, <3>2, <3>3 DEF CancelOK, HasSaved
  <2>3. CASE step'[c] = "done" /\ ended'[c] = "refused"
    BY <1>1, <2>1, <2>3 DEF CancelOK, HasSaved
  <2> QED
    BY <1>1, <1>3, <2>2, <2>3 DEF ReadToCancel, DeskInv, DeskTypeOK
<1>4. CASE PutBackLine(c)
  <2>1. /\ step[c] = "putBack" /\ putBack[c] < lines /\ putBack[c] \in Nat /\ ended[c] = "none"
        /\ putBack'[c] = putBack[c] + 1 /\ UNCHANGED <<reserved, ended>> /\ reserved[o] = lines
        /\ step'[c] = AfterPutBack(c, putBack[c] + 1)
    BY <1>1, <1>4 DEF CancelOK, PutBackLine, DeskInv, DeskTypeOK
  <2> QED
    BY <1>1, <2>1 DEF CancelOK, HasSaved, AfterPutBack
<1>5. CASE SaveCancelled(c)
  <2>1. /\ step[c] = "save" /\ putBack[c] = lines /\ putBack'[c] = lines /\ UNCHANGED reserved /\ reserved[o] = lines
        /\ \/ step'[c] = "notify" /\ ended'[c] = "saved"
           \/ step'[c] = "done" /\ ended'[c] = "refused"
    BY <1>1, <1>5 DEF CancelOK, SaveCancelled, Save, DeskInv, DeskTypeOK
  <2> QED
    BY <1>1, <2>1 DEF CancelOK, HasSaved
<1>6. CASE NotifyStatus(c) \/ DeskCallThrows(c)
  <2>1. /\ UNCHANGED <<putBack, reserved>> /\ step[c] \in DeskSteps /\ step'[c] = "done"
        /\ (step[c] = "notify" => ended'[c] \in {"ok", "unreported"})
        /\ (step[c] # "notify" => ended'[c] = "refused")
    BY <1>1, <1>6, DeskAssumption DEF NotifyStatus, DeskCallThrows, DeskInv, DeskTypeOK
  <2> QED
    BY <1>1, <2>1 DEF CancelOK, HasSaved
<1> QED
  BY <1>3, <1>4, <1>5, <1>6 DEF Cancel

\* What a save stores, and what it was called with.
LEMMA StatusMoves ==
  ASSUME DeskInv, NEW x \in DeskCalls, DeskMove(x)
  PROVE  \/ UNCHANGED status /\ (HasSaved(x)' /\ x \in Cancels => HasSaved(x))
         \/ /\ step[x] = "save" /\ step'[x] = "notify" /\ ended'[x] = "saved"
            /\ \/ x \in Cancels /\ status' = [status EXCEPT ![OrderOf[x]] = "cancelled"]
               \/ x \in Updates /\ status' = [status EXCEPT ![OrderOf[x]] = Wanted[x]]
<1>1. ASSUME NEW s, step[x] = "save", Save(x, s)
      PROVE  \/ UNCHANGED status /\ ~HasSaved(x)'
             \/ step'[x] = "notify" /\ ended'[x] = "saved" /\ status' = [status EXCEPT ![OrderOf[x]] = s]
  BY <1>1 DEF Save, DeskInv, DeskTypeOK, HasSaved
<1>2. CASE x \in Cancels /\ Cancel(x)
  <2>1. CASE SaveCancelled(x)
    BY <1>1, <1>2, <2>1 DEF SaveCancelled
  <2>2. CASE ReadToCancel(x) \/ PutBackLine(x)
    BY <1>2, <2>2 DEF ReadToCancel, PutBackLine, DeskInv, DeskTypeOK, HasSaved
  <2>3. CASE NotifyStatus(x) \/ DeskCallThrows(x)
    BY <1>2, <2>3 DEF NotifyStatus, DeskCallThrows, DeskInv, DeskTypeOK, HasSaved, CancelOK
  <2> QED
    BY <1>2, <2>1, <2>2, <2>3 DEF Cancel
<1>3. CASE x \in Updates /\ Update(x)
  <2>1. x \notin Cancels
    BY <1>3, DeskAssumption
  <2>2. CASE SaveUpdate(x)
    BY <1>1, <1>3, <2>1, <2>2 DEF SaveUpdate
  <2>3. CASE ReadToUpdate(x) \/ NotifyStatus(x) \/ DeskCallThrows(x)
    BY <2>1, <2>3 DEF ReadToUpdate, NotifyStatus, DeskCallThrows
  <2> QED
    BY <1>3, <2>2, <2>3 DEF Update
<1> QED
  BY <1>2, <1>3 DEF DeskMove

LEMMA UpdateMoves ==
  ASSUME DeskInv, NEW u \in Updates, Update(u)
  PROVE  UpdateOK(u)'
<1>1. u \in DeskCalls /\ OrderOf[u] \in Requests
  BY DeskAssumption
<1>2. \A s \in Statuses : "pending" \notin ORDER_TRANSITIONS[s]
  BY DEF ORDER_TRANSITIONS
<1>3. MayUpdate(u) => Wanted[u] \in Statuses \ {"pending", "cancelled"}
  BY <1>1, <1>2 DEF MayUpdate, DeskInv, DeskTypeOK
<1> QED
  BY <1>1, <1>3 DEF DeskInv, DeskTypeOK, UpdateOK, Update, ReadToUpdate, SaveUpdate, Save, NotifyStatus, DeskCallThrows

\* What is said of a call stands while the call rests.
LEMMA CancelRests ==
  ASSUME DeskInv, NEW c \in Cancels, step'[c] = step[c] \/ step'[c] \in {"done", "lost"}, ended'[c] = ended[c],
         putBack'[c] = putBack[c], reserved[OrderOf[c]] = Len(Basket[OrderOf[c]]) => reserved'[OrderOf[c]] = reserved[OrderOf[c]]
  PROVE  CancelOK(c)'
BY DEF DeskInv, CancelOK, HasSaved

LEMMA DeskStep ==
  ASSUME DeskInv, [DeskNext]_all
  PROVE  DeskInv'
<1>1. LocalInv'
  BY LocalDesk
<1>2. \A c \in Cancels : c \in DeskCalls /\ OrderOf[c] \in Requests
  BY DeskAssumption
<1>3. \A c \in Cancels : reserved[OrderOf[c]] = Len(Basket[OrderOf[c]]) => reserved'[OrderOf[c]] = reserved[OrderOf[c]]
  BY <1>2, ReservedStays
<1>4. ASSUME UNCHANGED <<status, putBack, ended>>, DeskTypeOK',
             \A x \in DeskCalls : step'[x] = step[x] \/ step'[x] \in {"done", "lost"}
      PROVE  DeskInv'
  <2>1. \A c \in Cancels : CancelOK(c)'
    BY <1>2, <1>3, <1>4, CancelRests
  <2>2. \A u \in Updates : UpdateOK(u)'
    BY <1>4 DEF DeskInv, UpdateOK
  <2>3. CancelledOK'
    BY <1>4 DEF DeskInv, CancelledOK, HasSaved
  <2> QED
    BY <1>1, <1>4, <2>1, <2>2, <2>3 DEF DeskInv
<1>5. CASE UNCHANGED desk
  BY <1>4, <1>5 DEF DeskInv, DeskTypeOK
<1>6. CASE CrashAll
  BY <1>4, <1>6 DEF DeskInv, DeskTypeOK, CrashAll
<1>7. ASSUME NEW x \in DeskCalls, DeskMove(x) PROVE DeskInv'
  <2>1. DeskTypeOK'
    BY <1>7, DeskMoveType
  <2>2. \A y \in DeskCalls : y # x => step'[y] = step[y] /\ ended'[y] = ended[y]
    BY <1>7, DeskOthers
  <2>3. ASSUME NEW c \in Cancels PROVE CancelOK(c)'
    <3>1. CASE c = x
      BY <1>7, <2>3, <3>1, CancelMoves, DeskAssumption DEF DeskMove
    <3>2. CASE c # x
      BY <1>2, <1>3, <1>7, <2>2, <2>3, <3>2, DeskOthers, CancelRests
    <3> QED
      BY <3>1, <3>2
  <2>4. ASSUME NEW u \in Updates PROVE UpdateOK(u)'
    <3>1. CASE u = x
      BY <1>7, <2>4, <3>1, UpdateMoves, DeskAssumption DEF DeskMove
    <3>2. CASE u # x
      BY <2>2, <2>4, <3>2 DEF DeskInv, UpdateOK
    <3> QED
      BY <3>1, <3>2
  <2>5. CancelledOK'
    <3> SUFFICES ASSUME NEW o \in Requests, status'[o] = "cancelled"
                 PROVE  \E c \in Cancels : OrderOf[c] = o /\ HasSaved(c)'
      BY DEF CancelledOK
    <3>1. ASSUME NEW c \in Cancels, HasSaved(c) PROVE HasSaved(c)'
      <4>1. CASE c # x
        BY <1>2, <2>2, <3>1, <4>1 DEF HasSaved
      <4>2. CASE c = x
        <5>1. Cancel(c) /\ step[c] \notin {"idle", "putBack", "save"} /\ ended[c] # "none"
          BY <1>7, <3>1, <4>2, DeskAssumption DEF DeskMove, DeskInv, CancelOK, HasSaved
        <5>2. NotifyStatus(c) \/ DeskCallThrows(c)
          BY <5>1 DEF Cancel, ReadToCancel, PutBackLine, SaveCancelled
        <5> QED
          BY <1>2, <5>1, <5>2, DeskAssumption DEF NotifyStatus, DeskCallThrows, DeskInv, DeskTypeOK, HasSaved
      <4> QED
        BY <4>1, <4>2
    <3>2. CASE status[o] = "cancelled"
      BY <3>1, <3>2 DEF DeskInv, CancelledOK
    <3>3. CASE status[o] # "cancelled"
      <4>1. x \in Cancels /\ OrderOf[x] = o /\ ended'[x] = "saved"
        BY <1>7, <3>3, StatusMoves DEF DeskInv, DeskTypeOK, UpdateOK
      <4> QED
        BY <4>1 DEF HasSaved
    <3> QED
      BY <3>2, <3>3
  <2> QED
    BY <1>1, <2>1, <2>3, <2>4, <2>5 DEF DeskInv
<1> QED
  BY <1>5, <1>6, <1>7, CheckoutStep

-----------------------------------------------------------------------------
(* The calls that met on one order.                                         *)

\* c has read its order as pending and is about to return its lines, or has begun to.
Went(c) == step[c] \in {"putBack", "save"} \/ putBack[c] > 0

\* Calls under way together have met.
UnderWayHaveMet ==
  \A x, y \in DeskCalls :
    x # y /\ OrderOf[x] = OrderOf[y] /\ step[x] \in DeskSteps /\ step[y] \in DeskSteps => {x, y} \in met

\* Nothing saves "pending": a saved cancellation keeps later ones out.
SavedNotPending == \A c \in Cancels : HasSaved(c) => status[OrderOf[c]] # "pending"

\* Two cancellations that both returned lines met, unless one of the order broke off.
CancelsMet ==
  \A c, d \in Cancels :
    c # d /\ OrderOf[c] = OrderOf[d] /\ Went(c) /\ Went(d) => {c, d} \in met \/ BrokeOff(OrderOf[c])

\* Only an update that met a cancellation writes over it.
SavedOrContested ==
  \A c \in Cancels : HasSaved(c) =>
    \/ Contested(OrderOf[c])
    \/ /\ status[OrderOf[c]] = "cancelled"
       /\ \A u \in Updates : OrderOf[u] = OrderOf[c] => step[u] # "save"

MeetInv == UnderWayHaveMet /\ SavedNotPending /\ CancelsMet /\ SavedOrContested

DeskIInv == DeskInv /\ MeetInv /\ DeskStockAccounted

\* A call comes to be under way by what it reads.
LEMMA JoinsByReading ==
  ASSUME DeskInv, NEW x \in DeskCalls, DeskMove(x), step[x] \notin DeskSteps, step'[x] \in DeskSteps
  PROVE  /\ step[x] = "idle" /\ met' = met \cup {{x, y} : y \in Others(x)}
         /\ UNCHANGED <<status, ended, putBack>>
         /\ x \in Cancels => MayCancel(x)
         /\ x \in Updates => MayUpdate(x)
BY DeskAssumption DEF DeskInv, DeskTypeOK, DeskMove, Cancel, ReadToCancel, PutBackLine, SaveCancelled, Save,
   NotifyStatus, DeskCallThrows, Update, ReadToUpdate, SaveUpdate

LEMMA MetGrows ==
  ASSUME [DeskNext]_all
  PROVE  met \subseteq met'
<1>1. ASSUME NEW x \in DeskCalls, DeskMove(x) PROVE met \subseteq met'
  BY <1>1 DEF DeskMove, Cancel, ReadToCancel, PutBackLine, SaveCancelled, Save,
     NotifyStatus, DeskCallThrows, Update, ReadToUpdate, SaveUpdate
<1> QED
  BY <1>1, CheckoutStep DEF CrashAll

\* Who joins has met everyone under way.
LEMMA JoinerMeets ==
  ASSUME NEW x \in DeskCalls, NEW y \in DeskCalls, y # x, OrderOf[y] = OrderOf[x], step[y] \in DeskSteps,
         met' = met \cup {{x, z} : z \in Others(x)}
  PROVE  {x, y} \in met'
BY DEF Others

LEMMA UnderWayStep ==
  ASSUME DeskInv, UnderWayHaveMet, [DeskNext]_all
  PROVE  UnderWayHaveMet'
<1>1. met \subseteq met'
  BY MetGrows
<1>2. ASSUME \A z \in DeskCalls : step'[z] \in DeskSteps => step[z] \in DeskSteps PROVE UnderWayHaveMet'
  BY <1>1, <1>2 DEF UnderWayHaveMet
<1>3. ASSUME NEW x \in DeskCalls, DeskMove(x) PROVE UnderWayHaveMet'
  <2>1. \A z \in DeskCalls : z # x => step'[z] = step[z]
    BY <1>3, DeskOthers
  <2>2. CASE step[x] \in DeskSteps \/ step'[x] \notin DeskSteps
    BY <1>2, <2>1, <2>2
  <2>3. CASE step[x] \notin DeskSteps /\ step'[x] \in DeskSteps
    <3> SUFFICES ASSUME NEW y \in DeskCalls, NEW z \in DeskCalls, y # z, OrderOf[y] = OrderOf[z],
                        step'[y] \in DeskSteps, step'[z] \in DeskSteps
                 PROVE  {y, z} \in met'
      BY DEF UnderWayHaveMet
    <3>1. met' = met \cup {{x, w} : w \in Others(x)}
      BY <1>3, <2>3, JoinsByReading
    <3>2. CASE y = x
      BY <2>1, <3>1, <3>2, JoinerMeets
    <3>3. CASE z = x
      <4>1. {z, y} \in met'
        BY <2>1, <3>1, <3>3, JoinerMeets
      <4>2. {z, y} = {y, z}
        OBVIOUS
      <4> QED
        BY <4>1, <4>2
    <3>4. CASE y # x /\ z # x
      BY <1>1, <2>1, <3>4 DEF UnderWayHaveMet
    <3> QED
      BY <3>2, <3>3, <3>4
  <2> QED
    BY <2>2, <2>3
<1>4. CrashAll => UnderWayHaveMet'
  BY <1>2 DEF CrashAll
<1>5. UNCHANGED desk => UnderWayHaveMet'
  BY <1>2
<1> QED
  BY <1>3, <1>4, <1>5, CheckoutStep

-----------------------------------------------------------------------------
(* The stock.                                                               *)

Excepted(p) ==
  \E l \in Lines :
    LineOf(l).product = p /\ (CancelledTwice(l[1]) \/ BrokeOff(l[1]) \/ RolledBackToo(l[1]))

Out == HeldLines \ ReturnedLines

Accounted(p) == stock[p] + Cardinality(UnitsIn(Out, p)) = InitialStock[p]

LEMMA AccountedByProduct == DeskStockAccounted <=> \A p \in Products : Excepted(p) \/ Accounted(p)
BY DEF DeskStockAccounted, Excepted, Accounted, Out

LEMMA LineParts ==
  ASSUME NEW l \in Lines
  PROVE  l = <<l[1], l[2]>> /\ l[1] \in Requests /\ l[2] \in Nat \ {0} /\ l[2] <= Len(Basket[l[1]])
<1>1. Len(Basket[l[1]]) \in Nat
  BY LineType, BasketLength
<1> QED
  BY <1>1, LineType

\* The counters only grow.
LEMMA RestoredGrows ==
  ASSUME DeskInv, [DeskNext]_all, NEW o \in Requests
  PROVE  restored[o] \in Nat /\ restored'[o] >= restored[o]
<1>1. restored' = restored \/ \E r \in Requests : restored' = [restored EXCEPT ![r] = @ + 1]
  <2>1. ASSUME NEW r \in Requests, Serve(r)
        PROVE  restored' = restored \/ restored' = [restored EXCEPT ![r] = @ + 1]
    BY <2>1 DEF Serve, ReadResult, ReadLock, SetLock, Review, Reserve, CreateOrder, CreatePayment, SaveSnapshot,
       EmptyCart, StoreResult, Notify, Enqueue, DeleteOrder, Restore, Unlock, CallThrows, Throw
  <2>2. ASSUME [Next]_vars PROVE \/ restored' = restored
                                 \/ \E r \in Requests : restored' = [restored EXCEPT ![r] = @ + 1]
    BY <2>1, <2>2 DEF Next, Arrive, LockExpires, ResultExpires, Crash, Quiet
  <2> QED
    BY <2>2, CheckoutStep, DeskMoveFrame, CrashAllFrame
<1> QED
  BY <1>1 DEF DeskInv, LocalInv, TypeOK

LEMMA PutBackGrows ==
  ASSUME DeskInv, [DeskNext]_all, NEW c \in Cancels
  PROVE  putBack[c] \in Nat /\ putBack'[c] \in Nat /\ putBack'[c] >= putBack[c]
<1>1. putBack' = putBack \/ (\E d \in Cancels : PutBackLine(d) /\ putBack' = [putBack EXCEPT ![d] = @ + 1])
  <2>1. ASSUME NEW x \in DeskCalls, DeskMove(x), ~(x \in Cancels /\ PutBackLine(x)) PROVE putBack' = putBack
    BY <2>1 DEF DeskMove, Cancel, ReadToCancel, SaveCancelled, Save, NotifyStatus, DeskCallThrows, Update,
       ReadToUpdate, SaveUpdate
  <2>2. ASSUME NEW d \in Cancels, PutBackLine(d) PROVE putBack' = [putBack EXCEPT ![d] = @ + 1]
    BY <2>2 DEF PutBackLine
  <2> QED
    BY <2>1, <2>2, CheckoutStep, CrashAllFrame
<1> QED
  BY <1>1 DEF DeskInv, DeskTypeOK

LEMMA ReturnedGrow ==
  ASSUME DeskInv, [DeskNext]_all
  PROVE  ReturnedLines \subseteq ReturnedLines'
<1> SUFFICES ASSUME NEW l \in Lines, NEW c \in Cancels, OrderOf[c] = l[1], l[2] <= putBack[c]
             PROVE  l[2] <= putBack'[c]
  BY DEF ReturnedLines
<1> QED
  BY PutBackGrows, LineParts

LEMMA BrokeOffStays ==
  ASSUME DeskInv, [DeskNext]_all, NEW o \in Requests, BrokeOff(o)
  PROVE  BrokeOff(o)'
<1>1. PICK c \in Cancels : /\ OrderOf[c] = o /\ putBack[c] > 0
                           /\ step[c] \in {"done", "lost"} /\ ended[c] \in {"none", "refused"}
  BY DEF BrokeOff
<1>2. c \in DeskCalls
  OBVIOUS
<1>3. ASSUME DeskMove(c) PROVE FALSE
  BY <1>1, <1>3, DeskAssumption DEF DeskMove, Cancel, ReadToCancel, PutBackLine, SaveCancelled, NotifyStatus,
     DeskCallThrows, Update
<1>4. step'[c] = step[c] /\ ended'[c] = ended[c]
  <2>1. ASSUME NEW x \in DeskCalls, DeskMove(x) PROVE step'[c] = step[c] /\ ended'[c] = ended[c]
    BY <1>2, <1>3, <2>1, DeskOthers
  <2>2. CrashAll => step'[c] = step[c] /\ ended'[c] = ended[c]
    BY <1>1, <1>2 DEF CrashAll
  <2> QED
    BY <2>1, <2>2, CheckoutStep
<1>5. putBack'[c] > 0
  BY <1>1, PutBackGrows
<1> QED
  BY <1>1, <1>4, <1>5 DEF BrokeOff

LEMMA ExceptionsStay ==
  ASSUME DeskInv, [DeskNext]_all, NEW p, Excepted(p)
  PROVE  Excepted(p)'
<1>1. PICK l \in Lines : LineOf(l).product = p /\ (CancelledTwice(l[1]) \/ BrokeOff(l[1]) \/ RolledBackToo(l[1]))
  BY DEF Excepted
<1>2. l[1] \in Requests
  BY LineParts
<1>3. RolledBackToo(l[1]) => RolledBackToo(l[1])'
  <2>1. restored[l[1]] \in Nat /\ restored'[l[1]] >= restored[l[1]] /\ restored'[l[1]] \in Nat
    BY <1>2, RestoredGrows, LocalDesk DEF LocalInv, TypeOK
  <2> QED
    BY <2>1, ReturnedGrow DEF RolledBackToo
<1>4. CancelledTwice(l[1]) => CancelledTwice(l[1])'
  BY MetGrows DEF CancelledTwice
<1>5. BrokeOff(l[1]) => BrokeOff(l[1])'
  BY <1>2, BrokeOffStays
<1> QED
  BY <1>1, <1>3, <1>4, <1>5 DEF Excepted

LEMMA ContestedStays ==
  ASSUME [DeskNext]_all, NEW o, Contested(o)
  PROVE  Contested(o)'
BY MetGrows DEF Contested

\* A cancellation comes to return lines by reading a pending order.
LEMMA WentByReading ==
  ASSUME DeskInv, NEW x \in DeskCalls, DeskMove(x), NEW c \in Cancels, ~Went(c), Went(c)'
  PROVE  c = x /\ MayCancel(c) /\ met' = met \cup {{c, y} : y \in Others(c)}
<1>1. c \in DeskCalls
  OBVIOUS
<1>2. c = x
  BY <1>1, DeskOthers DEF Went
<1>3. step[c] \notin {"putBack", "save"} /\ Cancel(c)
  BY <1>2, DeskAssumption DEF Went, DeskMove
<1>4. CASE ReadToCancel(c)
  <2>1. MayCancel(c) \/ step'[c] = "done"
    BY <1>1, <1>4 DEF ReadToCancel, DeskInv, DeskTypeOK
  <2>2. UNCHANGED putBack
    BY <1>4 DEF ReadToCancel
  <2>3. MayCancel(c)
    BY <2>1, <2>2 DEF Went
  <2> QED
    BY <1>2, <1>4, <2>3 DEF ReadToCancel
<1>5. CASE ~ReadToCancel(c)
  <2>1. UNCHANGED putBack /\ step'[c] = "done"
    BY <1>1, <1>3, <1>5, DeskAssumption DEF Cancel, PutBackLine, SaveCancelled, NotifyStatus, DeskCallThrows, DeskInv, DeskTypeOK
  <2> QED
    BY <2>1 DEF Went
<1> QED
  BY <1>4, <1>5

\* A cancellation that reads its order as pending finds every earlier one that returned
\* lines under way, or broken off.
LEMMA EarlierMet ==
  ASSUME DeskInv, SavedNotPending, NEW c \in Cancels, MayCancel(c), met' = met \cup {{c, y} : y \in Others(c)},
         NEW d \in Cancels, d # c, OrderOf[d] = OrderOf[c], Went(d)
  PROVE  {c, d} \in met' \/ BrokeOff(OrderOf[c])
<1>1. d \in DeskCalls /\ c \in DeskCalls
  OBVIOUS
<1>2. CASE step[d] \in DeskSteps
  BY <1>1, <1>2, JoinerMeets
<1>3. CASE step[d] \notin DeskSteps
  <2>1. putBack[d] > 0 /\ step[d] \in {"done", "lost"}
    BY <1>1, <1>3 DEF Went, DeskInv, DeskTypeOK, CancelOK
  <2>2. ~HasSaved(d)
    BY DEF SavedNotPending, MayCancel
  <2>3. ended[d] \in {"none", "refused"}
    BY <1>1, <2>2 DEF HasSaved, DeskInv, DeskTypeOK
  <2> QED
    BY <2>1, <2>3 DEF BrokeOff
<1> QED
  BY <1>2, <1>3

LEMMA CancelsMetStep ==
  ASSUME DeskInv, SavedNotPending, CancelsMet, [DeskNext]_all
  PROVE  CancelsMet'
<1>0. \A c \in Cancels : OrderOf[c] \in Requests
  BY DeskAssumption
<1>1. ASSUME NEW c \in Cancels, NEW d \in Cancels, c # d, OrderOf[c] = OrderOf[d], Went(c), Went(d)
      PROVE  {c, d} \in met' \/ BrokeOff(OrderOf[c])'
  BY <1>0, <1>1, MetGrows, BrokeOffStays DEF CancelsMet
<1>2. ASSUME \A c \in Cancels : Went(c)' => Went(c) PROVE CancelsMet'
  BY <1>1, <1>2 DEF CancelsMet
<1>3. ASSUME NEW x \in DeskCalls, DeskMove(x) PROVE CancelsMet'
  <2> SUFFICES ASSUME NEW c \in Cancels, NEW d \in Cancels, c # d, OrderOf[c] = OrderOf[d], Went(c)', Went(d)'
               PROVE  {c, d} \in met' \/ BrokeOff(OrderOf[c])'
    BY DEF CancelsMet
  <2>1. {d, c} = {c, d}
    OBVIOUS
  <2>2. CASE ~Went(c)
    <3>1. Went(d)
      BY <1>3, <2>2, WentByReading
    <3>2. {c, d} \in met' \/ BrokeOff(OrderOf[c])
      BY <1>3, <2>2, <3>1, WentByReading, EarlierMet
    <3> QED
      BY <1>0, <3>2, BrokeOffStays
  <2>3. CASE ~Went(d)
    <3>1. Went(c)
      BY <1>3, <2>3, WentByReading
    <3>2. {d, c} \in met' \/ BrokeOff(OrderOf[d])
      BY <1>3, <2>3, <3>1, WentByReading, EarlierMet
    <3> QED
      BY <1>0, <2>1, <3>2, BrokeOffStays
  <2> QED
    BY <1>1, <2>2, <2>3
<1>4. CrashAll => CancelsMet'
  <2> SUFFICES ASSUME CrashAll PROVE CancelsMet'
    OBVIOUS
  <2>1. \A c \in Cancels : c \in DeskCalls
    OBVIOUS
  <2> QED
    BY <1>2, <2>1 DEF CrashAll, Went
<1>5. UNCHANGED desk => CancelsMet'
  BY <1>2 DEF Went
<1> QED
  BY <1>3, <1>4, <1>5, CheckoutStep

\* What a desk call saves, and that no update of a cancelled order goes on to its save.
LEMMA SavedStep ==
  ASSUME DeskInv, UnderWayHaveMet, SavedNotPending, SavedOrContested, NEW x \in DeskCalls, DeskMove(x), [DeskNext]_all
  PROVE  SavedNotPending' /\ SavedOrContested'
<1>0. /\ \A y \in DeskCalls : OrderOf[y] \in Requests
      /\ \A c \in Cancels : c \in DeskCalls
      /\ \A u \in Updates : u \in DeskCalls /\ u \notin Cancels
  BY DeskAssumption
<1>1. \A y \in DeskCalls : y # x => step'[y] = step[y] /\ ended'[y] = ended[y]
  BY DeskOthers
<1>2. ASSUME NEW c \in Cancels, HasSaved(c)', ~HasSaved(c)
      PROVE  c = x /\ step[c] = "save" /\ status'[OrderOf[c]] = "cancelled"
  <2>1. c = x
    BY <1>0, <1>1, <1>2 DEF HasSaved
  <2> QED
    BY <1>0, <1>2, <2>1, StatusMoves DEF DeskInv, DeskTypeOK
<1>3. ASSUME NEW o \in Requests, status'[o] = "pending" PROVE status[o] = "pending"
  BY <1>0, <1>3, StatusMoves DEF DeskInv, DeskTypeOK, UpdateOK
<1>4. SavedNotPending'
  BY <1>0, <1>2, <1>3 DEF SavedNotPending
<1>5. ASSUME NEW u \in Updates, step'[u] = "save", step[u] # "save"
      PROVE  MayUpdate(u) /\ u = x /\ UNCHANGED ended
  <2>1. u = x
    BY <1>0, <1>1, <1>5
  <2>2. Update(u)
    BY <1>0, <2>1 DEF DeskMove
  <2>3. ReadToUpdate(u)
    BY <1>0, <1>5, <2>2 DEF Update, SaveUpdate, NotifyStatus, DeskCallThrows, DeskInv, DeskTypeOK
  <2> QED
    BY <1>0, <1>5, <2>1, <2>3 DEF ReadToUpdate, DeskInv, DeskTypeOK
<1>6. ASSUME NEW c \in Cancels, HasSaved(c)', ~Contested(OrderOf[c])'
      PROVE  /\ status'[OrderOf[c]] = "cancelled"
             /\ \A u \in Updates : OrderOf[u] = OrderOf[c] => step'[u] # "save"
  <2>1. ~Contested(OrderOf[c])
    BY <1>6, ContestedStays
  <2>2. CASE HasSaved(c)
    <3>1. /\ status[OrderOf[c]] = "cancelled"
          /\ \A u \in Updates : OrderOf[u] = OrderOf[c] => step[u] # "save"
      BY <2>1, <2>2 DEF SavedOrContested
    <3>2. status'[OrderOf[c]] = "cancelled"
      BY <1>0, <3>1, StatusMoves DEF DeskInv, DeskTypeOK
    <3>3. ASSUME NEW u \in Updates, OrderOf[u] = OrderOf[c], step'[u] = "save" PROVE FALSE
      <4>1. MayUpdate(u)
        BY <1>5, <3>1, <3>3
      <4> QED
        BY <3>1, <3>3, <4>1 DEF MayUpdate, ORDER_TRANSITIONS
    <3> QED
      BY <3>2, <3>3
  <2>3. CASE ~HasSaved(c)
    <3>1. c = x /\ step[c] = "save" /\ status'[OrderOf[c]] = "cancelled"
      BY <1>2, <1>6, <2>3
    <3>2. ASSUME NEW u \in Updates, OrderOf[u] = OrderOf[c], step'[u] = "save" PROVE FALSE
      <4>1. u # c /\ step[u] = "save"
        BY <1>0, <1>1, <3>1, <3>2
      <4>2. {c, u} \in met
        BY <1>0, <3>1, <3>2, <4>1 DEF UnderWayHaveMet
      <4> QED
        BY <2>1, <4>2 DEF Contested
    <3> QED
      BY <3>1, <3>2
  <2> QED
    BY <2>2, <2>3
<1>7. SavedOrContested'
  BY <1>6 DEF SavedOrContested
<1> QED
  BY <1>4, <1>7

LEMMA MeetStep ==
  ASSUME DeskInv, MeetInv, [DeskNext]_all
  PROVE  MeetInv'
<1>1. UnderWayHaveMet' /\ CancelsMet'
  BY UnderWayStep, CancelsMetStep DEF MeetInv
<1>2. ASSUME UNCHANGED <<status, ended>>, \A y \in DeskCalls : step'[y] = step[y] \/ step'[y] \in {"done", "lost"}
      PROVE  SavedNotPending' /\ SavedOrContested'
  <2>1. \A u \in Updates : u \in DeskCalls
    OBVIOUS
  <2>2. \A c \in Cancels : Contested(OrderOf[c]) => Contested(OrderOf[c])'
    BY ContestedStays
  <2>3. SavedNotPending'
    BY <1>2 DEF MeetInv, SavedNotPending, HasSaved
  <2>4. SavedOrContested'
    BY <1>2, <2>1, <2>2 DEF MeetInv, SavedOrContested, HasSaved
  <2> QED
    BY <2>3, <2>4
<1>3. CrashAll => SavedNotPending' /\ SavedOrContested'
  BY <1>2 DEF CrashAll
<1>4. UNCHANGED desk => SavedNotPending' /\ SavedOrContested'
  BY <1>2
<1>5. SavedNotPending' /\ SavedOrContested'
  BY <1>3, <1>4, SavedStep, CheckoutStep DEF MeetInv
<1> QED
  BY <1>1, <1>5 DEF MeetInv

\* A line whose order is reserved and not rolled back at all is held.
LEMMA WhollyHeld ==
  ASSUME DeskInv, NEW l \in Lines, reserved[l[1]] = Len(Basket[l[1]]), restored[l[1]] = 0
  PROVE  l \in HeldLines
<1>1. Len(Basket[l[1]]) \in Nat /\ l[2] \in Nat \ {0} /\ l[2] <= Len(Basket[l[1]])
  BY LineParts, BasketLength
<1> QED
  BY <1>1 DEF HeldLines, HeldBy

\* Nothing is returned of an order that is not wholly reserved.
LEMMA ReturnedWasReserved ==
  ASSUME DeskInv, NEW l \in ReturnedLines
  PROVE  reserved[l[1]] = Len(Basket[l[1]])
<1>1. PICK c \in Cancels : l \in Lines /\ OrderOf[c] = l[1] /\ l[2] <= putBack[c]
  BY DEF ReturnedLines
<1>2. putBack[c] > 0
  BY <1>1, LineParts DEF DeskInv, DeskTypeOK
<1> QED
  BY <1>1, <1>2 DEF DeskInv, CancelOK

\* A checkout's own line.
LEMMA AccountByCheckout ==
  ASSUME DeskInv, [Next]_vars, UNCHANGED desk, [DeskNext]_all, NEW p \in Products, ~Excepted(p)', Accounted(p)
  PROVE  Accounted(p)'
<1>1. ReturnedLines' = ReturnedLines /\ stock \in [Products -> Nat]
  BY DEF ReturnedLines, DeskInv, LocalInv, TypeOK
<1>2. ASSUME UNCHANGED <<stock, reserved, restored>> PROVE Accounted(p)'
  BY <1>1, <1>2, HeldFrame DEF Accounted, Out
<1>3. ASSUME NEW r \in Requests, Reserve(r), ~Throw(r) PROVE Accounted(p)'
  <2> DEFINE l == <<r, reserved[r] + 1>>
  <2>1. /\ l \in Lines /\ l \notin HeldLines /\ HeldLines' = HeldLines \cup {l}
        /\ stock' = [stock EXCEPT ![LineOf(l).product] = @ - LineOf(l).quantity]
    BY <1>3, ReserveMoves DEF DeskInv
  <2>2. l \notin ReturnedLines
    <3>1. reserved[r] < Len(Basket[r]) /\ reserved[r] \in Nat /\ Len(Basket[r]) \in Nat
      BY <1>3, BasketLength DEF Reserve, DeskInv, LocalInv, TypeOK, Local, CountersOK
    <3> QED
      BY <3>1, ReturnedWasReserved
  <2> HIDE DEF l
  <2>3. Out' = Out \cup {l} /\ l \notin Out
    BY <1>1, <2>1, <2>2 DEF Out
  <2>4. stock'[p] + Cardinality(UnitsIn(Out \cup {l}, p)) = InitialStock[p]
    BY <1>1, <2>1, <2>3, TakeLine DEF Accounted
  <2> QED
    BY <2>3, <2>4 DEF Accounted
<1>4. ASSUME NEW r \in Requests, Restore(r) PROVE Accounted(p)'
  <2> DEFINE l == <<r, restored[r] + 1>>
  <2>1. /\ l \in Lines /\ l \in HeldLines /\ HeldLines' = HeldLines \ {l}
        /\ stock' = [stock EXCEPT ![LineOf(l).product] = @ + LineOf(l).quantity]
    BY <1>4, RestoreMoves DEF DeskInv
  <2>2. restored'[r] > 0 /\ l[1] = r
    BY <1>4 DEF Restore, DeskInv, LocalInv, TypeOK
  <2> HIDE DEF l
  <2>3. CASE l \notin ReturnedLines
    <3>1. Out' = Out \ {l} /\ l \in Out
      BY <1>1, <2>1, <2>3 DEF Out
    <3>2. stock'[p] + Cardinality(UnitsIn(Out \ {l}, p)) = InitialStock[p]
      BY <1>1, <2>1, <3>1, BringLine DEF Accounted
    <3> QED
      BY <3>1, <3>2 DEF Accounted
  <2>4. CASE l \in ReturnedLines
    <3>1. LineOf(l).product # p
      BY <1>1, <2>1, <2>2, <2>4 DEF Excepted, RolledBackToo
    <3>2. Out' = Out
      BY <1>1, <2>1, <2>4 DEF Out
    <3>3. stock'[p] = stock[p]
      BY <1>1, <2>1, <3>1
    <3> QED
      BY <3>2, <3>3 DEF Accounted
  <2> QED
    BY <2>3, <2>4
<1>5. ASSUME NEW r \in Requests, Serve(r) PROVE Accounted(p)'
  <2>1. CASE Reserve(r)
    BY <1>2, <1>3, <2>1 DEF Throw
  <2>2. CASE ReadResult(r) \/ ReadLock(r) \/ SetLock(r) \/ Review(r)
    BY <1>2, <2>2 DEF ReadResult, ReadLock, SetLock, Review, Throw
  <2>3. CASE CreateOrder(r) \/ CreatePayment(r) \/ SaveSnapshot(r) \/ EmptyCart(r)
    BY <1>2, <2>3 DEF CreateOrder, CreatePayment, SaveSnapshot, EmptyCart, Throw
  <2>4. CASE StoreResult(r) \/ Notify(r) \/ Enqueue(r) \/ DeleteOrder(r) \/ Unlock(r)
    BY <1>2, <2>4 DEF StoreResult, Notify, Enqueue, DeleteOrder, Unlock
  <2>5. CASE CallThrows(r)
    BY <1>2, <2>5 DEF CallThrows, Throw
  <2> QED
    BY <1>4, <1>5, <2>1, <2>2, <2>3, <2>4, <2>5 DEF Serve
<1> QED
  BY <1>2, <1>5 DEF Next, Arrive, LockExpires, ResultExpires, Crash, Quiet

\* A line that the desk puts back.
LEMMA AccountByDesk ==
  ASSUME DeskInv, CancelsMet, NEW c \in Cancels, PutBackLine(c), [DeskNext]_all,
         NEW p \in Products, ~Excepted(p), ~Excepted(p)', Accounted(p)
  PROVE  Accounted(p)'
<1> DEFINE o == OrderOf[c]
           n == putBack[c] + 1
           l == <<o, n>>
<1>1. /\ o \in Requests /\ n \in 1 .. Len(Basket[o]) /\ n \in Nat /\ putBack' = [putBack EXCEPT ![c] = n]
      /\ stock' = [stock EXCEPT ![Basket[o][n].product] = @ + Basket[o][n].quantity]
      /\ UNCHANGED <<reserved, restored>> /\ c \in DeskCalls /\ step[c] = "putBack" /\ putBack[c] \in Nat
  BY LineReturned DEF PutBackLine, DeskInv, DeskTypeOK
<1>2. l \in Lines /\ LineOf(l) = Basket[o][n] /\ l[1] = o /\ l[2] = n
  BY <1>1, LineExists
<1>3. ReturnedLines' = ReturnedLines \cup {l}
  <2>1. ASSUME NEW m \in Lines
        PROVE  (\E d \in Cancels : OrderOf[d] = m[1] /\ m[2] <= putBack'[d])
               <=> m = l \/ \E d \in Cancels : OrderOf[d] = m[1] /\ m[2] <= putBack[d]
    <3>1. m = <<m[1], m[2]>> /\ m[2] \in Nat \ {0}
      BY LineParts
    <3>2. \A d \in Cancels : putBack[d] \in Nat /\ putBack'[d] = (IF d = c THEN n ELSE putBack[d])
      BY <1>1 DEF DeskInv, DeskTypeOK
    <3>3. ASSUME NEW d \in Cancels, OrderOf[d] = m[1], m[2] <= putBack'[d], m # l PROVE m[2] <= putBack[d]
      BY <1>1, <3>1, <3>2, <3>3
    <3>4. m = l => OrderOf[c] = m[1] /\ m[2] <= putBack'[c]
      BY <1>1, <3>2
    <3>5. ASSUME NEW d \in Cancels, m[2] <= putBack[d] PROVE m[2] <= putBack'[d]
      BY <1>1, <3>1, <3>2, <3>5
    <3> QED
      BY <3>3, <3>4, <3>5
  <2> QED
    BY <1>2, <2>1 DEF ReturnedLines
<1>4. HeldLines' = HeldLines /\ stock \in [Products -> Nat]
  BY <1>1, HeldFrame DEF DeskInv, LocalInv, TypeOK
<1>5. Out' = Out \ {l}
  BY <1>3, <1>4 DEF Out
<1>6. CASE LineOf(l).product # p
  <2>1. UnitsIn(Out', p) = UnitsIn(Out, p)
    BY <1>5, <1>6 DEF UnitsIn
  <2>2. stock'[p] = stock[p]
    BY <1>1, <1>2, <1>4, <1>6
  <2> QED
    BY <2>1, <2>2 DEF Accounted
<1>7. CASE LineOf(l).product = p
  <2>1. ~CancelledTwice(o) /\ ~BrokeOff(o) /\ ~RolledBackToo(o)'
    BY <1>2, <1>7 DEF Excepted
  <2>2. restored[o] = 0
    <3>1. l \in ReturnedLines'
      BY <1>3
    <3>2. restored[o] \in Nat
      BY <1>1 DEF DeskInv, LocalInv, TypeOK
    <3> QED
      BY <1>1, <1>2, <2>1, <3>1, <3>2 DEF RolledBackToo
  <2>3. l \in HeldLines
    <3>1. reserved[o] = Len(Basket[o])
      BY <1>1 DEF DeskInv, CancelOK
    <3> QED
      BY <1>2, <2>2, <3>1, WhollyHeld
  <2>4. ASSUME NEW d \in Cancels, OrderOf[d] = o, n <= putBack[d] PROVE FALSE
    <3>1. d # c /\ d \in DeskCalls /\ putBack[d] > 0
      BY <1>1, <2>4 DEF DeskInv, DeskTypeOK
    <3>2. {c, d} \in met
      BY <1>1, <2>1, <2>4, <3>1 DEF CancelsMet, Went
    <3> QED
      BY <2>1, <2>4, <3>1, <3>2 DEF CancelledTwice
  <2>5. l \in Out
    BY <1>2, <2>3, <2>4 DEF Out, ReturnedLines
  <2>6. stock' = [stock EXCEPT ![LineOf(l).product] = @ + LineOf(l).quantity]
    BY <1>1, <1>2
  <2> HIDE DEF l
  <2>7. stock'[p] + Cardinality(UnitsIn(Out \ {l}, p)) = InitialStock[p]
    BY <1>2, <1>4, <2>5, <2>6, BringLine DEF Accounted
  <2> QED
    BY <1>5, <2>7 DEF Accounted
<1> QED
  BY <1>6, <1>7

LEMMA DeskAccountStep ==
  ASSUME DeskIInv, [DeskNext]_all
  PROVE  DeskStockAccounted'
<1> SUFFICES ASSUME NEW p \in Products, ~Excepted(p)' PROVE Accounted(p)'
  BY DEF DeskStockAccounted, Excepted, Accounted, Out
<1>1. DeskInv /\ ~Excepted(p) /\ Accounted(p)
  BY ExceptionsStay, AccountedByProduct DEF DeskIInv
<1>2. CASE [Next]_vars /\ UNCHANGED desk
  BY <1>1, <1>2, AccountByCheckout
<1>3. ASSUME UNCHANGED <<stock, reserved, restored, putBack>> PROVE Accounted(p)'
  BY <1>1, <1>3, HeldFrame DEF Accounted, Out, ReturnedLines
<1>4. ASSUME NEW x \in DeskCalls, DeskMove(x) PROVE Accounted(p)'
  <2>1. CASE x \in Cancels /\ PutBackLine(x)
    BY <1>1, <2>1, AccountByDesk DEF DeskIInv, MeetInv
  <2>2. CASE ~(x \in Cancels /\ PutBackLine(x))
    BY <1>3, <1>4, <2>2 DEF DeskMove, Cancel, ReadToCancel, SaveCancelled, Save, NotifyStatus, DeskCallThrows, Update,
       ReadToUpdate, SaveUpdate
  <2> QED
    BY <2>1, <2>2
<1>5. CrashAll => Accounted(p)'
  BY <1>1, <1>3, CrashAllFrame
<1> QED
  BY <1>2, <1>4, <1>5, CheckoutStep

-----------------------------------------------------------------------------
(* The theorems.                                                            *)

LEMMA DeskInitOK == DeskInit => DeskIInv
<1> SUFFICES ASSUME DeskInit PROVE DeskIInv
  OBVIOUS
<1> USE DeskAssumption DEF DeskInit
<1>1. LocalInv /\ StockAccounted
  BY LocalInit, AccountInit
<1>2. DeskTypeOK
  BY DEF DeskTypeOK
<1>3. \A c \in Cancels : CancelOK(c)
  BY BasketLength DEF CancelOK, HasSaved
<1>4. (\A u \in Updates : UpdateOK(u)) /\ CancelledOK /\ MeetInv
  BY DEF UpdateOK, CancelledOK, MeetInv, UnderWayHaveMet, SavedNotPending, CancelsMet, Went, SavedOrContested, HasSaved
<1>5. ReturnedLines = {}
  BY LineParts DEF ReturnedLines
<1>6. DeskStockAccounted
  BY <1>1, <1>5 DEF DeskStockAccounted, StockAccounted
<1> QED
  BY <1>1, <1>2, <1>3, <1>4, <1>6 DEF DeskIInv, DeskInv

LEMMA DeskInvariance == DeskSpec => []DeskIInv
<1>1. DeskIInv /\ [DeskNext]_all => DeskIInv'
  BY DeskStep, MeetStep, DeskAccountStep DEF DeskIInv
<1> QED
  BY <1>1, DeskInitOK, PTL DEF DeskSpec

\* What the checkout promises of orders and stock, it keeps beside the desk: no stock below
\* zero, no order without its lines, nothing left of a refused one, all of a placed one.
THEOREM CheckoutStands == DeskSpec => [](TypeOK /\ OrderBacked /\ RollbackComplete /\ PlacedIsComplete)
<1>1. DeskIInv => TypeOK /\ OrderBacked /\ RollbackComplete /\ PlacedIsComplete
  BY LocalOrderBacked, LocalRollback, LocalComplete DEF DeskIInv, DeskInv, LocalInv
<1> QED
  BY <1>1, DeskInvariance, PTL

\* An order that is cancelled has returned every one of its lines, whatever overlaps.
THEOREM CancelledHaveReturned == DeskSpec => []CancelledOrdersReturnStock
<1>1. DeskIInv => CancelledOrdersReturnStock
  <2> SUFFICES ASSUME DeskInv, NEW o \in Requests, status[o] = "cancelled", NEW i \in DOMAIN Basket[o]
               PROVE  <<o, i>> \in ReturnedLines
    BY DEF DeskIInv, CancelledOrdersReturnStock
  <2>1. i \in 1 .. Len(Basket[o]) /\ i \in Nat
    BY BasketsAssumption, BasketLength
  <2>2. PICK c \in Cancels : OrderOf[c] = o /\ HasSaved(c)
    BY DEF DeskInv, CancelledOK
  <2>3. i <= putBack[c]
    BY <2>1, <2>2 DEF DeskInv, CancelOK
  <2> QED
    BY <2>1, <2>2, <2>3, LineExists DEF ReturnedLines
<1> QED
  BY <1>1, DeskInvariance, PTL

\* Cancellations, rollbacks and checkouts neither create nor lose stock, however the calls
\* interleave, but in the three ways DeskStockAccounted names.
THEOREM DeskStockIsAccounted == DeskSpec => []DeskStockAccounted
<1>1. DeskIInv => DeskStockAccounted
  BY DEF DeskIInv
<1> QED
  BY <1>1, DeskInvariance, PTL

\* However the calls interleave, an order that is confirmed, shipped or delivered has its
\* stock, unless a cancellation met an update of it or broke off.
THEOREM SoldOrdersHaveStock == DeskSpec => []SoldOrdersKeepStock
<1>1. DeskIInv => SoldOrdersKeepStock
  <2> SUFFICES ASSUME DeskIInv, NEW o \in Requests, status[o] \in {"confirmed", "shipped", "delivered"},
                      ~UnderWay(o), ~Contested(o), ~BrokeOff(o), NEW l \in ReturnedLines, l[1] = o
               PROVE  FALSE
    BY DEF SoldOrdersKeepStock
  <2>1. PICK c \in Cancels : l \in Lines /\ OrderOf[c] = o /\ l[2] <= putBack[c]
    BY DEF ReturnedLines
  <2>2. putBack[c] > 0 /\ c \in DeskCalls
    BY <2>1, LineParts DEF DeskIInv, DeskInv, DeskTypeOK
  <2>3. step[c] \in {"done", "lost"}
    BY <2>1, <2>2 DEF UnderWay, DeskIInv, DeskInv, DeskTypeOK, CancelOK
  <2>4. HasSaved(c)
    BY <2>1, <2>2, <2>3 DEF BrokeOff, HasSaved, DeskIInv, DeskInv, DeskTypeOK
  <2> QED
    BY <2>1, <2>4 DEF DeskIInv, MeetInv, SavedOrContested
<1> QED
  BY <1>1, DeskInvariance, PTL
===============================================================================
