------------------------------ MODULE Discounts ------------------------------
(***************************************************************************)
(* Discount codes and the price of a cart: createDiscountCode,             *)
(* updateDiscountCode, deleteDiscountCode, cancelDiscountCode,             *)
(* getDiscountAmount, and CheckoutService.checkoutReview, which asks for   *)
(* one amount after the other while the codes may change.                  *)
(*                                                                         *)
(* The collection has no unique index, so docs is a sequence: findOne and  *)
(* findOneAndDelete take the first match of a scan.  A document carries    *)
(* the name of the call that created it.  Only an update ever fills        *)
(* discount_user_used; the buyers are one, and barred says that the limit  *)
(* per user refuses them.                                                  *)
(***************************************************************************)
EXTENDS Integers, FiniteSets, SequencesExt

CONSTANTS
  Calls,
  Codes,     \* a shop together with a discount_code of it
  NoCode,    \* a cart line whose shop names no code
  ShopOf,    \* code -> the shop
  Drafts,    \* what a create may ask for
  Bodies,    \* what an update may set: any field but the id, to any value of its type
  Carts,     \* shop_order_ids: sequences of a code and a price
  Failing,   \* the steps whose call may throw
  MayCrash   \* the API process may stop

Steps == {"findTwin", "insert", "findOwn", "update", "delete", "findCode", "cancel",
          "quote", "cart", "price", "discount"}

CartLines == UNION {ToSet(lines) : lines \in Carts}

\* The items of one shop in a cart, with the code named for them.
Lines == [code : Codes \cup {NoCode}, price : Nat]

Types == {"fixed_amount", "percentage"}

\* discount_cout_user and discount_max_users.
Counters == {"used", "maxUsers"}

ASSUME DiscountsAssumption ==
  /\ NoCode \notin Codes
  /\ Drafts \subseteq [active : BOOLEAN, open : BOOLEAN, used : Int, maxUsers : Int,
                      type : Types, value : Int, min : Int]
  /\ \A b \in Bodies :
       /\ DOMAIN b \subseteq {"code", "active", "open", "barred", "type", "value", "min"} \cup Counters
       /\ "code" \in DOMAIN b => b.code \in Codes
       /\ "type" \in DOMAIN b => b.type \in Types
       /\ \A f \in DOMAIN b \cap {"active", "open", "barred"} : b[f] \in BOOLEAN
       /\ \A f \in DOMAIN b \cap ({"value", "min"} \cup Counters) : b[f] \in Int
  /\ Carts \subseteq Seq(Lines)
  /\ Failing \subseteq Steps /\ MayCrash \in BOOLEAN

VARIABLES
  docs,     \* the collection, in the order of insertion
  request,  \* call -> kind, code, what it brings, the lines it wants priced
  pc,       \* call -> the step it takes next
  found,    \* call -> the document it has read
  line,     \* call -> the cart line it is at
  total,    \* call -> totalPrice, totalDiscount and totalCheckout so far
  ended,    \* call -> "none", "ok" or "refused"
  given,    \* document -> what its counters were last set to (history)
  cancels,  \* document -> counter -> the cancellations that reached it since (history)
  deleted,  \* the documents that were deleted (history)
  raced,    \* the codes two creates were at together (history)
  loose,    \* the codes that have had an inactive or a renamed document (history)
  odd       \* the calls granted a discount whose terms make no sense (history)

history == <<given, cancels, deleted, raced, loose, odd>>
vars    == <<docs, request, pc, found, line, total, ended, history>>

NoDoc == [code |-> NoCode]
Blank == [price |-> 0, discount |-> 0, pay |-> 0]
Kind(c) == request[c].kind
What(c) == request[c].what
Here(c) == request[c].lines[line[c]]

Init ==
  /\ docs = <<>>
  /\ request = [c \in Calls |-> [kind |-> "none", code |-> NoCode, what |-> NoDoc, lines |-> <<>>]]
  /\ pc = [c \in Calls |-> "idle"]
  /\ found = [c \in Calls |-> NoDoc]
  /\ line = [c \in Calls |-> 1]
  /\ total = [c \in Calls |-> Blank]
  /\ ended = [c \in Calls |-> "none"]
  /\ given = [d \in Calls |-> [f \in Counters |-> 0]]
  /\ cancels = [d \in Calls |-> [f \in Counters |-> {}]]
  /\ deleted = {} /\ raced = {} /\ loose = {} /\ odd = {}

Goto(c, step) == pc' = [pc EXCEPT ![c] = step]

Finish(c, how) == Goto(c, "done") /\ ended' = [ended EXCEPT ![c] = how]

\* What a call has read or summed up is gone when it ends without an answer to show.
Forget(C) ==
  /\ found' = [c \in Calls |-> IF c \in C THEN NoDoc ELSE found[c]]
  /\ line' = [c \in Calls |-> IF c \in C THEN 1 ELSE line[c]]
  /\ total' = [c \in Calls |-> IF c \in C THEN Blank ELSE total[c]]

Refuse(c) == Finish(c, "refused") /\ Forget({c}) /\ UNCHANGED <<docs, request, history>>

Succeed(c) == Finish(c, "ok") /\ Forget({c})

-----------------------------------------------------------------------------
(* Finding documents: the place of the first match, 0 if there is none.     *)
WithCode(k) == SelectInSeq(docs, LAMBDA d : d.code = k)

WithId(id) == SelectInSeq(docs, LAMBDA d : d.id = id)

DocAt(i) == IF i = 0 THEN NoDoc ELSE docs[i]

Ids == {docs[i].id : i \in DOMAIN docs}

Asks(c, kind, code, what, lines) ==
  request' = [request EXCEPT ![c] = [kind |-> kind, code |-> code, what |-> what, lines |-> lines]]

\* The dates are checked before the first call.
AskCreate(c) ==
  /\ pc[c] = "idle"
  /\ \E k \in Codes, d \in Drafts :
       /\ Asks(c, "create", k, d, <<>>)
       /\ \/ d.open /\ Goto(c, "findTwin") /\ UNCHANGED ended
          \/ ~d.open /\ Finish(c, "refused")
  /\ UNCHANGED <<docs, found, line, total, history>>

\* A shop knows the ids of its documents from its listing.
AskUpdate(c) ==
  /\ pc[c] = "idle"
  /\ \E id \in {d \in Calls : Kind(d) = "create" /\ ended[d] = "ok"}, b \in Bodies,
        s \in {ShopOf[k] : k \in Codes} :
       Asks(c, "update", NoCode, [id |-> id, shop |-> s, body |-> b], <<>>)
  /\ Goto(c, "findOwn")
  /\ UNCHANGED <<docs, found, line, total, ended, history>>

AskByCode(c) ==
  /\ pc[c] = "idle"
  /\ \E k \in Codes :
       \/ Asks(c, "delete", k, NoDoc, <<>>) /\ Goto(c, "delete")
       \/ Asks(c, "cancel", k, NoDoc, <<>>) /\ Goto(c, "findCode")
  /\ UNCHANGED <<docs, found, line, total, ended, history>>

AskPrice(c) ==
  /\ pc[c] = "idle"
  /\ \/ \E l \in {m \in CartLines : m.code # NoCode} :
          Asks(c, "quote", l.code, NoDoc, <<l>>) /\ Goto(c, "quote")
     \/ \E lines \in Carts :
          Asks(c, "review", NoCode, NoDoc, lines) /\ Goto(c, "cart")
  /\ UNCHANGED <<docs, found, line, total, ended, history>>

-----------------------------------------------------------------------------
(* createDiscountCode.                                                      *)
Conflicts_Never(d) == FALSE

\* Only the first match is looked at, and only an active one is in the way.
Conflicts(d) == d # NoDoc /\ d.active

FindTwin(c) ==
  LET twin == DocAt(WithCode(request[c].code)) IN
  /\ pc[c] = "findTwin"
  /\ \/ Conflicts(twin) /\ Refuse(c)
     \/ /\ ~Conflicts(twin)
        /\ Goto(c, "insert")
        /\ UNCHANGED <<docs, request, found, line, total, ended, history>>

Draft(c) ==
  LET d == What(c) IN
  [id |-> c, code |-> request[c].code, used |-> d.used, maxUsers |-> d.maxUsers, barred |-> FALSE,
   active |-> d.active, open |-> d.open, type |-> d.type, value |-> d.value, min |-> d.min]

Insert(c) ==
  /\ pc[c] = "insert"
  /\ docs' = Append(docs, Draft(c))
  /\ Succeed(c)
  /\ raced' = raced \cup {request[d].code : d \in {e \in Calls \ {c} :
                             pc[e] = "insert" /\ request[e].code = request[c].code}}
  /\ loose' = loose \cup {k \in {request[c].code} : ~What(c).active}
  /\ given' = [given EXCEPT ![c] = [f \in Counters |-> Draft(c)[f]]]
  /\ UNCHANGED <<request, cancels, deleted, odd>>

-----------------------------------------------------------------------------
(* updateDiscountCode: the body goes into the write as it came, counters    *)
(* and all.                                                                 *)
FindOwn(c) ==
  LET own == DocAt(WithId(What(c).id)) IN
  /\ pc[c] = "findOwn"
  /\ \/ /\ own # NoDoc /\ ShopOf[own.code] = What(c).shop
        /\ found' = [found EXCEPT ![c] = own]
        /\ Goto(c, "update")
        /\ UNCHANGED <<docs, request, line, total, ended, history>>
     \/ own = NoDoc /\ Refuse(c)
     \/ own # NoDoc /\ ShopOf[own.code] # What(c).shop /\ Refuse(c)

Patched(d, body) == [f \in DOMAIN d |-> IF f \in DOMAIN body THEN body[f] ELSE d[f]]

Updated_Upserted(c) ==
  LET i == WithId(What(c).id) IN
  IF i # 0 THEN [docs EXCEPT ![i] = Patched(@, What(c).body)]
  ELSE Append(docs, Patched(found[c], What(c).body))

\* findByIdAndUpdate makes no document; when there is none it answers with null.
Updated(c) ==
  LET i == WithId(What(c).id) IN
  IF i # 0 THEN [docs EXCEPT ![i] = Patched(@, What(c).body)] ELSE docs

Update(c) ==
  LET old == DocAt(WithId(What(c).id)) IN
  /\ pc[c] = "update"
  /\ docs' = Updated(c)
  /\ Succeed(c)
  /\ loose' = loose \cup
       (IF old = NoDoc THEN {}
        ELSE LET new == Patched(old, What(c).body) IN
             {k \in {new.code} : ~new.active \/ new.code # old.code})
  /\ given' = [given EXCEPT ![What(c).id] = Patched(@, What(c).body)]
  /\ cancels' = [cancels EXCEPT ![What(c).id] =
       [f \in Counters |-> IF f \in DOMAIN What(c).body THEN {} ELSE @[f]]]
  /\ UNCHANGED <<request, deleted, raced, odd>>

-----------------------------------------------------------------------------
(* deleteDiscountCode: one findOneAndDelete.                                *)
Delete(c) ==
  LET i == WithCode(request[c].code) IN
  /\ pc[c] = "delete"
  /\ \/ /\ i # 0
        /\ docs' = RemoveAt(docs, i)
        /\ deleted' = deleted \cup {docs[i].id}
        /\ Succeed(c)
        /\ UNCHANGED <<request, given, cancels, raced, loose, odd>>
     \/ i = 0 /\ Refuse(c)

(* cancelDiscountCode: nothing asks whether the buyer has used the code.    *)
FindCode(c) ==
  LET doc == DocAt(WithCode(request[c].code)) IN
  /\ pc[c] = "findCode"
  /\ \/ /\ doc # NoDoc
        /\ found' = [found EXCEPT ![c] = doc]
        /\ Goto(c, "cancel")
        /\ UNCHANGED <<docs, request, line, total, ended, history>>
     \/ doc = NoDoc /\ Refuse(c)

GivenBack_Stale(c, d) ==
  [d EXCEPT !.maxUsers = found[c].maxUsers + 1, !.used = found[c].used - 1, !.barred = FALSE]

\* $pull and $inc, on what the document says at that moment.
GivenBack(c, d) == [d EXCEPT !.maxUsers = @ + 1, !.used = @ - 1, !.barred = FALSE]

Cancel(c) ==
  LET i == WithId(found[c].id) IN
  /\ pc[c] = "cancel"
  /\ docs' = IF i # 0 THEN [docs EXCEPT ![i] = GivenBack(c, @)] ELSE docs
  /\ cancels' = IF i # 0 THEN [cancels EXCEPT ![found[c].id] = [f \in Counters |-> @[f] \cup {c}]]
                 ELSE cancels
  /\ Succeed(c)
  /\ UNCHANGED <<request, given, deleted, raced, loose, odd>>

-----------------------------------------------------------------------------
(* getDiscountAmount.                                                       *)
Enough_Unchecked(d, price) == TRUE

Enough(d, price) == d.min > 0 => price >= d.min

Grants(d, price) ==
  /\ d # NoDoc
  /\ d.active /\ d.maxUsers # 0 /\ d.open
  /\ Enough(d, price)
  /\ ~d.barred

\* totalOrder is summed up only for a code with a minimum.
OrderValue(d, price) == IF d.min > 0 THEN price ELSE 0

Amount(d, price) ==
  IF d.type = "fixed_amount" THEN d.value ELSE (OrderValue(d, price) * d.value) \div 100

\* Less than nothing, a fixed amount above the minimum, or more than all of the price.
Senseless(d) ==
  \/ d.value < 0
  \/ d.type = "fixed_amount" /\ d.value > d.min
  \/ d.type = "percentage" /\ d.value > 100

Note(c, d) == odd' = odd \cup {e \in {c} : Senseless(d)}

Quote(c) ==
  LET d == DocAt(WithCode(Here(c).code))
      price == Here(c).price
  IN
  /\ pc[c] = "quote"
  /\ \/ /\ Grants(d, price)
        /\ total' = [total EXCEPT ![c] =
             [price |-> OrderValue(d, price), discount |-> Amount(d, price),
              pay |-> OrderValue(d, price) - Amount(d, price)]]
        /\ Note(c, d)
        /\ Finish(c, "ok")
        /\ UNCHANGED <<docs, request, found, line, given, cancels, deleted, raced, loose>>
     \/ ~Grants(d, price) /\ Refuse(c)

(* checkoutReview.  Whether the cart is there and the catalogue prices the  *)
(* items of a shop does not depend on the codes.                            *)
NextLine(c) ==
  /\ line' = [line EXCEPT ![c] = @ + 1]
  /\ \/ line[c] < Len(request[c].lines) /\ Goto(c, "price") /\ UNCHANGED ended
     \/ line[c] = Len(request[c].lines) /\ Finish(c, "ok")

ReadCart(c) ==
  /\ pc[c] = "cart"
  /\ \/ /\ request[c].lines # <<>>
        /\ Goto(c, "price")
        /\ UNCHANGED <<docs, request, found, line, total, ended, history>>
     \/ /\ request[c].lines = <<>>
        /\ Finish(c, "ok")
        /\ UNCHANGED <<docs, request, found, line, total, history>>
     \/ Refuse(c)

Price(c) ==
  LET price == Here(c).price IN
  /\ pc[c] = "price"
  /\ \/ /\ Here(c).code # NoCode
        /\ total' = [total EXCEPT ![c].price = @ + price]
        /\ Goto(c, "discount")
        /\ UNCHANGED <<docs, request, found, line, ended, history>>
     \/ /\ Here(c).code = NoCode
        /\ total' = [total EXCEPT ![c].price = @ + price, ![c].pay = @ + price]
        /\ NextLine(c)
        /\ UNCHANGED <<docs, request, found, history>>
     \/ Refuse(c)

Discount(c) ==
  LET d == DocAt(WithCode(Here(c).code))
      price == Here(c).price
  IN
  /\ pc[c] = "discount"
  /\ \/ /\ Grants(d, price)
        /\ total' = [total EXCEPT ![c].discount = @ + Amount(d, price),
                                  ![c].pay = @ + (price - Amount(d, price))]
        /\ Note(c, d)
        /\ NextLine(c)
        /\ UNCHANGED <<docs, request, found, given, cancels, deleted, raced, loose>>
     \/ ~Grants(d, price) /\ Refuse(c)

-----------------------------------------------------------------------------
\* A call throws and has done nothing; every error reaches the client.
CallThrows(c) == pc[c] \in Failing /\ Refuse(c)

Crash ==
  /\ MayCrash
  /\ \E c \in Calls : pc[c] \in Steps
  /\ pc' = [c \in Calls |-> IF pc[c] \in Steps THEN "lost" ELSE pc[c]]
  /\ Forget({c \in Calls : pc[c] \in Steps})
  /\ UNCHANGED <<docs, request, ended, history>>

\* The end date of a code passes.
Lapse(i) ==
  /\ docs[i].open
  /\ docs' = [docs EXCEPT ![i].open = FALSE]
  /\ UNCHANGED <<request, pc, found, line, total, ended, history>>

Arrive(c) == AskCreate(c) \/ AskUpdate(c) \/ AskByCode(c) \/ AskPrice(c)

Handle(c) ==
  \/ FindTwin(c) \/ Insert(c) \/ FindOwn(c) \/ Update(c) \/ Delete(c)
  \/ FindCode(c) \/ Cancel(c) \/ Quote(c) \/ ReadCart(c) \/ Price(c) \/ Discount(c)
  \/ CallThrows(c)

Quiet == (\A c \in Calls : pc[c] \in {"done", "lost"}) /\ UNCHANGED vars

Next ==
  \/ \E c \in Calls : Arrive(c) \/ Handle(c)
  \/ \E i \in DOMAIN docs : Lapse(i)
  \/ Crash
  \/ Quiet

Spec == Init /\ [][Next]_vars

-----------------------------------------------------------------------------
(* Properties.                                                              *)

\* "Discount code already exists" (services/discount.service.js:67): one code has two
\* active documents only when two creates were at it together, or when one of its documents
\* was inactive or renamed, for that is what the lookup before the insertion lets through.
TwinsHaveCause ==
  \A i, j \in DOMAIN docs :
    i # j /\ docs[i].active /\ docs[j].active /\ docs[i].code = docs[j].code =>
      docs[i].code \in raced \cup loose

\* "Delete discount code success" (controllers/discount.controller.js:84): a document that
\* was deleted never comes back, whatever update or cancellation had found it before, and
\* every document that was created and not deleted is in the collection, once.
DeletedStaysDeleted ==
  LET created == {c \in Calls : Kind(c) = "create" /\ ended[c] = "ok"} IN
  Ids = created \ deleted /\ Cardinality(Ids) = Len(docs)

\* A cancellation that reached its document gives one use back and takes one off the number
\* of uses, once, also beside another one and beside an update (lines 305-313): each counter
\* is what it was last set to, by the creation or by an update that names it (lines 106-110),
\* and one more or less for every cancellation since.
EveryCancelCounts ==
  \A i \in DOMAIN docs :
    LET d == docs[i] IN
    /\ d.used = given[d.id].used - Cardinality(cancels[d.id].used)
    /\ d.maxUsers = given[d.id].maxUsers + Cardinality(cancels[d.id].maxUsers)

\* The price of a cart, counted unit by unit.
PriceOf(lines) == Cardinality(UNION {{i} \X (1 .. lines[i].price) : i \in DOMAIN lines})

\* "recalculate price and discount on server" (README.md:137): the totals of a review add
\* up over all of its shops while the codes change under it, and nobody is asked for less
\* than nothing or more than the price, as long as the codes that were granted make sense.
TotalsAddUp ==
  \A c \in Calls :
    ended[c] = "ok" /\ Kind(c) \in {"quote", "review"} =>
      /\ total[c].pay = total[c].price - total[c].discount
      /\ Kind(c) = "review" => total[c].price = PriceOf(request[c].lines)
      /\ c \notin odd => total[c].pay \in 0 .. total[c].price
=============================================================================
