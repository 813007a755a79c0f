-------------------------- MODULE DiscountsProofs --------------------------
(***************************************************************************)
(* The discount codes, for every value of the constants: two active        *)
(* documents of a code have a cause, what is deleted stays deleted, every  *)
(* cancellation counts once until an update sets the counter anew, and the *)
(* totals of a review add up.                                              *)
(***************************************************************************)
EXTENDS Discounts, FiniteSetTheorems, SequenceTheorems, TLAPS

Docs == [id : Calls, code : Codes, used : Int, maxUsers : Int, barred : BOOLEAN, active : BOOLEAN,
         open : BOOLEAN, type : Types, value : Int, min : Int]

Kinds == {"none", "create", "update", "delete", "cancel", "quote", "review"}

Updates == [id : Calls, shop : {ShopOf[k] : k \in Codes}, body : Bodies]

Requests == [kind : Kinds, code : Codes \cup {NoCode}, what : Drafts \cup Updates \cup {NoDoc},
             lines : Seq(Lines)]

TypeOK ==
  /\ docs \in Seq(Docs)
  /\ request \in [Calls -> Requests]
  /\ pc \in [Calls -> Steps \cup {"idle", "done", "lost"}]
  /\ line \in [Calls -> Nat]
  /\ total \in [Calls -> [price : Nat, discount : Int, pay : Int]]
  /\ ended \in [Calls -> {"none", "ok", "refused"}]

\* What the fields of a call say of each other.
CallOK(c) ==
  /\ pc[c] = "idle" => Kind(c) = "none"
  /\ pc[c] # "done" => ended[c] = "none"
  /\ Kind(c) = "create" => What(c) \in Drafts /\ request[c].code \in Codes
  /\ pc[c] \in {"findTwin", "insert"} => Kind(c) = "create"
  /\ pc[c] \in {"findOwn", "update"} => Kind(c) = "update" /\ What(c) \in Updates
  /\ pc[c] = "delete" => Kind(c) = "delete"
  /\ pc[c] \in {"findCode", "cancel"} => Kind(c) = "cancel"
  /\ pc[c] = "quote" => Kind(c) = "quote" /\ line[c] \in 1 .. Len(request[c].lines)
  /\ pc[c] \in {"cart", "price", "discount"} => Kind(c) = "review"
  /\ pc[c] \in {"idle", "cart"} => line[c] = 1 /\ total[c] = Blank
  /\ pc[c] \in {"price", "discount"} => line[c] \in 1 .. Len(request[c].lines)

CallsInv == TypeOK /\ \A c \in Calls : CallOK(c)

Created == {c \in Calls : Kind(c) = "create" /\ ended[c] = "ok"}

\* A document is in the collection once, under the name of the create that made it.
IdsOK ==
  /\ \A i, j \in DOMAIN docs : docs[i].id = docs[j].id => i = j
  /\ IsFiniteSet(Ids) /\ deleted \subseteq Created
  /\ DeletedStaysDeleted

\* A cancellation is counted when it ends, and only for documents that were there.
CancelledOK(d, f) ==
  /\ IsFiniteSet(cancels[d][f])
  /\ \A c \in cancels[d][f] : pc[c] = "done"
  /\ d \notin Created => cancels[d][f] = {}

CancelsOK ==
  /\ given \in [Calls -> [Counters -> Int]]
  /\ cancels \in [Calls -> [Counters -> SUBSET Calls]]
  /\ \A d \in Calls, f \in Counters : CancelledOK(d, f)
  /\ EveryCancelCounts

\* The lookup of a create has been overtaken only where others were at the code.
TwinsOK ==
  /\ \A i \in DOMAIN docs : docs[i].active \/ docs[i].code \in loose
  /\ \A c \in Calls, i \in DOMAIN docs :
       pc[c] = "insert" /\ docs[i].code = request[c].code => docs[i].code \in raced \cup loose
  /\ TwinsHaveCause

\* The units of the first n lines of a cart.
Units(lines, n) == UNION {{i} \X (1 .. lines[i].price) : i \in 1 .. n}

\* The totals of a review at a line: what was to be paid for the lines priced and discounted
\* so far, of which the last is not when its discount is to come.
Balance(c, price) ==
  /\ total[c].pay = price - total[c].discount
  /\ c \notin odd => total[c].pay \in 0 .. price

TotalOK(c) ==
  LET lines == request[c].lines IN
  /\ pc[c] = "price" =>
       total[c].price = Cardinality(Units(lines, line[c] - 1)) /\ Balance(c, total[c].price)
  /\ pc[c] = "discount" =>
       total[c].price = Cardinality(Units(lines, line[c])) /\ Balance(c, total[c].price - Here(c).price)

TotalsOK == TotalsAddUp /\ \A c \in Calls : TotalOK(c)

IInv == CallsInv /\ IdsOK /\ CancelsOK /\ TwinsOK /\ TotalsOK

-----------------------------------------------------------------------------
(* The first match in the collection.                                       *)

\* A set of positions has a least one: the positions before all of it are counted.
LEMMA LeastPosition ==
  ASSUME NEW n \in Nat, NEW S, S \subseteq 1 .. n, S # {}
  PROVE  \E i \in S : \A j \in S : i <= j
<1> DEFINE before == {i \in 0 .. n : \A j \in S : i < j}
           m == Cardinality(before)
<1>1. IsFiniteSet(0 .. n) /\ before \in SUBSET (0 .. n)
  BY FS_Interval
<1>2. IsFiniteSet(before) /\ m \in Nat
  BY <1>1, FS_Subset, FS_CardinalityType
<1>3. m \notin before
  <2> SUFFICES ASSUME m \in before PROVE FALSE
    OBVIOUS
  <2>1. 0 .. m \in SUBSET before
    OBVIOUS
  <2>2. Cardinality(0 .. m) = m + 1
    BY <1>2, FS_Interval
  <2> QED
    BY <1>2, <2>1, <2>2, FS_Subset
<1>4. m # 0 /\ m - 1 \in before
  <2>1. 0 \in before
    OBVIOUS
  <2> SUFFICES ASSUME m - 1 \notin before PROVE FALSE
    BY <1>2, <1>3, <2>1
  <2>2. m # 0
    BY <1>3, <2>1
  <2>3. before \in SUBSET (0 .. m - 2)
    <3> SUFFICES ASSUME NEW i \in before, i > m - 2 PROVE FALSE
      BY <1>2
    <3>1. m - 1 \in 0 .. n /\ \A j \in S : m - 1 < j
      BY <1>2, <2>2
    <3> QED
      BY <3>1
  <2>4. \A k \in Nat \ {0} :
          IsFiniteSet(0 .. k - 2) /\ Cardinality(0 .. k - 2) \in Nat /\ Cardinality(0 .. k - 2) <= k - 1
    <3> TAKE k \in Nat \ {0}
    <3>1. k - 2 \in Int
      OBVIOUS
    <3>2. IsFiniteSet(0 .. k - 2) /\ Cardinality(0 .. k - 2) = IF 0 > k - 2 THEN 0 ELSE k - 2 - 0 + 1
      BY <3>1, FS_Interval
    <3> QED
      BY <3>2
  <2>5. m <= Cardinality(0 .. m - 2)
    BY <1>2, <2>2, <2>3, <2>4, FS_Subset
  <2> HIDE DEF m
  <2> QED
    BY <1>2, <2>2, <2>4, <2>5
<1>5. \A j \in S : m <= j
  <2>1. \A j \in S : m - 1 < j /\ j \in Nat
    BY <1>4
  <2> HIDE DEF m
  <2> QED
    BY <1>2, <2>1
<1> HIDE DEF m
<1>6. m \in S
  <2>1. m \in 0 .. n
    <3>1. PICK j \in S : j \in 1 .. n
      OBVIOUS
    <3> QED
      BY <1>2, <1>5, <3>1
  <2>2. PICK j \in S : ~(m < j)
    BY <1>3, <2>1
  <2> QED
    BY <1>2, <1>5, <2>2
<1> QED
  BY <1>5, <1>6

LEMMA MinIsIn ==
  ASSUME NEW n \in Nat, NEW S, S \subseteq 1 .. n, S # {}
  PROVE  Min(S) \in S
BY LeastPosition DEF Min

\* findOne answers with a match, or with none when there is none.
LEMMA FirstWithCode ==
  ASSUME docs \in Seq(Docs), NEW k
  PROVE  \/ WithCode(k) = 0 /\ \A i \in DOMAIN docs : docs[i].code # k
         \/ WithCode(k) \in DOMAIN docs /\ docs[WithCode(k)].code = k
<1> DEFINE matches == {i \in 1 .. Len(docs) : docs[i].code = k}
<1>1. WithCode(k) = IF matches # {} THEN Min(matches) ELSE 0
  BY DEF WithCode, SelectInSeq
<1>2. matches # {} => Min(matches) \in matches
  <2>1. Len(docs) \in Nat /\ matches \subseteq 1 .. Len(docs)
    OBVIOUS
  <2> HIDE DEF matches
  <2> QED
    BY <2>1, MinIsIn
<1>3. DOMAIN docs = 1 .. Len(docs)
  OBVIOUS
<1> QED
  BY <1>1, <1>2, <1>3

LEMMA FirstWithId ==
  ASSUME docs \in Seq(Docs), NEW d
  PROVE  \/ WithId(d) = 0 /\ \A i \in DOMAIN docs : docs[i].id # d
         \/ WithId(d) \in DOMAIN docs /\ docs[WithId(d)].id = d
<1> DEFINE matches == {i \in 1 .. Len(docs) : docs[i].id = d}
<1>1. WithId(d) = IF matches # {} THEN Min(matches) ELSE 0
  BY DEF WithId, SelectInSeq
<1>2. matches # {} => Min(matches) \in matches
  <2>1. Len(docs) \in Nat /\ matches \subseteq 1 .. Len(docs)
    OBVIOUS
  <2> HIDE DEF matches
  <2> QED
    BY <2>1, MinIsIn
<1>3. DOMAIN docs = 1 .. Len(docs)
  OBVIOUS
<1> QED
  BY <1>1, <1>2, <1>3
-----------------------------------------------------------------------------
(* The documents.                                                           *)

USE DEF Goto, Finish, Refuse, Succeed, Kind, What, Here, history

\* The collection without the document at one place.
LEMMA WithoutOne ==
  ASSUME docs \in Seq(Docs), NEW i \in DOMAIN docs
  PROVE  /\ RemoveAt(docs, i) \in Seq(Docs)
         /\ Len(RemoveAt(docs, i)) = Len(docs) - 1
         /\ \A j \in 1 .. Len(docs) - 1 : RemoveAt(docs, i)[j] = docs[IF j < i THEN j ELSE j + 1]
<1> DEFINE front == SubSeq(docs, 1, i - 1)
           back  == SubSeq(docs, i + 1, Len(docs))
<1>1. Len(docs) \in Nat /\ i \in 1 .. Len(docs)
  OBVIOUS
<1>2. /\ front \in Seq(Docs) /\ Len(front) = i - 1
      /\ \A j \in 1 .. i - 1 : front[j] = docs[j]
  <2>1. i - 1 \in Int /\ \A j \in 1 .. i - 1 : docs[j] \in Docs
    BY <1>1
  <2> QED
    BY <1>1, <2>1, SubSeqProperties
<1>3. /\ back \in Seq(Docs) /\ Len(back) = Len(docs) - i
      /\ \A j \in 1 .. Len(docs) - i : back[j] = docs[i + j]
  <2>1. i + 1 \in Int /\ Len(docs) \in Int /\ \A j \in i + 1 .. Len(docs) : docs[j] \in Docs
    BY <1>1
  <2>2. /\ SubSeq(docs, i + 1, Len(docs)) \in Seq(Docs)
        /\ Len(SubSeq(docs, i + 1, Len(docs))) =
             IF i + 1 <= Len(docs) THEN Len(docs) - (i + 1) + 1 ELSE 0
        /\ \A j \in 1 .. Len(docs) - (i + 1) + 1 :
             SubSeq(docs, i + 1, Len(docs))[j] = docs[i + 1 + j - 1]
    BY <2>1, SubSeqProperties
  <2> QED
    BY <1>1, <2>2
<1>4. RemoveAt(docs, i) = front \o back
  BY DEF RemoveAt
<1> HIDE DEF front, back
<1>5. /\ front \o back \in Seq(Docs)
      /\ Len(front \o back) = Len(front) + Len(back)
      /\ \A j \in 1 .. Len(front) + Len(back) :
           (front \o back)[j] = IF j <= Len(front) THEN front[j] ELSE back[j - Len(front)]
  BY <1>2, <1>3, ConcatProperties
<1>6. ASSUME NEW j \in 1 .. Len(docs) - 1
      PROVE  RemoveAt(docs, i)[j] = docs[IF j < i THEN j ELSE j + 1]
  <2>1. (front \o back)[j] = IF j <= i - 1 THEN front[j] ELSE back[j - (i - 1)]
    <3>1. Len(front) = i - 1 /\ Len(front) + Len(back) = Len(docs) - 1
      BY <1>1, <1>2, <1>3
    <3>2. j \in 1 .. Len(front) + Len(back)
      BY <1>6, <3>1
    <3>3. (front \o back)[j] = IF j <= Len(front) THEN front[j] ELSE back[j - Len(front)]
      BY <1>5, <3>2
    <3> QED
      BY <3>1, <3>3
  <2>2. CASE j < i
    BY <1>1, <1>2, <1>4, <1>6, <2>1, <2>2
  <2>3. CASE ~(j < i)
    <3>1. j - (i - 1) \in 1 .. Len(docs) - i /\ i + (j - (i - 1)) = j + 1
      BY <1>1, <1>6, <2>3
    <3>2. back[j - (i - 1)] = docs[j + 1]
      BY <1>3, <3>1
    <3> QED
      BY <1>1, <1>4, <1>6, <2>1, <2>3, <3>2
  <2> QED
    BY <2>2, <2>3
<1>7. Len(RemoveAt(docs, i)) = Len(docs) - 1
  <2>1. Len(RemoveAt(docs, i)) = (i - 1) + (Len(docs) - i)
    BY <1>2, <1>3, <1>4, <1>5
  <2> QED
    BY <1>1, <2>1
<1> QED
  BY <1>4, <1>5, <1>6, <1>7

LEMMA DraftIsDoc ==
  ASSUME NEW c \in Calls, What(c) \in Drafts, request[c].code \in Codes
  PROVE  Draft(c) \in Docs
BY DiscountsAssumption DEF Draft, Docs

\* An update keeps the id, for no body names it.
LEMMA PatchedIsDoc ==
  ASSUME NEW d \in Docs, NEW body \in Bodies
  PROVE  /\ Patched(d, body) \in Docs /\ Patched(d, body).id = d.id
         /\ \A f \in Counters :
              /\ Patched(d, body)[f] = IF f \in DOMAIN body THEN body[f] ELSE d[f]
              /\ f \in DOMAIN body => body[f] \in Int
<1> DEFINE new == Patched(d, body)
<1>1. DOMAIN d = {"id", "code", "used", "maxUsers", "barred", "active", "open", "type", "value", "min"}
  BY DEF Docs
<1>2. new = [f \in DOMAIN d |-> IF f \in DOMAIN body THEN body[f] ELSE d[f]]
  BY DEF Patched
<1>3. DOMAIN body \subseteq {"code", "active", "open", "barred", "type", "value", "min"} \cup Counters
  BY DiscountsAssumption
<1>4. /\ "code" \in DOMAIN body => body.code \in Codes
      /\ "type" \in DOMAIN body => body.type \in Types
      /\ \A f \in DOMAIN body \cap {"active", "open", "barred"} : body[f] \in BOOLEAN
      /\ \A f \in DOMAIN body \cap ({"value", "min"} \cup Counters) : body[f] \in Int
  BY DiscountsAssumption
<1>5. new.id = d.id
  BY <1>1, <1>2, <1>3 DEF Counters
<1>6. new.code \in Codes /\ new.type \in Types
  BY <1>1, <1>2, <1>4 DEF Docs
<1>7. new.active \in BOOLEAN /\ new.open \in BOOLEAN /\ new.barred \in BOOLEAN
  BY <1>1, <1>2, <1>4 DEF Docs
<1>8. new.value \in Int /\ new.min \in Int /\ new.used \in Int /\ new.maxUsers \in Int
  BY <1>1, <1>2, <1>4 DEF Docs, Counters
<1>9. \A f \in Counters :
        /\ new[f] = IF f \in DOMAIN body THEN body[f] ELSE d[f]
        /\ f \in DOMAIN body => body[f] \in Int
  BY <1>1, <1>2, <1>4 DEF Counters
<1>10. new = [id |-> new.id, code |-> new.code, used |-> new.used, maxUsers |-> new.maxUsers,
              barred |-> new.barred, active |-> new.active, open |-> new.open, type |-> new.type,
              value |-> new.value, min |-> new.min]
  BY <1>1, <1>2
<1> HIDE DEF new
<1>11. new \in Docs
  BY <1>5, <1>6, <1>7, <1>8, <1>10 DEF Docs
<1>12. Patched(d, body) \in Docs /\ Patched(d, body).id = d.id
  BY <1>5, <1>11 DEF new
<1>13. ASSUME NEW f \in Counters
       PROVE  /\ Patched(d, body)[f] = IF f \in DOMAIN body THEN body[f] ELSE d[f]
              /\ f \in DOMAIN body => body[f] \in Int
  BY <1>9 DEF new
<1> QED
  BY <1>12, <1>13

LEMMA GivenBackIsDoc ==
  ASSUME NEW c, NEW d \in Docs
  PROVE  /\ GivenBack(c, d) \in Docs
         /\ GivenBack(c, d).id = d.id /\ GivenBack(c, d).code = d.code
         /\ GivenBack(c, d).active = d.active
         /\ GivenBack(c, d).used = d.used - 1 /\ GivenBack(c, d).maxUsers = d.maxUsers + 1
<1>1. GivenBack(c, d) = [d EXCEPT !.maxUsers = d.maxUsers + 1, !.used = d.used - 1, !.barred = FALSE]
  BY DEF GivenBack, Docs
<1>2. d.maxUsers + 1 \in Int /\ d.used - 1 \in Int
  BY DEF Docs
<1> QED
  BY <1>1, <1>2 DEF Docs

\* What the four kinds of write do to the collection.
LEMMA InsertDoc ==
  ASSUME docs \in Seq(Docs), NEW d \in Docs
  PROVE  /\ Append(docs, d) \in Seq(Docs) /\ Len(Append(docs, d)) = Len(docs) + 1
         /\ \A j \in 1 .. Len(docs) : Append(docs, d)[j] = docs[j]
         /\ Append(docs, d)[Len(docs) + 1] = d
OBVIOUS

LEMMA ReplaceDoc ==
  ASSUME docs \in Seq(Docs), NEW i \in DOMAIN docs, NEW d \in Docs
  PROVE  /\ [docs EXCEPT ![i] = d] \in Seq(Docs) /\ Len([docs EXCEPT ![i] = d]) = Len(docs)
         /\ \A j \in 1 .. Len(docs) : [docs EXCEPT ![i] = d][j] = IF j = i THEN d ELSE docs[j]
BY ExceptSeq

-----------------------------------------------------------------------------
(* The calls.                                                               *)

Serve(c) == Arrive(c) \/ Handle(c)

\* A step of a call leaves the others alone.
LEMMA OthersStay ==
  ASSUME TypeOK, NEW c \in Calls, Serve(c), NEW d \in Calls, d # c
  PROVE  /\ pc'[d] = pc[d] /\ request'[d] = request[d] /\ line'[d] = line[d]
         /\ total'[d] = total[d] /\ ended'[d] = ended[d] /\ (d \in odd' <=> d \in odd)
<1> USE DEF TypeOK, Forget
<1>1. CASE Arrive(c)
  BY <1>1 DEF Arrive, AskCreate, AskUpdate, AskByCode, AskPrice, Asks
<1>2. CASE FindTwin(c) \/ Insert(c) \/ FindOwn(c) \/ Update(c) \/ Delete(c)
  BY <1>2 DEF FindTwin, Insert, FindOwn, Update, Delete
<1>3. CASE FindCode(c) \/ Cancel(c) \/ CallThrows(c)
  BY <1>3 DEF FindCode, Cancel, CallThrows
<1>4. CASE Quote(c) \/ ReadCart(c)
  BY <1>4 DEF Quote, ReadCart, Note
<1>5. CASE Price(c) \/ Discount(c)
  BY <1>5 DEF Price, Discount, Note, NextLine
<1> QED
  BY <1>1, <1>2, <1>3, <1>4, <1>5 DEF Serve, Handle

\* The collection is written by five actions.
LEMMA DocsStay ==
  ASSUME NEW c \in Calls, Serve(c), ~Insert(c), ~Update(c), ~Delete(c), ~Cancel(c)
  PROVE  UNCHANGED <<docs, given, cancels, deleted, raced, loose>>
BY DEF Serve, Handle, Arrive, AskCreate, AskUpdate, AskByCode, AskPrice, FindTwin, FindOwn, FindCode,
   CallThrows, Quote, ReadCart, Price, Discount, Note

LEMMA DraftTypes ==
  ASSUME NEW d \in Drafts
  PROVE  d.open \in BOOLEAN /\ d.active \in BOOLEAN /\ d.maxUsers \in Int /\ d.used \in Int
BY DiscountsAssumption

LEMMA CartTypes ==
  ASSUME NEW l \in CartLines PROVE l \in Lines
<1>1. PICK lines \in Carts : l \in ToSet(lines)
  BY DEF CartLines
<1>2. lines \in Seq(Lines)
  BY <1>1, DiscountsAssumption
<1> QED
  BY <1>1, <1>2 DEF ToSet

\* A request that arrives.
LEMMA ArriveType ==
  ASSUME CallsInv, NEW c \in Calls, Arrive(c)
  PROVE  TypeOK' /\ CallOK(c)'
<1> USE DEF CallsInv, TypeOK
<1>0. CallOK(c)
  OBVIOUS
<1>1. CASE AskCreate(c)
  <2>1. PICK k \in Codes, d \in Drafts :
          /\ request' = [request EXCEPT ![c] =
               [kind |-> "create", code |-> k, what |-> d, lines |-> <<>>]]
          /\ \/ pc' = [pc EXCEPT ![c] = "findTwin"] /\ UNCHANGED ended
             \/ pc' = [pc EXCEPT ![c] = "done"] /\ ended' = [ended EXCEPT ![c] = "refused"]
    BY <1>1 DEF AskCreate, Asks
  <2>2. [kind |-> "create", code |-> k, what |-> d, lines |-> <<>>] \in Requests
    BY DEF Requests, Kinds
  <2>3. pc[c] = "idle" /\ UNCHANGED <<docs, line, total>>
    BY <1>1 DEF AskCreate
  <2>4. TypeOK'
    BY <2>1, <2>2, <2>3 DEF Steps
  <2>5. CallOK(c)'
    BY <1>0, <2>1, <2>3 DEF CallOK
  <2> QED
    BY <2>4, <2>5
<1>2. CASE AskUpdate(c)
  <2>1. PICK u \in Updates :
          request' = [request EXCEPT ![c] = [kind |-> "update", code |-> NoCode, what |-> u, lines |-> <<>>]]
    BY <1>2 DEF AskUpdate, Asks, Updates
  <2>2. [kind |-> "update", code |-> NoCode, what |-> u, lines |-> <<>>] \in Requests
    BY DEF Requests, Kinds
  <2>3. /\ pc[c] = "idle" /\ pc' = [pc EXCEPT ![c] = "findOwn"] /\ UNCHANGED <<docs, line, total, ended>>
    BY <1>2 DEF AskUpdate
  <2>4. TypeOK'
    BY <2>1, <2>2, <2>3 DEF Steps
  <2>5. CallOK(c)'
    BY <1>0, <2>1, <2>3 DEF CallOK
  <2> QED
    BY <2>4, <2>5
<1>3. CASE AskByCode(c)
  <2>1. PICK k \in Codes, kind \in {"delete", "cancel"} :
          /\ request' = [request EXCEPT ![c] = [kind |-> kind, code |-> k, what |-> NoDoc, lines |-> <<>>]]
          /\ pc' = [pc EXCEPT ![c] = IF kind = "delete" THEN "delete" ELSE "findCode"]
    BY <1>3 DEF AskByCode, Asks
  <2>2. [kind |-> kind, code |-> k, what |-> NoDoc, lines |-> <<>>] \in Requests
    BY DEF Requests, Kinds
  <2>3. pc[c] = "idle" /\ UNCHANGED <<docs, line, total, ended>>
    BY <1>3 DEF AskByCode
  <2>4. TypeOK'
    BY <2>1, <2>2, <2>3 DEF Steps
  <2>5. CallOK(c)'
    BY <1>0, <2>1, <2>3 DEF CallOK
  <2> QED
    BY <2>4, <2>5
<1>4. CASE AskPrice(c)
  <2>0. pc[c] = "idle" /\ UNCHANGED <<docs, line, total, ended>>
    BY <1>4 DEF AskPrice
  <2>1. CASE \E l \in {m \in CartLines : m.code # NoCode} :
               Asks(c, "quote", l.code, NoDoc, <<l>>) /\ Goto(c, "quote")
    <3>1. PICK l \in CartLines :
            /\ l.code # NoCode
            /\ request' = [request EXCEPT ![c] = [kind |-> "quote", code |-> l.code, what |-> NoDoc, lines |-> <<l>>]]
            /\ pc' = [pc EXCEPT ![c] = "quote"]
      BY <2>1 DEF Asks
    <3>2. l \in Lines /\ l.code \in Codes
      BY <3>1, CartTypes DEF Lines
    <3>3. <<l>> \in Seq(Lines) /\ Len(<<l>>) = 1
      BY <3>2
    <3>4. [kind |-> "quote", code |-> l.code, what |-> NoDoc, lines |-> <<l>>] \in Requests
      BY <3>2, <3>3 DEF Requests, Kinds
    <3>5. TypeOK'
      BY <2>0, <3>1, <3>4 DEF Steps
    <3>6. CallOK(c)'
      BY <1>0, <2>0, <3>1, <3>3 DEF CallOK
    <3> QED
      BY <3>5, <3>6
  <2>2. CASE \E lines \in Carts : Asks(c, "review", NoCode, NoDoc, lines) /\ Goto(c, "cart")
    <3>1. PICK lines \in Carts :
            /\ request' = [request EXCEPT ![c] = [kind |-> "review", code |-> NoCode, what |-> NoDoc, lines |-> lines]]
            /\ pc' = [pc EXCEPT ![c] = "cart"]
      BY <2>2 DEF Asks
    <3>2. [kind |-> "review", code |-> NoCode, what |-> NoDoc, lines |-> lines] \in Requests
      BY DiscountsAssumption DEF Requests, Kinds
    <3>3. TypeOK'
      BY <2>0, <3>1, <3>2 DEF Steps
    <3>4. CallOK(c)'
      BY <1>0, <2>0, <3>1 DEF CallOK
    <3> QED
      BY <3>3, <3>4
  <2> QED
    BY <1>4, <2>1, <2>2 DEF AskPrice
<1> QED
  BY <1>1, <1>2, <1>3, <1>4 DEF Arrive

LEMMA DocIsThere ==
  ASSUME docs \in Seq(Docs)
  PROVE  \A i \in DOMAIN docs : i # 0 /\ docs[i] \in Docs /\ docs[i] # NoDoc
<1>1. ASSUME NEW i \in DOMAIN docs PROVE i # 0 /\ docs[i] \in Docs
  OBVIOUS
<1>2. ASSUME NEW d \in Docs PROVE d # NoDoc
  <2>1. d.code \in Codes
    BY DEF Docs
  <2>2. NoDoc.code \notin Codes
    BY DiscountsAssumption DEF NoDoc
  <2> QED
    BY <2>1, <2>2
<1> QED
  BY <1>1, <1>2

\* What a lookup by code or by id answers with.
LEMMA FoundByCode ==
  ASSUME docs \in Seq(Docs), NEW k
  PROVE  LET d == DocAt(WithCode(k)) IN
         \/ d = NoDoc /\ WithCode(k) = 0 /\ \A i \in DOMAIN docs : docs[i].code # k
         \/ /\ d \in Docs /\ d # NoDoc /\ d.code = k
            /\ WithCode(k) \in DOMAIN docs /\ WithCode(k) # 0 /\ d = docs[WithCode(k)]
<1>1. \A i \in DOMAIN docs : i # 0 /\ docs[i] \in Docs /\ docs[i] # NoDoc
  BY DocIsThere
<1>2. CASE WithCode(k) = 0 /\ \A i \in DOMAIN docs : docs[i].code # k
  BY <1>2 DEF DocAt
<1>3. CASE WithCode(k) \in DOMAIN docs /\ docs[WithCode(k)].code = k
  BY <1>1, <1>3 DEF DocAt
<1> QED
  BY <1>2, <1>3, FirstWithCode

LEMMA FoundById ==
  ASSUME docs \in Seq(Docs), NEW id
  PROVE  LET d == DocAt(WithId(id)) IN
         \/ d = NoDoc /\ WithId(id) = 0 /\ \A i \in DOMAIN docs : docs[i].id # id
         \/ /\ d \in Docs /\ d # NoDoc /\ d.id = id
            /\ WithId(id) \in DOMAIN docs /\ WithId(id) # 0 /\ d = docs[WithId(id)]
<1>1. \A i \in DOMAIN docs : i # 0 /\ docs[i] \in Docs /\ docs[i] # NoDoc
  BY DocIsThere
<1>2. CASE WithId(id) = 0 /\ \A i \in DOMAIN docs : docs[i].id # id
  BY <1>2 DEF DocAt
<1>3. CASE WithId(id) \in DOMAIN docs /\ docs[WithId(id)].id = id
  BY <1>1, <1>3 DEF DocAt
<1> QED
  BY <1>2, <1>3, FirstWithId

\* A part of a price, in hundredths, is no more than the price.
LEMMA PartOf ==
  ASSUME NEW p \in Nat, NEW v \in Int
  PROVE  /\ (p * v) \div 100 \in Int
         /\ v \in 0 .. 100 => (p * v) \div 100 \in 0 .. p
<1>1. p * v \in Int
  OBVIOUS
<1>2. v \in 0 .. 100 => 0 <= p * v /\ p * v <= p * 100
  OBVIOUS
<1> DEFINE x == p * v
<1>3. x \in Int /\ (v \in 0 .. 100 => 0 <= x /\ x <= p * 100)
  BY <1>1, <1>2
<1> HIDE DEF x
<1>4. x \div 100 \in Int /\ (v \in 0 .. 100 => x \div 100 \in 0 .. p)
  BY <1>3
<1> QED
  BY <1>4 DEF x

\* A discount that is granted is no more than the price, unless its terms make no sense.
LEMMA AmountOf ==
  ASSUME NEW d \in Docs, NEW price \in Nat
  PROVE  /\ Amount(d, price) \in Int /\ OrderValue(d, price) \in Nat
         /\ Enough(d, price) /\ ~Senseless(d) =>
              0 <= Amount(d, price) /\ Amount(d, price) <= OrderValue(d, price) /\ Amount(d, price) <= price
<1>0. d.value \in Int /\ d.min \in Int /\ d.type \in {"fixed_amount", "percentage"}
  BY DEF Docs, Types
<1>1. OrderValue(d, price) \in Nat /\ OrderValue(d, price) <= price
  BY <1>0 DEF OrderValue
<1>2. CASE d.type = "fixed_amount"
  BY <1>0, <1>1, <1>2 DEF Amount, Enough, Senseless, OrderValue
<1>3. CASE d.type = "percentage"
  <2>1. Amount(d, price) = (OrderValue(d, price) * d.value) \div 100
    BY <1>3 DEF Amount
  <2>2. /\ Amount(d, price) \in Int
        /\ d.value \in 0 .. 100 => Amount(d, price) \in 0 .. OrderValue(d, price)
    BY <1>0, <1>1, <2>1, PartOf
  <2>3. ~Senseless(d) => d.value \in 0 .. 100
    BY <1>0, <1>3 DEF Senseless
  <2> QED
    BY <1>0, <1>1, <2>2, <2>3
<1> QED
  BY <1>0, <1>2, <1>3

-----------------------------------------------------------------------------
(* The types, and what the fields of a call say of each other.              *)

Totals == [price : Nat, discount : Int, pay : Int]

\* A call that ends.
LEMMA EndType ==
  ASSUME CallsInv, NEW c \in Calls, NEW how \in {"ok", "refused"}, Finish(c, how), UNCHANGED request,
         docs' \in Seq(Docs), line' \in [Calls -> Nat], total' \in [Calls -> Totals]
  PROVE  TypeOK' /\ CallOK(c)'
<1>1. TypeOK'
  BY DEF CallsInv, TypeOK, Totals
<1>2. CallOK(c)'
  BY DEF CallsInv, TypeOK, CallOK
<1> QED
  BY <1>1, <1>2

LEMMA ForgetType ==
  ASSUME TypeOK, NEW C \in SUBSET Calls, Forget(C)
  PROVE  line' \in [Calls -> Nat] /\ total' \in [Calls -> Totals]
BY DEF TypeOK, Forget, Blank, Totals

LEMMA RefuseType ==
  ASSUME CallsInv, NEW c \in Calls, Refuse(c)
  PROVE  TypeOK' /\ CallOK(c)'
<1>1. TypeOK /\ docs' \in Seq(Docs) /\ UNCHANGED request
  BY DEF CallsInv, TypeOK
<1>2. line' \in [Calls -> Nat] /\ total' \in [Calls -> Totals]
  BY <1>1, ForgetType
<1> QED
  BY <1>1, <1>2, EndType

LEMMA SucceedType ==
  ASSUME CallsInv, NEW c \in Calls, Succeed(c), UNCHANGED request, docs' \in Seq(Docs)
  PROVE  TypeOK' /\ CallOK(c)'
<1>1. TypeOK
  BY DEF CallsInv
<1>2. line' \in [Calls -> Nat] /\ total' \in [Calls -> Totals]
  BY <1>1, ForgetType
<1> QED
  BY <1>2, EndType

\* A call that goes on to its next step and has neither answered nor summed up anything.
LEMMA GoType ==
  ASSUME CallsInv, NEW c \in Calls, UNCHANGED <<docs, request, line, total, ended>>,
         \/ pc[c] = "findTwin" /\ Goto(c, "insert")
         \/ pc[c] = "findOwn" /\ Goto(c, "update")
         \/ pc[c] = "findCode" /\ Goto(c, "cancel")
         \/ pc[c] = "cart" /\ request[c].lines # <<>> /\ Goto(c, "price")
  PROVE  TypeOK' /\ CallOK(c)'
<1> USE DEF CallsInv, TypeOK
<1>1. TypeOK'
  BY DEF Steps
<1>2. pc[c] = "cart" /\ request[c].lines # <<>> => line[c] \in 1 .. Len(request[c].lines)
  BY DEF CallOK, Requests
<1>3. CallOK(c)'
  BY <1>2 DEF CallOK
<1> QED
  BY <1>1, <1>3

\* The four writes keep the documents what they are.
LEMMA WriteType ==
  ASSUME CallsInv, NEW c \in Calls, Insert(c) \/ Update(c) \/ Delete(c) \/ Cancel(c)
  PROVE  docs' \in Seq(Docs)
<1> USE DEF CallsInv, TypeOK
<1>0. docs \in Seq(Docs) /\ CallOK(c)
  OBVIOUS
<1>1. CASE Insert(c)
  <2>1. What(c) \in Drafts /\ request[c].code \in Codes
    BY <1>0, <1>1 DEF CallOK, Insert
  <2> QED
    BY <1>0, <1>1, <2>1, DraftIsDoc, InsertDoc DEF Insert
<1>2. CASE Update(c)
  <2>1. What(c) \in Updates /\ What(c).body \in Bodies
    BY <1>0, <1>2 DEF CallOK, Update, Updates
  <2>2. CASE WithId(What(c).id) = 0
    BY <1>0, <1>2, <2>2 DEF Update, Updated
  <2>3. CASE WithId(What(c).id) # 0
    <3> DEFINE i == WithId(What(c).id)
    <3>1. i \in DOMAIN docs /\ docs[i] \in Docs
      BY <1>0, <2>3, FirstWithId, DocIsThere
    <3>2. Patched(docs[i], What(c).body) \in Docs
      BY <2>1, <3>1, PatchedIsDoc
    <3>3. docs' = [docs EXCEPT ![i] = Patched(docs[i], What(c).body)]
      BY <1>2, <2>3 DEF Update, Updated
    <3> HIDE DEF i
    <3> QED
      BY <1>0, <3>1, <3>2, <3>3, ReplaceDoc
  <2> QED
    BY <2>2, <2>3
<1>3. CASE Delete(c)
  <2>1. CASE Refuse(c)
    BY <1>0, <2>1
  <2>2. CASE WithCode(request[c].code) # 0 /\ docs' = RemoveAt(docs, WithCode(request[c].code))
    <3>1. WithCode(request[c].code) \in DOMAIN docs
      BY <1>0, <2>2, FirstWithCode
    <3> QED
      BY <1>0, <2>2, <3>1, WithoutOne
  <2> QED
    BY <1>3, <2>1, <2>2 DEF Delete
<1>4. CASE Cancel(c)
  <2> DEFINE i == WithId(found[c].id)
  <2>1. CASE i = 0
    BY <1>0, <1>4, <2>1 DEF Cancel
  <2>2. CASE i # 0
    <3>1. i \in DOMAIN docs /\ docs[i] \in Docs
      BY <1>0, <2>2, FirstWithId, DocIsThere
    <3>2. GivenBack(c, docs[i]) \in Docs
      BY <3>1, GivenBackIsDoc
    <3>3. docs' = [docs EXCEPT ![i] = GivenBack(c, docs[i])]
      BY <1>4, <2>2 DEF Cancel
    <3> HIDE DEF i
    <3> QED
      BY <1>0, <3>1, <3>2, <3>3, ReplaceDoc
  <2> QED
    BY <2>1, <2>2
<1> QED
  BY <1>1, <1>2, <1>3, <1>4

\* The line that a quote or a review is at.
LEMMA HereType ==
  ASSUME CallsInv, NEW c \in Calls, pc[c] \in {"quote", "price", "discount"}
  PROVE  /\ line[c] \in 1 .. Len(request[c].lines) /\ request[c].lines \in Seq(Lines)
         /\ Here(c).price \in Nat /\ Here(c).code \in Codes \cup {NoCode}
<1>1. line[c] \in 1 .. Len(request[c].lines) /\ request[c].lines \in Seq(Lines)
  BY DEF CallsInv, CallOK, TypeOK, Requests
<1>2. Here(c) \in Lines
  BY <1>1
<1> QED
  BY <1>1, <1>2 DEF Lines

LEMMA NextLineType ==
  ASSUME CallsInv, NEW c \in Calls, pc[c] \in {"price", "discount"}, NextLine(c),
         UNCHANGED <<docs, request>>, total' \in [Calls -> Totals]
  PROVE  TypeOK' /\ CallOK(c)'
<1>1. /\ line[c] \in 1 .. Len(request[c].lines) /\ Len(request[c].lines) \in Nat
      /\ docs' \in Seq(Docs) /\ Kind(c) = "review" /\ ended[c] = "none"
  <2>1. request[c].lines \in Seq(Lines)
    BY HereType
  <2> QED
    BY <2>1, HereType DEF CallsInv, CallOK, TypeOK
<1>2. line' = [line EXCEPT ![c] = line[c] + 1] /\ line[c] + 1 \in Nat /\ line' \in [Calls -> Nat]
  BY <1>1 DEF NextLine, CallsInv, TypeOK
<1>3. CASE line[c] < Len(request[c].lines) /\ Goto(c, "price") /\ UNCHANGED ended
  <2>1. TypeOK'
    BY <1>1, <1>2, <1>3 DEF CallsInv, TypeOK, Steps, Totals
  <2>2. line'[c] \in 1 .. Len(request[c].lines) /\ pc'[c] = "price"
    BY <1>1, <1>2, <1>3 DEF CallsInv, TypeOK
  <2>3. CallOK(c)'
    BY <1>1, <1>3, <2>2 DEF CallsInv, CallOK
  <2> QED
    BY <2>1, <2>3
<1>4. CASE Finish(c, "ok")
  BY <1>1, <1>2, <1>4, EndType
<1> QED
  BY <1>3, <1>4 DEF NextLine

\* What pricing adds to the totals of a call.
LEMMA AmountType ==
  ASSUME CallsInv, NEW c \in Calls, pc[c] \in {"quote", "discount"}, NEW d, d = DocAt(WithCode(Here(c).code)),
         Grants(d, Here(c).price)
  PROVE  /\ d \in Docs
         /\ OrderValue(d, Here(c).price) \in Nat /\ Amount(d, Here(c).price) \in Int
<1>1. docs \in Seq(Docs)
  BY DEF CallsInv, TypeOK
<1>2. d \in Docs
  BY <1>1, FoundByCode DEF Grants
<1>3. Here(c).price \in Nat
  BY HereType
<1> QED
  BY <1>2, <1>3, AmountOf

LEMMA PricingType ==
  ASSUME CallsInv, NEW c \in Calls, Quote(c) \/ ReadCart(c) \/ Price(c) \/ Discount(c)
  PROVE  TypeOK' /\ CallOK(c)'
<1>0. /\ docs \in Seq(Docs) /\ line \in [Calls -> Nat] /\ total \in [Calls -> Totals]
      /\ total[c].price \in Nat /\ total[c].discount \in Int /\ total[c].pay \in Int
  BY DEF CallsInv, TypeOK, Totals
<1>1. CASE Refuse(c)
  BY <1>1, RefuseType
<1>2. CASE Quote(c) /\ ~Refuse(c)
  <2> DEFINE d == DocAt(WithCode(Here(c).code))
  <2>1. /\ pc[c] = "quote" /\ Grants(d, Here(c).price) /\ Finish(c, "ok") /\ UNCHANGED <<docs, request, line>>
        /\ total' = [total EXCEPT ![c] =
             [price |-> OrderValue(d, Here(c).price), discount |-> Amount(d, Here(c).price),
              pay |-> OrderValue(d, Here(c).price) - Amount(d, Here(c).price)]]
    BY <1>2 DEF Quote
  <2>2. OrderValue(d, Here(c).price) \in Nat /\ Amount(d, Here(c).price) \in Int
    BY <2>1, AmountType
  <2> HIDE DEF d
  <2>3. total' \in [Calls -> Totals]
    BY <1>0, <2>1, <2>2 DEF Totals
  <2> QED
    BY <1>0, <2>1, <2>3, EndType
<1>3. CASE ReadCart(c) /\ ~Refuse(c)
  <2>1. CASE request[c].lines # <<>> /\ Goto(c, "price") /\ UNCHANGED <<docs, request, line, total, ended>>
    BY <1>3, <2>1, GoType DEF ReadCart
  <2>2. CASE Finish(c, "ok") /\ UNCHANGED <<docs, request, line, total>>
    BY <1>0, <2>2, EndType
  <2> QED
    BY <1>3, <2>1, <2>2 DEF ReadCart
<1>4. CASE Price(c) /\ ~Refuse(c)
  <2>0. pc[c] = "price" /\ UNCHANGED <<docs, request>> /\ Here(c).price \in Nat
    BY <1>4, HereType DEF Price
  <2>1. CASE /\ Goto(c, "discount") /\ UNCHANGED <<line, ended>>
             /\ total' = [total EXCEPT ![c].price = total[c].price + Here(c).price]
    <3>1. total' \in [Calls -> Totals]
      BY <1>0, <2>0, <2>1 DEF Totals
    <3>2. TypeOK'
      BY <1>0, <2>0, <2>1, <3>1 DEF CallsInv, TypeOK, Steps, Totals
    <3>3. CallOK(c)'
      BY <2>0, <2>1 DEF CallsInv, TypeOK, CallOK
    <3> QED
      BY <3>2, <3>3
  <2>2. CASE /\ NextLine(c)
             /\ total' = [total EXCEPT ![c].price = total[c].price + Here(c).price,
                                       ![c].pay = total[c].pay + Here(c).price]
    <3> DEFINE old == total[c]
               new == [old EXCEPT !.price = old.price + Here(c).price, !.pay = old.pay + Here(c).price]
    <3>0. new \in Totals /\ total' = [total EXCEPT ![c] = new]
      <4>0. old \in Totals /\ old.price \in Nat /\ old.pay \in Int /\ Here(c).price \in Nat
        BY <1>0, <2>0
      <4>1. old \in Totals /\ old.price + Here(c).price \in Nat /\ old.pay + Here(c).price \in Int
        BY <4>0
      <4>2. new \in Totals
        BY <4>1 DEF Totals
      <4>3. total' = [total EXCEPT ![c] = new]
        BY <1>0, <2>2
      <4> QED
        BY <4>2, <4>3
    <3> HIDE DEF new
    <3>1. total' \in [Calls -> Totals]
      BY <1>0, <3>0
    <3> QED
      BY <2>0, <2>2, <3>1, NextLineType
  <2> QED
    <3>1. total' = [total EXCEPT ![c].price = @ + Here(c).price] =>
            total' = [total EXCEPT ![c].price = total[c].price + Here(c).price]
      BY <1>0
    <3>2. total' = [total EXCEPT ![c].price = @ + Here(c).price, ![c].pay = @ + Here(c).price] =>
            total' = [total EXCEPT ![c].price = total[c].price + Here(c).price,
                                   ![c].pay = total[c].pay + Here(c).price]
      BY <1>0 DEF Totals
    <3> QED
      BY <1>4, <2>1, <2>2, <3>1, <3>2 DEF Price
<1>5. CASE Discount(c) /\ ~Refuse(c)
  <2> DEFINE d == DocAt(WithCode(Here(c).code))
             amount == Amount(d, Here(c).price)
  <2>1. /\ pc[c] = "discount" /\ Grants(d, Here(c).price) /\ NextLine(c) /\ UNCHANGED <<docs, request>>
        /\ total' = [total EXCEPT ![c].discount = @ + amount, ![c].pay = @ + (Here(c).price - amount)]
    BY <1>5 DEF Discount
  <2>2. amount \in Int /\ Here(c).price \in Nat
    BY <2>1, AmountType, HereType
  <2> HIDE DEF d, amount
  <2> DEFINE old == total[c]
             new == [old EXCEPT !.discount = old.discount + amount,
                                !.pay = old.pay + (Here(c).price - amount)]
  <2>3. new \in Totals /\ total' = [total EXCEPT ![c] = new]
    <3>0. old \in Totals /\ old.discount \in Int /\ old.pay \in Int
      BY <1>0
    <3>1. old.discount + amount \in Int /\ old.pay + (Here(c).price - amount) \in Int
      <4> HIDE DEF old
      <4> QED
        BY <2>2, <3>0
    <3>2. new \in Totals
      BY <3>0, <3>1 DEF Totals
    <3>3. total' = [total EXCEPT ![c] = new]
      BY <1>0, <2>1 DEF Totals
    <3> QED
      BY <3>2, <3>3
  <2> HIDE DEF new
  <2>4. total' \in [Calls -> Totals]
    BY <1>0, <2>3
  <2> QED
    BY <2>1, <2>4, NextLineType
<1> QED
  BY <1>1, <1>2, <1>3, <1>4, <1>5

LEMMA HandleType ==
  ASSUME CallsInv, NEW c \in Calls, Handle(c)
  PROVE  TypeOK' /\ CallOK(c)'
<1>1. CASE Refuse(c)
  BY <1>1, RefuseType
<1>2. CASE Insert(c) \/ Update(c) \/ Delete(c) \/ Cancel(c)
  <2>1. docs' \in Seq(Docs)
    BY <1>2, WriteType
  <2>2. CASE Succeed(c) /\ UNCHANGED request
    BY <2>1, <2>2, SucceedType
  <2> QED
    BY <1>1, <1>2, <2>2 DEF Insert, Update, Delete, Cancel
<1>3. CASE (FindTwin(c) \/ FindOwn(c) \/ FindCode(c)) /\ ~Refuse(c)
  BY <1>3, GoType DEF FindTwin, FindOwn, FindCode
<1>4. CASE CallThrows(c)
  BY <1>1, <1>4 DEF CallThrows
<1> QED
  BY <1>1, <1>2, <1>3, <1>4, PricingType DEF Handle

LEMMA ServeCalls ==
  ASSUME CallsInv, NEW c \in Calls, Serve(c)
  PROVE  CallsInv'
<1>1. TypeOK' /\ CallOK(c)'
  BY ArriveType, HandleType DEF Serve
<1>2. ASSUME NEW d \in Calls, d # c PROVE CallOK(d)'
  <2>1. /\ pc'[d] = pc[d] /\ request'[d] = request[d] /\ line'[d] = line[d]
        /\ total'[d] = total[d] /\ ended'[d] = ended[d]
    BY <1>2, OthersStay DEF CallsInv
  <2> QED
    BY <2>1 DEF CallsInv, CallOK
<1> QED
  BY <1>1, <1>2 DEF CallsInv

\* What is not a step of a call.
LEMMA LapseDoc ==
  ASSUME TypeOK, NEW i \in DOMAIN docs, Lapse(i)
  PROVE  /\ docs' \in Seq(Docs) /\ Len(docs') = Len(docs)
         /\ \A j \in 1 .. Len(docs) :
              docs'[j] = IF j = i THEN [docs[i] EXCEPT !.open = FALSE] ELSE docs[j]
<1>1. docs \in Seq(Docs) /\ docs[i] \in Docs
  BY DEF TypeOK
<1>2. [docs[i] EXCEPT !.open = FALSE] \in Docs
  BY <1>1 DEF Docs
<1>3. docs' = [docs EXCEPT ![i] = [docs[i] EXCEPT !.open = FALSE]]
  BY <1>1 DEF Lapse
<1> QED
  BY <1>1, <1>2, <1>3, ReplaceDoc

LEMMA OtherCalls ==
  ASSUME CallsInv, (\E i \in DOMAIN docs : Lapse(i)) \/ Crash \/ UNCHANGED vars
  PROVE  CallsInv'
<1>1. CASE \E i \in DOMAIN docs : Lapse(i)
  <2>1. docs' \in Seq(Docs)
    BY <1>1, LapseDoc DEF CallsInv
  <2> QED
    BY <1>1, <2>1 DEF Lapse, CallsInv, TypeOK, CallOK
<1>2. CASE Crash
  <2>1. {c \in Calls : pc[c] \in Steps} \in SUBSET Calls
    OBVIOUS
  <2>2. line' \in [Calls -> Nat] /\ total' \in [Calls -> Totals]
    BY <1>2, <2>1, ForgetType DEF Crash, CallsInv
  <2>3. TypeOK'
    BY <1>2, <2>2 DEF Crash, CallsInv, TypeOK, Totals
  <2>4. ASSUME NEW c \in Calls PROVE CallOK(c)'
    <3>1. pc'[c] = "lost" \/ (pc'[c] = pc[c] /\ pc[c] \in {"idle", "done", "lost"})
      BY <1>2 DEF Crash, CallsInv, TypeOK
    <3>2. pc[c] = "idle" => line'[c] = line[c] /\ total'[c] = total[c]
      BY <1>2 DEF Crash, Forget, Steps
    <3>3. UNCHANGED <<request, ended>>
      BY <1>2 DEF Crash
    <3>4. pc'[c] = "lost" => ended[c] = "none"
      BY <1>2 DEF Crash, CallsInv, TypeOK, CallOK, Steps
    <3> QED
      BY <3>1, <3>2, <3>3, <3>4 DEF CallsInv, CallOK
  <2> QED
    BY <2>3, <2>4 DEF CallsInv
<1>3. CASE UNCHANGED vars
  BY <1>3 DEF vars, CallsInv, TypeOK, CallOK
<1> QED
  BY <1>1, <1>2, <1>3

-----------------------------------------------------------------------------
(* A deleted document stays deleted.                                        *)

\* Only an insertion ends a create with a document.
LEMMA CreatedBy ==
  ASSUME CallsInv, NEW c \in Calls, Serve(c)
  PROVE  /\ c \notin Created
         /\ Insert(c) => Created' = Created \cup {c}
         /\ ~Insert(c) => Created' = Created
<1> USE DEF Created
<1>0. CallOK(c) /\ request \in [Calls -> Requests] /\ ended \in [Calls -> {"none", "ok", "refused"}]
      /\ pc \in [Calls -> Steps \cup {"idle", "done", "lost"}]
  BY DEF CallsInv, TypeOK
<1>1. pc[c] \in Steps \cup {"idle"}
  <2>1. Failing \subseteq Steps
    BY DiscountsAssumption
  <2>2. CASE Arrive(c)
    BY <2>2 DEF Arrive, AskCreate, AskUpdate, AskByCode, AskPrice
  <2>3. CASE Handle(c)
    BY <2>1, <2>3 DEF Handle, FindTwin, Insert, FindOwn, Update, Delete, FindCode, Cancel, Quote, ReadCart,
       Price, Discount, CallThrows, Steps
  <2> QED
    BY <2>2, <2>3 DEF Serve
<1>2. ended[c] = "none" /\ c \notin Created
  BY <1>0, <1>1 DEF CallOK, Steps
<1>3. \A d \in Calls : d # c => request'[d] = request[d] /\ ended'[d] = ended[d]
  BY OthersStay DEF CallsInv
<1>4. CASE Insert(c)
  <2>1. ended'[c] = "ok" /\ Kind(c)' = "create"
    BY <1>0, <1>4 DEF Insert, CallOK
  <2> QED
    BY <1>2, <1>3, <1>4, <2>1
<1>5. CASE ~Insert(c)
  <2>1. ended'[c] # "ok" \/ Kind(c)' # "create"
    <3>1. CASE Arrive(c)
      BY <1>0, <1>2, <3>1 DEF Arrive, AskCreate, AskUpdate, AskByCode, AskPrice
    <3>2. CASE Refuse(c)
      BY <1>0, <3>2
    <3>3. CASE FindTwin(c) \/ FindOwn(c) \/ FindCode(c) \/ CallThrows(c)
      BY <1>0, <1>2, <3>2, <3>3 DEF FindTwin, FindOwn, FindCode, CallThrows
    <3>4. CASE Update(c) \/ Delete(c) \/ Cancel(c)
      BY <1>0, <3>2, <3>4 DEF Update, Delete, Cancel, CallOK
    <3>5. CASE Quote(c) \/ ReadCart(c) \/ Price(c) \/ Discount(c)
      <4>1. Kind(c) # "create"
        BY <1>0, <3>5 DEF Quote, ReadCart, Price, Discount, CallOK
      <4>2. UNCHANGED request
        BY <3>2, <3>5 DEF Quote, ReadCart, Price, Discount
      <4> QED
        BY <4>1, <4>2
    <3> QED
      BY <1>5, <3>1, <3>3, <3>4, <3>5 DEF Serve, Handle
  <2> QED
    BY <1>2, <1>3, <1>5, <2>1
<1> QED
  BY <1>2, <1>4, <1>5

\* What an update does to the collection: nothing, or a document of the same id whose code
\* is noted when the document is then inactive or was renamed.
LEMMA UpdateDocs ==
  ASSUME CallsInv, NEW c \in Calls, Update(c)
  PROVE  /\ Len(docs') = Len(docs)
         /\ \A j \in 1 .. Len(docs) : docs'[j] = docs[j] \/
              /\ docs'[j].id = docs[j].id
              /\ docs'[j].code \in loose' \/ (docs'[j].active /\ docs'[j].code = docs[j].code)
<1>0. docs \in Seq(Docs) /\ CallOK(c)
  BY DEF CallsInv, TypeOK
<1>1. What(c).body \in Bodies
  BY <1>0 DEF CallOK, Update, Updates
<1> DEFINE i == WithId(What(c).id)
           new == Patched(docs[i], What(c).body)
<1>2. CASE i = 0
  BY <1>2 DEF Update, Updated
<1>3. CASE i # 0
  <2>1. i \in DOMAIN docs /\ docs[i] \in Docs /\ docs[i] # NoDoc
    BY <1>0, <1>3, FirstWithId, DocIsThere
  <2>2. new \in Docs /\ new.id = docs[i].id
    BY <1>1, <2>1, PatchedIsDoc
  <2>3. docs' = [docs EXCEPT ![i] = new]
    BY <1>3 DEF Update, Updated
  <2>4. new.code \in loose' \/ (new.active /\ new.code = docs[i].code)
    BY <1>3, <2>1 DEF Update, DocAt
  <2> HIDE DEF new, i
  <2>5. Len(docs') = Len(docs) /\ \A j \in 1 .. Len(docs) : docs'[j] = IF j = i THEN new ELSE docs[j]
    BY <1>0, <2>1, <2>2, <2>3, ReplaceDoc
  <2> QED
    BY <2>2, <2>4, <2>5
<1> QED
  BY <1>2, <1>3

\* A cancellation reaches the document it has found, if that is still there.
LEMMA CancelDocs ==
  ASSUME CallsInv, NEW c \in Calls, Cancel(c)
  PROVE  \/ UNCHANGED <<docs, cancels>>
         \/ \E i \in DOMAIN docs :
              /\ Len(docs') = Len(docs)
              /\ cancels' = [cancels EXCEPT ![docs[i].id] = [f \in Counters |-> @[f] \cup {c}]]
              /\ \A j \in 1 .. Len(docs) : j # i => docs'[j] = docs[j]
              /\ docs'[i].id = docs[i].id /\ docs'[i].code = docs[i].code
              /\ docs'[i].active = docs[i].active
              /\ docs'[i].used = docs[i].used - 1 /\ docs'[i].maxUsers = docs[i].maxUsers + 1
<1>0. docs \in Seq(Docs)
  BY DEF CallsInv, TypeOK
<1> DEFINE i == WithId(found[c].id)
<1>1. CASE i = 0
  BY <1>1 DEF Cancel
<1>2. CASE i # 0
  <2>1. i \in DOMAIN docs /\ docs[i] \in Docs /\ docs[i].id = found[c].id
    BY <1>0, <1>2, FirstWithId, DocIsThere
  <2>2. GivenBack(c, docs[i]) \in Docs
    BY <2>1, GivenBackIsDoc
  <2>3. /\ docs' = [docs EXCEPT ![i] = GivenBack(c, docs[i])]
        /\ cancels' = [cancels EXCEPT ![docs[i].id] = [f \in Counters |-> @[f] \cup {c}]]
    BY <1>2, <2>1 DEF Cancel
  <2> HIDE DEF i
  <2>4. Len(docs') = Len(docs)
        /\ \A j \in 1 .. Len(docs) : docs'[j] = IF j = i THEN GivenBack(c, docs[i]) ELSE docs[j]
    BY <1>0, <2>1, <2>2, <2>3, ReplaceDoc
  <2> DEFINE new == GivenBack(c, docs[i])
  <2>5. /\ new.id = docs[i].id /\ new.code = docs[i].code /\ new.active = docs[i].active
        /\ new.used = docs[i].used - 1 /\ new.maxUsers = docs[i].maxUsers + 1
    BY <2>1, GivenBackIsDoc
  <2>6. i \in 1 .. Len(docs)
    BY <1>0, <2>1
  <2> HIDE DEF new
  <2>7. docs'[i] = new /\ \A j \in 1 .. Len(docs) : j # i => docs'[j] = docs[j]
    BY <2>4, <2>6 DEF new
  <2> QED
    BY <2>1, <2>3, <2>4, <2>5, <2>7
<1> QED
  BY <1>1, <1>2

LEMMA DeleteDocs ==
  ASSUME CallsInv, NEW c \in Calls, Delete(c), ~Refuse(c)
  PROVE  \E i \in DOMAIN docs :
           /\ Len(docs') = Len(docs) - 1 /\ deleted' = deleted \cup {docs[i].id}
           /\ \A j \in 1 .. Len(docs) - 1 : docs'[j] = docs[IF j < i THEN j ELSE j + 1]
<1> DEFINE i == WithCode(request[c].code)
<1>1. /\ docs \in Seq(Docs) /\ i # 0 /\ docs' = RemoveAt(docs, i) /\ deleted' = deleted \cup {docs[i].id}
  BY DEF CallsInv, TypeOK, Delete
<1>2. i \in DOMAIN docs
  BY <1>1, FirstWithCode
<1> HIDE DEF i
<1> QED
  BY <1>1, <1>2, WithoutOne

LEMMA InsertDocs ==
  ASSUME CallsInv, NEW c \in Calls, Insert(c)
  PROVE  /\ Draft(c) \in Docs /\ What(c) \in Drafts
         /\ Len(docs') = Len(docs) + 1 /\ docs'[Len(docs) + 1] = Draft(c)
         /\ \A j \in 1 .. Len(docs) : docs'[j] = docs[j]
<1>1. docs \in Seq(Docs) /\ CallOK(c) /\ pc[c] = "insert" /\ docs' = Append(docs, Draft(c))
  BY DEF CallsInv, TypeOK, Insert
<1>2. What(c) \in Drafts /\ request[c].code \in Codes
  BY <1>1 DEF CallOK
<1>3. Draft(c) \in Docs
  BY <1>2, DraftIsDoc
<1> QED
  BY <1>1, <1>2, <1>3, InsertDoc

\* Writes that leave the ids where they are.
LEMMA SameIds ==
  ASSUME IdsOK, docs \in Seq(Docs), docs' \in Seq(Docs), Len(docs') = Len(docs),
         \A j \in 1 .. Len(docs) : docs'[j].id = docs[j].id, Created' = Created, UNCHANGED deleted
  PROVE  IdsOK'
<1>1. DOMAIN docs = 1 .. Len(docs) /\ DOMAIN docs' = 1 .. Len(docs)
  OBVIOUS
<1>2. Ids' = Ids
  BY <1>1 DEF Ids
<1>3. \A i, j \in DOMAIN docs' : docs'[i].id = docs'[j].id => i = j
  BY <1>1 DEF IdsOK
<1>4. DeletedStaysDeleted'
  BY <1>2 DEF IdsOK, DeletedStaysDeleted, Created
<1> QED
  BY <1>2, <1>3, <1>4 DEF IdsOK

LEMMA InsertIds ==
  ASSUME CallsInv, IdsOK, NEW c \in Calls, Insert(c)
  PROVE  IdsOK'
<1>0. docs \in Seq(Docs) /\ docs' \in Seq(Docs)
  BY WriteType DEF CallsInv, TypeOK
<1> DEFINE n == Len(docs)
<1>1. /\ n \in Nat /\ Len(docs') = n + 1 /\ docs'[n + 1].id = c
      /\ \A j \in 1 .. n : docs'[j] = docs[j]
  <2>1. Draft(c).id = c
    BY DEF Draft
  <2> QED
    BY <1>0, <2>1, InsertDocs
<1>2. DOMAIN docs = 1 .. n /\ DOMAIN docs' = 1 .. n + 1
  BY <1>0, <1>1
<1>3. c \notin Created /\ Created' = Created \cup {c} /\ deleted' = deleted
  BY CreatedBy DEF Serve, Handle, Insert
<1>4. Ids = Created \ deleted /\ deleted \subseteq Created /\ IsFiniteSet(Ids) /\ Cardinality(Ids) = n
  BY DEF IdsOK, DeletedStaysDeleted, Created
<1> HIDE DEF n
<1>5. Ids' = Ids \cup {c}
  <2>1. Ids' = {docs'[i].id : i \in 1 .. n} \cup {docs'[n + 1].id}
    BY <1>1, <1>2 DEF Ids
  <2> QED
    BY <1>1, <1>2, <2>1 DEF Ids
<1>6. \A i, j \in DOMAIN docs' : docs'[i].id = docs'[j].id => i = j
  <2>1. \A i \in 1 .. n : docs'[i].id # c
    BY <1>1, <1>2, <1>3, <1>4 DEF Ids
  <2>2. \A i, j \in 1 .. n : docs'[i].id = docs'[j].id => i = j
    BY <1>1, <1>2 DEF IdsOK
  <2>3. \A i \in 1 .. n + 1 : i \in 1 .. n \/ i = n + 1
    BY <1>1
  <2> QED
    BY <1>1, <1>2, <2>1, <2>2, <2>3
<1>7. IsFiniteSet(Ids') /\ Cardinality(Ids') = n + 1
  BY <1>3, <1>4, <1>5, FS_AddElement
<1>8. Ids' = Created' \ deleted' /\ deleted' \subseteq Created'
  BY <1>3, <1>4, <1>5
<1> QED
  BY <1>1, <1>6, <1>7, <1>8 DEF IdsOK, DeletedStaysDeleted, Created

LEMMA DeleteIds ==
  ASSUME CallsInv, IdsOK, NEW c \in Calls, Delete(c), ~Refuse(c)
  PROVE  IdsOK'
<1>0. docs \in Seq(Docs) /\ docs' \in Seq(Docs)
  BY WriteType DEF CallsInv, TypeOK
<1> DEFINE n == Len(docs)
<1>1. PICK i \in DOMAIN docs :
        /\ Len(docs') = n - 1 /\ deleted' = deleted \cup {docs[i].id}
        /\ \A j \in 1 .. n - 1 : docs'[j] = docs[IF j < i THEN j ELSE j + 1]
  BY DeleteDocs
<1>2. n \in Nat /\ i \in 1 .. n /\ DOMAIN docs = 1 .. n /\ DOMAIN docs' = 1 .. n - 1
  BY <1>0, <1>1
<1>3. Created' = Created
  BY CreatedBy DEF Serve, Handle, Insert, Delete
<1>4. /\ Ids = Created \ deleted /\ deleted \subseteq Created /\ IsFiniteSet(Ids) /\ Cardinality(Ids) = n
      /\ \A j, k \in 1 .. n : docs[j].id = docs[k].id => j = k
  BY <1>2 DEF IdsOK, DeletedStaysDeleted, Created
<1> HIDE DEF n
<1> DEFINE from(j) == IF j < i THEN j ELSE j + 1
<1>5. \A j \in 1 .. n - 1 : from(j) \in 1 .. n /\ from(j) # i /\ docs'[j] = docs[from(j)]
  BY <1>1, <1>2
<1>6. \A k \in 1 .. n : k # i => \E j \in 1 .. n - 1 : from(j) = k
  <2> TAKE k \in 1 .. n
  <2> HAVE k # i
  <2>1. CASE k < i
    <3>1. k \in 1 .. n - 1 /\ from(k) = k
      BY <1>2, <2>1
    <3> QED
      BY <3>1
  <2>2. CASE k > i
    <3>1. k - 1 \in 1 .. n - 1 /\ from(k - 1) = k
      BY <1>2, <2>2
    <3> QED
      BY <3>1
  <2> QED
    BY <1>2, <2>1, <2>2
<1>7. \A j, k \in 1 .. n - 1 : from(j) = from(k) => j = k
  BY <1>2
<1> HIDE DEF from
<1>8. Ids' = Ids \ {docs[i].id}
  <2>1. Ids' = {docs[from(j)].id : j \in 1 .. n - 1}
    BY <1>2, <1>5 DEF Ids
  <2>2. Ids' \subseteq Ids \ {docs[i].id}
    BY <1>2, <1>4, <1>5, <2>1 DEF Ids
  <2>3. Ids \ {docs[i].id} \subseteq Ids'
    BY <1>2, <1>6, <2>1 DEF Ids
  <2> QED
    BY <2>2, <2>3
<1>9. \A j, k \in DOMAIN docs' : docs'[j].id = docs'[k].id => j = k
  BY <1>2, <1>4, <1>5, <1>7
<1>10. docs[i].id \in Ids
  BY <1>2 DEF Ids
<1>11. IsFiniteSet(Ids') /\ Cardinality(Ids') = n - 1
  BY <1>4, <1>8, <1>10, FS_RemoveElement
<1>12. Ids' = Created' \ deleted' /\ deleted' \subseteq Created'
  BY <1>1, <1>3, <1>4, <1>8, <1>10
<1> QED
  BY <1>1, <1>9, <1>11, <1>12 DEF IdsOK, DeletedStaysDeleted, Created

LEMMA ServeIds ==
  ASSUME CallsInv, IdsOK, NEW c \in Calls, Serve(c)
  PROVE  IdsOK'
<1>0. docs \in Seq(Docs) /\ docs' \in Seq(Docs)
  BY ServeCalls DEF CallsInv, TypeOK
<1>1. CASE Insert(c)
  BY <1>1, InsertIds
<1>2. CASE Delete(c) /\ ~Refuse(c)
  BY <1>2, DeleteIds
<1>3. CASE ~Insert(c) /\ ~(Delete(c) /\ ~Refuse(c))
  <2>1. Created' = Created
    BY <1>3, CreatedBy
  <2>2. CASE Update(c)
    <3>1. Len(docs') = Len(docs) /\ UNCHANGED deleted /\ \A j \in 1 .. Len(docs) : docs'[j].id = docs[j].id
      BY <2>2, UpdateDocs DEF Update
    <3> QED
      BY <1>0, <2>1, <3>1, SameIds
  <2>3. CASE Cancel(c)
    <3>1. Len(docs') = Len(docs) /\ UNCHANGED deleted /\ \A j \in 1 .. Len(docs) : docs'[j].id = docs[j].id
      BY <2>3, CancelDocs DEF Cancel
    <3> QED
      BY <1>0, <2>1, <3>1, SameIds
  <2>4. CASE Refuse(c) \/ (~Update(c) /\ ~Delete(c) /\ ~Cancel(c))
    <3>1. UNCHANGED <<docs, deleted>>
      BY <1>3, <2>4, DocsStay
    <3> QED
      BY <1>0, <2>1, <3>1, SameIds
  <2> QED
    BY <1>3, <2>2, <2>3, <2>4
<1> QED
  BY <1>1, <1>2, <1>3

-----------------------------------------------------------------------------
(* Every cancellation counts once.                                          *)

CountsAt(i) ==
  /\ docs[i].used = given[docs[i].id].used - Cardinality(cancels[docs[i].id].used)
  /\ docs[i].maxUsers = given[docs[i].id].maxUsers + Cardinality(cancels[docs[i].id].maxUsers)

\* A call that works on its request has not ended, and so is in no cancellation.
LEMMA WorkingCall ==
  ASSUME NEW c \in Calls, Serve(c)
  PROVE  pc[c] # "done"
<1>1. Failing \subseteq Steps
  BY DiscountsAssumption
<1>2. CASE Arrive(c)
  BY <1>2 DEF Arrive, AskCreate, AskUpdate, AskByCode, AskPrice
<1>3. CASE Handle(c)
  BY <1>1, <1>3 DEF Handle, FindTwin, Insert, FindOwn, Update, Delete, FindCode, Cancel, Quote, ReadCart,
     Price, Discount, CallThrows, Steps
<1> QED
  BY <1>2, <1>3 DEF Serve

\* What a document was created with is what its create asked for, whatever call is served.
LEMMA CreatedStay ==
  ASSUME CallsInv, NEW c \in Calls, Serve(c)
  PROVE  \A d \in Created : d \in Created' /\ d # c /\ request'[d] = request[d]
<1>1. ASSUME NEW d \in Created PROVE d \in Created' /\ d # c
  BY CreatedBy
<1>2. ASSUME NEW d \in Created PROVE request'[d] = request[d]
  BY <1>1, OthersStay DEF CallsInv, Created
<1> QED
  BY <1>1, <1>2

\* What was counted stays so, for the calls in it have ended.
LEMMA CancelsStay ==
  ASSUME CallsInv, CancelsOK, NEW c \in Calls, Serve(c), NEW d \in Calls, NEW f \in Counters,
         cancels'[d][f] = cancels[d][f]
  PROVE  CancelledOK(d, f)'
<1>1. CancelledOK(d, f) /\ cancels[d][f] \subseteq Calls
  BY DEF CancelsOK
<1>2. \A e \in cancels[d][f] : pc'[e] = pc[e]
  BY <1>1, WorkingCall, OthersStay DEF CallsInv, CancelledOK
<1> QED
  BY <1>1, <1>2, CreatedStay DEF CancelledOK

\* A document that keeps its counters, in a step that neither sets them nor cancels.
LEMMA CountsStay ==
  ASSUME EveryCancelCounts, NEW i, NEW j \in DOMAIN docs, docs'[i].id = docs[j].id,
         docs'[i].used = docs[j].used, docs'[i].maxUsers = docs[j].maxUsers,
         given'[docs[j].id] = given[docs[j].id], cancels'[docs[j].id] = cancels[docs[j].id]
  PROVE  CountsAt(i)'
<1>1. CountsAt(j)
  BY DEF EveryCancelCounts, CountsAt
<1> QED
  BY <1>1 DEF CountsAt

LEMMA DocIds ==
  ASSUME CallsInv, IdsOK, NEW i \in DOMAIN docs
  PROVE  docs[i] \in Docs /\ docs[i].id \in Created /\ docs[i].id \in Calls
<1>1. docs \in Seq(Docs) /\ docs[i] \in Docs
  BY DEF CallsInv, TypeOK
<1> QED
  BY <1>1 DEF IdsOK, DeletedStaysDeleted, Created, Ids

\* One more cancellation.
LEMMA CountOneMore ==
  ASSUME NEW S, IsFiniteSet(S), NEW c, c \notin S, NEW k \in Int, NEW base \in Int
  PROVE  /\ IsFiniteSet(S \cup {c})
         /\ k = base - Cardinality(S) => k - 1 = base - Cardinality(S \cup {c})
         /\ k = base + Cardinality(S) => k + 1 = base + Cardinality(S \cup {c})
<1> DEFINE n == Cardinality(S)
           m == Cardinality(S \cup {c})
<1>1. IsFiniteSet(S \cup {c}) /\ m = n + 1 /\ n \in Nat
  BY FS_AddElement, FS_CardinalityType
<1> HIDE DEF n, m
<1>2. /\ k = base - n => k - 1 = base - m
      /\ k = base + n => k + 1 = base + m
  BY <1>1
<1> QED
  BY <1>1, <1>2 DEF n, m

LEMMA CountNone ==
  ASSUME NEW base \in Int PROVE base = base - Cardinality({}) /\ base = base + Cardinality({})
<1>1. Cardinality({}) = 0
  BY FS_EmptySet
<1> QED
  BY <1>1

LEMMA CancelCounts ==
  ASSUME CallsInv, IdsOK, CancelsOK, NEW c \in Calls, Cancel(c)
  PROVE  CancelsOK'
<1>0. /\ Serve(c) /\ docs \in Seq(Docs) /\ docs' \in Seq(Docs) /\ EveryCancelCounts /\ UNCHANGED given
      /\ given \in [Calls -> [Counters -> Int]] /\ cancels \in [Calls -> [Counters -> SUBSET Calls]]
      /\ pc'[c] = "done"
  BY WriteType DEF Serve, Handle, CallsInv, TypeOK, CancelsOK, Cancel
<1>1. CASE UNCHANGED <<docs, cancels>>
  <2>1. ASSUME NEW j \in DOMAIN docs' PROVE CountsAt(j)'
    BY <1>0, <1>1, CountsStay
  <2>2. \A d \in Calls, f \in Counters : CancelledOK(d, f)'
    BY <1>0, <1>1, CancelsStay
  <2> QED
    BY <1>0, <1>1, <2>1, <2>2 DEF CancelsOK, EveryCancelCounts, CountsAt
<1>2. ASSUME NEW i \in DOMAIN docs, Len(docs') = Len(docs),
             cancels' = [cancels EXCEPT ![docs[i].id] = [f \in Counters |-> @[f] \cup {c}]],
             \A j \in 1 .. Len(docs) : j # i => docs'[j] = docs[j],
             docs'[i].id = docs[i].id,
             docs'[i].used = docs[i].used - 1, docs'[i].maxUsers = docs[i].maxUsers + 1
      PROVE  CancelsOK'
  <2>0. DOMAIN docs = 1 .. Len(docs) /\ DOMAIN docs' = 1 .. Len(docs)
    BY <1>0, <1>2
  <2>1. PICK id \in Created : id = docs[i].id /\ id \in Calls
    BY DocIds
  <2>2. /\ \A f \in Counters : cancels'[id][f] = cancels[id][f] \cup {c}
        /\ \A d \in Calls : d # id => cancels'[d] = cancels[d]
        /\ cancels' \in [Calls -> [Counters -> SUBSET Calls]]
    BY <1>0, <1>2, <2>1
  <2>3. ASSUME NEW f \in Counters
        PROVE  IsFiniteSet(cancels[id][f]) /\ c \notin cancels[id][f] /\ \A e \in cancels[id][f] : pc'[e] = "done"
    <3>1. CancelledOK(id, f) /\ cancels[id][f] \subseteq Calls
      BY <2>1 DEF CancelsOK
    <3>2. pc[c] # "done"
      BY <1>0, WorkingCall
    <3> QED
      BY <1>0, <3>1, <3>2, OthersStay DEF CallsInv, CancelledOK
  <2>4. ASSUME NEW d \in Calls, NEW f \in Counters PROVE CancelledOK(d, f)'
    <3>1. CASE d # id
      BY <1>0, <2>2, <3>1, CancelsStay
    <3>2. CASE d = id
      <4>1. id \in Created'
        BY <1>0, <2>1, CreatedStay
      <4>2. cancels'[d][f] = cancels[id][f] \cup {c}
        BY <2>2, <3>2
      <4>3. IsFiniteSet(cancels[id][f]) /\ \A e \in cancels[id][f] : pc'[e] = "done"
        BY <2>3
      <4>4. IsFiniteSet(cancels'[d][f])
        BY <4>2, <4>3, FS_AddElement
      <4>5. \A e \in cancels'[d][f] : pc'[e] = "done"
        BY <1>0, <4>2, <4>3
      <4> QED
        BY <3>2, <4>1, <4>4, <4>5 DEF CancelledOK
    <3> QED
      BY <3>1, <3>2
  <2>5. ASSUME NEW j \in DOMAIN docs', j # i PROVE CountsAt(j)'
    <3>1. docs'[j] = docs[j] /\ j \in DOMAIN docs
      BY <1>2, <2>0, <2>5
    <3>2. docs[j].id # id /\ docs[j].id \in Calls
      BY <2>1, <2>5, <3>1, DocIds DEF IdsOK
    <3> QED
      BY <1>0, <2>2, <3>1, <3>2, CountsStay
  <2>6. CountsAt(i)'
    <3>1. /\ docs[i].used = given[id].used - Cardinality(cancels[id].used)
          /\ docs[i].maxUsers = given[id].maxUsers + Cardinality(cancels[id].maxUsers)
      BY <1>0, <2>1 DEF EveryCancelCounts
    <3>2. given[id].used \in Int /\ given[id].maxUsers \in Int /\ docs[i].used \in Int /\ docs[i].maxUsers \in Int
      <4>1. docs[i] \in Docs
        BY DocIds
      <4> QED
        BY <1>0, <2>1, <4>1 DEF Counters, Docs
    <3>3. docs[i].used - 1 = given[id].used - Cardinality(cancels[id].used \cup {c})
      BY <2>3, <3>1, <3>2, CountOneMore DEF Counters
    <3>4. docs[i].maxUsers + 1 = given[id].maxUsers + Cardinality(cancels[id].maxUsers \cup {c})
      BY <2>3, <3>1, <3>2, CountOneMore DEF Counters
    <3>5. cancels'[id].used = cancels[id].used \cup {c} /\ cancels'[id].maxUsers = cancels[id].maxUsers \cup {c}
      BY <2>2 DEF Counters
    <3>6. docs'[i].id = id
      BY <1>2, <2>1
    <3> QED
      BY <1>0, <1>2, <3>3, <3>4, <3>5, <3>6 DEF CountsAt
  <2> QED
    BY <1>0, <2>2, <2>4, <2>5, <2>6 DEF CancelsOK, EveryCancelCounts, CountsAt
<1> QED
  BY <1>0, <1>1, <1>2, CancelDocs

LEMMA InsertCounts ==
  ASSUME CallsInv, IdsOK, CancelsOK, NEW c \in Calls, Insert(c)
  PROVE  CancelsOK'
<1>0. /\ Serve(c) /\ docs \in Seq(Docs) /\ docs' \in Seq(Docs) /\ EveryCancelCounts
      /\ UNCHANGED cancels /\ given' = [given EXCEPT ![c] = [f \in Counters |-> Draft(c)[f]]]
      /\ given \in [Calls -> [Counters -> Int]] /\ cancels \in [Calls -> [Counters -> SUBSET Calls]]
  BY WriteType DEF Serve, Handle, CallsInv, TypeOK, CancelsOK, Insert
<1>1. /\ Draft(c) \in Docs /\ Len(docs') = Len(docs) + 1 /\ docs'[Len(docs) + 1] = Draft(c)
      /\ \A j \in 1 .. Len(docs) : docs'[j] = docs[j]
  BY InsertDocs
<1>2. c \notin Created
  BY <1>0, CreatedBy
<1>3. Draft(c).used \in Int /\ Draft(c).maxUsers \in Int
  BY <1>1 DEF Docs
<1>4. given' \in [Calls -> [Counters -> Int]]
  BY <1>0, <1>3 DEF Counters
<1>5. \A d \in Calls, f \in Counters : CancelledOK(d, f)'
  BY <1>0, CancelsStay
<1>6. ASSUME NEW j \in 1 .. Len(docs) PROVE CountsAt(j)'
  <2>1. j \in DOMAIN docs /\ docs'[j] = docs[j]
    BY <1>0, <1>1
  <2>2. docs[j].id # c /\ docs[j].id \in Calls
    BY <1>2, <2>1, DocIds
  <2> QED
    BY <1>0, <2>1, <2>2, CountsStay
<1>7. PICK n \in Nat : n = Len(docs) + 1
  BY <1>0
<1>8. CountsAt(n)'
  <2>1. docs'[n].id = c /\ docs'[n] = Draft(c)
    BY <1>1, <1>7 DEF Draft
  <2>2. given'[c].used = Draft(c).used /\ given'[c].maxUsers = Draft(c).maxUsers
    BY <1>0 DEF Counters
  <2>3. cancels'[c].used = {} /\ cancels'[c].maxUsers = {}
    BY <1>0, <1>2 DEF CancelsOK, CancelledOK, Counters
  <2>4. /\ Draft(c).used = Draft(c).used - Cardinality({})
        /\ Draft(c).maxUsers = Draft(c).maxUsers + Cardinality({})
    BY <1>3, CountNone
  <2> QED
    BY <2>1, <2>2, <2>3, <2>4 DEF CountsAt
<1>9. \A j \in DOMAIN docs' : j \in 1 .. Len(docs) \/ j = n
  BY <1>0, <1>1, <1>7
<1>10. EveryCancelCounts'
  BY <1>6, <1>8, <1>9 DEF EveryCancelCounts, CountsAt
<1> QED
  BY <1>0, <1>4, <1>5, <1>10 DEF CancelsOK

\* An update that names a counter starts its count anew, and leaves the other.
LEMMA UpdateCounts ==
  ASSUME CallsInv, IdsOK, CancelsOK, NEW c \in Calls, Update(c)
  PROVE  CancelsOK'
<1> DEFINE id   == What(c).id
           body == What(c).body
           i    == WithId(id)
<1>0. /\ Serve(c) /\ docs \in Seq(Docs) /\ docs' \in Seq(Docs) /\ EveryCancelCounts
      /\ given \in [Calls -> [Counters -> Int]] /\ cancels \in [Calls -> [Counters -> SUBSET Calls]]
  BY WriteType DEF Serve, Handle, CallsInv, TypeOK, CancelsOK
<1>1. id \in Calls /\ body \in Bodies
  BY DEF CallsInv, CallOK, Update, Updates
<1>2. /\ docs' = IF i # 0 THEN [docs EXCEPT ![i] = Patched(@, body)] ELSE docs
      /\ given' = [given EXCEPT ![id] = Patched(@, body)]
      /\ cancels' = [cancels EXCEPT ![id] = [f \in Counters |-> IF f \in DOMAIN body THEN {} ELSE @[f]]]
  BY DEF Update, Updated
<1>3. /\ \A d \in Calls : d # id => given'[d] = given[d] /\ cancels'[d] = cancels[d]
      /\ \A f \in Counters : /\ given'[id][f] = IF f \in DOMAIN body THEN body[f] ELSE given[id][f]
                            /\ cancels'[id][f] = IF f \in DOMAIN body THEN {} ELSE cancels[id][f]
      /\ given'[id] = [f \in Counters |-> IF f \in DOMAIN body THEN body[f] ELSE given[id][f]]
  BY <1>0, <1>1, <1>2 DEF Patched
<1>4. \A f \in Counters : f \in DOMAIN body => body[f] \in Int
  BY <1>1, DiscountsAssumption
<1>5. given' \in [Calls -> [Counters -> Int]]
  <2>1. given'[id] \in [Counters -> Int]
    BY <1>0, <1>1, <1>3, <1>4
  <2>2. given' = [given EXCEPT ![id] = given'[id]]
    BY <1>0, <1>1, <1>2
  <2> QED
    BY <1>0, <2>1, <2>2
<1>6. cancels' \in [Calls -> [Counters -> SUBSET Calls]]
  BY <1>0, <1>1, <1>2
<1>7. ASSUME NEW d \in Calls, NEW f \in Counters PROVE CancelledOK(d, f)'
  <2>1. CASE cancels'[d][f] = cancels[d][f]
    BY <1>0, <2>1, CancelsStay
  <2>2. CASE cancels'[d][f] = {}
    BY <2>2, FS_EmptySet DEF CancelledOK
  <2> QED
    BY <1>3, <2>1, <2>2
<1>8. DOMAIN docs' = DOMAIN docs
  BY <1>0, <1>2
<1>9. ASSUME NEW j \in DOMAIN docs PROVE CountsAt(j)'
  <2>1. docs[j] \in Docs /\ docs[j].id \in Calls
    BY DocIds
  <2>2. CASE docs[j].id # id
    <3>1. docs'[j] = docs[j]
      <4>1. j # i \/ i = 0
        BY <1>0, <2>2, FirstWithId
      <4> QED
        BY <1>2, <4>1
    <3> QED
      BY <1>0, <1>3, <2>1, <2>2, <3>1, CountsStay
  <2>3. CASE docs[j].id = id
    <3>1. i = j
      <4>1. i \in DOMAIN docs /\ docs[i].id = id
        BY <1>0, <2>3, FirstWithId
      <4> QED
        BY <2>3, <4>1 DEF IdsOK
    <3>2. docs'[j] = Patched(docs[j], body)
      <4>1. j # 0
        BY <1>0, DocIsThere
      <4> QED
        BY <1>2, <3>1, <4>1
    <3> HIDE DEF id, body, i
    <3>3. /\ docs'[j].id = id
          /\ \A f \in Counters : docs'[j][f] = IF f \in DOMAIN body THEN body[f] ELSE docs[j][f]
      BY <1>1, <2>1, <2>3, <3>2, PatchedIsDoc
    <3>4. /\ docs[j].used = given[id].used - Cardinality(cancels[id].used)
          /\ docs[j].maxUsers = given[id].maxUsers + Cardinality(cancels[id].maxUsers)
      BY <1>0, <2>3 DEF EveryCancelCounts
    <3>5. docs'[j].used = given'[id].used - Cardinality(cancels'[id].used)
      <4>1. CASE "used" \in DOMAIN body
        <5>1. docs'[j].used = body["used"] /\ given'[id].used = body["used"] /\ cancels'[id].used = {}
              /\ body["used"] \in Int
          BY <1>3, <1>4, <3>3, <4>1 DEF Counters
        <5> QED
          BY <5>1, CountNone
      <4>2. CASE "used" \notin DOMAIN body
        <5>1. docs'[j].used = docs[j].used /\ given'[id].used = given[id].used
              /\ cancels'[id].used = cancels[id].used
          BY <1>3, <3>3, <4>2 DEF Counters
        <5> QED
          BY <3>4, <5>1
      <4> QED
        BY <4>1, <4>2
    <3>6. docs'[j].maxUsers = given'[id].maxUsers + Cardinality(cancels'[id].maxUsers)
      <4>1. CASE "maxUsers" \in DOMAIN body
        <5>1. docs'[j].maxUsers = body["maxUsers"] /\ given'[id].maxUsers = body["maxUsers"]
              /\ cancels'[id].maxUsers = {} /\ body["maxUsers"] \in Int
          BY <1>3, <1>4, <3>3, <4>1 DEF Counters
        <5> QED
          BY <5>1, CountNone
      <4>2. CASE "maxUsers" \notin DOMAIN body
        <5>1. docs'[j].maxUsers = docs[j].maxUsers /\ given'[id].maxUsers = given[id].maxUsers
              /\ cancels'[id].maxUsers = cancels[id].maxUsers
          BY <1>3, <3>3, <4>2 DEF Counters
        <5> QED
          BY <3>4, <5>1
      <4> QED
        BY <4>1, <4>2
    <3> QED
      BY <3>3, <3>5, <3>6 DEF CountsAt
  <2> QED
    BY <2>2, <2>3
<1>10. EveryCancelCounts'
  BY <1>8, <1>9 DEF EveryCancelCounts, CountsAt
<1> QED
  BY <1>5, <1>6, <1>7, <1>10 DEF CancelsOK

\* Where every document keeps its counters.
LEMMA KeptCounts ==
  ASSUME CallsInv, IdsOK, CancelsOK, NEW c \in Calls, Serve(c), UNCHANGED <<given, cancels>>,
         \A i \in DOMAIN docs' : \E j \in DOMAIN docs : docs'[i] = docs[j]
  PROVE  CancelsOK'
<1>1. EveryCancelCounts
  BY DEF CancelsOK
<1>2. ASSUME NEW i \in DOMAIN docs' PROVE CountsAt(i)'
  BY <1>1, <1>2, CountsStay
<1>3. \A d \in Calls, f \in Counters : CancelledOK(d, f)'
  BY CancelsStay
<1> QED
  BY <1>2, <1>3 DEF CancelsOK, EveryCancelCounts, CountsAt

LEMMA ServeCancels ==
  ASSUME CallsInv, IdsOK, CancelsOK, NEW c \in Calls, Serve(c)
  PROVE  CancelsOK'
<1>0. docs \in Seq(Docs) /\ docs' \in Seq(Docs)
  BY ServeCalls DEF CallsInv, TypeOK
<1>1. CASE Cancel(c) \/ Insert(c) \/ Update(c)
  BY <1>1, CancelCounts, InsertCounts, UpdateCounts
<1>2. CASE Delete(c) /\ ~Refuse(c)
  <2>1. UNCHANGED <<given, cancels>>
    BY <1>2 DEF Delete
  <2>2. PICK j \in DOMAIN docs :
          /\ Len(docs') = Len(docs) - 1
          /\ \A k \in 1 .. Len(docs) - 1 : docs'[k] = docs[IF k < j THEN k ELSE k + 1]
    BY <1>2, DeleteDocs
  <2>3. ASSUME NEW i \in DOMAIN docs' PROVE \E k \in DOMAIN docs : docs'[i] = docs[k]
    <3>1. /\ docs'[i] = docs[IF i < j THEN i ELSE i + 1]
          /\ (IF i < j THEN i ELSE i + 1) \in DOMAIN docs
      BY <1>0, <2>2
    <3> QED
      BY <3>1
  <2> QED
    BY <2>1, <2>3, KeptCounts
<1>3. CASE Refuse(c) \/ (~Cancel(c) /\ ~Insert(c) /\ ~Update(c) /\ ~Delete(c))
  <2>1. UNCHANGED <<docs, given, cancels>>
    BY <1>3, DocsStay
  <2> QED
    BY <2>1, KeptCounts
<1> QED
  BY <1>1, <1>2, <1>3

-----------------------------------------------------------------------------
(* Two active documents of a code have a cause.                             *)

\* Only the lookup of a create leads to an insertion.
LEMMA Inserters ==
  ASSUME CallsInv, NEW c \in Calls, Serve(c), ~FindTwin(c)
  PROVE  \A d \in Calls : pc'[d] = "insert" => pc[d] = "insert" /\ request'[d] = request[d]
<1>0. pc \in [Calls -> Steps \cup {"idle", "done", "lost"}]
  BY DEF CallsInv, TypeOK
<1>1. ASSUME NEW d \in Calls, d # c PROVE pc'[d] = pc[d] /\ request'[d] = request[d]
  BY <1>1, OthersStay DEF CallsInv
<1>2. pc'[c] # "insert"
  <2>1. CASE Arrive(c)
    BY <1>0, <2>1 DEF Arrive, AskCreate, AskUpdate, AskByCode, AskPrice
  <2>2. CASE Insert(c) \/ FindOwn(c) \/ Update(c) \/ Delete(c) \/ FindCode(c) \/ Cancel(c)
    BY <1>0, <2>2 DEF Insert, FindOwn, Update, Delete, FindCode, Cancel
  <2>3. CASE Quote(c) \/ ReadCart(c) \/ Price(c) \/ Discount(c) \/ CallThrows(c)
    BY <1>0, <2>3 DEF Quote, ReadCart, Price, Discount, CallThrows, NextLine
  <2> QED
    BY <2>1, <2>2, <2>3 DEF Serve, Handle
<1> QED
  BY <1>1, <1>2

\* A document that has the code and the state it had at another place, or whose code is noted.
Kin(i, j) ==
  docs'[i].code \in loose' \/ (docs'[i].code = docs[j].code /\ docs'[i].active = docs[j].active)

LEMMA KinTwins ==
  ASSUME CallsInv, TwinsOK, raced \subseteq raced', loose \subseteq loose', NEW from,
         \A i \in DOMAIN docs' : from[i] \in DOMAIN docs /\ Kin(i, from[i]),
         \A i, j \in DOMAIN docs' : from[i] = from[j] => i = j,
         \A d \in Calls : pc'[d] = "insert" => pc[d] = "insert" /\ request'[d] = request[d]
  PROVE  TwinsOK'
<1>1. ASSUME NEW i \in DOMAIN docs' PROVE docs'[i].active \/ docs'[i].code \in loose'
  BY <1>1 DEF TwinsOK, Kin
<1>2. ASSUME NEW d \in Calls, NEW i \in DOMAIN docs', pc'[d] = "insert", docs'[i].code = request'[d].code
      PROVE  docs'[i].code \in raced' \cup loose'
  BY <1>2 DEF TwinsOK, Kin
<1>3. ASSUME NEW i \in DOMAIN docs', NEW j \in DOMAIN docs', i # j, docs'[i].active, docs'[j].active,
             docs'[i].code = docs'[j].code, docs'[i].code \notin loose'
      PROVE  docs'[i].code \in raced' \cup loose'
  <2>1. /\ from[i] # from[j] /\ docs[from[i]].code = docs'[i].code /\ docs[from[j]].code = docs'[i].code
        /\ docs[from[i]].active /\ docs[from[j]].active
    BY <1>3 DEF Kin
  <2> QED
    BY <2>1 DEF TwinsOK, TwinsHaveCause
<1> QED
  BY <1>1, <1>2, <1>3 DEF TwinsOK, TwinsHaveCause

\* Where every document stays in its place.
LEMMA StillTwins ==
  ASSUME CallsInv, TwinsOK, raced \subseteq raced', loose \subseteq loose',
         docs' \in Seq(Docs), Len(docs') = Len(docs), \A i \in 1 .. Len(docs) : Kin(i, i),
         \A d \in Calls : pc'[d] = "insert" => pc[d] = "insert" /\ request'[d] = request[d]
  PROVE  TwinsOK'
<1>1. DOMAIN docs' = 1 .. Len(docs) /\ DOMAIN docs = 1 .. Len(docs)
  BY DEF CallsInv, TypeOK
<1> DEFINE from == [i \in 1 .. Len(docs) |-> i]
<1>2. \A i \in DOMAIN docs' : from[i] \in DOMAIN docs /\ Kin(i, from[i])
  BY <1>1
<1>3. \A i, j \in DOMAIN docs' : from[i] = from[j] => i = j
  BY <1>1
<1> HIDE DEF from
<1> QED
  BY <1>2, <1>3, KinTwins

\* An insertion beside a document of its code that is not noted had another create at it.
LEMMA InsertTwins ==
  ASSUME CallsInv, TwinsOK, NEW c \in Calls, Insert(c)
  PROVE  TwinsOK'
<1> DEFINE k == request[c].code
<1>0. docs \in Seq(Docs) /\ docs' \in Seq(Docs) /\ pc[c] = "insert" /\ UNCHANGED request
  BY WriteType DEF Insert, CallsInv, TypeOK
<1>1. /\ Len(docs') = Len(docs) + 1 /\ docs'[Len(docs) + 1] = Draft(c) /\ What(c).active \in BOOLEAN
      /\ \A j \in 1 .. Len(docs) : docs'[j] = docs[j]
  BY InsertDocs, DraftTypes
<1>2. PICK n \in Nat : n = Len(docs) + 1
  BY <1>0
<1>3. /\ DOMAIN docs = 1 .. n - 1 /\ DOMAIN docs' = 1 .. n
      /\ \A i \in 1 .. n : i \in 1 .. n - 1 \/ i = n
  BY <1>0, <1>1, <1>2
<1>4. \A i \in 1 .. n - 1 : docs'[i] = docs[i]
  BY <1>1, <1>2
<1>5. docs'[n].code = k /\ docs'[n].active = What(c).active
  BY <1>1, <1>2 DEF Draft
<1>6. /\ raced \subseteq raced' /\ loose \subseteq loose'
      /\ ~What(c).active => k \in loose'
      /\ \A d \in Calls : d # c /\ pc[d] = "insert" /\ request[d].code = k => k \in raced'
  BY DEF Insert
<1>7. \A d \in Calls : pc'[d] = "insert" => d # c /\ pc[d] = "insert"
  BY DEF Insert, CallsInv, TypeOK
<1> HIDE DEF k
<1>8. \A i \in 1 .. n : docs'[i].active \/ docs'[i].code \in loose'
  BY <1>1, <1>3, <1>4, <1>5, <1>6 DEF TwinsOK
<1>9. ASSUME NEW d \in Calls, NEW i \in 1 .. n, pc'[d] = "insert", docs'[i].code = request[d].code
      PROVE  docs'[i].code \in raced' \cup loose'
  <2>1. CASE i = n
    BY <1>5, <1>6, <1>7, <1>9, <2>1
  <2>2. CASE i \in 1 .. n - 1
    BY <1>3, <1>4, <1>6, <1>7, <1>9, <2>2 DEF TwinsOK
  <2> QED
    BY <1>3, <2>1, <2>2
<1>10. ASSUME NEW i \in 1 .. n - 1, docs[i].code = k PROVE k \in raced' \cup loose'
  BY <1>0, <1>3, <1>6, <1>10 DEF TwinsOK, k
<1>11. ASSUME NEW i \in 1 .. n, NEW j \in 1 .. n, i # j, docs'[i].active, docs'[j].active,
              docs'[i].code = docs'[j].code
       PROVE  docs'[i].code \in raced' \cup loose'
  <2>1. CASE i = n \/ j = n
    BY <1>3, <1>4, <1>5, <1>10, <1>11, <2>1
  <2>2. CASE i \in 1 .. n - 1 /\ j \in 1 .. n - 1
    BY <1>3, <1>4, <1>6, <1>11, <2>2 DEF TwinsOK, TwinsHaveCause
  <2> QED
    BY <1>3, <2>1, <2>2
<1> QED
  BY <1>0, <1>3, <1>8, <1>9, <1>11 DEF TwinsOK, TwinsHaveCause

\* A create that has found no active document in its way.
LEMMA FindTwins ==
  ASSUME CallsInv, TwinsOK, NEW c \in Calls, FindTwin(c)
  PROVE  TwinsOK'
<1> DEFINE twin == DocAt(WithCode(request[c].code))
<1>0. UNCHANGED <<docs, request, raced, loose>> /\ docs \in Seq(Docs)
  BY DEF FindTwin, CallsInv, TypeOK
<1>1. ASSUME NEW d \in Calls, NEW i \in DOMAIN docs, pc'[d] = "insert", docs[i].code = request[d].code
      PROVE  docs[i].code \in raced \cup loose
  <2>1. CASE d # c
    <3>1. pc[d] = "insert"
      BY <1>1, <2>1, OthersStay DEF Serve, Handle, CallsInv
    <3> QED
      BY <1>1, <3>1 DEF TwinsOK
  <2>2. CASE d = c
    <3>1. ~Conflicts(twin)
      BY <1>1, <2>2 DEF FindTwin, CallsInv, TypeOK
    <3>2. twin # NoDoc /\ twin.code = request[c].code /\ WithCode(request[c].code) \in DOMAIN docs
          /\ twin = docs[WithCode(request[c].code)]
      BY <1>0, <1>1, <2>2, FoundByCode
    <3>3. ~twin.active
      BY <3>1, <3>2 DEF Conflicts
    <3> HIDE DEF twin
    <3> QED
      BY <1>1, <2>2, <3>2, <3>3 DEF TwinsOK
  <2> QED
    BY <2>1, <2>2
<1> QED
  BY <1>0, <1>1 DEF TwinsOK, TwinsHaveCause

LEMMA ServeTwins ==
  ASSUME CallsInv, TwinsOK, NEW c \in Calls, Serve(c)
  PROVE  TwinsOK'
<1>0. docs \in Seq(Docs) /\ docs' \in Seq(Docs)
  BY ServeCalls DEF CallsInv, TypeOK
<1>1. CASE FindTwin(c)
  BY <1>1, FindTwins
<1>2. CASE Insert(c)
  BY <1>2, InsertTwins
<1>3. CASE ~FindTwin(c) /\ ~Insert(c)
  <2>0. \A d \in Calls : pc'[d] = "insert" => pc[d] = "insert" /\ request'[d] = request[d]
    BY <1>3, Inserters
  <2>1. CASE Update(c)
    <3>1. Len(docs') = Len(docs) /\ raced \subseteq raced' /\ loose \subseteq loose'
      BY <2>1, UpdateDocs DEF Update
    <3>2. ASSUME NEW i \in 1 .. Len(docs) PROVE Kin(i, i) \/ (docs'[i].active /\ docs'[i].code = docs[i].code)
      BY <2>1, UpdateDocs DEF Kin
    <3>3. ASSUME NEW i \in 1 .. Len(docs) PROVE Kin(i, i)
      <4>1. docs[i].active \/ docs[i].code \in loose'
        BY <1>0, <3>1 DEF TwinsOK
      <4>2. docs[i].active \in BOOLEAN /\ docs'[i].active \in BOOLEAN
        <5>1. docs[i] \in Docs /\ docs'[i] \in Docs
          BY <1>0, <3>1
        <5> QED
          BY <5>1 DEF Docs
      <4> QED
        BY <3>2, <4>1, <4>2 DEF Kin
    <3> QED
      BY <1>0, <2>0, <3>1, <3>3, StillTwins
  <2>2. CASE Cancel(c)
    <3>1. Len(docs') = Len(docs) /\ raced \subseteq raced' /\ loose \subseteq loose'
      BY <2>2, CancelDocs DEF Cancel
    <3>2. \A i \in 1 .. Len(docs) : Kin(i, i)
      BY <2>2, CancelDocs DEF Kin
    <3> QED
      BY <1>0, <2>0, <3>1, <3>2, StillTwins
  <2>3. CASE Delete(c) /\ ~Refuse(c)
    <3>1. PICK i \in DOMAIN docs :
            /\ Len(docs') = Len(docs) - 1
            /\ \A j \in 1 .. Len(docs) - 1 : docs'[j] = docs[IF j < i THEN j ELSE j + 1]
      BY <2>3, DeleteDocs
    <3>2. PICK n \in Nat : n = Len(docs)
      BY <1>0
    <3>3. DOMAIN docs = 1 .. n /\ DOMAIN docs' = 1 .. n - 1 /\ i \in 1 .. n
      BY <1>0, <3>1, <3>2
    <3> DEFINE from == [j \in 1 .. n - 1 |-> IF j < i THEN j ELSE j + 1]
    <3>4. \A j \in DOMAIN docs' : from[j] \in DOMAIN docs /\ docs'[j] = docs[from[j]]
      BY <3>1, <3>2, <3>3
    <3>5. \A j, l \in DOMAIN docs' : from[j] = from[l] => j = l
      BY <3>3
    <3>6. raced \subseteq raced' /\ loose \subseteq loose'
      BY <2>3 DEF Delete
    <3> HIDE DEF from
    <3>7. \A j \in DOMAIN docs' : from[j] \in DOMAIN docs /\ Kin(j, from[j])
      BY <3>4 DEF Kin
    <3> QED
      BY <2>0, <3>5, <3>6, <3>7, KinTwins
  <2>4. CASE Refuse(c) \/ (~Update(c) /\ ~Delete(c) /\ ~Cancel(c))
    <3>1. UNCHANGED <<docs, raced, loose>>
      BY <1>3, <2>4, DocsStay
    <3>2. \A i \in 1 .. Len(docs) : Kin(i, i)
      BY <3>1 DEF Kin
    <3> QED
      BY <1>0, <2>0, <3>1, <3>2, StillTwins
  <2> QED
    BY <2>1, <2>2, <2>3, <2>4
<1> QED
  BY <1>1, <1>2, <1>3

-----------------------------------------------------------------------------
(* The totals of a review add up.                                           *)

\* What is settled of the totals of a call that has been answered.
AddsUp(c) ==
  ended[c] = "ok" /\ Kind(c) \in {"quote", "review"} =>
    /\ total[c].pay = total[c].price - total[c].discount
    /\ Kind(c) = "review" => total[c].price = PriceOf(request[c].lines)
    /\ c \notin odd => total[c].pay \in 0 .. total[c].price

LineUnits(lines, i) == {i} \X (1 .. lines[i].price)

LEMMA LineUnitsCount ==
  ASSUME NEW lines \in Seq(Lines), NEW i \in 1 .. Len(lines)
  PROVE  IsFiniteSet(LineUnits(lines, i)) /\ Cardinality(LineUnits(lines, i)) = lines[i].price
<1> DEFINE price == lines[i].price
<1>1. price \in Nat
  <2>1. lines[i] \in Lines
    OBVIOUS
  <2> QED
    BY <2>1 DEF Lines
<1>2. IsFiniteSet({i}) /\ Cardinality({i}) = 1
  BY FS_Singleton
<1> HIDE DEF price
<1>3. IsFiniteSet(1 .. price) /\ Cardinality(1 .. price) = price
  BY <1>1, FS_Interval
<1>4. IsFiniteSet({i} \X (1 .. price)) /\ Cardinality({i} \X (1 .. price)) = 1 * price
  BY <1>2, <1>3, FS_Product
<1> QED
  BY <1>1, <1>4 DEF LineUnits, price

LEMMA UnitsFinite ==
  ASSUME NEW lines \in Seq(Lines), NEW n \in 0 .. Len(lines)
  PROVE  IsFiniteSet(Units(lines, n))
<1> DEFINE parts == {LineUnits(lines, i) : i \in 1 .. n}
           f == [i \in 1 .. n |-> LineUnits(lines, i)]
<1>1. IsFiniteSet(1 .. n)
  BY FS_Interval
<1>2. f \in Surjection(1 .. n, parts)
  BY DEF Surjection
<1>3. IsFiniteSet(parts)
  <2> HIDE DEF f, parts
  <2> QED
    BY <1>1, <1>2, FS_Surjection
<1>4. \A s \in parts : IsFiniteSet(s)
  BY LineUnitsCount
<1>5. Units(lines, n) = UNION parts
  BY DEF Units, LineUnits
<1> HIDE DEF parts
<1> QED
  BY <1>3, <1>4, <1>5, FS_UNION

\* The price of the first n lines is that of the lines before the n-th and its own.
LEMMA UnitsNext ==
  ASSUME NEW lines \in Seq(Lines), NEW n \in 1 .. Len(lines)
  PROVE  /\ Cardinality(Units(lines, n)) = Cardinality(Units(lines, n - 1)) + lines[n].price
         /\ Cardinality(Units(lines, n - 1)) \in Nat /\ lines[n].price \in Nat
<1>1. n - 1 \in 0 .. Len(lines) /\ IsFiniteSet(Units(lines, n - 1))
  <2>1. n - 1 \in 0 .. Len(lines)
    OBVIOUS
  <2> QED
    BY <2>1, UnitsFinite
<1>2. IsFiniteSet(LineUnits(lines, n)) /\ Cardinality(LineUnits(lines, n)) = lines[n].price
  BY LineUnitsCount
<1>3. Units(lines, n) = Units(lines, n - 1) \cup LineUnits(lines, n)
  <2>1. \A i \in 1 .. n : i \in 1 .. n - 1 \/ i = n
    OBVIOUS
  <2>2. 1 .. n - 1 \subseteq 1 .. n /\ n \in 1 .. n
    OBVIOUS
  <2> QED
    BY <2>1, <2>2 DEF Units, LineUnits
<1>4. Units(lines, n - 1) \cap LineUnits(lines, n) = {}
  <2>1. \A u \in Units(lines, n - 1) : u[1] \in 1 .. n - 1
    BY DEF Units
  <2>2. \A u \in LineUnits(lines, n) : u[1] = n
    BY DEF LineUnits
  <2>3. n \notin 1 .. n - 1
    OBVIOUS
  <2> QED
    BY <2>1, <2>2, <2>3
<1>5. Cardinality(Units(lines, n - 1)) \in Nat /\ Cardinality(LineUnits(lines, n)) \in Nat
  BY <1>1, <1>2, FS_CardinalityType
<1>6. Cardinality(Units(lines, n)) =
        Cardinality(Units(lines, n - 1)) + Cardinality(LineUnits(lines, n)) - Cardinality({})
  BY <1>1, <1>2, <1>3, <1>4, FS_Union
<1>7. Cardinality({}) = 0
  BY FS_EmptySet
<1> QED
  BY <1>2, <1>5, <1>6, <1>7

LEMMA UnitsNone ==
  ASSUME NEW lines PROVE Cardinality(Units(lines, 0)) = 0
<1>1. Units(lines, 0) = {}
  BY DEF Units
<1> QED
  BY <1>1, FS_EmptySet

LEMMA UnitsAll ==
  ASSUME NEW lines \in Seq(Lines) PROVE PriceOf(lines) = Cardinality(Units(lines, Len(lines)))
<1>1. DOMAIN lines = 1 .. Len(lines)
  OBVIOUS
<1> QED
  BY <1>1 DEF PriceOf, Units

\* The totals of a call that its step does not touch, or that ends without an answer to show.
LEMMA TotalsStay ==
  ASSUME TotalsOK, NEW d \in Calls, pc'[d] = pc[d], request'[d] = request[d], line'[d] = line[d],
         total'[d] = total[d], ended'[d] = ended[d], d \in odd' <=> d \in odd
  PROVE  AddsUp(d)' /\ TotalOK(d)'
<1>1. AddsUp(d) /\ TotalOK(d)
  BY DEF TotalsOK, TotalsAddUp, AddsUp
<1>2. AddsUp(d)'
  BY <1>1 DEF AddsUp
<1>3. TotalOK(d)'
  BY <1>1 DEF TotalOK, Balance
<1> QED
  BY <1>2, <1>3

LEMMA NothingToShow ==
  ASSUME NEW c \in Calls, pc'[c] \notin {"price", "discount"},
         ended'[c] # "ok" \/ Kind(c)' \notin {"quote", "review"}
  PROVE  AddsUp(c)' /\ TotalOK(c)'
BY DEF AddsUp, TotalOK

\* A line with its price and its discount is done: the balance of the lines so far.
LEMMA NextLineTotals ==
  ASSUME CallsInv, NEW c \in Calls, pc[c] \in {"price", "discount"}, NextLine(c), UNCHANGED request,
         total'[c].price = Cardinality(Units(request[c].lines, line[c])),
         Balance(c, total[c].price)'
  PROVE  AddsUp(c)' /\ TotalOK(c)'
<1>0. /\ line \in [Calls -> Nat] /\ pc \in [Calls -> Steps \cup {"idle", "done", "lost"}]
      /\ ended \in [Calls -> {"none", "ok", "refused"}] /\ ended[c] = "none" /\ Kind(c) = "review"
      /\ request[c].lines \in Seq(Lines) /\ line[c] \in 1 .. Len(request[c].lines)
  BY HereType DEF CallsInv, TypeOK, CallOK
<1>1. CASE line[c] < Len(request[c].lines) /\ Goto(c, "price") /\ UNCHANGED ended
  <2>1. line'[c] = line[c] + 1 /\ line'[c] - 1 = line[c]
    BY <1>0 DEF NextLine
  <2>2. pc'[c] = "price" /\ ended'[c] = "none" /\ request'[c] = request[c]
    BY <1>0, <1>1
  <2> QED
    BY <2>1, <2>2 DEF AddsUp, TotalOK
<1>2. CASE line[c] = Len(request[c].lines) /\ Finish(c, "ok")
  <2>1. pc'[c] = "done" /\ request'[c] = request[c]
    BY <1>0, <1>2
  <2>2. total'[c].price = PriceOf(request[c].lines)
    BY <1>0, <1>2, UnitsAll
  <2> QED
    BY <2>1, <2>2, <1>0 DEF AddsUp, TotalOK, Balance
<1> QED
  BY <1>1, <1>2 DEF NextLine

LEMMA QuoteTotals ==
  ASSUME CallsInv, TotalsOK, NEW c \in Calls, Quote(c), ~Refuse(c)
  PROVE  AddsUp(c)' /\ TotalOK(c)'
<1> DEFINE d == DocAt(WithCode(Here(c).code))
           value == OrderValue(d, Here(c).price)
           amount == Amount(d, Here(c).price)
<1>1. /\ pc[c] = "quote" /\ Grants(d, Here(c).price) /\ Finish(c, "ok") /\ UNCHANGED request
      /\ total' = [total EXCEPT ![c] = [price |-> value, discount |-> amount, pay |-> value - amount]]
      /\ Note(c, d)
  BY DEF Quote
<1>2. d \in Docs /\ value \in Nat /\ amount \in Int /\ Here(c).price \in Nat
  BY <1>1, AmountType, HereType
<1>3. ~Senseless(d) => 0 <= amount /\ amount <= value
  BY <1>1, <1>2, AmountOf DEF Grants
<1>4. c \notin odd' => ~Senseless(d)
  BY <1>1 DEF Note
<1> HIDE DEF d, value, amount
<1>5. total'[c].price = value /\ total'[c].discount = amount /\ total'[c].pay = value - amount
  BY <1>1 DEF CallsInv, TypeOK
<1>6. c \notin odd' => value - amount \in 0 .. value
  BY <1>2, <1>3, <1>4
<1>7. pc'[c] = "done" /\ Kind(c)' = "quote"
  BY <1>1 DEF CallsInv, TypeOK, CallOK
<1> QED
  BY <1>5, <1>6, <1>7 DEF AddsUp, TotalOK

LEMMA ReadCartTotals ==
  ASSUME CallsInv, TotalsOK, NEW c \in Calls, ReadCart(c), ~Refuse(c)
  PROVE  AddsUp(c)' /\ TotalOK(c)'
<1>1. /\ pc[c] = "cart" /\ Kind(c) = "review" /\ line[c] = 1 /\ total[c] = Blank /\ ended[c] = "none"
      /\ UNCHANGED <<request, line, total>> /\ request[c].lines \in Seq(Lines)
  BY DEF ReadCart, CallsInv, TypeOK, CallOK, Requests
<1>2. 0 \in 0 .. 0 /\ 0 = 0 - 0 /\ 1 - 1 = 0
  OBVIOUS
<1>3. total'[c].price = 0 /\ total'[c].discount = 0 /\ total'[c].pay = 0
  BY <1>1 DEF Blank
<1>4. Cardinality(Units(request[c].lines, 0)) = 0
  BY UnitsNone
<1>5. CASE Goto(c, "price") /\ UNCHANGED ended
  <2>1. pc'[c] = "price" /\ ended'[c] = "none" /\ line'[c] = 1 /\ request'[c] = request[c]
    BY <1>1, <1>5 DEF CallsInv, TypeOK
  <2> QED
    BY <1>2, <1>3, <1>4, <2>1 DEF AddsUp, TotalOK, Balance
<1>6. CASE request[c].lines = <<>> /\ Finish(c, "ok")
  <2>1. pc'[c] = "done" /\ request'[c] = request[c]
    BY <1>1, <1>6 DEF CallsInv, TypeOK
  <2>2. PriceOf(request[c].lines) = 0
    <3>1. Len(request[c].lines) = 0
      BY <1>6
    <3> QED
      BY <1>1, <1>4, <3>1, UnitsAll
  <2> QED
    BY <1>2, <1>3, <2>1, <2>2 DEF AddsUp, TotalOK
<1> QED
  BY <1>5, <1>6 DEF ReadCart

\* The totals a review has when it comes to a line, in numbers.
LEMMA PriceTotals ==
  ASSUME CallsInv, TotalsOK, NEW c \in Calls, Price(c), ~Refuse(c)
  PROVE  AddsUp(c)' /\ TotalOK(c)'
<1> DEFINE lines == request[c].lines
           price == Here(c).price
           sum   == total[c].price
           less  == total[c].discount
           pay   == total[c].pay
<1>0. /\ pc[c] = "price" /\ UNCHANGED <<request, odd>> /\ price \in Nat
      /\ lines \in Seq(Lines) /\ line[c] \in 1 .. Len(lines) /\ ended[c] = "none"
      /\ total \in [Calls -> Totals] /\ sum \in Nat /\ less \in Int /\ pay \in Int
  BY HereType DEF Price, CallsInv, TypeOK, CallOK, Totals
<1>1. sum = Cardinality(Units(lines, line[c] - 1)) /\ pay = sum - less /\ (c \notin odd => pay \in 0 .. sum)
  BY <1>0 DEF TotalsOK, TotalOK, Balance
<1>2. sum + price = Cardinality(Units(lines, line[c]))
  BY <1>0, <1>1, UnitsNext
<1>3. CASE /\ Goto(c, "discount") /\ UNCHANGED <<line, ended>>
           /\ total' = [total EXCEPT ![c].price = @ + price]
  <2>1. total'[c].price = sum + price /\ total'[c].discount = less /\ total'[c].pay = pay
    BY <1>0, <1>3 DEF Totals
  <2>2. pc'[c] = "discount" /\ line'[c] = line[c] /\ request'[c] = request[c] /\ ended'[c] = "none"
    BY <1>0, <1>3 DEF CallsInv, TypeOK
  <2>3. Here(c)'.price = price
    BY <2>2
  <2> HIDE DEF sum, less, pay, price
  <2>4. (sum + price) - price = sum
    BY <1>0
  <2>5. Balance(c, total[c].price - Here(c).price)'
    BY <1>0, <1>1, <2>1, <2>3, <2>4 DEF Balance
  <2> QED
    BY <1>2, <2>1, <2>2, <2>5 DEF AddsUp, TotalOK
<1>4. CASE /\ NextLine(c)
           /\ total' = [total EXCEPT ![c].price = @ + price, ![c].pay = @ + price]
  <2>1. total'[c].price = sum + price /\ total'[c].discount = less /\ total'[c].pay = pay + price
    BY <1>0, <1>4 DEF Totals
  <2>2. Balance(c, total[c].price)'
    <3> HIDE DEF sum, less, pay, price
    <3>1. pay + price = (sum + price) - less /\ (c \notin odd => pay + price \in 0 .. sum + price)
      BY <1>0, <1>1
    <3> QED
      BY <1>0, <2>1, <3>1 DEF Balance
  <2> QED
    BY <1>0, <1>2, <1>4, <2>1, <2>2, NextLineTotals
<1> QED
  BY <1>3, <1>4 DEF Price

LEMMA DiscountTotals ==
  ASSUME CallsInv, TotalsOK, NEW c \in Calls, Discount(c), ~Refuse(c)
  PROVE  AddsUp(c)' /\ TotalOK(c)'
<1> DEFINE lines == request[c].lines
           price == Here(c).price
           sum   == total[c].price
           less  == total[c].discount
           pay   == total[c].pay
           d      == DocAt(WithCode(Here(c).code))
           amount == Amount(d, Here(c).price)
<1>0. /\ pc[c] = "discount" /\ UNCHANGED request /\ price \in Nat /\ NextLine(c)
      /\ lines \in Seq(Lines) /\ line[c] \in 1 .. Len(lines)
      /\ total \in [Calls -> Totals] /\ sum \in Nat /\ less \in Int /\ pay \in Int
  BY HereType DEF Discount, CallsInv, TypeOK, CallOK, Totals
<1>1. /\ sum = Cardinality(Units(lines, line[c])) /\ pay = (sum - price) - less
      /\ c \notin odd => pay \in 0 .. sum - price
  BY <1>0 DEF TotalsOK, TotalOK, Balance
<1>2. /\ Grants(d, price) /\ Note(c, d)
      /\ total' = [total EXCEPT ![c].discount = @ + amount, ![c].pay = @ + (price - amount)]
  BY DEF Discount
<1>3. d \in Docs /\ amount \in Int
  BY <1>0, <1>2, AmountType
<1>4. ~Senseless(d) => 0 <= amount /\ amount <= price
  BY <1>0, <1>2, <1>3, AmountOf DEF Grants
<1>5. c \notin odd' => c \notin odd /\ ~Senseless(d)
  BY <1>2 DEF Note
<1> HIDE DEF d, amount
<1>6. /\ total'[c].price = sum /\ total'[c].discount = less + amount
      /\ total'[c].pay = pay + (price - amount)
  BY <1>0, <1>2 DEF Totals
<1>7. Balance(c, total[c].price)'
  <2>1. /\ price \in Nat /\ sum \in Nat /\ less \in Int /\ pay \in Int /\ amount \in Int
        /\ pay = (sum - price) - less
        /\ c \notin odd' => pay \in 0 .. sum - price /\ 0 <= amount /\ amount <= price
    BY <1>0, <1>1, <1>3, <1>4, <1>5
  <2> HIDE DEF sum, less, pay, price
  <2>2. pay + (price - amount) = sum - (less + amount)
    BY <2>1
  <2>3. c \notin odd' => pay + (price - amount) \in 0 .. sum
    BY <2>1
  <2> QED
    BY <1>6, <2>2, <2>3 DEF Balance
<1> QED
  BY <1>0, <1>1, <1>6, <1>7, NextLineTotals

LEMMA ServeTotals ==
  ASSUME CallsInv, TotalsOK, NEW c \in Calls, Serve(c)
  PROVE  TotalsOK'
<1>0. /\ pc \in [Calls -> Steps \cup {"idle", "done", "lost"}] /\ request \in [Calls -> Requests]
      /\ ended \in [Calls -> {"none", "ok", "refused"}] /\ CallOK(c)
  BY DEF CallsInv, TypeOK
<1>1. ASSUME NEW e \in Calls, e # c PROVE AddsUp(e)' /\ TotalOK(e)'
  BY <1>1, OthersStay, TotalsStay DEF CallsInv
<1>2. AddsUp(c)' /\ TotalOK(c)'
  <2>1. CASE Arrive(c)
    <3>1. pc[c] = "idle" /\ ended[c] = "none"
      BY <1>0, <2>1 DEF Arrive, AskCreate, AskUpdate, AskByCode, AskPrice, CallOK
    <3>2. pc'[c] \notin {"price", "discount"} /\ ended'[c] # "ok"
      BY <1>0, <2>1, <3>1 DEF Arrive, AskCreate, AskUpdate, AskByCode, AskPrice
    <3> QED
      BY <3>2, NothingToShow
  <2>2. CASE Refuse(c)
    BY <1>0, <2>2, NothingToShow
  <2>3. CASE (FindTwin(c) \/ FindOwn(c) \/ FindCode(c) \/ CallThrows(c)) /\ ~Refuse(c)
    <3>1. pc[c] # "done" /\ pc'[c] \notin {"price", "discount"} /\ UNCHANGED ended
      BY <1>0, <2>3 DEF FindTwin, FindOwn, FindCode, CallThrows
    <3>2. ended'[c] # "ok"
      BY <1>0, <3>1 DEF CallOK
    <3> QED
      BY <3>1, <3>2, NothingToShow
  <2>4. CASE (Insert(c) \/ Update(c) \/ Delete(c) \/ Cancel(c)) /\ ~Refuse(c)
    <3>1. Kind(c) \notin {"quote", "review"} /\ UNCHANGED request /\ pc'[c] = "done"
      BY <1>0, <2>4 DEF Insert, Update, Delete, Cancel, CallOK
    <3> QED
      BY <3>1, NothingToShow
  <2> QED
    BY <2>1, <2>2, <2>3, <2>4, QuoteTotals, ReadCartTotals, PriceTotals, DiscountTotals DEF Serve, Handle
<1> QED
  BY <1>1, <1>2 DEF TotalsOK, TotalsAddUp, AddsUp

-----------------------------------------------------------------------------
(* The end of a code, the stop of the process, and the whole.               *)

LEMMA LapseRest ==
  ASSUME CallsInv, IdsOK, CancelsOK, TwinsOK, TotalsOK, NEW i \in DOMAIN docs, Lapse(i)
  PROVE  IdsOK' /\ CancelsOK' /\ TwinsOK' /\ TotalsOK'
<1>0. /\ docs \in Seq(Docs) /\ docs' \in Seq(Docs) /\ DOMAIN docs' = DOMAIN docs
      /\ Len(docs') = Len(docs) /\ DOMAIN docs = 1 .. Len(docs)
  <2>1. TypeOK /\ docs \in Seq(Docs)
    BY DEF CallsInv, TypeOK
  <2>2. docs' \in Seq(Docs) /\ Len(docs') = Len(docs)
    BY <2>1, LapseDoc
  <2> QED
    BY <2>1, <2>2
<1>1. ASSUME NEW j \in DOMAIN docs
      PROVE  /\ docs'[j].id = docs[j].id /\ docs'[j].used = docs[j].used /\ docs'[j].code = docs[j].code
             /\ docs'[j].maxUsers = docs[j].maxUsers /\ docs'[j].active = docs[j].active
  <2>1. docs'[j] = IF j = i THEN [docs[i] EXCEPT !.open = FALSE] ELSE docs[j]
    BY <1>0, LapseDoc DEF CallsInv
  <2>2. docs[i] \in Docs
    BY <1>0
  <2> QED
    BY <2>1, <2>2 DEF Docs
<1>2. UNCHANGED <<request, pc, line, total, ended, given, cancels, deleted, raced, loose, odd>>
  BY DEF Lapse
<1>3. IdsOK'
  BY <1>0, <1>1, <1>2, SameIds DEF Created
<1>4. CancelsOK'
  <2>1. EveryCancelCounts'
    BY <1>0, <1>1, <1>2 DEF CancelsOK, EveryCancelCounts
  <2> QED
    BY <1>2, <2>1 DEF CancelsOK, CancelledOK, Created
<1>5. TwinsOK'
  <2>1. \A j \in 1 .. Len(docs) : Kin(j, j)
    BY <1>0, <1>1 DEF Kin
  <2> QED
    BY <1>0, <1>2, <2>1, StillTwins
<1>6. TotalsOK'
  <2>1. \A d \in Calls : AddsUp(d)' /\ TotalOK(d)'
    BY <1>2, TotalsStay
  <2> QED
    BY <2>1 DEF TotalsOK, TotalsAddUp, AddsUp
<1> QED
  BY <1>3, <1>4, <1>5, <1>6

LEMMA CrashRest ==
  ASSUME CallsInv, IdsOK, CancelsOK, TwinsOK, TotalsOK, Crash
  PROVE  IdsOK' /\ CancelsOK' /\ TwinsOK' /\ TotalsOK'
<1>1. UNCHANGED <<docs, request, ended, given, cancels, deleted, raced, loose, odd>>
  BY DEF Crash
<1>2. \A d \in Calls : pc'[d] = IF pc[d] \in Steps THEN "lost" ELSE pc[d]
  BY DEF Crash
<1>3. IdsOK'
  BY <1>1, SameIds DEF Created, CallsInv, TypeOK
<1>4. CancelsOK'
  <2>1. ASSUME NEW d \in Calls, NEW f \in Counters PROVE CancelledOK(d, f)'
    <3>1. CancelledOK(d, f) /\ cancels[d][f] \subseteq Calls
      BY DEF CancelsOK
    <3>2. \A e \in cancels[d][f] : pc'[e] = "done"
      BY <1>2, <3>1 DEF CancelledOK, Steps
    <3> QED
      BY <1>1, <3>1, <3>2 DEF CancelledOK, Created
  <2> QED
    BY <1>1, <2>1 DEF CancelsOK, EveryCancelCounts
<1>5. TwinsOK'
  BY <1>1, <1>2 DEF TwinsOK, TwinsHaveCause
<1>6. ASSUME NEW d \in Calls PROVE AddsUp(d)' /\ TotalOK(d)'
  <2>1. CASE pc[d] \in Steps
    <3>1. pc'[d] = "lost" /\ ended'[d] = "none"
      BY <1>1, <1>2, <2>1 DEF CallsInv, CallOK, Steps
    <3> QED
      BY <3>1, NothingToShow
  <2>2. CASE pc[d] \notin Steps
    <3>1. pc'[d] = pc[d] /\ line'[d] = line[d] /\ total'[d] = total[d]
      BY <1>2, <2>2 DEF Crash, Forget
    <3> QED
      BY <1>1, <3>1, TotalsStay
  <2> QED
    BY <2>1, <2>2
<1>7. TotalsOK'
  BY <1>6 DEF TotalsOK, TotalsAddUp, AddsUp
<1> QED
  BY <1>3, <1>4, <1>5, <1>7

LEMMA StutterRest ==
  ASSUME CallsInv, IdsOK, CancelsOK, TwinsOK, TotalsOK, UNCHANGED vars
  PROVE  IdsOK' /\ CancelsOK' /\ TwinsOK' /\ TotalsOK'
<1> USE DEF vars
<1>1. IdsOK'
  BY SameIds DEF Created, CallsInv, TypeOK
<1>2. CancelsOK'
  BY DEF CancelsOK, CancelledOK, EveryCancelCounts, Created
<1>3. TwinsOK'
  BY DEF TwinsOK, TwinsHaveCause
<1>4. \A d \in Calls : AddsUp(d)' /\ TotalOK(d)'
  BY TotalsStay
<1>5. TotalsOK'
  BY <1>4 DEF TotalsOK, TotalsAddUp, AddsUp
<1> QED
  BY <1>1, <1>2, <1>3, <1>5

LEMMA InitInv == Init => IInv
<1> SUFFICES ASSUME Init PROVE IInv
  OBVIOUS
<1> USE DEF Init
<1>1. docs = <<>> /\ DOMAIN docs = {} /\ docs \in Seq(Docs) /\ Len(docs) = 0
  OBVIOUS
<1>2. [kind |-> "none", code |-> NoCode, what |-> NoDoc, lines |-> <<>>] \in Requests
  BY DEF Requests, Kinds
<1>3. CallsInv
  BY <1>1, <1>2 DEF CallsInv, TypeOK, CallOK, Blank
<1>4. IdsOK
  <2>1. Ids = {} /\ Created = {}
    BY <1>1 DEF Ids, Created
  <2> QED
    BY <1>1, <2>1, FS_EmptySet DEF IdsOK, DeletedStaysDeleted, Created
<1>5. CancelsOK
  BY <1>1, FS_EmptySet DEF CancelsOK, CancelledOK, EveryCancelCounts
<1>6. TwinsOK
  BY <1>1 DEF TwinsOK, TwinsHaveCause
<1>7. TotalsOK
  BY DEF TotalsOK, TotalsAddUp, TotalOK
<1> QED
  BY <1>3, <1>4, <1>5, <1>6, <1>7 DEF IInv

LEMMA NextInv == IInv /\ [Next]_vars => IInv'
<1> SUFFICES ASSUME IInv, [Next]_vars PROVE IInv'
  OBVIOUS
<1>0. CallsInv /\ IdsOK /\ CancelsOK /\ TwinsOK /\ TotalsOK
  BY DEF IInv
<1>1. CASE \E c \in Calls : Arrive(c) \/ Handle(c)
  <2>1. PICK c \in Calls : Serve(c)
    BY <1>1 DEF Serve
  <2> QED
    BY <1>0, <2>1, ServeCalls, ServeIds, ServeCancels, ServeTwins, ServeTotals DEF IInv
<1>2. CASE \E i \in DOMAIN docs : Lapse(i)
  BY <1>0, <1>2, OtherCalls, LapseRest DEF IInv
<1>3. CASE Crash
  BY <1>0, <1>3, OtherCalls, CrashRest DEF IInv
<1>4. CASE UNCHANGED vars
  BY <1>0, <1>4, OtherCalls, StutterRest DEF IInv
<1> QED
  BY <1>1, <1>2, <1>3, <1>4 DEF Next, Quiet

\* What the calls, the collection and the histories say of each other holds in every state of
\* the program (discount.service.js and checkoutReview), whatever the calls and the carts are
\* and whichever fields the updates bring, the counters among them.
THEOREM Invariance == Spec => []IInv
<1>1. Init => IInv
  BY InitInv
<1>2. IInv /\ [Next]_vars => IInv'
  BY NextInv
<1> QED
  BY <1>1, <1>2, PTL DEF Spec

\* Two active documents of one code come of two creates that were at it together, or of a
\* document that was inactive or renamed (createDiscountCode, the lookup before the save).
THEOREM TwinsAreCaused == Spec => []TwinsHaveCause
<1>1. IInv => TwinsHaveCause
  BY DEF IInv, TwinsOK
<1> QED
  BY <1>1, Invariance, PTL

\* No update and no cancellation brings a deleted document back, and the collection is that
\* of the documents created and not deleted (deleteDiscountCode beside findByIdAndUpdate).
THEOREM DeletedAreGone == Spec => []DeletedStaysDeleted
<1>1. IInv => DeletedStaysDeleted
  BY DEF IInv, IdsOK
<1> QED
  BY <1>1, Invariance, PTL

\* A counter is what the creation or the last update that named it set, and one more or less
\* for every cancellation since, whatever runs beside it (the $inc of cancelDiscountCode, the
\* unfiltered body of updateDiscountCode).
THEOREM CancelsAreCounted == Spec => []EveryCancelCounts
<1>1. IInv => EveryCancelCounts
  BY DEF IInv, CancelsOK
<1> QED
  BY <1>1, Invariance, PTL

\* The totals of a review add up over carts of any length and at any prices, though the codes
\* change between its lines (checkoutReview over getDiscountAmount).
THEOREM TotalsAreSums == Spec => []TotalsAddUp
<1>1. IInv => TotalsAddUp
  BY DEF IInv, TotalsOK
<1> QED
  BY <1>1, Invariance, PTL
===============================================================================
