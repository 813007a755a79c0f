-------------------------- MODULE CatalogueProofs --------------------------
(***************************************************************************)
(* The catalogue, for every value of its constants: a product is created   *)
(* whole or not shown, its two sets of attributes differ for a reason, and *)
(* a stale list is about to be deleted.                                    *)
(***************************************************************************)
EXTENDS Catalogue, TLAPS

Values == Calls \cup {"none", "original"}
Texts == [Attributes -> Values]

DocumentsOK ==
  /\ typed \in [Products -> Texts] /\ attributes \in [Products -> Texts]
  /\ listed \in [Products -> {"absent", "draft", "published"}]
  /\ stocked \in [Products -> BOOLEAN] /\ mixed \in [Products -> BOOLEAN]
  /\ admits \in [Queries -> SUBSET Products]

CallsOK ==
  /\ pc \in [Calls -> Steps \cup {"done", "failed"}]
  /\ todo \in [Calls -> SUBSET {"detail", "scan", "del"}]
  /\ DOMAIN found = Calls /\ found = [c \in Calls |-> found[c]]
  /\ overtaken \in [Calls -> BOOLEAN]

ListsOK ==
  /\ filled \in [ListKeys -> Queries \cup {NoQuery}]
  /\ shows \in [ListKeys -> SUBSET Products]
  /\ suspect \in [ListKeys -> BOOLEAN]

\* A call takes the steps of its own operation, and only an invalidation has deletions left.
StepOK(c) ==
  /\ pc[c] \in {"createProduct", "insertInventory"} => OpOf[c] = "create"
  /\ pc[c] = "updateProduct" => OpOf[c] = "update" /\ found[c] \subseteq Attributes
  /\ pc[c] \in {"readProduct", "storeDetail"} => OpOf[c] = "detail"
  /\ pc[c] \in {"readList", "storeList"} => OpOf[c] = "list"
  /\ pc[c] \in {"invalidate", "sweepOn"} => OpOf[c] \in {"create", "publish", "unpublish"}
  /\ pc[c] = "storeList" => found[c] \subseteq Products
  /\ pc[c] \notin {"invalidate", "sweepOn"} => todo[c] = {}

TypeInv == DocumentsOK /\ CallsOK /\ ListsOK /\ \A c \in Calls : StepOK(c)

\* How far a creation has come, and what there is by then.
CreationOK(c) ==
  OpOf[c] = "create" =>
    LET p == TargetOf[c] IN
    /\ pc[c] = "ready" => typed[p] = None
    /\ pc[c] = "createProduct" => typed[p] # None
    /\ pc[c] \in {"ready", "createProduct"} => listed[p] = "absent"
    /\ pc[c] = "insertInventory" => listed[p] # "absent"
    /\ pc[c] \in {"invalidate", "done"} => stocked[p]

ProductsOK ==
  \A p \in Products :
    /\ stocked[p] => listed[p] # "absent"
    /\ listed[p] # "absent" => typed[p] # None

CreateInv == ProductsOK /\ \A c \in Calls : CreationOK(c)

\* An update between its two writes is the only one, or the product is mixed.
UpdateOK(c) ==
  pc[c] = "updateProduct" =>
    LET p == TargetOf[c] IN
    /\ typed[p] # None
    /\ ~mixed[p] => /\ \A d \in Updating(p) : d = c
                    /\ \A a \in found[c] : typed[p][a] = c

\* Until the product is written, its typed document is as the creation left it.
StillWhole(c) ==
  pc[c] = "createProduct" =>
    LET p == TargetOf[c] IN Updating(p) = {} /\ ~mixed[p] => typed[p] = Whole(c)

AgreeInv == AttributesAgree /\ \A c \in Calls : UpdateOK(c) /\ StillWhole(c)

\* A reader whose list was not overtaken holds what its query finds.
ReaderOK(c) == pc[c] = "storeList" /\ ~overtaken[c] => found[c] = Visible(TargetOf[c])

ListInv == StaleListIsSwept /\ \A c \in Calls : ReaderOK(c)

CInv == TypeInv /\ CreateInv /\ AgreeInv /\ ListInv

USE DEF documents, cache, calls, history, vars, Steps, Ops, InProgress, Values, Texts, None, Whole

-----------------------------------------------------------------------------
(* The calls and their steps.                                               *)

LEMMA Targets ==
  ASSUME NEW c \in Calls
  PROVE  /\ OpOf[c] \in Ops
         /\ OpOf[c] = "list" => TargetOf[c] \in Queries /\ ListKeyOf[TargetOf[c]] \in ListKeys
         /\ OpOf[c] # "list" => TargetOf[c] \in Products
BY CatalogueAssumption

\* None is not what anybody writes.
LEMMA WholeIsSome ==
  ASSUME NEW c \in Calls PROVE Whole(c) # None /\ Whole("original") # None
<1>1. PICK a \in Attributes : TRUE
  BY CatalogueAssumption
<1>2. Whole(c)[a] = c /\ Whole("original")[a] = "original" /\ None[a] = "none" /\ c # "none"
  BY CatalogueAssumption
<1> QED
  BY <1>2

\* A step of one call leaves the others where they are.
LEMMA OthersStay ==
  ASSUME TypeInv, NEW c \in Calls, Serve(c), NEW d \in Calls, d # c
  PROVE  pc'[d] = pc[d] /\ todo'[d] = todo[d] /\ found'[d] = found[d]
<1> USE DEF TypeInv, CallsOK, Goto, Enters
<1>1. CASE CreateTyped(c) \/ CreateProduct(c) \/ InsertInventory(c)
  BY <1>1 DEF CreateTyped, CreateProduct, InsertInventory, StartInvalidation
<1>2. CASE SetPublished(c) \/ UpdateTyped(c) \/ UpdateProduct(c) \/ UpdateOthers(c)
  BY <1>2 DEF SetPublished, UpdateTyped, UpdateProduct, UpdateOthers, StartInvalidation
<1>3. CASE DeleteDetail(c) \/ ScanLists(c) \/ DeleteLists(c) \/ DeletionThrows(c)
  BY <1>3 DEF DeleteDetail, ScanLists, DeleteLists, DeletionThrows
<1>4. CASE GetDetail(c) \/ ReadProduct(c) \/ StoreDetail(c)
  BY <1>4 DEF GetDetail, ReadProduct, StoreDetail
<1>5. CASE GetList(c) \/ ReadList(c) \/ StoreList(c) \/ Throws(c)
  BY <1>5 DEF GetList, ReadList, StoreList, Throws
<1> QED
  BY <1>1, <1>2, <1>3, <1>4, <1>5 DEF Serve


-----------------------------------------------------------------------------
(* Types, and the steps that belong to each operation.                      *)

\* What an update does to the answers of the queries.
LEMMA Refiled ==
  ASSUME TypeInv, NEW p \in Products, Refiles(p)
  PROVE  /\ admits' \in [Queries -> SUBSET Products]
         /\ overtaken' \in [Calls -> BOOLEAN]
         /\ suspect' \in [ListKeys -> BOOLEAN]
<1> USE DEF TypeInv, DocumentsOK
<1>1. PICK through \in SUBSET Filtered :
        /\ admits' = [q \in Queries |-> IF q \in through THEN admits[q] \cup {p}
                                       ELSE IF q \in Filtered THEN admits[q] \ {p} ELSE admits[q]]
        /\ \E moved \in SUBSET Queries :
             /\ overtaken' = [d \in Calls |-> overtaken[d] \/ (pc[d] = "storeList" /\ TargetOf[d] \in moved)]
             /\ suspect' = [k \in ListKeys |-> suspect[k] \/ filled[k] \in moved]
  BY DEF Refiles
<1>2. PICK moved \in SUBSET Queries :
        /\ overtaken' = [d \in Calls |-> overtaken[d] \/ (pc[d] = "storeList" /\ TargetOf[d] \in moved)]
        /\ suspect' = [k \in ListKeys |-> suspect[k] \/ filled[k] \in moved]
  BY <1>1
<1>3. admits' \in [Queries -> SUBSET Products]
  BY <1>1
<1>4. overtaken' \in [Calls -> BOOLEAN]
  BY <1>2, Zenon
<1>5. suspect' \in [ListKeys -> BOOLEAN]
  BY <1>2, Zenon
<1> QED
  BY <1>3, <1>4, <1>5

LEMMA DocumentsStep ==
  ASSUME TypeInv, NEW c \in Calls, Serve(c)
  PROVE  DocumentsOK'
<1> USE DEF TypeInv, DocumentsOK
<1>1. CASE CreateTyped(c) \/ CreateProduct(c) \/ InsertInventory(c)
  <2>1. Whole(c) \in Texts /\ TargetOf[c] \in Products
    BY <1>1, Targets DEF CreateTyped, CreateProduct, InsertInventory, Enters, StepOK
  <2>2. CASE CreateTyped(c)
    BY <2>1, <2>2 DEF CreateTyped
  <2>3. CASE CreateProduct(c)
    BY <2>1, <2>3 DEF CreateProduct
  <2>4. CASE InsertInventory(c)
    BY <2>1, <2>4 DEF InsertInventory
  <2> QED
    BY <1>1, <2>2, <2>3, <2>4
<1>2. CASE SetPublished(c)
  <2>1. TargetOf[c] \in Products
    BY <1>2, Targets DEF SetPublished, Enters
  <2> QED
    BY <1>2, <2>1 DEF SetPublished
<1>3. CASE UpdateTyped(c)
  <2>1. TargetOf[c] \in Products
    BY <1>3, Targets DEF UpdateTyped, Enters
  <2>2. ASSUME NEW body \in Bodies PROVE SetIn(typed[TargetOf[c]], body, c) \in Texts
    BY <2>1 DEF SetIn
  <2>3. typed' \in [Products -> Texts]
    <3>1. \/ typed' = typed
          \/ \E body \in Bodies :
               typed' = [typed EXCEPT ![TargetOf[c]] = SetIn(typed[TargetOf[c]], body, c)]
      BY <1>3 DEF UpdateTyped
    <3> HIDE DEF Texts
    <3> QED
      BY <2>1, <2>2, <3>1
  <2>4. mixed' \in [Products -> BOOLEAN]
    <3>1. mixed' = mixed \/ \E b \in BOOLEAN : mixed' = [mixed EXCEPT ![TargetOf[c]] = b]
      BY <1>3 DEF UpdateTyped
    <3> QED
      BY <2>1, <3>1
  <2> QED
    BY <1>3, <2>3, <2>4 DEF UpdateTyped
<1>4. CASE UpdateProduct(c)
  <2>1. TargetOf[c] \in Products
    BY <1>4, Targets DEF UpdateProduct, StepOK
  <2>2. SetIn(None, found[c], c) \in Texts
    BY DEF SetIn
  <2>3. admits' \in [Queries -> SUBSET Products]
    BY <1>4, <2>1, Refiled DEF UpdateProduct
  <2>4. mixed' \in [Products -> BOOLEAN]
    BY <1>4, <2>1 DEF UpdateProduct
  <2> QED
    BY <1>4, <2>1, <2>2, <2>3, <2>4 DEF UpdateProduct
<1>8. CASE UpdateOthers(c)
  <2>1. TargetOf[c] \in Products
    BY <1>8, Targets DEF UpdateOthers, Enters
  <2>2. admits' \in [Queries -> SUBSET Products]
    BY <1>8, <2>1, Refiled DEF UpdateOthers
  <2> QED
    BY <1>8, <2>2 DEF UpdateOthers
<1>5. CASE DeleteDetail(c) \/ ScanLists(c) \/ DeleteLists(c) \/ DeletionThrows(c)
  BY <1>5 DEF DeleteDetail, ScanLists, DeleteLists, DeletionThrows
<1>6. CASE GetDetail(c) \/ ReadProduct(c) \/ StoreDetail(c) \/ GetList(c) \/ ReadList(c) \/ StoreList(c)
  BY <1>6 DEF GetDetail, ReadProduct, StoreDetail, GetList, ReadList, StoreList
<1>7. CASE Throws(c)
  BY <1>7 DEF Throws
<1> QED
  BY <1>1, <1>2, <1>3, <1>4, <1>5, <1>6, <1>7, <1>8 DEF Serve

LEMMA CallsStep ==
  ASSUME TypeInv, NEW c \in Calls, Serve(c)
  PROVE  CallsOK'
<1> USE DEF TypeInv, CallsOK, Goto, Enters
<1>1. CASE CreateTyped(c) \/ CreateProduct(c) \/ InsertInventory(c)
  BY <1>1 DEF CreateTyped, CreateProduct, InsertInventory, StartInvalidation, ToInvalidate, AfterCreateProduct
<1>2. CASE SetPublished(c)
  <2>1. overtaken' \in [Calls -> BOOLEAN]
    BY <1>2, Zenon DEF SetPublished
  <2>2. pc' \in [Calls -> Steps \cup {"done", "failed"}] /\ todo' \in [Calls -> SUBSET {"detail", "scan", "del"}]
    BY <1>2 DEF SetPublished, StartInvalidation, ToInvalidate
  <2> QED
    BY <1>2, <2>1, <2>2 DEF SetPublished
<1>3. CASE UpdateTyped(c) \/ UpdateProduct(c) \/ UpdateOthers(c)
  <2>1. overtaken' \in [Calls -> BOOLEAN]
    <3>1. pc[c] = "updateProduct" \/ OpOf[c] = "update" => TargetOf[c] \in Products
      BY Targets DEF StepOK
    <3> QED
      BY <1>3, <3>1, Refiled DEF UpdateTyped, UpdateProduct, UpdateOthers
  <2>2. /\ pc' \in [Calls -> Steps \cup {"done", "failed"}] /\ todo' = todo
        /\ DOMAIN found' = Calls /\ found' = [d \in Calls |-> found'[d]]
    BY <1>3 DEF UpdateTyped, UpdateProduct, UpdateOthers, AfterUpdateTyped
  <2> QED
    BY <2>1, <2>2
<1>4. CASE DeleteDetail(c) \/ ScanLists(c) \/ DeleteLists(c)
  BY <1>4 DEF DeleteDetail, ScanLists, DeleteLists, AfterDeletion
<1>5. CASE DeletionThrows(c)
  <2>1. PICK d \in todo[c] :
          /\ todo' = [todo EXCEPT ![c] = @ \ {d}]
          /\ found' = [found EXCEPT ![c] = IF d = "del" THEN {} ELSE @]
    BY <1>5 DEF DeletionThrows
  <2>2. todo[c] \ {d} \in SUBSET {"detail", "scan", "del"}
    OBVIOUS
  <2>3. todo' \in [Calls -> SUBSET {"detail", "scan", "del"}]
    BY <2>1, <2>2
  <2>4. DOMAIN found' = Calls /\ found' = [e \in Calls |-> found'[e]]
    BY <2>1
  <2> QED
    BY <1>5, <2>3, <2>4 DEF DeletionThrows
<1>6. CASE GetDetail(c) \/ ReadProduct(c) \/ StoreDetail(c)
  BY <1>6 DEF GetDetail, ReadProduct, StoreDetail
<1>7. CASE GetList(c) \/ ReadList(c) \/ StoreList(c) \/ Throws(c)
  BY <1>7 DEF GetList, ReadList, StoreList, Throws
<1> QED
  BY <1>1, <1>2, <1>3, <1>4, <1>5, <1>6, <1>7 DEF Serve

LEMMA Doubted ==
  ASSUME TypeInv, DoubtLists PROVE suspect' \in [ListKeys -> BOOLEAN]
BY Zenon DEF TypeInv, ListsOK, DoubtLists

LEMMA ListsStep ==
  ASSUME TypeInv, NEW c \in Calls, Serve(c)
  PROVE  ListsOK'
<1> USE DEF TypeInv, ListsOK
<1>1. CASE StoreList(c)
  <2>1. TargetOf[c] \in Queries /\ ListKeyOf[TargetOf[c]] \in ListKeys /\ found[c] \subseteq Products
    BY <1>1, Targets DEF StoreList, StepOK
  <2> QED
    BY <1>1, <2>1 DEF StoreList, CallsOK
<1>2. CASE DeleteLists(c)
  BY <1>2 DEF DeleteLists
<1>3. CASE DeletionThrows(c)
  <2>1. UNCHANGED <<filled, shows>> /\ (suspect' = suspect \/ DoubtLists)
    BY <1>3 DEF DeletionThrows
  <2> QED
    BY <2>1, Doubted
<1>4. CASE CreateTyped(c) \/ CreateProduct(c) \/ InsertInventory(c) \/ SetPublished(c)
  BY <1>4 DEF CreateTyped, CreateProduct, InsertInventory, SetPublished
<1>5. CASE UpdateTyped(c) \/ DeleteDetail(c) \/ Throws(c)
  BY <1>5 DEF UpdateTyped, DeleteDetail, Throws
<1>7. CASE UpdateProduct(c) \/ UpdateOthers(c)
  <2>1. TargetOf[c] \in Products
    BY <1>7, Targets DEF UpdateProduct, UpdateOthers, Enters, StepOK
  <2>2. UNCHANGED <<filled, shows>> /\ (suspect' = suspect \/ Refiles(TargetOf[c]))
    BY <1>7 DEF UpdateProduct, UpdateOthers
  <2> QED
    BY <2>1, <2>2, Refiled
<1>8. CASE ScanLists(c)
  <2>1. UNCHANGED <<filled, shows>>
    BY <1>8 DEF ScanLists
  <2>2. \/ suspect' = suspect
        \/ \E first \in ListKeys : suspect' = [k \in ListKeys |-> suspect[k] \/ (k # first /\ Stale(k))]
    BY <1>8 DEF ScanLists
  <2>3. suspect' \in [ListKeys -> BOOLEAN]
    BY <2>2, Zenon
  <2> QED
    BY <2>1, <2>3
<1>6. CASE GetDetail(c) \/ ReadProduct(c) \/ StoreDetail(c) \/ GetList(c) \/ ReadList(c)
  BY <1>6 DEF GetDetail, ReadProduct, StoreDetail, GetList, ReadList
<1> QED
  BY <1>1, <1>2, <1>3, <1>4, <1>5, <1>6, <1>7, <1>8 DEF Serve

LEMMA StepsStep ==
  ASSUME TypeInv, NEW c \in Calls, Serve(c), NEW d \in Calls
  PROVE  StepOK(d)'
<1>1. CASE d # c
  BY <1>1, OthersStay DEF TypeInv, StepOK
<1>2. CASE d = c
  <2> USE <1>2 DEF TypeInv, CallsOK, Goto, Enters, StepOK
  <2>1. CASE CreateTyped(c) \/ CreateProduct(c) \/ InsertInventory(c)
    BY <2>1 DEF CreateTyped, CreateProduct, InsertInventory, StartInvalidation, ToInvalidate, AfterCreateProduct
  <2>2. CASE SetPublished(c)
    BY <2>2 DEF SetPublished, StartInvalidation, ToInvalidate
  <2>3. CASE UpdateTyped(c)
    BY <2>3, CatalogueAssumption DEF UpdateTyped, AfterUpdateTyped
  <2>4. CASE UpdateProduct(c) \/ UpdateOthers(c) \/ Throws(c)
    BY <2>4 DEF UpdateProduct, UpdateOthers, Throws
  <2>5. CASE DeleteDetail(c) \/ ScanLists(c) \/ DeleteLists(c)
    BY <2>5 DEF DeleteDetail, ScanLists, DeleteLists, Deleting, AfterDeletion
  <2>6. CASE DeletionThrows(c)
    BY <2>6 DEF DeletionThrows
  <2>7. CASE GetDetail(c) \/ ReadProduct(c) \/ StoreDetail(c)
    BY <2>7 DEF GetDetail, ReadProduct, StoreDetail
  <2>8. CASE GetList(c) \/ ReadList(c) \/ StoreList(c)
    BY <2>8, Targets DEF GetList, ReadList, StoreList, Visible, DocumentsOK
  <2> QED
    BY <2>1, <2>2, <2>3, <2>4, <2>5, <2>6, <2>7, <2>8 DEF Serve
<1> QED
  BY <1>1, <1>2

\* What is not a step of a call, beyond a crash.
LEMMA Expiry ==
  ASSUME [Next]_vars
  PROVE  \/ \E c \in Calls : Serve(c)
         \/ Crash
         \/ /\ UNCHANGED <<documents, calls, overtaken, mixed>>
            /\ \/ UNCHANGED <<filled, shows, suspect>>
               \/ \E k \in ListKeys : ListExpires(k)
BY DEF Next, Quiet, DetailExpires, ListExpires

LEMMA TypeStep ==
  ASSUME TypeInv, [Next]_vars
  PROVE  TypeInv'
<1>1. ASSUME NEW c \in Calls, Serve(c) PROVE TypeInv'
  BY <1>1, DocumentsStep, CallsStep, ListsStep, StepsStep DEF TypeInv
<1>2. CASE Crash
  <2>1. CallsOK' /\ \A c \in Calls : StepOK(c)'
    BY <1>2 DEF Crash, TypeInv, CallsOK, StepOK
  <2>2. DocumentsOK' /\ ListsOK'
    <3>1. UNCHANGED <<documents, filled, shows>> /\ (suspect' = suspect \/ DoubtLists)
      BY <1>2 DEF Crash
    <3>2. mixed' \in [Products -> BOOLEAN]
      BY <1>2, Zenon DEF Crash, TypeInv, DocumentsOK
    <3> QED
      BY <3>1, <3>2, Doubted DEF TypeInv, DocumentsOK, ListsOK
  <2> QED
    BY <2>1, <2>2 DEF TypeInv
<1>3. CASE UNCHANGED <<documents, calls, overtaken, mixed>>
  <2>1. DocumentsOK' /\ CallsOK' /\ \A c \in Calls : StepOK(c)'
    BY <1>3 DEF TypeInv, DocumentsOK, CallsOK, StepOK
  <2>2. ASSUME UNCHANGED <<filled, shows, suspect>> \/ \E k \in ListKeys : ListExpires(k)
        PROVE  ListsOK'
    BY <2>2 DEF TypeInv, ListsOK, ListExpires
  <2> QED
    BY <1>1, <1>2, <2>1, <2>2, Expiry DEF TypeInv
<1> QED
  BY <1>1, <1>2, <1>3, Expiry

-----------------------------------------------------------------------------
(* A product is created whole.                                              *)

\* Which steps write what.
LEMMA Writers ==
  ASSUME NEW c \in Calls, Serve(c)
  PROVE  /\ typed' = typed \/ CreateTyped(c) \/ UpdateTyped(c)
         /\ listed' = listed \/ CreateProduct(c) \/ SetPublished(c)
         /\ stocked' = stocked \/ InsertInventory(c)
         /\ attributes' = attributes \/ CreateProduct(c) \/ UpdateProduct(c)
         /\ mixed' = mixed \/ UpdateTyped(c) \/ UpdateProduct(c) \/ Throws(c)
         /\ admits' = admits \/ UpdateProduct(c) \/ UpdateOthers(c)
BY DEF Serve, CreateTyped, CreateProduct, InsertInventory, SetPublished, UpdateTyped, UpdateProduct,
   UpdateOthers, DeleteDetail, ScanLists, DeleteLists, GetDetail, ReadProduct, StoreDetail, GetList,
   ReadList, StoreList, Throws, DeletionThrows

\* The first write of an update, or its refusal.
Begins(c) ==
  LET p == TargetOf[c] IN
  /\ p \in Products /\ typed[p] # None /\ OpOf[c] = "update"
  /\ \E body \in SUBSET Attributes :
       /\ typed' = [typed EXCEPT ![p] = SetIn(typed[p], body, c)]
       /\ found' = [found EXCEPT ![c] = body]
  /\ mixed' = [mixed EXCEPT ![p] = Updating(p) # {}]
  /\ pc[c] = "ready" /\ pc' = [pc EXCEPT ![c] = "updateProduct"]

LEMMA TypedUpdate ==
  ASSUME TypeInv, NEW c \in Calls, UpdateTyped(c)
  PROVE  \/ Begins(c)
         \/ pc' = [pc EXCEPT ![c] = "failed"] /\ UNCHANGED <<typed, mixed>>
BY Targets, CatalogueAssumption DEF UpdateTyped, Enters, Goto, AfterUpdateTyped, Begins

\* Documents come, and do not go.
LEMMA Grows ==
  ASSUME TypeInv, NEW c \in Calls, Serve(c), NEW p \in Products
  PROVE  /\ listed[p] # "absent" => listed'[p] # "absent"
         /\ stocked[p] => stocked'[p]
         /\ typed[p] # None => typed'[p] # None
<1> USE DEF TypeInv, DocumentsOK
<1>1. listed[p] # "absent" => listed'[p] # "absent"
  <2>1. CASE CreateProduct(c)
    BY <2>1 DEF CreateProduct
  <2>2. CASE SetPublished(c)
    BY <2>2 DEF SetPublished
  <2> QED
    BY <2>1, <2>2, Writers
<1>2. stocked[p] => stocked'[p]
  BY Writers DEF InsertInventory
<1>3. typed[p] # None => typed'[p] # None
  <2>1. CASE CreateTyped(c)
    BY <2>1, WholeIsSome DEF CreateTyped
  <2>2. CASE UpdateTyped(c) /\ typed' # typed
    <3> DEFINE q == TargetOf[c]
    <3>1. PICK body \in SUBSET Attributes : typed' = [typed EXCEPT ![q] = SetIn(typed[q], body, c)]
      BY <2>2, TypedUpdate DEF Begins
    <3>2. ASSUME p = q, typed[p] # None PROVE SetIn(typed[p], body, c) # None
      <4>1. PICK a \in Attributes : typed[p][a] # "none"
        BY <3>2
      <4>2. SetIn(typed[p], body, c)[a] # "none"
        BY <4>1, CatalogueAssumption DEF SetIn
      <4> QED
        BY <4>2
    <3> QED
      BY <3>1, <3>2
  <2> QED
    BY <2>1, <2>2, Writers
<1> QED
  BY <1>1, <1>2, <1>3

\* Nobody else makes a product that a call is to create.
LEMMA NotYet ==
  ASSUME TypeInv, NEW c \in Calls, Serve(c), NEW d \in Calls, d # c, OpOf[d] = "create"
  PROVE  LET p == TargetOf[d] IN
         /\ typed[p] = None => typed'[p] = None
         /\ listed[p] = "absent" => listed'[p] = "absent"
<1> DEFINE p == TargetOf[d]
<1> USE DEF TypeInv, DocumentsOK
<1>1. p \in Products /\ (OpOf[c] = "create" => TargetOf[c] # p)
  BY CatalogueAssumption
<1>2. typed[p] = None => typed'[p] = None
  <2>1. CASE CreateTyped(c)
    BY <1>1, <2>1 DEF CreateTyped, Enters
  <2>2. CASE UpdateTyped(c) /\ typed' # typed
    BY <1>1, <2>2, TypedUpdate DEF Begins
  <2> QED
    BY <2>1, <2>2, Writers
<1>3. listed[p] = "absent" => listed'[p] = "absent"
  <2>1. CASE CreateProduct(c)
    BY <1>1, <2>1 DEF CreateProduct, StepOK
  <2>2. CASE SetPublished(c)
    BY <1>1, <2>2 DEF SetPublished
  <2> QED
    BY <2>1, <2>2, Writers
<1> QED
  BY <1>2, <1>3

\* The creation itself.
LEMMA CreationStep ==
  ASSUME TypeInv, CreateInv, NEW c \in Calls, Serve(c), OpOf[c] = "create"
  PROVE  CreationOK(c)'
<1> DEFINE p == TargetOf[c]
<1> USE DEF TypeInv, CallsOK, DocumentsOK, Goto
<1>1. p \in Products /\ CreationOK(c) /\ StepOK(c)
  BY CatalogueAssumption DEF CreateInv
<1>2. CASE CreateTyped(c)
  BY <1>1, <1>2, WholeIsSome DEF CreateTyped, Enters, CreationOK
<1>3. CASE CreateProduct(c)
  BY <1>1, <1>3 DEF CreateProduct, AfterCreateProduct, CreationOK
<1>4. CASE InsertInventory(c)
  BY <1>1, <1>4 DEF InsertInventory, StartInvalidation, CreationOK
<1>5. CASE DeleteDetail(c) \/ ScanLists(c) \/ DeleteLists(c)
  BY <1>1, <1>5 DEF DeleteDetail, ScanLists, DeleteLists, Deleting, AfterDeletion, CreationOK
<1>6. CASE DeletionThrows(c) \/ Throws(c)
  BY <1>1, <1>6 DEF DeletionThrows, Throws, CreationOK
<1>7. pc[c] \notin {"updateProduct", "readProduct", "storeDetail", "readList", "storeList"}
  BY <1>1 DEF StepOK
<1> QED
  BY <1>2, <1>3, <1>4, <1>5, <1>6, <1>7
     DEF Serve, SetPublished, UpdateTyped, UpdateProduct, UpdateOthers, GetDetail, ReadProduct,
         StoreDetail, GetList, ReadList, StoreList, Enters

LEMMA CreateStep ==
  ASSUME TypeInv, CreateInv, [Next]_vars
  PROVE  CreateInv'
<1>1. ASSUME NEW c \in Calls, Serve(c) PROVE CreateInv'
  <2>1. ASSUME NEW p \in Products
        PROVE  /\ stocked'[p] => listed'[p] # "absent"
               /\ listed'[p] # "absent" => typed'[p] # None
    <3> USE DEF CreateInv, ProductsOK, TypeInv, DocumentsOK
    <3>1. CASE InsertInventory(c)
      BY <1>1, <2>1, <3>1, Grows, Targets DEF InsertInventory, StepOK, CreationOK
    <3>2. CASE CreateProduct(c)
      BY <1>1, <2>1, <3>2, Grows, Targets DEF CreateProduct, StepOK, CreationOK
    <3>3. CASE SetPublished(c)
      BY <1>1, <2>1, <3>3, Grows DEF SetPublished
    <3> QED
      BY <1>1, <2>1, <3>1, <3>2, <3>3, Grows, Writers
  <2>2. ASSUME NEW d \in Calls, d # c PROVE CreationOK(d)'
    <3>1. pc'[d] = pc[d] /\ CreationOK(d) /\ (OpOf[d] = "create" => TargetOf[d] \in Products)
      BY <1>1, <2>2, OthersStay, CatalogueAssumption DEF CreateInv
    <3> QED
      BY <1>1, <2>2, <3>1, Grows, NotYet DEF CreationOK
  <2>3. CreationOK(c)'
    BY <1>1, CreationStep DEF CreationOK
  <2> QED
    BY <2>1, <2>2, <2>3 DEF CreateInv, ProductsOK
<1>2. CASE Crash
  BY <1>2 DEF Crash, CreateInv, ProductsOK, CreationOK, TypeInv, CallsOK
<1>3. CASE UNCHANGED <<documents, calls, overtaken, mixed>>
  BY <1>3 DEF CreateInv, ProductsOK, CreationOK
<1> QED
  BY <1>1, <1>2, <1>3, Expiry

-----------------------------------------------------------------------------
(* The two sets of attributes.                                              *)

Agree(p) ==
  listed[p] # "absent" /\ Updating(p) = {} /\ ~mixed[p] =>
    \A a \in Attributes : attributes[p][a] \in {typed[p][a], "none"}

LEMMA AgreeParts ==
  AgreeInv <=> (\A p \in Products : Agree(p)) /\ (\A c \in Calls : UpdateOK(c) /\ StillWhole(c))
BY DEF AgreeInv, AttributesAgree, Agree

\* Who is updating a product changes with the steps of its updates only.
LEMMA UpdatingStays ==
  ASSUME TypeInv, NEW c \in Calls, Serve(c), NEW p \in Products,
         TargetOf[c] # p \/ (pc[c] # "updateProduct" /\ pc'[c] # "updateProduct")
  PROVE  Updating(p)' = Updating(p)
BY OthersStay DEF Updating

LEMMA UpdatingLeft ==
  ASSUME TypeInv, NEW c \in Calls, Serve(c), NEW p \in Products
  PROVE  \A d \in Calls : d # c => (d \in Updating(p)' <=> d \in Updating(p))
BY OthersStay DEF Updating

\* A call writes its own product.
LEMMA Untouched ==
  ASSUME TypeInv, NEW c \in Calls, Serve(c), NEW p \in Products, TargetOf[c] # p
  PROVE  /\ typed'[p] = typed[p] /\ listed'[p] = listed[p]
         /\ attributes'[p] = attributes[p] /\ mixed'[p] = mixed[p]
<1> USE DEF TypeInv, DocumentsOK
<1>1. typed'[p] = typed[p]
  <2>1. CASE CreateTyped(c)
    BY <2>1 DEF CreateTyped
  <2>2. CASE UpdateTyped(c)
    BY <2>2, TypedUpdate DEF Begins
  <2> QED
    BY <2>1, <2>2, Writers
<1>2. listed'[p] = listed[p]
  BY Writers DEF CreateProduct, SetPublished
<1>3. attributes'[p] = attributes[p]
  BY Writers DEF CreateProduct, UpdateProduct
<1>4. mixed'[p] = mixed[p]
  <2>1. CASE UpdateTyped(c)
    BY <2>1, TypedUpdate DEF Begins
  <2>2. CASE UpdateProduct(c) \/ Throws(c)
    BY <2>2 DEF UpdateProduct, Throws
  <2> QED
    BY <2>1, <2>2, Writers
<1> QED
  BY <1>1, <1>2, <1>3, <1>4

\* Nothing of what is said of product p changes, but perhaps its publication.
LEMMA AgreeFrame ==
  ASSUME NEW p \in Products, Agree(p), typed'[p] = typed[p], attributes'[p] = attributes[p],
         mixed'[p] = mixed[p], Updating(p)' = Updating(p), listed'[p] # "absent" => listed[p] # "absent"
  PROVE  Agree(p)'
BY DEF Agree

LEMMA UpdateFrame ==
  ASSUME NEW d \in Calls, UpdateOK(d), StillWhole(d), pc'[d] = pc[d], found'[d] = found[d],
         typed'[TargetOf[d]] = typed[TargetOf[d]], mixed'[TargetOf[d]] = mixed[TargetOf[d]],
         Updating(TargetOf[d])' = Updating(TargetOf[d])
  PROVE  UpdateOK(d)' /\ StillWhole(d)'
BY DEF UpdateOK, StillWhole

\* It is enough to look at the product of the step.
LEMMA AgreeHere ==
  ASSUME TypeInv, AgreeInv, NEW c \in Calls, Serve(c),
         TargetOf[c] \in Products =>
           /\ Agree(TargetOf[c])'
           /\ \A d \in Calls : TargetOf[d] = TargetOf[c] => (UpdateOK(d) /\ StillWhole(d))'
  PROVE  AgreeInv'
<1>1. ASSUME NEW p \in Products PROVE Agree(p)'
  BY <1>1, Untouched, UpdatingStays, AgreeFrame, AgreeParts
<1>2. ASSUME NEW d \in Calls PROVE UpdateOK(d)' /\ StillWhole(d)'
  <2>1. CASE pc'[d] \notin {"createProduct", "updateProduct"}
    BY <2>1 DEF UpdateOK, StillWhole
  <2>2. CASE pc'[d] \in {"createProduct", "updateProduct"}
    <3>1. TargetOf[d] \in Products
      <4>1. TypeInv'
        BY TypeStep DEF Next
      <4> QED
        BY <2>2, <4>1, Targets DEF TypeInv, StepOK
    <3>2. CASE TargetOf[d] # TargetOf[c]
      <4>1. d # c /\ UpdateOK(d) /\ StillWhole(d)
        BY <3>2 DEF AgreeInv
      <4> QED
        BY <3>1, <3>2, <4>1, OthersStay, Untouched, UpdatingStays, UpdateFrame
    <3> QED
      BY <3>1, <3>2
  <2> QED
    BY <2>1, <2>2
<1>3. (\A p \in Products : Agree(p)')
  BY <1>1
<1> QED
  BY <1>2, <1>3 DEF AgreeInv, AttributesAgree, Agree

\* The first write of an update.
LEMMA AgreeBegins ==
  ASSUME TypeInv, AgreeInv, NEW c \in Calls, Serve(c), Begins(c)
  PROVE  AgreeInv'
<1> DEFINE q == TargetOf[c]
<1> USE DEF TypeInv, DocumentsOK, CallsOK
<1>1. q \in Products /\ OpOf[c] = "update" /\ pc'[c] = "updateProduct" /\ typed[q] # None
  BY DEF Begins
<1>2. c \in Updating(q)'
  BY <1>1 DEF Updating
<1>3. Agree(q)'
  BY <1>2 DEF Agree
<1>4. ASSUME NEW d \in Calls, TargetOf[d] = q PROVE (UpdateOK(d) /\ StillWhole(d))'
  <2>1. StillWhole(d)'
    BY <1>2, <1>4 DEF StillWhole
  <2>2. typed'[q] # None
    BY <1>1, Grows
  <2>3. ASSUME ~mixed'[q] PROVE \A e \in Updating(q)' : e = c
    <3>1. Updating(q) = {}
      BY <1>1, <2>3 DEF Begins
    <3> QED
      BY <1>1, <3>1, UpdatingLeft DEF Updating
  <2>4. \A a \in found'[c] : typed'[q][a] = c
    BY <1>1 DEF Begins, SetIn
  <2>5. pc'[d] = "updateProduct" /\ ~mixed'[q] => d = c
    <3>1. OpOf[d] = "update" \/ pc'[d] # "updateProduct"
      <4>1. TypeInv'
        BY TypeStep DEF Next
      <4> QED
        BY <4>1 DEF StepOK
    <3> QED
      BY <1>4, <2>3, <3>1 DEF Updating
  <2>6. UpdateOK(d)'
    BY <1>4, <2>2, <2>3, <2>4, <2>5 DEF UpdateOK
  <2> QED
    BY <2>1, <2>6
<1> QED
  BY <1>3, <1>4, AgreeHere

\* The second write of an update, or its failure.
LEMMA AgreeEnds ==
  ASSUME TypeInv, CreateInv, AgreeInv, NEW c \in Calls, Serve(c), pc[c] = "updateProduct",
         UpdateProduct(c) \/ Throws(c)
  PROVE  AgreeInv'
<1> DEFINE q == TargetOf[c]
<1> USE DEF TypeInv, DocumentsOK, CallsOK
<1>1. /\ q \in Products /\ OpOf[c] = "update" /\ c \in Updating(q) /\ UpdateOK(c)
      /\ typed' = typed /\ pc'[c] \in {"done", "failed"}
  BY Targets DEF UpdateProduct, Throws, Goto, Updating, StepOK, AgreeInv
<1>2. ASSUME NEW d \in Calls, TargetOf[d] = q, pc'[d] = "updateProduct"
      PROVE  d # c /\ UpdateOK(d) /\ mixed[q] /\ typed[q] # None
  <2>1. d # c /\ pc[d] = "updateProduct" /\ UpdateOK(d)
    BY <1>1, <1>2, OthersStay DEF AgreeInv
  <2> QED
    BY <1>1, <1>2, <2>1 DEF UpdateOK
<1>3. CASE mixed'[q]
  <2>1. Agree(q)'
    BY <1>3 DEF Agree
  <2>2. ASSUME NEW d \in Calls, TargetOf[d] = q PROVE (UpdateOK(d) /\ StillWhole(d))'
    BY <1>1, <1>2, <1>3, <2>2 DEF UpdateOK, StillWhole
  <2> QED
    BY <2>1, <2>2, AgreeHere
<1>4. CASE ~mixed'[q]
  <2>1. /\ UpdateProduct(c) /\ listed[q] # "absent" /\ mixed' = mixed /\ listed' = listed
        /\ attributes' = [attributes EXCEPT ![q] = SetIn(None, found[c], c)]
    BY <1>1, <1>4 DEF UpdateProduct, Throws
  <2>2. \A a \in found[c] : typed[q][a] = c
    BY <1>1, <1>4, <2>1 DEF UpdateOK
  <2>3. Agree(q)'
    BY <1>1, <2>1, <2>2 DEF Agree, SetIn
  <2>4. ASSUME NEW d \in Calls, TargetOf[d] = q PROVE (UpdateOK(d) /\ StillWhole(d))'
    <3>1. pc'[d] # "createProduct"
      <4>1. pc[d] # "createProduct"
        BY <1>1, <2>1, <2>4 DEF CreateInv, CreationOK, StepOK
      <4> QED
        BY <1>1, <2>4, <4>1, OthersStay
    <3>2. pc'[d] # "updateProduct"
      BY <1>2, <1>4, <2>1, <2>4
    <3> QED
      BY <3>1, <3>2 DEF UpdateOK, StillWhole
  <2> QED
    BY <2>3, <2>4, AgreeHere
<1> QED
  BY <1>3, <1>4

\* The first two writes of a creation.
LEMMA AgreeCreates ==
  ASSUME TypeInv, CreateInv, AgreeInv, NEW c \in Calls, Serve(c), CreateTyped(c) \/ CreateProduct(c)
  PROVE  AgreeInv'
<1> DEFINE q == TargetOf[c]
<1> USE DEF TypeInv, DocumentsOK, CallsOK
<1>1. /\ q \in Products /\ OpOf[c] = "create" /\ CreationOK(c) /\ listed[q] = "absent"
      /\ pc[c] # "updateProduct" /\ pc'[c] # "updateProduct" /\ mixed' = mixed /\ found' = found
  <2>1. pc[c] \in {"ready", "createProduct"} /\ OpOf[c] = "create" /\ pc[c] # "updateProduct"
    BY DEF CreateTyped, CreateProduct, Enters, StepOK
  <2>2. mixed' = mixed /\ found' = found
    BY DEF CreateTyped, CreateProduct
  <2>3. pc'[c] # "updateProduct"
    <3>1. CASE CreateTyped(c)
      BY <3>1 DEF CreateTyped, Goto
    <3>2. CASE CreateProduct(c)
      BY <3>2 DEF CreateProduct, Goto, AfterCreateProduct
    <3> QED
      BY <3>1, <3>2
  <2>4. CreationOK(c)
    BY DEF CreateInv
  <2>5. listed[q] = "absent"
    BY <2>1, <2>4 DEF CreationOK
  <2>6. q \in Products
    BY <2>1, Targets
  <2> QED
    BY <2>1, <2>2, <2>3, <2>4, <2>5, <2>6
<1>2. Updating(q)' = Updating(q)
  BY <1>1, UpdatingStays
<1>3. ASSUME NEW d \in Calls, TargetOf[d] = q, d # c
      PROVE  pc'[d] = pc[d] /\ pc[d] # "createProduct" /\ UpdateOK(d)
  BY <1>1, <1>3, OthersStay, CatalogueAssumption DEF StepOK, AgreeInv
<1>4. CASE CreateTyped(c)
  <2>1. typed[q] = None /\ typed' = [typed EXCEPT ![q] = Whole(c)] /\ listed' = listed
    BY <1>1, <1>4 DEF CreateTyped, Enters, CreationOK
  <2>2. Agree(q)'
    BY <1>1, <2>1 DEF Agree
  <2>3. ASSUME NEW d \in Calls, TargetOf[d] = q PROVE (UpdateOK(d) /\ StillWhole(d))'
    <3>1. CASE d = c
      BY <1>1, <2>1, <3>1 DEF UpdateOK, StillWhole
    <3>2. CASE d # c
      BY <1>3, <2>1, <2>3, <3>2 DEF UpdateOK, StillWhole
    <3> QED
      BY <3>1, <3>2
  <2> QED
    BY <2>2, <2>3, AgreeHere
<1>5. CASE CreateProduct(c)
  <2>1. /\ pc[c] = "createProduct" /\ typed' = typed /\ pc'[c] = "insertInventory"
        /\ attributes' = [attributes EXCEPT ![q] = Whole(c)]
    BY <1>5 DEF CreateProduct, Goto, AfterCreateProduct
  <2>2. StillWhole(c)
    BY DEF AgreeInv
  <2>3. Agree(q)'
    BY <1>1, <1>2, <2>1, <2>2 DEF Agree, StillWhole
  <2>4. ASSUME NEW d \in Calls, TargetOf[d] = q PROVE (UpdateOK(d) /\ StillWhole(d))'
    <3>1. CASE d = c
      BY <2>1, <3>1 DEF UpdateOK, StillWhole
    <3>2. CASE d # c
      <4>1. UpdateOK(d) /\ StillWhole(d)
        BY <2>4, <3>2 DEF AgreeInv
      <4>2. pc'[d] = pc[d] /\ found'[d] = found[d] /\ Updating(TargetOf[d])' = Updating(TargetOf[d])
        BY <1>1, <1>2, <1>3, <2>4, <3>2
      <4> QED
        BY <1>1, <2>1, <4>1, <4>2, UpdateFrame
    <3> QED
      BY <3>1, <3>2
  <2> QED
    BY <2>3, <2>4, AgreeHere
<1> QED
  BY <1>4, <1>5

\* Any other step leaves the two sets, and the updates, alone.
LEMMA AgreeOthers ==
  ASSUME TypeInv, AgreeInv, NEW c \in Calls, Serve(c),
         UNCHANGED <<typed, attributes, mixed>>,
         pc[c] # "updateProduct", pc'[c] \notin {"createProduct", "updateProduct"},
         \A p \in Products : listed'[p] # "absent" => listed[p] # "absent"
  PROVE  AgreeInv'
<1>1. ASSUME TargetOf[c] \in Products PROVE Agree(TargetOf[c])'
  BY <1>1, UpdatingStays, AgreeFrame, AgreeParts
<1>2. ASSUME TargetOf[c] \in Products, NEW d \in Calls, TargetOf[d] = TargetOf[c]
      PROVE  (UpdateOK(d) /\ StillWhole(d))'
  <2>1. CASE d = c
    BY <2>1 DEF UpdateOK, StillWhole
  <2>2. CASE d # c
    <3>1. Updating(TargetOf[d])' = Updating(TargetOf[d])
      BY <1>2, UpdatingStays
    <3>2. UpdateOK(d) /\ StillWhole(d)
      BY DEF AgreeInv
    <3>3. pc'[d] = pc[d] /\ found'[d] = found[d]
      BY <2>2, OthersStay
    <3> QED
      BY <3>1, <3>2, <3>3, UpdateFrame
  <2> QED
    BY <2>1, <2>2
<1> QED
  BY <1>1, <1>2, AgreeHere

LEMMA AgreeStep ==
  ASSUME TypeInv, CreateInv, AgreeInv, [Next]_vars
  PROVE  AgreeInv'
<1>1. ASSUME NEW c \in Calls, Serve(c) PROVE AgreeInv'
  <2> USE DEF TypeInv, CallsOK, Goto
  <2>1. CASE CreateTyped(c) \/ CreateProduct(c)
    BY <1>1, <2>1, AgreeCreates
  <2>2. CASE UpdateTyped(c)
    <3>1. CASE Begins(c)
      BY <1>1, <3>1, AgreeBegins
    <3>2. CASE pc' = [pc EXCEPT ![c] = "failed"] /\ UNCHANGED <<typed, mixed>>
      <4>1. pc[c] = "ready" /\ UNCHANGED <<attributes, listed>>
        BY <2>2 DEF UpdateTyped, Enters
      <4> QED
        BY <1>1, <3>2, <4>1, AgreeOthers
    <3> QED
      BY <1>1, <2>2, <3>1, <3>2, TypedUpdate
  <2>3. CASE pc[c] = "updateProduct" /\ (UpdateProduct(c) \/ Throws(c))
    BY <1>1, <2>3, AgreeEnds
  <2>4. CASE SetPublished(c)
    <3>1. /\ UNCHANGED <<typed, attributes, mixed>> /\ pc[c] = "ready"
          /\ pc'[c] \in {"invalidate", "done"}
      BY <2>4 DEF SetPublished, StartInvalidation, Enters
    <3>2. \A p \in Products : listed'[p] # "absent" => listed[p] # "absent"
      BY <2>4 DEF SetPublished, DocumentsOK
    <3> QED
      BY <1>1, <3>1, <3>2, AgreeOthers
  <2>5. CASE InsertInventory(c) \/ UpdateOthers(c) \/ DeleteDetail(c) \/ ScanLists(c) \/ DeleteLists(c)
             \/ DeletionThrows(c)
    <3>1. /\ UNCHANGED <<typed, attributes, mixed, listed>> /\ pc[c] # "updateProduct"
          /\ pc'[c] \notin {"createProduct", "updateProduct"}
      BY <2>5 DEF InsertInventory, StartInvalidation, UpdateOthers, Enters, DeleteDetail, ScanLists,
         DeleteLists, Deleting, AfterDeletion, DeletionThrows
    <3> QED
      BY <1>1, <3>1, AgreeOthers
  <2>6. CASE GetDetail(c) \/ ReadProduct(c) \/ StoreDetail(c) \/ GetList(c) \/ ReadList(c) \/ StoreList(c)
             \/ (Throws(c) /\ pc[c] # "updateProduct")
    <3>1. /\ UNCHANGED <<typed, attributes, mixed, listed>> /\ pc[c] # "updateProduct"
          /\ pc'[c] \notin {"createProduct", "updateProduct"}
      BY <2>6 DEF GetDetail, ReadProduct, StoreDetail, GetList, ReadList, StoreList, Enters, Throws
    <3> QED
      BY <1>1, <3>1, AgreeOthers
  <2> QED
    BY <1>1, <2>1, <2>2, <2>3, <2>4, <2>5, <2>6 DEF Serve, UpdateProduct
<1>2. CASE Crash
  <2>1. /\ \A c \in Calls : pc'[c] \notin {"createProduct", "updateProduct"}
        /\ UNCHANGED documents /\ mixed' = [p \in Products |-> mixed[p] \/ Updating(p) # {}]
    BY <1>2 DEF Crash, TypeInv, CallsOK
  <2>2. ASSUME NEW p \in Products PROVE Agree(p)'
    <3>1. Agree(p)
      BY AgreeParts
    <3>2. ~mixed'[p] => ~mixed[p] /\ Updating(p) = {}
      BY <2>1
    <3> QED
      BY <2>1, <3>1, <3>2 DEF Agree
  <2>3. \A p \in Products : Agree(p)'
    BY <2>2
  <2> QED
    BY <2>1, <2>3 DEF AgreeInv, AttributesAgree, Agree, UpdateOK, StillWhole
<1>3. CASE UNCHANGED <<documents, calls, overtaken, mixed>>
  BY <1>3 DEF AgreeInv, AttributesAgree, UpdateOK, StillWhole, Updating
<1> QED
  BY <1>1, <1>2, <1>3, Expiry

-----------------------------------------------------------------------------
(* Cached lists.                                                            *)

StaleOK(k) ==
  Stale(k) =>
    \/ suspect[k]
    \/ \E c \in Calls : "scan" \in todo[c] \/ ("del" \in todo[c] /\ k \in found[c])

Updates(c) == UpdateProduct(c) \/ UpdateOthers(c)

\* Only a publication, its end or an update changes what queries find.
LEMMA VisibleStays ==
  ASSUME TypeInv, CreateInv, NEW c \in Calls, Serve(c), ~SetPublished(c), ~Updates(c), NEW q \in Queries
  PROVE  Visible(q)' = Visible(q)
<1>1. ASSUME NEW p \in Products PROVE listed'[p] = "published" <=> listed[p] = "published"
  <2>1. CASE CreateProduct(c)
    <3>1. TargetOf[c] \in Products /\ listed[TargetOf[c]] = "absent"
      BY <2>1, Targets DEF CreateProduct, TypeInv, StepOK, CreateInv, CreationOK
    <3> QED
      BY <2>1, <3>1 DEF CreateProduct, TypeInv, DocumentsOK
  <2> QED
    BY <2>1, Writers
<1>2. admits[q] \subseteq Products /\ admits' = admits
  BY Writers DEF Updates, TypeInv, DocumentsOK
<1> QED
  BY <1>1, <1>2 DEF Visible

\* An update makes suspect what it moves.
LEMMA ListRefiled ==
  ASSUME TypeInv, ListInv, NEW c \in Calls, Serve(c), Updates(c)
  PROVE  ListInv'
<1> USE DEF TypeInv, CallsOK, ListsOK, DocumentsOK
<1> DEFINE p == TargetOf[c]
<1>1. /\ UNCHANGED <<listed, filled, shows, todo>> /\ todo[c] = {} /\ pc'[c] # "storeList"
      /\ pc[c] # "storeList" /\ p \in Products
  BY Targets DEF Updates, UpdateProduct, UpdateOthers, Enters, Goto, StepOK
<1>2. PICK moved \in SUBSET Queries :
        /\ \A q \in Queries \ moved : Visible(q)' = Visible(q)
        /\ \A d \in Calls : overtaken'[d] = (overtaken[d] \/ (pc[d] = "storeList" /\ TargetOf[d] \in moved))
        /\ \A k \in ListKeys : suspect'[k] = (suspect[k] \/ filled[k] \in moved)
  <2>1. CASE Refiles(p)
    <3>1. PICK through \in SUBSET Filtered :
            LET now   == [q \in Queries |-> IF q \in through THEN admits[q] \cup {p}
                                           ELSE IF q \in Filtered THEN admits[q] \ {p} ELSE admits[q]]
                moved == {q \in Queries : listed[p] = "published" /\ now[q] # admits[q]} IN
            /\ admits' = now
            /\ overtaken' = [d \in Calls |-> overtaken[d] \/ (pc[d] = "storeList" /\ TargetOf[d] \in moved)]
            /\ suspect' = [k \in ListKeys |-> suspect[k] \/ filled[k] \in moved]
      BY <2>1 DEF Refiles
    <3> DEFINE now == [q \in Queries |-> IF q \in through THEN admits[q] \cup {p}
                                         ELSE IF q \in Filtered THEN admits[q] \ {p} ELSE admits[q]]
               gone == {q \in Queries : listed[p] = "published" /\ now[q] # admits[q]}
    <3>2. admits' = now
      BY <3>1
    <3>3. ASSUME NEW q \in Queries \ gone PROVE Visible(q)' = Visible(q)
      <4>1. listed[p] # "published" \/ admits'[q] = admits[q]
        BY <3>2, <3>3
      <4>2. \A r \in Products \ {p} : r \in admits'[q] <=> r \in admits[q]
        BY <3>2, <3>3
      <4>3. admits'[q] \subseteq Products /\ admits[q] \subseteq Products
        BY <3>2, <3>3, <1>1
      <4> QED
        BY <1>1, <4>1, <4>2, <4>3 DEF Visible
    <3>4. \A d \in Calls : overtaken'[d] = (overtaken[d] \/ (pc[d] = "storeList" /\ TargetOf[d] \in gone))
      BY <3>1, Zenon
    <3>5. \A k \in ListKeys : suspect'[k] = (suspect[k] \/ filled[k] \in gone)
      BY <3>1, Zenon
    <3> HIDE DEF gone
    <3>6. gone \in SUBSET Queries
      BY DEF gone
    <3> QED
      BY <3>3, <3>4, <3>5, <3>6
  <2>2. CASE ~Refiles(p)
    <3>1. UNCHANGED <<admits, overtaken, suspect>>
      BY <2>2 DEF Updates, UpdateProduct, UpdateOthers
    <3>2. \A q \in Queries : Visible(q)' = Visible(q)
      BY <1>1, <3>1 DEF Visible
    <3> DEFINE none == {}
    <3>3. \A d \in Calls : overtaken'[d] = (overtaken[d] \/ (pc[d] = "storeList" /\ TargetOf[d] \in none))
      <4>1. \A d \in Calls : overtaken[d] \in BOOLEAN /\ overtaken'[d] = overtaken[d]
        BY <3>1
      <4> QED
        BY <4>1
    <3>4. \A k \in ListKeys : suspect'[k] = (suspect[k] \/ filled[k] \in none)
      <4>1. \A k \in ListKeys : suspect[k] \in BOOLEAN /\ suspect'[k] = suspect[k]
        BY <3>1
      <4> QED
        BY <4>1
    <3>5. none \in SUBSET Queries /\ \A q \in Queries \ none : Visible(q)' = Visible(q)
      BY <3>2
    <3> HIDE DEF none
    <3> QED
      BY <3>3, <3>4, <3>5
  <2> QED
    BY <2>1, <2>2
<1>3. ASSUME NEW d \in Calls PROVE ReaderOK(d)'
  <2>1. CASE d = c
    BY <1>1, <2>1 DEF ReaderOK
  <2>2. CASE d # c /\ pc[d] = "storeList"
    <3>1. TargetOf[d] \in Queries /\ ReaderOK(d) /\ pc'[d] = pc[d] /\ found'[d] = found[d]
      BY <2>2, OthersStay, Targets DEF StepOK, ListInv
    <3>2. PICK q \in Queries : q = TargetOf[d]
      BY <3>1
    <3>3. Visible(TargetOf[d])' = Visible(q)'
      BY <3>2
    <3> QED
      BY <1>2, <2>2, <3>1, <3>2, <3>3 DEF ReaderOK
  <2>3. CASE d # c /\ pc[d] # "storeList"
    BY <2>3, OthersStay DEF ReaderOK
  <2> QED
    BY <2>1, <2>2, <2>3
<1>4. ASSUME NEW k \in ListKeys PROVE StaleOK(k)'
  <2>1. CASE filled[k] \in moved \/ filled[k] = NoQuery
    BY <1>1, <1>2, <2>1 DEF StaleOK, Stale
  <2>2. CASE filled[k] \notin moved /\ filled[k] # NoQuery
    <3>1. PICK q \in Queries : q = filled[k]
      BY <2>2
    <3>2. Stale(k)' => Stale(k)
      <4>1. Visible(q)' = Visible(q)
        BY <1>2, <2>2, <3>1
      <4>2. Visible(filled[k])' = Visible(q)'
        BY <1>1, <3>1
      <4> QED
        BY <1>1, <3>1, <4>1, <4>2 DEF Stale
    <3>3. StaleOK(k)
      BY DEF ListInv, StaleListIsSwept, StaleOK
    <3>4. ASSUME NEW d \in Calls, "scan" \in todo[d] \/ ("del" \in todo[d] /\ k \in found[d])
          PROVE  "scan" \in todo'[d] \/ ("del" \in todo'[d] /\ k \in found'[d])
      BY <1>1, <3>4, OthersStay
    <3> QED
      BY <1>2, <3>2, <3>3, <3>4 DEF StaleOK
  <2> QED
    BY <2>1, <2>2
<1> QED
  BY <1>3, <1>4 DEF ListInv, StaleListIsSwept, StaleOK

\* A publication: its call is about to scan.
LEMMA ListPublished ==
  ASSUME TypeInv, ListInv, NEW c \in Calls, Serve(c), SetPublished(c)
  PROVE  ListInv'
<1> USE DEF TypeInv, CallsOK, Goto
<1>1. CASE listed' = listed /\ UNCHANGED <<todo, overtaken>>
  <2>1. /\ UNCHANGED <<listed, admits, filled, shows, suspect, todo, overtaken, found>>
        /\ pc' = [pc EXCEPT ![c] = "done"]
    BY <1>1 DEF SetPublished, StartInvalidation, Enters, ToInvalidate, StepOK
  <2> QED
    BY <2>1 DEF ListInv, StaleListIsSwept, ReaderOK, Stale, Visible
<1>2. CASE ~(listed' = listed /\ UNCHANGED <<todo, overtaken>>)
  <2>1. "scan" \in todo'[c] /\ overtaken' = [d \in Calls |-> overtaken[d] \/ pc[d] = "storeList"]
        /\ pc' = [pc EXCEPT ![c] = "invalidate"]
    BY <1>2 DEF SetPublished, StartInvalidation, ToInvalidate
  <2>2. StaleListIsSwept'
    BY <2>1 DEF StaleListIsSwept
  <2>3. ASSUME NEW d \in Calls PROVE ReaderOK(d)'
    BY <2>1 DEF ReaderOK
  <2> QED
    BY <2>2, <2>3 DEF ListInv
<1> QED
  BY <1>1, <1>2

\* A reader, and what it stores.
LEMMA ListRead ==
  ASSUME TypeInv, CreateInv, ListInv, NEW c \in Calls, Serve(c), ReadList(c) \/ StoreList(c)
  PROVE  ListInv'
<1> USE DEF TypeInv, CallsOK, ListsOK, Goto
<1> DEFINE q == TargetOf[c]
<1>1. q \in Queries /\ ListKeyOf[q] \in ListKeys
  BY Targets DEF ReadList, StoreList, StepOK
<1>2. \A r \in Queries : Visible(r)' = Visible(r)
  BY VisibleStays DEF ReadList, StoreList, SetPublished, Updates, UpdateProduct, UpdateOthers, Enters
<1>3. UNCHANGED <<listed, admits>> /\ todo' = todo /\ todo[c] = {}
  BY DEF ReadList, StoreList, StepOK
<1>4. ASSUME NEW k \in ListKeys, NEW d \in Calls PROVE
        ("scan" \in todo'[d] \/ ("del" \in todo'[d] /\ k \in found'[d]))
          <=> ("scan" \in todo[d] \/ ("del" \in todo[d] /\ k \in found[d]))
  BY <1>3, OthersStay
<1>5. ASSUME NEW d \in Calls, d # c PROVE ReaderOK(d)'
  <2>1. ReaderOK(d) /\ pc'[d] = pc[d] /\ found'[d] = found[d] /\ overtaken'[d] = overtaken[d]
    BY <1>5, OthersStay DEF ListInv, ReadList, StoreList
  <2> QED
    BY <1>3, <2>1 DEF ReaderOK, Visible
<1>6. CASE ReadList(c)
  <2>1. found'[c] = Visible(q) /\ UNCHANGED <<filled, shows, suspect>>
    BY <1>6 DEF ReadList
  <2>2. ReaderOK(c)'
    BY <1>3, <2>1 DEF ReaderOK, Visible
  <2>3. ASSUME NEW k \in ListKeys PROVE StaleOK(k)'
    <3>1. StaleOK(k)
      BY DEF ListInv, StaleListIsSwept, StaleOK
    <3> QED
      BY <1>3, <1>4, <2>1, <3>1 DEF StaleOK, Stale, Visible
  <2> QED
    BY <1>5, <2>2, <2>3 DEF ListInv, StaleListIsSwept, StaleOK
<1>7. CASE StoreList(c)
  <2>1. /\ filled' = [filled EXCEPT ![ListKeyOf[q]] = q] /\ shows' = [shows EXCEPT ![ListKeyOf[q]] = found[c]]
        /\ suspect' = [suspect EXCEPT ![ListKeyOf[q]] = overtaken[c]] /\ pc[c] = "storeList"
        /\ pc' = [pc EXCEPT ![c] = "done"]
    BY <1>7 DEF StoreList
  <2>2. ReaderOK(c)'
    BY <2>1 DEF ReaderOK
  <2>3. ASSUME NEW k \in ListKeys PROVE StaleOK(k)'
    <3>1. CASE k # ListKeyOf[q]
      <4>1. StaleOK(k) /\ filled'[k] = filled[k] /\ shows'[k] = shows[k] /\ suspect'[k] = suspect[k]
        BY <1>1, <2>1, <3>1 DEF ListInv, StaleListIsSwept, StaleOK
      <4> QED
        BY <1>3, <1>4, <4>1 DEF StaleOK, Stale, Visible
    <3>2. CASE k = ListKeyOf[q]
      <4>1. filled'[k] = q /\ shows'[k] = found[c] /\ suspect'[k] = overtaken[c]
        BY <1>1, <2>1, <3>2
      <4>2. overtaken[c] \/ found[c] = Visible(q)
        BY <2>1 DEF ListInv, ReaderOK
      <4> QED
        BY <1>3, <4>1, <4>2 DEF StaleOK, Stale, Visible
    <3> QED
      BY <3>1, <3>2
  <2> QED
    BY <1>5, <2>2, <2>3 DEF ListInv, StaleListIsSwept, StaleOK
<1> QED
  BY <1>6, <1>7

\* Any step that neither publishes, reads nor stores a list keeps what readers hold.
LEMMA ReadersStay ==
  ASSUME TypeInv, CreateInv, ListInv, NEW c \in Calls, Serve(c), ~SetPublished(c), ~Updates(c),
         pc'[c] # "storeList", NEW d \in Calls
  PROVE  ReaderOK(d)'
<1>1. CASE d = c
  BY <1>1 DEF ReaderOK
<1>2. CASE d # c
  <2>1. pc'[d] = pc[d] /\ found'[d] = found[d] /\ ReaderOK(d)
    BY <1>2, OthersStay DEF ListInv
  <2>2. overtaken'[d] = overtaken[d]
    BY <1>2 DEF TypeInv, CallsOK, Serve, CreateTyped, CreateProduct, InsertInventory, UpdateTyped, Updates,
       DeleteDetail, ScanLists, DeleteLists, GetDetail, ReadProduct, StoreDetail, GetList,
       ReadList, StoreList, Throws, DeletionThrows
  <2>3. pc[d] = "storeList" => TargetOf[d] \in Queries
    BY Targets DEF TypeInv, StepOK
  <2> QED
    BY <2>1, <2>2, <2>3, VisibleStays DEF ReaderOK
<1> QED
  BY <1>1, <1>2

\* A list that is stale after such a step was stale before it.
LEMMA StaleBefore ==
  ASSUME TypeInv, CreateInv, NEW c \in Calls, Serve(c), ~SetPublished(c), ~Updates(c), NEW k \in ListKeys,
         UNCHANGED <<filled, shows>>
  PROVE  Stale(k)' => Stale(k)
<1>1. CASE filled[k] = NoQuery
  BY <1>1 DEF Stale
<1>2. CASE filled[k] # NoQuery
  <2>1. PICK q \in Queries : q = filled[k]
    BY <1>2 DEF TypeInv, ListsOK
  <2>2. Visible(filled[k])' = Visible(q)'
    BY <2>1
  <2>3. Visible(q)' = Visible(q)
    BY VisibleStays
  <2> QED
    BY <2>1, <2>2, <2>3 DEF Stale
<1> QED
  BY <1>1, <1>2

Sweeping(c, k) == "scan" \in todo[c] \/ ("del" \in todo[c] /\ k \in found[c])

\* A stale list is suspect, or being swept, by this call or by one that is not served now.
LEMMA SweptBy ==
  ASSUME TypeInv, CreateInv, ListInv, NEW c \in Calls, Serve(c), ~SetPublished(c), ~Updates(c), NEW k \in ListKeys,
         filled'[k] = filled[k], shows'[k] = shows[k],
         filled'[k] # NoQuery, shows'[k] # Visible(filled[k])'
  PROVE  suspect[k] \/ Sweeping(c, k) \/ \E d \in Calls : Sweeping(d, k)'
<1>1. PICK q \in Queries : q = filled[k]
  BY DEF TypeInv, ListsOK
<1>2. Visible(filled[k])' = Visible(q)
  <2>1. Visible(q)' = Visible(q)
    BY VisibleStays
  <2> QED
    BY <1>1, <2>1 DEF Visible
<1>3. suspect[k] \/ \E d \in Calls : Sweeping(d, k)
  BY <1>1, <1>2 DEF ListInv, StaleListIsSwept, Stale, Sweeping
<1> QED
  BY <1>3, OthersStay DEF Sweeping

\* So it stays, if this call goes on sweeping or the list is suspect from now on.
LEMMA StaleStays ==
  ASSUME TypeInv, CreateInv, ListInv, NEW c \in Calls, Serve(c), ~SetPublished(c), ~Updates(c), NEW k \in ListKeys,
         filled'[k] # NoQuery => filled'[k] = filled[k] /\ shows'[k] = shows[k],
         filled'[k] # NoQuery /\ (suspect[k] \/ Sweeping(c, k)) => suspect'[k] \/ Sweeping(c, k)'
  PROVE  StaleOK(k)'
BY SweptBy DEF StaleOK, Stale, Sweeping

\* The deletions of a call.
LEMMA ListSwept ==
  ASSUME TypeInv, CreateInv, ListInv, NEW c \in Calls, Serve(c), NEW k \in ListKeys,
         DeleteDetail(c) \/ ScanLists(c) \/ DeleteLists(c) \/ DeletionThrows(c)
  PROVE  StaleOK(k)'
<1> USE DEF TypeInv, CallsOK, ListsOK
<1>0. ~SetPublished(c) /\ ~Updates(c)
  BY DEF SetPublished, Updates, UpdateProduct, UpdateOthers, Enters, DeleteDetail, ScanLists, DeleteLists, Deleting, DeletionThrows
<1>1. CASE DeleteDetail(c)
  BY <1>0, <1>1, StaleStays DEF DeleteDetail, Sweeping
<1>2. CASE ScanLists(c)
  <2>1. UNCHANGED <<filled, shows>>
    BY <1>2 DEF ScanLists
  <2>2. CASE todo' = [todo EXCEPT ![c] = @ \ {"scan"}] /\ filled[k] = NoQuery
    BY <2>1, <2>2 DEF StaleOK, Stale
  <2>3. CASE filled[k] # NoQuery \/ todo' # [todo EXCEPT ![c] = @ \ {"scan"}]
    <3>1. PICK first \in ListKeys :
            /\ todo' = [todo EXCEPT ![c] = (@ \ {"scan"}) \cup {"del"}]
            /\ found' = [found EXCEPT ![c] = {first}]
            /\ suspect' = [j \in ListKeys |-> suspect[j] \/ (j # first /\ Stale(j))]
      BY <1>2, <2>3 DEF ScanLists
    <3>2. CASE k = first
      <4>1. Sweeping(c, k)'
        BY <3>1, <3>2 DEF Sweeping
      <4> QED
        BY <4>1 DEF StaleOK, Sweeping
    <3>3. CASE k # first
      <4>1. suspect'[k] = (suspect[k] \/ Stale(k))
        BY <3>1, <3>3, Zenon
      <4>2. Stale(k)' => Stale(k)
        BY <1>0, <2>1, StaleBefore
      <4> QED
        BY <4>1, <4>2 DEF StaleOK
    <3> QED
      BY <3>2, <3>3
  <2> QED
    BY <2>2, <2>3
<1>3. CASE DeleteLists(c)
  <2>1. /\ filled'[k] = (IF k \in found[c] THEN NoQuery ELSE filled[k])
        /\ shows'[k] = (IF k \in found[c] THEN {} ELSE shows[k])
        /\ suspect'[k] = (suspect[k] /\ k \notin found[c])
        /\ todo' = [todo EXCEPT ![c] = @ \ {"del"}]
    BY <1>3 DEF DeleteLists
  <2>2. k \notin found[c] /\ Sweeping(c, k) => "scan" \in todo'[c]
    BY <2>1 DEF Sweeping
  <2> QED
    BY <1>0, <2>1, <2>2, StaleStays DEF Sweeping
<1>4. CASE DeletionThrows(c)
  <2>1. PICK d \in todo[c] :
          /\ todo' = [todo EXCEPT ![c] = @ \ {d}]
          /\ found' = [found EXCEPT ![c] = IF d = "del" THEN {} ELSE @]
          /\ IF d \in {"scan", "del"} THEN DoubtLists ELSE UNCHANGED suspect
    BY <1>4 DEF DeletionThrows
  <2>2. UNCHANGED <<filled, shows>>
    BY <1>4 DEF DeletionThrows
  <2>3. CASE d \in {"scan", "del"}
    <3>1. DoubtLists
      BY <2>1, <2>3
    <3>2. suspect'[k] = (suspect[k] \/ Stale(k))
      BY <3>1, Zenon DEF DoubtLists
    <3>3. Stale(k)' => Stale(k)
      BY <1>0, <2>2, StaleBefore
    <3> QED
      BY <3>2, <3>3 DEF StaleOK
  <2>4. CASE d \notin {"scan", "del"}
    <3>1. Sweeping(c, k) => Sweeping(c, k)'
      BY <2>1, <2>4 DEF Sweeping
    <3> QED
      BY <1>0, <2>1, <2>2, <2>4, <3>1, StaleStays
  <2> QED
    BY <2>3, <2>4
<1> QED
  BY <1>1, <1>2, <1>3, <1>4

\* A step of a call that has nothing to delete.
LEMMA ListOthers ==
  ASSUME TypeInv, CreateInv, ListInv, NEW c \in Calls, Serve(c), ~SetPublished(c), ~Updates(c), NEW k \in ListKeys,
         todo[c] = {}, UNCHANGED <<filled, shows, suspect>>
  PROVE  StaleOK(k)'
BY StaleStays DEF Sweeping

LEMMA ListStep ==
  ASSUME TypeInv, CreateInv, ListInv, [Next]_vars
  PROVE  ListInv'
<1> USE DEF TypeInv, CallsOK, ListsOK
<1>1. ASSUME NEW c \in Calls, Serve(c) PROVE ListInv'
  <2>1. CASE SetPublished(c)
    BY <1>1, <2>1, ListPublished
  <2>2. CASE ReadList(c) \/ StoreList(c)
    BY <1>1, <2>2, ListRead
  <2>4. CASE Updates(c)
    BY <1>1, <2>4, ListRefiled
  <2>3. CASE ~SetPublished(c) /\ ~Updates(c) /\ ~(ReadList(c) \/ StoreList(c))
    <3>1. CASE DeleteDetail(c) \/ ScanLists(c) \/ DeleteLists(c) \/ DeletionThrows(c)
      <4>1. pc'[c] # "storeList"
        BY <3>1 DEF DeleteDetail, ScanLists, DeleteLists, DeletionThrows, Deleting, AfterDeletion, Goto
      <4> QED
        BY <1>1, <2>3, <3>1, <4>1, ListSwept, ReadersStay DEF ListInv, StaleListIsSwept, StaleOK
    <3>2. CASE CreateTyped(c) \/ CreateProduct(c) \/ InsertInventory(c) \/ UpdateTyped(c)
      <4>1. pc'[c] # "storeList" /\ todo[c] = {} /\ UNCHANGED <<filled, shows, suspect>>
        BY <3>2 DEF CreateTyped, CreateProduct, InsertInventory, StartInvalidation, UpdateTyped,
           Goto, Enters, StepOK, AfterCreateProduct, AfterUpdateTyped
      <4> QED
        BY <1>1, <2>3, <4>1, ListOthers, ReadersStay DEF ListInv, StaleListIsSwept, StaleOK
    <3>3. CASE GetDetail(c) \/ ReadProduct(c) \/ StoreDetail(c) \/ GetList(c) \/ Throws(c)
      <4>1. pc'[c] # "storeList" /\ todo[c] = {} /\ UNCHANGED <<filled, shows, suspect>>
        BY <3>3 DEF GetDetail, ReadProduct, StoreDetail, GetList, Throws, Goto, Enters, StepOK
      <4> QED
        BY <1>1, <2>3, <4>1, ListOthers, ReadersStay DEF ListInv, StaleListIsSwept, StaleOK
    <3> QED
      BY <1>1, <2>3, <3>1, <3>2, <3>3 DEF Serve, Updates
  <2> QED
    BY <2>1, <2>2, <2>3, <2>4
<1>2. CASE Crash
  <2>1. UNCHANGED <<listed, admits, filled, shows>> /\ \A c \in Calls : pc'[c] # "storeList"
    BY <1>2 DEF Crash
  <2>2. ASSUME NEW k \in ListKeys PROVE StaleOK(k)'
    <3>1. StaleOK(k)
      BY DEF ListInv, StaleListIsSwept, StaleOK
    <3>2. CASE \E c \in Calls : todo[c] \cap {"scan", "del"} # {}
      <4>1. suspect' = [j \in ListKeys |-> suspect[j] \/ Stale(j)]
        BY <1>2, <3>2 DEF Crash, DoubtLists
      <4>2. suspect'[k] = (suspect[k] \/ Stale(k))
        BY <4>1, Zenon
      <4>3. Stale(k)' => Stale(k)
        BY <2>1 DEF Stale, Visible
      <4> QED
        BY <4>2, <4>3 DEF StaleOK
    <3>3. CASE ~\E c \in Calls : todo[c] \cap {"scan", "del"} # {}
      BY <1>2, <2>1, <3>1, <3>3 DEF Crash, StaleOK, Stale, Visible
    <3> QED
      BY <3>2, <3>3
  <2> QED
    BY <2>1, <2>2 DEF ListInv, ReaderOK, StaleListIsSwept, StaleOK
<1>3. ASSUME UNCHANGED <<documents, calls, overtaken, mixed>>,
             UNCHANGED <<filled, shows, suspect>> \/ \E k \in ListKeys : ListExpires(k)
      PROVE  ListInv'
  <2>1. \A c \in Calls : ReaderOK(c)'
    BY <1>3 DEF ListInv, ReaderOK, Visible
  <2>2. ASSUME NEW k \in ListKeys PROVE StaleOK(k)'
    <3>1. StaleOK(k)
      BY DEF ListInv, StaleListIsSwept, StaleOK
    <3>2. \/ filled'[k] = NoQuery
          \/ filled'[k] = filled[k] /\ shows'[k] = shows[k] /\ suspect'[k] = suspect[k]
      BY <1>3 DEF ListExpires
    <3> QED
      BY <1>3, <3>1, <3>2 DEF StaleOK, Stale, Visible
  <2> QED
    BY <2>1, <2>2 DEF ListInv, StaleListIsSwept, StaleOK
<1> QED
  BY <1>1, <1>2, <1>3, Expiry

-----------------------------------------------------------------------------
(* The theorems.                                                            *)

LEMMA CatalogueInit == Init => CInv
<1> SUFFICES ASSUME Init PROVE CInv
  OBVIOUS
<1> USE CatalogueAssumption DEF Init
<1>1. TypeInv
  BY DEF TypeInv, DocumentsOK, CallsOK, ListsOK, StepOK
<1>2. CreateInv
  BY <1>1, WholeIsSome DEF CreateInv, ProductsOK, CreationOK
<1>3. AgreeInv
  BY <1>1 DEF AgreeInv, AttributesAgree, UpdateOK, StillWhole, TypeInv, DocumentsOK
<1>4. ListInv
  BY DEF ListInv, StaleListIsSwept, ReaderOK, Stale
<1> QED
  BY <1>1, <1>2, <1>3, <1>4 DEF CInv

LEMMA CatalogueInvariance == Spec => []CInv
<1>1. CInv /\ [Next]_vars => CInv'
  BY TypeStep, CreateStep, AgreeStep, ListStep DEF CInv
<1> QED
  BY <1>1, CatalogueInit, PTL DEF Spec

\* No inventory without its product, no product without its typed document, and no
\* creation answered well that has not left all three.
THEOREM CreatedWhole == Spec => []CreatedIsWhole
<1>1. CInv => CreatedIsWhole
  BY Targets DEF CInv, CreateInv, ProductsOK, CreationOK, CreatedIsWhole
<1> QED
  BY <1>1, CatalogueInvariance, PTL

\* The two sets of attributes differ only after updates that overlapped or broke off.
THEOREM AttributesStayTogether == Spec => []AttributesAgree
<1>1. CInv => AttributesAgree
  BY DEF CInv, AgreeInv
<1> QED
  BY <1>1, CatalogueInvariance, PTL

\* A stale list is about to be deleted, or suspect: its reader was late, its deletion threw
\* or was lost, an update made it so, or another list was scanned before it.
THEOREM StaleListsAreSwept == Spec => []StaleListIsSwept
<1>1. CInv => StaleListIsSwept
  BY DEF CInv, ListInv
<1> QED
  BY <1>1, CatalogueInvariance, PTL
===============================================================================
