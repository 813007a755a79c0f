----------------------------- MODULE Catalogue -----------------------------
(***************************************************************************)
(* ProductFactory: a product is three documents (one typed by its kind, the*)
(* product, its inventory) written one after the other, and what readers   *)
(* are shown is cached in Redis, dropped by the shop's calls after their   *)
(* write and, whatever happens, by its 300 seconds.  Every awaited call is *)
(* one step.  The value of an attribute is the name of the call that wrote *)
(* it; of names, prices and kinds there is only which filters let the      *)
(* product through.                                                        *)
(***************************************************************************)
EXTENDS Naturals, FiniteSets

CONSTANTS
  Products,
  Existing,      \* those that are there, whole and published, from the start
  Attributes,    \* brand, size, author and so on
  Bodies,        \* the attributes an update may bring; none of them: no product_attribute
  Queries,       \* the filters a listing may be asked with
  Filtered,      \* the queries whose filter looks at what an update may bring
  Admits,        \* query -> the products its filter lets through at first
  ListKeys,
  ListKeyOf,     \* query -> its cache key, which leaves price and shop filters out
  Calls,
  OpOf,          \* call -> what it asks for
  TargetOf,      \* call -> its product, or its query when it lists
  Strangers,     \* calls of a shop that does not own the product
  MayThrow,      \* the steps whose call may throw, but for the first
  MaxInFlight,   \* bound: requests handled at one time
  NoQuery

Ops == {"create", "publish", "unpublish", "update", "detail", "list"}
Steps == {"ready", "createProduct", "insertInventory", "updateProduct", "invalidate",
          "sweepOn", "readProduct", "storeDetail", "readList", "storeList"}

ASSUME CatalogueAssumption ==
  /\ Existing \subseteq Products /\ Attributes # {}
  /\ Bodies \subseteq SUBSET Attributes
  /\ Filtered \subseteq Queries
  /\ Admits \in [Queries -> SUBSET Products]
  /\ ListKeyOf \in [Queries -> ListKeys]
  /\ OpOf \in [Calls -> Ops]
  /\ \A c \in Calls : TargetOf[c] \in IF OpOf[c] = "list" THEN Queries ELSE Products
  /\ \A c, d \in Calls :
       OpOf[c] = "create" => /\ TargetOf[c] \notin Existing
                             /\ OpOf[d] = "create" /\ TargetOf[d] = TargetOf[c] => c = d
  /\ MayThrow \subseteq Steps
  /\ MaxInFlight \in Nat
  /\ NoQuery \notin Queries
  /\ Calls \cap {"none", "original"} = {}

VARIABLES
  typed,       \* product -> its Clothing, Electronic or Books document: attribute -> value
  listed,      \* product -> "absent", "draft" or "published"
  attributes,  \* product -> product_attribute of its document
  stocked,     \* product -> has it an inventory
  admits,      \* query -> the products whose fields its filter lets through
  detail,      \* product -> what product:detail holds: nothing or one set of attributes
  filled,      \* list key -> the query whose answer it holds
  shows,       \* list key -> the products in that answer
  pc, todo,    \* call -> where it is; what is left of its invalidation
  found,       \* call -> what it has read or brought and not used: attributes, products or keys
  overtaken,   \* call -> what its query finds has changed since it read its list (history)
  suspect,     \* list key -> holds such a list, or a stale one that no deletion reached (history)
  mixed        \* product -> its last updates overlapped or broke off (history)

documents == <<typed, listed, attributes, stocked, admits>>
cache     == <<detail, filled, shows>>
calls     == <<pc, todo, found>>
history   == <<overtaken, suspect, mixed>>
vars      == <<documents, cache, calls, history>>

None == [a \in Attributes |-> "none"]
Whole(v) == [a \in Attributes |-> v]

\* f with the attributes in S set to v.
SetIn(f, S, v) == [a \in Attributes |-> IF a \in S THEN v ELSE f[a]]

InProgress == Steps \ {"ready"}

\* What buildPublicProductFilter finds for query q.
Visible(q) == {p \in admits[q] : listed[p] = "published"}

Stale(k) == filled[k] # NoQuery /\ shows[k] # Visible(filled[k])

Owned(c) == c \notin Strangers

\* Call c comes in: its handler's first step can be taken.
Enters(c, ops) ==
  /\ pc[c] = "ready" /\ OpOf[c] \in ops
  /\ Cardinality({d \in Calls : pc[d] \in InProgress}) < MaxInFlight

-----------------------------------------------------------------------------
Goto(c, step) == pc' = [pc EXCEPT ![c] = step]

AfterCreateProduct_NoStock(c) == "invalidate"

AfterCreateProduct(c) == "insertInventory"

AfterUpdateTyped_Skips(c) == "done"

AfterUpdateTyped(c) == "updateProduct"

\* invalidateProductCache: both deletions are started; deleteByPattern scans and then deletes.
ToInvalidate_DetailOnly(c) == {"detail"}

ToInvalidate(c) == {"detail", "scan"}

StartInvalidation(c) ==
  /\ Goto(c, "invalidate")
  /\ todo' = [todo EXCEPT ![c] = ToInvalidate(c)]

Init ==
  /\ typed = [p \in Products |-> IF p \in Existing THEN Whole("original") ELSE None]
  /\ attributes = typed
  /\ listed = [p \in Products |-> IF p \in Existing THEN "published" ELSE "absent"]
  /\ stocked = [p \in Products |-> p \in Existing]
  /\ admits = Admits
  /\ detail = [p \in Products |-> {}]
  /\ filled = [k \in ListKeys |-> NoQuery]
  /\ shows = [k \in ListKeys |-> {}]
  /\ pc = [c \in Calls |-> "ready"]
  /\ todo = [c \in Calls |-> {}]
  /\ found = [c \in Calls |-> {}]
  /\ overtaken = [c \in Calls |-> FALSE]
  /\ suspect = [k \in ListKeys |-> FALSE]
  /\ mixed = [p \in Products |-> FALSE]

-----------------------------------------------------------------------------
(* A shop creates a product: a draft.                                       *)
CreateTyped(c) ==
  /\ Enters(c, {"create"})
  /\ typed' = [typed EXCEPT ![TargetOf[c]] = Whole(c)]
  /\ Goto(c, "createProduct")
  /\ UNCHANGED <<listed, attributes, stocked, admits, cache, todo, found, history>>

CreateProduct(c) ==
  /\ pc[c] = "createProduct"
  /\ listed' = [listed EXCEPT ![TargetOf[c]] = "draft"]
  /\ attributes' = [attributes EXCEPT ![TargetOf[c]] = Whole(c)]
  /\ Goto(c, AfterCreateProduct(c))
  /\ todo' = [todo EXCEPT ![c] = IF pc'[c] = "invalidate" THEN ToInvalidate(c) ELSE {}]
  /\ UNCHANGED <<typed, stocked, admits, cache, found, history>>

InsertInventory(c) ==
  /\ pc[c] = "insertInventory"
  /\ stocked' = [stocked EXCEPT ![TargetOf[c]] = TRUE]
  /\ StartInvalidation(c)
  /\ UNCHANGED <<typed, listed, attributes, admits, cache, found, history>>

(* publishProductByShop and unPublishProductByShop: nothing found is answered *)
(* with null, and nothing is invalidated.                                     *)
SetPublished(c) ==
  LET p == TargetOf[c] IN
  /\ Enters(c, {"publish", "unpublish"})
  /\ \/ /\ listed[p] # "absent" /\ Owned(c)
        /\ listed' = [listed EXCEPT ![p] = IF OpOf[c] = "publish" THEN "published" ELSE "draft"]
        /\ StartInvalidation(c)
        /\ overtaken' = [d \in Calls |-> overtaken[d] \/ pc[d] = "storeList"]
     \/ /\ ~(listed[p] # "absent" /\ Owned(c))
        /\ Goto(c, "done")
        /\ UNCHANGED <<listed, todo, overtaken>>
  /\ UNCHANGED <<typed, attributes, stocked, admits, cache, found, suspect, mixed>>

(* updateProduct: the typed document takes over the attributes brought, the *)
(* product has its product_attribute replaced by them.  Nothing is          *)
(* invalidated.                                                             *)
Updating(p) == {c \in Calls : OpOf[c] = "update" /\ TargetOf[c] = p /\ pc[c] = "updateProduct"}

UpdateTyped(c) ==
  LET p == TargetOf[c] IN
  /\ Enters(c, {"update"})
  /\ \/ /\ typed[p] # None /\ Owned(c)
        /\ \E body \in Bodies \ {{}} :
             /\ typed' = [typed EXCEPT ![p] = SetIn(@, body, c)]
             /\ found' = [found EXCEPT ![c] = body]
        /\ mixed' = [mixed EXCEPT ![p] = Updating(p) # {}]
        /\ Goto(c, AfterUpdateTyped(c))
     \/ /\ ~(typed[p] # None /\ Owned(c))
        /\ Goto(c, "failed")
        /\ UNCHANGED <<typed, found, mixed>>
  /\ UNCHANGED <<listed, attributes, stocked, admits, cache, todo, overtaken, suspect>>

\* The name, price or kind of p may change, and with them the filters that let it through.
Refiles(p) ==
  \E through \in SUBSET Filtered :
    LET now   == [q \in Queries |-> IF q \in through THEN admits[q] \cup {p}
                                   ELSE IF q \in Filtered THEN admits[q] \ {p} ELSE admits[q]]
        moved == {q \in Queries : listed[p] = "published" /\ now[q] # admits[q]} IN
    /\ admits' = now
    /\ overtaken' = [d \in Calls |-> overtaken[d] \/ (pc[d] = "storeList" /\ TargetOf[d] \in moved)]
    /\ suspect' = [k \in ListKeys |-> suspect[k] \/ filled[k] \in moved]

UpdateProduct(c) ==
  LET p == TargetOf[c] IN
  /\ pc[c] = "updateProduct"
  /\ \/ /\ listed[p] # "absent"
        /\ attributes' = [attributes EXCEPT ![p] = SetIn(None, found[c], c)]
        /\ Refiles(p)
        /\ Goto(c, "done")
        /\ UNCHANGED mixed
     \/ /\ listed[p] = "absent"
        /\ Goto(c, "failed")
        /\ mixed' = [mixed EXCEPT ![p] = TRUE]
        /\ UNCHANGED <<attributes, admits, overtaken, suspect>>
  /\ found' = [found EXCEPT ![c] = {}]
  /\ UNCHANGED <<typed, listed, stocked, cache, todo>>

\* Without product_attribute the product alone is written, and its attributes stay.
UpdateOthers(c) ==
  /\ Enters(c, {"update"})
  /\ {} \in Bodies
  /\ LET written == listed[TargetOf[c]] # "absent" /\ Owned(c) IN
       \/ written /\ Refiles(TargetOf[c]) /\ Goto(c, "done")
       \/ ~written /\ Goto(c, "failed") /\ UNCHANGED <<admits, overtaken, suspect>>
  /\ UNCHANGED <<typed, listed, attributes, stocked, cache, todo, found, mixed>>

-----------------------------------------------------------------------------
(* invalidateProductCache, its two deletions side by side.                  *)
AfterDeletion(c, left) ==
  IF left # {} THEN pc[c] ELSE IF pc[c] = "invalidate" THEN "done" ELSE "failed"

Deleting(c, d) == pc[c] \in {"invalidate", "sweepOn"} /\ d \in todo[c]

DeleteDetail(c) ==
  /\ Deleting(c, "detail")
  /\ detail' = [detail EXCEPT ![TargetOf[c]] = {}]
  /\ todo' = [todo EXCEPT ![c] = @ \ {"detail"}]
  /\ Goto(c, AfterDeletion(c, todo'[c]))
  /\ UNCHANGED <<documents, filled, shows, found, history>>

\* The keys of the scan are spread over the arguments of client.del, whose command takes
\* them all in its first: it deletes the key scanned first, and the other lists stay.
ScanLists(c) ==
  LET keys == {k \in ListKeys : filled[k] # NoQuery} IN
  /\ Deleting(c, "scan")
  /\ \/ /\ keys = {}
        /\ todo' = [todo EXCEPT ![c] = @ \ {"scan"}]
        /\ UNCHANGED <<found, suspect>>
     \/ \E first \in keys :
          /\ todo' = [todo EXCEPT ![c] = (@ \ {"scan"}) \cup {"del"}]
          /\ found' = [found EXCEPT ![c] = {first}]
          /\ suspect' = [k \in ListKeys |-> suspect[k] \/ (k # first /\ Stale(k))]
  /\ Goto(c, AfterDeletion(c, todo'[c]))
  /\ UNCHANGED <<documents, cache, overtaken, mixed>>

\* DEL of the one key that was found.
DeleteLists(c) ==
  /\ Deleting(c, "del")
  /\ filled' = [k \in ListKeys |-> IF k \in found[c] THEN NoQuery ELSE filled[k]]
  /\ shows' = [k \in ListKeys |-> IF k \in found[c] THEN {} ELSE shows[k]]
  /\ suspect' = [k \in ListKeys |-> suspect[k] /\ k \notin found[c]]
  /\ found' = [found EXCEPT ![c] = {}]
  /\ todo' = [todo EXCEPT ![c] = @ \ {"del"}]
  /\ Goto(c, AfterDeletion(c, todo'[c]))
  /\ UNCHANGED <<documents, detail, overtaken, mixed>>

-----------------------------------------------------------------------------
(* findProduct: publication is not asked for, a product that is not there   *)
(* is not stored.                                                           *)
GetDetail(c) ==
  /\ Enters(c, {"detail"})
  /\ Goto(c, IF detail[TargetOf[c]] # {} THEN "done" ELSE "readProduct")
  /\ UNCHANGED <<documents, cache, todo, found, history>>

IsStored(p) == listed[p] # "absent"

ReadProduct(c) ==
  LET p == TargetOf[c] IN
  /\ pc[c] = "readProduct"
  /\ \/ /\ IsStored(p)
        /\ found' = [found EXCEPT ![c] = {attributes[p]}]
        /\ Goto(c, "storeDetail")
     \/ ~IsStored(p) /\ Goto(c, "done") /\ UNCHANGED found
  /\ UNCHANGED <<documents, cache, todo, history>>

StoreDetail(c) ==
  /\ pc[c] = "storeDetail"
  /\ detail' = [detail EXCEPT ![TargetOf[c]] = found[c]]
  /\ found' = [found EXCEPT ![c] = {}]
  /\ Goto(c, "done")
  /\ UNCHANGED <<documents, filled, shows, todo, history>>

(* findAllProducts: the answer goes under a key that other filters share.   *)
GetList(c) ==
  /\ Enters(c, {"list"})
  /\ Goto(c, IF filled[ListKeyOf[TargetOf[c]]] # NoQuery THEN "done" ELSE "readList")
  /\ UNCHANGED <<documents, cache, todo, found, history>>

ReadList(c) ==
  /\ pc[c] = "readList"
  /\ found' = [found EXCEPT ![c] = Visible(TargetOf[c])]
  /\ Goto(c, "storeList")
  /\ UNCHANGED <<documents, cache, todo, history>>

StoreList(c) ==
  LET k == ListKeyOf[TargetOf[c]] IN
  /\ pc[c] = "storeList"
  /\ filled' = [filled EXCEPT ![k] = TargetOf[c]]
  /\ shows' = [shows EXCEPT ![k] = found[c]]
  /\ suspect' = [suspect EXCEPT ![k] = overtaken[c]]
  /\ found' = [found EXCEPT ![c] = {}]
  /\ overtaken' = [overtaken EXCEPT ![c] = FALSE]
  /\ Goto(c, "done")
  /\ UNCHANGED <<documents, detail, todo, mixed>>

-----------------------------------------------------------------------------
\* Lists that nobody may come to delete, when a deletion does not happen.
DoubtLists == suspect' = [k \in ListKeys |-> suspect[k] \/ Stale(k)]

\* A call of MongoDB or Redis throws and has done nothing.  One that throws at the first
\* step of a request is as if the request had not come.
Throws(c) ==
  /\ pc[c] \in MayThrow \ {"ready", "invalidate", "sweepOn"}
  /\ Goto(c, "failed")
  /\ found' = [found EXCEPT ![c] = {}]
  /\ overtaken' = [overtaken EXCEPT ![c] = FALSE]
  /\ mixed' = IF pc[c] = "updateProduct" THEN [mixed EXCEPT ![TargetOf[c]] = TRUE] ELSE mixed
  /\ UNCHANGED <<documents, cache, todo, suspect>>

\* A deletion that throws fails the request at once; the other one goes on.
DeletionThrows(c) ==
  /\ "invalidate" \in MayThrow /\ pc[c] \in {"invalidate", "sweepOn"}
  /\ \E d \in todo[c] :
       /\ todo' = [todo EXCEPT ![c] = @ \ {d}]
       /\ found' = [found EXCEPT ![c] = IF d = "del" THEN {} ELSE @]
       /\ IF d \in {"scan", "del"} THEN DoubtLists ELSE UNCHANGED suspect
  /\ Goto(c, IF todo'[c] = {} THEN "failed" ELSE "sweepOn")
  /\ UNCHANGED <<documents, cache, overtaken, mixed>>

Crash ==
  /\ \E c \in Calls : pc[c] \in InProgress
  /\ pc' = [c \in Calls |-> IF pc[c] \in InProgress THEN "failed" ELSE pc[c]]
  /\ todo' = [c \in Calls |-> {}]
  /\ found' = [c \in Calls |-> {}]
  /\ overtaken' = [c \in Calls |-> FALSE]
  /\ IF \E c \in Calls : todo[c] \cap {"scan", "del"} # {} THEN DoubtLists ELSE UNCHANGED suspect
  /\ mixed' = [p \in Products |-> mixed[p] \/ Updating(p) # {}]
  /\ UNCHANGED <<documents, cache>>

DetailExpires(p) ==
  /\ detail[p] # {}
  /\ detail' = [detail EXCEPT ![p] = {}]
  /\ UNCHANGED <<documents, filled, shows, calls, history>>

ListExpires(k) ==
  /\ filled[k] # NoQuery
  /\ filled' = [filled EXCEPT ![k] = NoQuery]
  /\ shows' = [shows EXCEPT ![k] = {}]
  /\ suspect' = [suspect EXCEPT ![k] = FALSE]
  /\ UNCHANGED <<documents, detail, calls, overtaken, mixed>>

Serve(c) ==
  \/ CreateTyped(c) \/ CreateProduct(c) \/ InsertInventory(c)
  \/ SetPublished(c) \/ UpdateTyped(c) \/ UpdateProduct(c) \/ UpdateOthers(c)
  \/ DeleteDetail(c) \/ ScanLists(c) \/ DeleteLists(c)
  \/ GetDetail(c) \/ ReadProduct(c) \/ StoreDetail(c)
  \/ GetList(c) \/ ReadList(c) \/ StoreList(c)
  \/ Throws(c) \/ DeletionThrows(c)

\* Every request has ended.
Quiet ==
  /\ \A c \in Calls : pc[c] \in {"done", "failed"}
  /\ UNCHANGED vars

Next ==
  \/ \E c \in Calls : Serve(c)
  \/ \E p \in Products : DetailExpires(p)
  \/ \E k \in ListKeys : ListExpires(k)
  \/ Crash
  \/ Quiet

Spec == Init /\ [][Next]_vars

-----------------------------------------------------------------------------
(* Properties.                                                              *)

\* Whatever breaks off a creation, it leaves no inventory without its product and no
\* product without its typed document; one that is answered well has left all three.
CreatedIsWhole ==
  /\ \A p \in Products :
       /\ stocked[p] => listed[p] # "absent"
       /\ listed[p] # "absent" => typed[p] # None
  /\ \A c \in Calls : OpOf[c] = "create" /\ pc[c] = "done" => stocked[TargetOf[c]]

\* The attributes are kept twice, in the typed document and in the product, by writes that
\* merge here and replace there: with no update of the product between its two writes, no
\* attribute the product shows differs from the typed document, unless the last updates
\* overlapped or broke off.
AttributesAgree ==
  \A p \in Products :
    listed[p] # "absent" /\ Updating(p) = {} /\ ~mixed[p] =>
      \A a \in Attributes : attributes[p][a] \in {typed[p][a], "none"}

\* A cached list that is no longer what its query finds, since a product was created,
\* published or withdrawn, is about to be deleted by the call that changed that.  The
\* exceptions: a reader that stored what it had read before the change, a deletion that
\* threw or was lost, an update, which deletes no list (line 366), and a list that another
\* one was scanned before (utils/cache/cache.service.js:37).
StaleListIsSwept ==
  \A k \in ListKeys :
    Stale(k) =>
      \/ suspect[k]
      \/ \E c \in Calls :
           "scan" \in todo[c] \/ ("del" \in todo[c] /\ k \in found[c])
=============================================================================
