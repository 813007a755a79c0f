---------------------------- MODULE MCCatalogue ----------------------------
(***************************************************************************)
(* A product that is there, and a second one that is created, published    *)
(* and updated twice, with its size or with no attribute, so that it moves *)
(* in and out of a filter; a reader of the whole list and one of the       *)
(* filtered list, under another key; and one who asks for the product.     *)
(***************************************************************************)
EXTENDS Catalogue, TLC

CONSTANT Updates

EitherUpdate == Permutations(Updates)

MCProducts == {"old", "new"}
MCQueries == {"any", "keyword"}
MCAdmits == [q \in MCQueries |-> MCProducts]
MCListKeyOf == [q \in MCQueries |-> IF q = "any" THEN "page1" ELSE "search"]

MCCalls == {"create", "publish", "detail", "list", "search"} \cup Updates

MCOpOf ==
  [c \in MCCalls |->
     CASE c \in Updates -> "update"
       [] c = "search"  -> "list"
       [] OTHER         -> c]

MCTargetOf ==
  [c \in MCCalls |->
     CASE c = "list"   -> "any"
       [] c = "search" -> "keyword"
       [] OTHER        -> "new"]

SomeSteps == {"insertInventory", "updateProduct", "invalidate", "storeList"}
=============================================================================
