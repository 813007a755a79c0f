SPECIFICATION Spec
CONSTANTS
  Calls = {c1, c2, c3, c4}
  Codes = {"tet", "noel"}
  NoCode = "none"
  ShopOf <- MCShopOf
  Drafts <- MCDrafts
  Bodies <- MCBodies
  Carts <- MCCarts
  Failing = {"insert", "update", "discount"}
  MayCrash = TRUE
SYMMETRY AnyCall
INVARIANTS
  TwinsHaveCause
  DeletedStaysDeleted
  EveryCancelCounts
  TotalsAddUp
