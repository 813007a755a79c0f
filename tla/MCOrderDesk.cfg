SPECIFICATION DeskSpec
CONSTANTS
  Requests <- MCRequests
  Products <- MCProducts
  Basket <- MCBasket
  InitialStock <- MCInitialStock
  Keys = {"key"}
  NoKey = "noKey"
  LongKey = "longKey"
  KeyOf <- MCKeyOf
  Carts = {"cartA"}
  CartOf <- MCCartOf
  MethodOf <- MCMethodOf
  Reachable = {"buy"}
  OrderPaymentEnum <- CommittedEnum
  CatalogueAnswers = {"priced"}
  Failing <- Reporting
  MayCrash = TRUE
  SlowRequests = FALSE
  Fleeting = {"key"}
  NoOrder = "noOrder"
  Cancels = {c1, c2}
  confirm = confirm
  reopen = reopen
  ship = ship
  Updates <- MCUpdates
  OrderOf <- MCOrderOf
  Entitled <- Everyone
  Wanted <- MCWanted
  DeskFailing = {"save"}
SYMMETRY AnyCancel
INVARIANTS
  DeskStockAccounted
  SoldOrdersKeepStock
  CancelledOrdersReturnStock
