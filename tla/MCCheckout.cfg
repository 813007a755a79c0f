SPECIFICATION Spec
CONSTANTS
  Requests <- MCRequests
  Products <- MCProducts
  Basket <- MCBasket
  InitialStock <- MCInitialStock
  Keys = {"key", "brief"}
  NoKey = "noKey"
  LongKey = "longKey"
  KeyOf <- ExpiringKeyOf
  Carts = {"cart"}
  CartOf <- MCCartOf
  MethodOf <- MCMethodOf
  Reachable = {"first", "retry"}
  OrderPaymentEnum <- CommittedEnum
  CatalogueAnswers = {"priced", "rejected"}
  Failing <- SomeForward
  MayCrash = TRUE
  SlowRequests = TRUE
  Fleeting = {"brief"}
  NoOrder = "noOrder"
INVARIANTS
  TypeOK
  StockAccounted
  OrderBacked
  RollbackComplete
  PlacedIsComplete
  LateRetryReplayed
  ReplayShowsAnOrder
  LockHasHolder
PROPERTIES
  PlacesAtomically
  EveryRequestSettles
