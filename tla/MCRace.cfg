SPECIFICATION Spec
CONSTANTS
  Requests <- WithOverlong
  Products <- MCProducts
  Basket <- MCBasket
  InitialStock <- AmpleStock
  Keys = {"key"}
  NoKey = "noKey"
  LongKey = "longKey"
  KeyOf <- MCKeyOf
  Carts = {"cart"}
  CartOf <- MCCartOf
  MethodOf <- MCMethodOf
  Reachable = {"first", "retry"}
  OrderPaymentEnum <- CommittedEnum
  CatalogueAnswers = {"priced"}
  Failing <- NoStep
  MayCrash = FALSE
  SlowRequests = FALSE
  Fleeting = {}
  NoOrder = "noOrder"
INVARIANT
  OneOrderPerKey
