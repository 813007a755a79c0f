SPECIFICATION DeskSpec
CONSTANTS
  Requests <- MCRequests
  Products <- MCProducts
  Basket <- MCBasket
  InitialStock <- MCInitialStock
  Keys = {"key"}
  NoKey = "noKey"
  LongKey = "longKey"
  KeyOf <- MCKeyOf
  Carts = {"cartA"}
  CartOf <- MCCartOf
  MethodOf <- MCMethodOf
  Reachable = {}
  OrderPaymentEnum <- CommittedEnum
  CatalogueAnswers = {"priced"}
  Failing <- NoStep
  MayCrash = FALSE
  SlowRequests = FALSE
  Fleeting = {}
  NoOrder = "noOrder"
  Cancels = {c1, c2}
  confirm = confirm
  reopen = reopen
  ship = ship
  Updates <- MCUpdates
  OrderOf <- MCOrderOf
  Entitled <- Everyone
  Wanted <- MCWanted
  DeskFailing = {}
PROPERTY
  StatusFollowsTable
