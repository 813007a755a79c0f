SPECIFICATION Spec
CONSTANTS
  Products <- MCProducts
  Existing = {"old"}
  Attributes = {"brand", "size"}
  Bodies = {{}, {"size"}}
  Queries <- MCQueries
  Filtered = {"keyword"}
  Admits <- MCAdmits
  ListKeys = {"page1", "search"}
  ListKeyOf <- MCListKeyOf
  Updates = {u1, u2}
  Calls <- MCCalls
  OpOf <- MCOpOf
  TargetOf <- MCTargetOf
  Strangers = {}
  MayThrow <- SomeSteps
  MaxInFlight = 3
  NoQuery = "noQuery"
SYMMETRY EitherUpdate
INVARIANTS
  CreatedIsWhole
  AttributesAgree
  StaleListIsSwept
