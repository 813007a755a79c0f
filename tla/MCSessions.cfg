SPECIFICATION Spec
CONSTANTS
  Accounts = {"ann", "bob"}
  Calls = {c1, c2, c3, c4}
  LastSecond = 3
  Lifetime = 3
  DocLifetime = 2
  Failing <- Steps
  MayCrash = TRUE
SYMMETRY AnyCall
INVARIANTS
  RevokedIsRefused
  LoggedOutStaysOut
  OneTokenPerSession
PROPERTY
  EndsForGood
