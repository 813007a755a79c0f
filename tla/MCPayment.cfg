SPECIFICATION Spec
CONSTANTS
  Orders = {"cash", "card", "bank", "third", "gone"}
  MethodOf <- MCMethodOf
  AmountOf <- MCAmountOf
  Orphans = {"gone"}
  Traffic <- MCTraffic
  Calls = {c1, c2, c3}
  Failing <- Steps
  MayCrash = TRUE
  MayDisagree = FALSE
SYMMETRY AnyCall
INVARIANTS
  PaidHasCause
  SnapshotFollows
  AnswerIsTrue
PROPERTY
  PaidIsFinal
