SPECIFICATION Spec
CONSTANTS
  Calls = {c1, c2, c3, c4}
  Profiles = {"g1", "g2"}
  States = {s1, s2}
  Typed = {"ann"}
  ReportedOf <- MCReportedOf
  Failing <- SomeSteps
  MayCrash = TRUE
  Nothing = "nothing"
SYMMETRY AnyCallAnyState
INVARIANTS
  NoTwinAccounts
  StateIsSpentOnce
