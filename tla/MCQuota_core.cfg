SPECIFICATION Spec
CONSTANTS
  Users = {"ann"}
  Requests = {r1, r2, r3}
  Plans = {"basic", "pro"}
  Periods = {"day", "week", "month"}
  LastDay = 2
  StartOf <- MCStartOf
  Limit <- MCLimit
  Units = 2
  MidnightRace = FALSE
  Faults = TRUE
SYMMETRY Symmetry
INVARIANTS CountersExact ActivityAgrees ExactInv
PROPERTIES AdmittedWithinPlan RefusedForAReason SettlementIsFinal ImplementsLedger
CHECK_DEADLOCK FALSE
