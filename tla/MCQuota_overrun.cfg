SPECIFICATION Spec
CONSTANTS
  Users = {"ann"}
  Requests = {r1, r2, r3}
  Plans = {"basic"}
  Periods = {"day", "week", "month"}
  LastDay = 2
  StartOf <- MCStartOf
  Limit <- MCLimit
  Units = 2
  MidnightRace = TRUE
  Faults = FALSE
SYMMETRY Symmetry
PROPERTIES AdmittedWithinPlan
CHECK_DEADLOCK FALSE
