SPECIFICATION FairSpec
CONSTANTS
  Users = {"ann", "bob"}
  Requests = {r1, r2}
  Plans = {"free", "basic"}
  Periods = {"day", "week", "month"}
  LastDay = 2
  StartOf <- MCStartOf
  Limit <- MCLimit
  Units = 2
  MidnightRace = TRUE
  Faults = FALSE
INVARIANTS NoOvercharge PendingHasOwner
PROPERTIES ChargesAreSettled
CHECK_DEADLOCK FALSE
