SPECIFICATION Spec
CONSTANTS
  Turns = {t1, t2}
  Earlier = earlier
  WithFiles = {}
  Repeats = {t1, t2}
  Offered = {}
  NoCourse = none
  t1 = t1
  t2 = t2
  algebra = algebra
  Exchanges = 3
  Kept = 2
  Fresh = 1
  Every = 3
  TokensOf <- MCTokensOf
  HistoryBudget = 110
  SummaryTokens = 5
INVARIANTS HistoryInOrder
CHECK_DEADLOCK FALSE
