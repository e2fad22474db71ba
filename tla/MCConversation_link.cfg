SPECIFICATION Spec
CONSTANTS
  Turns = {t1, t2}
  Earlier = earlier
  WithFiles = {t1, t2}
  Repeats = {}
  Offered = {}
  NoCourse = none
  t1 = t1
  t2 = t2
  algebra = algebra
  Exchanges = 0
  Kept = 2
  Fresh = 1
  Every = 1
  TokensOf <- MCTokensOf
  HistoryBudget = 100
  SummaryTokens = 5
SYMMETRY Symmetry
PROPERTIES FilesStayWithChat
CHECK_DEADLOCK FALSE
