SPECIFICATION Spec
CONSTANTS
  Turns = {t1, t2}
  Earlier = earlier
  WithFiles = {t1}
  Repeats = {t1, t2}
  Offered = {}
  NoCourse = none
  t1 = t1
  t2 = t2
  Exchanges = 2
  Kept = 2
  Fresh = 1
  Every = 1
  TokensOf <- MCTokensOf
  HistoryBudget = 100
  SummaryTokens = 5
INVARIANTS ExchangeInOrder KeptChargeHasAnswer SummaryLeavesRecent FoundWithinScope HistoryIsWindow ConvInv
PROPERTIES SearchFindsAttachment ImplementsDialogue
CHECK_DEADLOCK FALSE
