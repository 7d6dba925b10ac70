SPECIFICATION MCSpec
CONSTANTS
  c1 = c1
  c2 = c2
  c3 = c3
  c4 = c4
  Calls = {c1, c2, c3, c4}
  Request <- MixedLoad
  MayCancel = {c1, c2}
  NoOne = NoOne
  NoEntry = NoEntry
  MaxEntries = 1
  SweepEvery = 2
  TTL = 1
  MaxTime = 1
  BCalls = {c1, c2, c3}
  BSettings <- AnySetting
  BQuote <- MCQuote
  BUnpriced = {c2}
  BCosts <- MCCosts
  LTracked <- MCTracked
  LEntry <- MCEntry
  LLimit <- MCLimit
  LHistoryLimit = 2
  LMaxDay = 1
  LMaxResets = 1
INVARIANTS
  BoughtOnce
  AnswersOwn
  NoneStranded
  BudgetKept
  CostsKept
