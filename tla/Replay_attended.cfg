SPECIFICATION Spec
CONSTANTS
  N = 3
  M = 2
  Risky = {0, 2}
  Mutating = {1, 2}
  Recoverable = {1}
  RiskyRecovery = {}
  ArmedAfter <- MCArmedAfter
  RestartFrom <- FromLast
  MaxFires <- MCMaxFires
  Attended = TRUE
  MaxEscalations = 2
  RequireReview = TRUE
  LateDispatch = FALSE
  MaxRuns = 1
INVARIANTS
  NoSecondDispatch
PROPERTIES
  HandbackIsPastDispatch
  KeepsTheContract
CHECK_DEADLOCK FALSE
