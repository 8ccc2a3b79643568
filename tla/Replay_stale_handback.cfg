SPECIFICATION Spec
CONSTANTS
  N = 3
  M = 2
  Risky = {0, 2}
  Mutating = {1, 2}
  Recoverable = {1}
  RiskyRecovery = {}
  ArmedAfter <- MCArmedAfter
  RestartFrom <- RetryCurrent
  MaxFires <- MCMaxFires
  Attended = TRUE
  MaxEscalations = 1
  RequireReview = TRUE
  LateDispatch = FALSE
  MaxRuns = 1
PROPERTIES
  StaleNeverAnswers
CHECK_DEADLOCK FALSE
