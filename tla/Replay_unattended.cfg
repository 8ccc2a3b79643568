SPECIFICATION Spec
CONSTANTS
  N = 3
  M = 2
  Risky = {0, 2}
  Mutating = {1, 2}
  Recoverable = {1}
  RiskyRecovery = {}
  ArmedAfter <- MCArmedAfter
  RestartFrom <- FromFirst
  MaxFires <- MCMaxFires
  Attended = FALSE
  MaxEscalations = 0
  RequireReview = TRUE
  LateDispatch = FALSE
  MaxRuns = 2
INVARIANTS
  TypeOK
  NoFalseFailure
  UnresolvedHasEvidence
  RunDirIsThisRun
PROPERTIES
  StaleNeverAnswers
CHECK_DEADLOCK FALSE
