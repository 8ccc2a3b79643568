SPECIFICATION FairSpec
CONSTANTS
  N = 3
  M = 2
  Risky = {0, 2}
  Mutating = {1, 2}
  Recoverable = {1}
  RiskyRecovery = {1}
  ArmedAfter <- MCArmedAfter
  RestartFrom <- FromFirst
  MaxFires <- MCMaxFires
  Attended = TRUE
  MaxEscalations = 1
  RequireReview = TRUE
  LateDispatch = TRUE
  MaxRuns = 1
INVARIANTS
  HazardStepIsOver
PROPERTIES
  EveryRunEnds
  EveryStepCounts
CHECK_DEADLOCK FALSE
