SPECIFICATION FairSpec
CONSTANTS
  Shares = {"s1", "s2"}
  Target = "s1"
  Statuses = {"OPEN", "HOLD", "CLOSED"}
  From = "OPEN"
  To = "HOLD"
  Faults = {"NONE", "COMMIT_WITH_LOST_ACK", "NO_COMMIT_WITH_LOST_ACK", "FALSE_SUCCESS", "COMMIT_WITH_CORRUPT_ACK", "COMMIT_WITH_CORRUPT_OUTPUT", "THIRD_PARTY_MUTATION"}
  MaxForeign = 1
INVARIANTS
  TypeOK
  WindowTellsOwnEffect
  RetryAfterNoIsSafe
  MismatchHasALiar
  RunIsAccountedFor
  CollateralIsTrue
PROPERTIES
  SettlesTruthfully
  TwinEnds
CHECK_DEADLOCK FALSE
