SPECIFICATION Spec
CONSTANTS
  Events = {a, b}
  MaxRecords = 2
  MaxUncounted = 1
  MaxOpens = 2
  MaxTouches = 2
  Forgeries <- MCForgeries
SYMMETRY Symmetry
INVARIANTS
  TypeOK
  SealedIsAsWritten
  ReceiptBindsTheRun
  NoFalseAlarm
CHECK_DEADLOCK FALSE
