SPECIFICATION Spec
CONSTANTS
  ann = ann
  bob = bob
  Operators <- Both
  MaxQueue = 1
  MaxEscalations = 2
  Headed = TRUE
INVARIANTS
  TypeOK
  SingleDriver
  DecisionIsFresh
  RecordIsHuman
CHECK_DEADLOCK FALSE
