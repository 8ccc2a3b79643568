SPECIFICATION FairSpec
CONSTANTS
  ann = ann
  bob = bob
  Operators <- One
  MaxQueue = 2
  MaxEscalations = 2
  Headed = FALSE
INVARIANTS
  EvidenceHidesHumanInput
PROPERTIES
  InterventionEnds
  PauseIsGranted
CHECK_DEADLOCK FALSE
