SPECIFICATION Spec
CONSTANTS
  Elements = {"field", "submit", "link"}
  Kind <- MCKind
  Posts = {"submit"}
  Codes <- MCCodes
  MaxSteps = 2
  MaxInvalid = 2
INVARIANTS
  TypeOK
  GraceBeforeExhausted
  SafeStepsAreQuiet
  ArmedWhereSeen
CHECK_DEADLOCK FALSE
