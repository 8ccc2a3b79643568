SPECIFICATION FairSpec
CONSTANTS
  Names = {"transfer"}
  Versions = {"read", "post"}
  Risky = {"post"}
  Operators = {"ann", "ANN"}
  Person <- MCPerson
  MaxWrites = 1
  Requests = {"r1", "r2"}
  NameOf <- MCNameOf
  KeyOf <- MCKeyOf
  Verdicts = {"SUCCESS", "UNRESOLVED", "FAILURE"}
  Faulty = TRUE
  MaxRestarts = 1
INVARIANTS
  TypeOK
  OncePerKey
  DuplicateGetsOriginal
  EnvelopeIsItsRun
PROPERTIES
  EveryRequestAnswered
CHECK_DEADLOCK FALSE
