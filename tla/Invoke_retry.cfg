SPECIFICATION Spec
CONSTANTS
  Names = {"transfer"}
  Versions = {"read", "post"}
  Risky = {"post"}
  Operators = {"ann", "ANN"}
  Person <- MCPerson
  MaxWrites = 0
  Requests = {"r1", "r2"}
  NameOf <- MCNameOf
  KeyOf <- MCKeyOf
  Verdicts = {"SUCCESS", "UNRESOLVED", "FAILURE"}
  Faulty = TRUE
  MaxRestarts = 0
INVARIANT
  NeverPostedTwice
CHECK_DEADLOCK FALSE
