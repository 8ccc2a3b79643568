SPECIFICATION Spec
CONSTANTS
  Names = {"transfer"}
  Versions = {"read", "post"}
  Risky = {"post"}
  Operators = {"ann", "ANN", "bob"}
  Person <- MCPerson
  MaxWrites = 2
  Requests = {"plain"}
  NameOf <- MCNameOf
  KeyOf <- MCKeyOf
  Verdicts = {"SUCCESS", "UNRESOLVED", "FAILURE"}
  Faulty = FALSE
  MaxRestarts = 0
INVARIANTS
  FourEyes
CHECK_DEADLOCK FALSE
