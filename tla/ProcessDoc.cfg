CONSTANTS
  MaxId = 4
  Codes = {0}
  Kinds = {"fork", "CLONE_PARENT"}
SPECIFICATION Spec
INVARIANTS Inherited
CHECK_DEADLOCK FALSE
