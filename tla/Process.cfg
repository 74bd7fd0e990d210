CONSTANTS
  MaxId = 4
  Codes = {0, 1}
  Kinds = {"fork", "CLONE_PARENT", "CLONE_THREAD"}
SPECIFICATION FairSpec
INVARIANTS FamilyTree  EndsOnce
PROPERTIES FinalCode WaitReturns
CHECK_DEADLOCK FALSE
