CONSTANTS
  a = a
  b = b
  CallIds = {1, 2}
  None = None
  Focuses = {"profile"}
SPECIFICATION Spec
CHECK_DEADLOCK FALSE
INVARIANTS
  SavesExecution
