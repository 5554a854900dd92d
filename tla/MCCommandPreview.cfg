CONSTANTS
  a = a
  b = b
  CallIds = {1, 2}
  None = None
  Focuses = {"command"}
SPECIFICATION Spec
CHECK_DEADLOCK FALSE
INVARIANTS
  PreviewIsOfTemplate
