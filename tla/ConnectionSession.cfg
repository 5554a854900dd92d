CONSTANTS
  CallIds = {1, 2}
  Names = {k, l}
  Configs = {x, y}
  Blank = Blank
  None = None
  Intervals = {30}
  Budget = 3
SPECIFICATION FairSpec
CHECK_DEADLOCK FALSE
INVARIANTS
  ConnectionsTypeOK
  SessionsAreAccounted
  SessionIsOfTarget
PROPERTIES
  SessionSettles
