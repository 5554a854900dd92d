CONSTANTS
  CallIds = {1, 2}
  a = a
  b = b
  None = None
  Focuses = {"tasks", "history", "inventory", "discovery", "credentials", "auth",
             "fetch", "execution", "content", "forms", "catalog", "show", "command", "workflow",
             "block", "profile", "profiles", "plan",
             "records", "schedules", "frame", "running", "interactive", "pickers", "form", "results"}
SYMMETRY Symmetry
SPECIFICATION Spec
CHECK_DEADLOCK FALSE
INVARIANTS
  ConsoleTypeOK
  ShownIsCurrent
  SavedIsKept
  BusyIsPending
  ViewsAgree
PROPERTIES
  AnswersKeepChoices
  EditsKeepTheRest
