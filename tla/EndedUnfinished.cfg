CONSTANTS
  None = None
  Missing = Missing
  Content = {c1, c2}
  ExactTime = TRUE
  Batch = FALSE
  MaxChanges = 0
  MaxRequests = 0
  MaxMenus = 1
SPECIFICATION Spec
INVARIANTS EndedIsTerminal
CHECK_DEADLOCK FALSE
