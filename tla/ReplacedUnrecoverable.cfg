CONSTANTS
  None = None
  Missing = Missing
  Content = {c1, c2}
  ExactTime = TRUE
  Batch = FALSE
  MaxChanges = 1
  MaxRequests = 1
  MaxMenus = 1
SPECIFICATION Spec
PROPERTIES ReplacedIsRecoverable
CHECK_DEADLOCK FALSE
