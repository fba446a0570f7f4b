CONSTANTS
  None = None
  Missing = Missing
  Content = {c1, c2}
  ExactTime = TRUE
  Batch = FALSE
  MaxChanges = 3
  MaxRequests = 1
  MaxMenus = 2
SPECIFICATION Spec
SYMMETRY Contents
CONSTRAINT Quiet
INVARIANTS ChoiceIsCurrent
CHECK_DEADLOCK FALSE
