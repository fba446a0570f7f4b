CONSTANTS
  None = None
  Missing = Missing
  Content = {c1, c2}
  ExactTime = TRUE
  Batch = TRUE
  MaxChanges = 0
  MaxRequests = 0
  MaxMenus = 1
SPECIFICATION Spec
PROPERTIES CancelUploadHonoured
CHECK_DEADLOCK FALSE
