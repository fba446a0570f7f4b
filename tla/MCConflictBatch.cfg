CONSTANTS
  None = None
  Missing = Missing
  Content = {c1, c2}
  ExactTime = FALSE
  Batch = TRUE
  MaxChanges = 0
  MaxRequests = 1
  MaxMenus = 1
SPECIFICATION FairSpec
 
PROPERTIES RequestsServed StopEnds
CHECK_DEADLOCK FALSE
