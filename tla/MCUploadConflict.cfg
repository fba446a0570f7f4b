CONSTANTS
  None = None
  Missing = Missing
  Content = {c1, c2}
  ExactTime = TRUE
  Batch = FALSE
  MaxChanges = 1
  MaxRequests = 2
  MaxMenus = 1
SPECIFICATION Spec
SYMMETRY Contents
INVARIANTS TypeOK ReviewedVersions AgentUploadsItsCandidate 
 
CHECK_DEADLOCK FALSE
