SPECIFICATION MCSpec
CONSTANTS
  Part = {"store"}
  a = a  b = b  i1 = i1  i2 = i2
  Session <- Windows
  Id <- Conflicts
  Owner <- OwnerOne
  Size = {1, 2}
  MaxOpen = 2
  MaxInactive = 1
  MaxSnapshot = 1
  MaxTotal = 1
  MaxAge = 1
  LeaseStale = 0
  MaxTime = 1
  MaxAsk = 1
  NoId = NoId
  Writer = w1
  Process = {w2, w3}
  Last = 3
  OldRecord <- Conflicts
  Endpoint = {e1, e2}
  FileName <- Conflicts
  Text = {t1, t2}
  MaxMade = 3
  Limit = {2}
  Recent = 1
  Confirmed = 1
  Transfer <- Windows
  MaxVersion = 3
  MaxEntries = 1
  MaxWrites = 1
  Dated = TRUE
INVARIANT DecisionPreserved
CHECK_DEADLOCK FALSE
