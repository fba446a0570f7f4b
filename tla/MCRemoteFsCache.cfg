SPECIFICATION MCSpec
CONSTANTS
  Part = {"cache", "activity", "changes", "clients", "explorer"}
  Caller = {a1, a2}
  MaxConn = 3
  MaxEvents = 3
  Dir = Dir
  o1 = o1  o2 = o2  f1 = f1  f2 = f2  k1 = k1  k2 = k2  root = root  sub = sub  leaf = leaf
  Op = {o1, o2}
  File = {f1, f2}
  Files <- TargetsOf
  Action = {f2}
  Roles <- Runners
  Keep = 1
  Length = 3
  Key = {k1, k2}
  None = Nobody
  Shown <- SameKey
  MaxAttempt = 2
  Path = {root, sub, leaf}
  Folder = {root, sub}
  Root = root
  ParentOf <- Nested
  Profile = {p1, p2, p3}
  Fits = {p1, p2}
  MaxChange = 2
  MaxAsk = 1
  Name <- Names
  Shape <- Trees
  Repository <- Tracked
  Content = {0, 1, 2}
  Staged = {0, 1}
  MaxFail = 1
INVARIANTS
  EndpointTypeOK OneConnection WaitersAreServed
     ChainIsSound TreeIsHonest
CHECK_DEADLOCK FALSE
