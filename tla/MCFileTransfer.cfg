SPECIFICATION MCSpec
CONSTANTS
  Part = {"task", "watcher", "bridge", "registry"}
  Task = {t1, t2}
  None = None  Old = Old  Damaged = Damaged
  File = {child}  Edit = {edit}  MaxStart = 3
  Workspace = {"w1", "w2"}  Profile = {"dev", "prod"}  Name = {"p", "q", "r", "s"}
  Document <- Documents
  Path <- Paths
  MaxSave = 2
INVARIANTS
  FileTypeOK NoEcho  RegistryFollowsConfig
PROPERTIES KeepsPromise EditUploaded AcceptedEnds
CHECK_DEADLOCK FALSE
