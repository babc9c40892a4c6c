CONSTANTS
  Name = {ann}
  Path <- Dirs
  Document <- NoPath
  Deletable <- NoPath
  MaxDeletes = 0
  Machine = {m1, m2}
  Nobody = Nobody
  Folders <- OneFolder
  MaxSessions = 1
  MaxEdits = 0
SPECIFICATION Spec
PROPERTIES
  ClassesKept
CHECK_DEADLOCK FALSE
