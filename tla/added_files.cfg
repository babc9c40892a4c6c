CONSTANTS
  Name = {ann}
  Path <- AllDirs
  Document <- NoPath
  Deletable <- NoPath
  MaxDeletes = 0
  Machine = {m1}
  Nobody = Nobody
  Folders <- TwoFolders
  MaxSessions = 1
  MaxEdits = 0
SPECIFICATION FairSpec
PROPERTIES
  AddedFilesReflected
CHECK_DEADLOCK FALSE
