CONSTANTS
  Name = {ann, bob}
  Path <- DirsAndNotes
  Document <- Notes
  Deletable <- Notes
  MaxDeletes = 1
  Machine = {m1}
  Nobody = Nobody
  Folders <- OneFolder
  MaxSessions = 1
  MaxEdits = 1
SPECIFICATION Spec
PROPERTIES
  OnlyOwnerDeletes
CHECK_DEADLOCK FALSE
