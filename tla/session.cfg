CONSTANTS
  Name = {ann, bob}
  Path <- DirsAndFiles
  Document <- Files
  Deletable <- Files
  MaxDeletes = 1
  Machine = {m1}
  Nobody = Nobody
  Folders <- OneFolder
  MaxSessions = 2
  MaxEdits = 2
SPECIFICATION FairSpec
INVARIANTS
  TypeOK
  WdAtHome
  EntriesListed
  KnownIsStored
  ClassesAgree
PROPERTIES
  EventsTaken
  CommandsEnd
  RepositorySpec
CHECK_DEADLOCK FALSE
