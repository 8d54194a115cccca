SPECIFICATION FairSpec
CONSTANTS
  Byte <- MCByte
  Erased = "ff"
  Size = 1
  Capacity = 1
  Schema = 0
  HasMigration = FALSE
  Migrated <- MCMigrated
  InitialFiles <- MCEmptyDir
  GenMod = 2
  EditBound = 1
  None = None
  Junk = Junk
PROPERTIES
  EventuallySaved
