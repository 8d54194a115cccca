SPECIFICATION Spec
CONSTANTS
  Byte <- MCByte
  Erased = "ff"
  Size = 2
  Capacity = 3
  Schema = 2
  HasMigration = TRUE
  Migrated <- MCMigrated
  InitialFiles <- MCVersionedDirs
  GenMod = 2
  None = None
  Junk = Junk
  EditBound = 1
INVARIANTS
  CleanIsDurable
PROPERTIES
  RefusedSaveKept
