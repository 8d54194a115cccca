SPECIFICATION Spec
CONSTANTS
  Byte <- MCByte
  Erased = "ff"
  Size = 2
  Capacity = 3
  Schema = 0
  HasMigration = FALSE
  Migrated <- MCMigrated
  InitialFiles <- MCRawDirs
  GenMod = 3
  None = None
  Junk = Junk
  EditBound = 2
INVARIANTS
  IInv
PROPERTIES
  SaveNeverTorn
  FlushTellsTruth
  ImplementsDurableSave
