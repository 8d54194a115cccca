SPECIFICATION FairSpec
CONSTANTS
  CacheSize = 4
  Word = 64
  Page = 5
  Literal = 4
  PackId = 7
  NoFile = NoFile
  Cell <- MCCell
  Datas <- MCDatas
  Specs <- MCSpecs
  Files <- MCFiles
  Reads <- MCReads
  FxReads <- MCFxReads
INVARIANTS BundleInv ReadsTellTheResource FxServesTheData SoundPacksAreRead FxInv
PROPERTY CallsReturn
