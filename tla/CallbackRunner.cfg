SPECIFICATION FairRunner
CONSTANTS
  Actions = {a}
  Limit = 2
  Byte <- MCByte
  Size = 2
  Items <- MCItems
  Blank <- MCBlank
  NoImage = NoImage
  ExitMask = {exit}
  Burst = 2
  MaxDelay = 2
INVARIANTS RunnerInv TapsAreOwed
PROPERTIES TicksSeeEveryTap ReleaseIsSeen TapsAreTicked
