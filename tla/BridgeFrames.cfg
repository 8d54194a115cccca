SPECIFICATION FairBridge
CONSTANTS
  Actions = {}
  Limit = 1
  Chunks = {1, 2}
  Images = {0, 1}
  Blank = 0
  ExitMask = {"exit"}
  FrameGated = TRUE
  Managed = TRUE
INVARIANT BridgeInv
PROPERTIES ImplementsFrameChannel LastFrameIsShown ExitIsNoticed
