SPECIFICATION BridgeSpec
CONSTANTS
  a = a
  b = b
  Actions = {a, b}
  Limit = 2
  Chunks = {1}
  Images = {0}
  Blank = 0
  ExitMask = {b}
  FrameGated = FALSE
  Managed = FALSE
PROPERTY BridgeSerializes
