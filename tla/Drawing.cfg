SPECIFICATION DrawSpec
CONSTANTS
  PageBits = 3
  ByteRange = 12
  Half = 18
  Width = 3
  Pages = 2
  Memory <- MCMemory
  Art <- MCArt
  Masks <- MCMasks
  Font <- MCFont
  GlyphWidth = 2
  ArtLength = 40
  Xs <- MCXs
  Ys <- MCYs
  Areas <- MCAreas
  Lines <- MCLines
  Radii = {0, 1, 3, 4}
  Frames = {0, 1}
  Bounded = TRUE
INVARIANTS DrawnSoFar NeighboursUntouched StrokeInv
