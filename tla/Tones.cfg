SPECIFICATION Spec
CONSTANTS
  MaxNotes = 2
  High = 4
  Words = {1, 4, 5, 7}
  Durations = {0, 4}
  Pitches = {1}
  SpanBound = 4
  Tokens = {t1, t2, t3}
  NoToken = NoToken
SYMMETRY TokenSymmetry
INVARIANTS ToneInv ScoreInv
PROPERTY SystemSoundsStand
