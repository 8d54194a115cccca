SPECIFICATION FairSpec
CONSTANTS
  Second = 12
  TicksPerSecond = 18
  Rates = {0, 1, 2, 3, 6}
  Wrap = 20
  CountWrap = 2
  Busy = 6
  Over = 2
INVARIANT ClockInv
PROPERTIES FramesKeepTheirDistance SleepEndsAtTheFrame FramesKeepComing
