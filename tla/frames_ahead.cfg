\* More images than frames: only the fences keep the CPU from running ahead.  Two
\* signals of a renderSem may become one here, and the display then stops for good.
SPECIFICATION FairSpec
CONSTANTS
  FRAME_OVERLAP = 2
  Images = {i1, i2, i3}
  NoImage = NoImage
  Disturbances = {"RESIZE", "SUBOPTIMAL", "OUT_OF_DATE", "TIMEOUT"}
INVARIANTS
  FrameDataExclusive
  FenceTellsInFlight
  ResourcesOutliveUse
  AcquireSemaphoreFresh
  ImageExclusiveUntilGivenUp
  SignalsInRound
  EveryWaitAnswered
PROPERTY QuitEnds
CHECK_DEADLOCK FALSE
