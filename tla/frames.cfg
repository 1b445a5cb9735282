\* No more images than frames, so that a frame never overtakes the display.
SPECIFICATION FairSpec
CONSTANTS
  FRAME_OVERLAP = 2
  Images = {i1, i2}
  NoImage = NoImage
  Disturbances = {"RESIZE", "SUBOPTIMAL", "OUT_OF_DATE"}
INVARIANT TypeOK
PROPERTIES
  EveryPresentShown
  QuitStops
  ImplementsFramesInFlight
