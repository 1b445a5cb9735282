\* A resize makes BeginFrame give up the image it has just acquired.
SPECIFICATION Spec
CONSTANTS
  FRAME_OVERLAP = 2
  Images = {i1, i2}
  NoImage = NoImage
  Disturbances = {"RESIZE"}
INVARIANT ImageExclusive
