SPECIFICATION Spec

CONSTANTS
  FRAME_OVERLAP = 2
  ImageCounts = {2, 3}
  MaxRecreations = 1
  MaxGrowths = 2

INVARIANTS
  TypeOK
  InUseAlive
  RingExclusive
  NothingLeft

PROPERTY MadeFromLive
