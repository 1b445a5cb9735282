\* Two sizes, and a window that is minimised at most twice.
SPECIFICATION FairSpec
CONSTANTS
  Sizes = {small, large}
  InitialSize = large
  MaxEvents = 3
  MaxMinimises = 2
INVARIANTS
  TypeOK
  DrawsFit
  
PROPERTIES
  QuitHonoured
  ResizeHonoured
