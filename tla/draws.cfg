\* Up to three objects, two views; the model may have failed to load.
SPECIFICATION Spec
CONSTANTS
  FRAME_OVERLAP = 2
  MAX_POINT_LIGHTS = 2
  MaxObjects = 3
  Materials = {t1, t2}
  Sky = Sky
  Views = {v1, v2}
  Rotations = 3
  Undefined = Undefined
INVARIANT
  TypeOK
PROPERTY
  ImplementsPictures
\* The thread ends when it reads the first of no objects.
CHECK_DEADLOCK FALSE
