\* A cubemap of which a file is missing.
SPECIFICATION Spec
CONSTANTS
  FRAME_OVERLAP = 2
  Data = {d1}
  Undefined = Undefined
  Sets = {0, 1}
  MAX_TEXTURES = 2
  MaxMeshes = 1
  MaxTextures = 1
  SIZE = 18
  Null = Null
INVARIANT PixelsLoaded
