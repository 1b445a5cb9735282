\* Loading of every small glTF file, one that cannot be parsed included, with images and
\* skyboxes that fail to load and waits that time out.  The slotmaps and descriptors
\* are just enough.
SPECIFICATION LoadSpec
CONSTANTS
  FRAME_OVERLAP = 2
  Undefined = Undefined
  Sets = {0, 1}
  MAX_TEXTURES = 4
  MaxMeshes = 3
  MaxTextures = 3
  SIZE = 28
  Null = Null
  d1 = d1
  d2 = d2
  sky = sky
  Data <- MCData
  Models <- MCModels
  CubeParts <- MCCubeParts
  SkyPixels = sky
INVARIANTS
  TypeOK
  LoadTypeOK
  StagingOutlivesCopy
  MeshesArrived
  TexturesBound
  NoStagingLeft
  ObjectsTextured
  ObjectsDrawable
  SceneComplete
