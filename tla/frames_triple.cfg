\* Three swapchain images, two frames in flight, an undisturbed environment.
SPECIFICATION Spec
CONSTANTS
  FRAME_OVERLAP = 2
  Images = {i1, i2, i3}
  NoImage = NoImage
  Disturbances = {}
INVARIANT RenderSemaphoreFresh
