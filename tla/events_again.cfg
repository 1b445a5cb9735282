\* A window that is minimised a second time.
SPECIFICATION Spec
CONSTANTS
  Sizes = {small, large}
  InitialSize = large
  MaxEvents = 3
  MaxMinimises = 2
INVARIANT SwapchainBuilds
