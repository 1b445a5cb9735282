\* One handle more than there are slots.
SPECIFICATION Spec
CONSTANTS
  SIZE = 3
  Null = Null
  MaxHandle = 3
INVARIANT
  HandlesPersist
