\* Every order of calls that stays within the slots.
SPECIFICATION Spec
CONSTANTS
  SIZE = 5
  Null = Null
  MaxHandle = 4
INVARIANTS
  TypeOK
  SlotsOwnObjects
  HandlesPersist
  TargetsOwnImages
