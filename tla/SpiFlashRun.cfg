CONSTANTS
  MaxWork = 6
  Size = 8
  PartSizes = {4, 8}
  Sector = 2
  MaxErase = 4
  MaxWrite = 3
SPECIFICATION RunSpec
INVARIANTS
  BusyIsLeftAlone
  EverythingIsCleanedUp
  ResultIsTrue
  NeighboursKept
  ErasedOnce
PROPERTIES
  PinsFreeBeforeReset
  RangeEnds
CHECK_DEADLOCK FALSE
