SPECIFICATION Spec
CONSTANTS
  Modulus = 32
  Total = 26
  Allocators = {a1, a2}
  Huge = Huge
  PageSize <- PageSizes
  Requested = 17
  Objects = {x, y}
  Sizes = {4, 8}
  ShuffleBits = 1
  Emptied = {2, 4}
  MaxPush = 5
INVARIANTS
  FreeSlotsAreReady
  BlocksHaveOneOwner
  MovedFromRefuses
  HugePagesUnwound
PROPERTIES
  ImplementsContainers
SYMMETRY Symmetry
CHECK_DEADLOCK FALSE
