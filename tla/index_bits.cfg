SPECIFICATION Spec
CONSTANTS
  Modulus = 64
  WordBits = 6
  PerLine = {1, 2, 3, 4}
INVARIANTS
  RoundedToNextPower
  SizesHonouredBelowHalf
  ConsecutiveIndicesTakeAllSlots
  ConsecutiveIndicesOnDistinctLines
  RemapsAgree
