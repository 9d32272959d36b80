SPECIFICATION StallSpec
CONSTANTS
  Modulus = 16
  Producers = {p1, p2}
  Consumers = {c1, c2}
  Size = 2
  ShuffleBits = 0
  Slot <- SlotTable
  Spsc = FALSE
  Start = 14
  Lag = 0
  MaxPush = 3
  MayStall = {p1, c1}
  NIL = NIL
INVARIANTS
  InOrderUnlessLapped
PROPERTIES
  OwnTurnUnlessLapped
  StalledPushAffectsOneConsumer
  StalledPopAffectsOneProducer
CHECK_DEADLOCK FALSE
