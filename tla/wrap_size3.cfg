SPECIFICATION Spec
CONSTANTS
  Modulus = 16
  Producers = {p1}
  Consumers = {c1}
  Size = 3
  ShuffleBits = 0
  Slot <- SlotTable
  Spsc = FALSE
  Start = 14
  Lag = 0
  MaxPush = 3
  NIL = NIL
INVARIANTS
  PushWaitsOnlyWhenFull
CHECK_DEADLOCK FALSE
