SPECIFICATION ObserverSpec
CONSTANTS
  Modulus = 16
  Producers = {p1}
  Consumers = {c1}
  Size = 2
  ShuffleBits = 0
  Slot <- SlotTable
  Spsc = FALSE
  Start = 14
  Lag = 0
  MaxPush = 2
  NIL = NIL
INVARIANTS
  ReportsHeldDuringCall
CHECK_DEADLOCK FALSE
