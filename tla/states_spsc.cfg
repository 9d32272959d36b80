SPECIFICATION FairSpec
CONSTANTS
  Modulus = 16
  Producers = {p1}
  Consumers = {c1}
  Size = 4
  ShuffleBits = 1
  Slot <- SlotTable
  Spsc = TRUE
  Start = 12
  Lag = 1
  MaxPush = 7
  Blank = Blank
INVARIANTS
  NoDataRace
PROPERTIES
  ImplementsFifo
  AllDelivered
CHECK_DEADLOCK FALSE
