SPECIFICATION FairSpec
CONSTANTS
  Modulus = 16
  Producers = {p1, p2}
  Consumers = {c1, c2}
  Size = 2
  ShuffleBits = 0
  Slot <- SlotTable
  Spsc = FALSE
  Start = 14
  Lag = 1
  MaxPush = 2
  Blank = Blank
INVARIANTS
  TypeOK
  NoDataRace
  PushWaitsOnlyWhenFull
  PopWaitsOnlyWhenEmpty
PROPERTIES
  ImplementsChannel
  AllDelivered
CHECK_DEADLOCK FALSE
