SPECIFICATION FairSpec
CONSTANTS
  Modulus = 8
  Threads = {p1, p2, c1, o1}
  Producers = {p1, p2}
  Consumers = {c1}
  Observers = {o1}
  Size = 2
  ShuffleBits = 0
  Slot <- SlotTable
  Start = 6
  MaxPush = 2
  Blank = Blank
INVARIANTS
  MutualExclusion
PROPERTIES
  ImplementsFifo
  TicketHoldersDeliver
CHECK_DEADLOCK FALSE
