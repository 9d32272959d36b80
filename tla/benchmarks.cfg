SPECIFICATION BenchmarksSpec
CONSTANTS
  Modulus = 16
  Producers = {main, p1}
  Consumers = {c1, c2}
  Main = main
  Size = 2
  ShuffleBits = 0
  Slot <- SlotTable
  Spsc = FALSE
  Start = 14
  Lag = 0
  MaxPush = 3
  NIL = NIL
  Capacity = 2
  Machines <- MachineSet
  Plans <- PlanSet
INVARIANTS
  ReceivedExactlyOnce
  OneMessageInTurn
  ThreadsApart
  AllowedCpusUnlessGaps
PROPERTIES
  EndsUnlessZero
CHECK_DEADLOCK FALSE
