--------------------------- MODULE MCAtomicQueue2 ---------------------------
(* AtomicQueue2 on small instances: the slots of IndexRemap.               *)
EXTENDS AtomicQueue2, IndexRemap

CONSTANT ShuffleBits

SlotTable == [i \in 0 .. Modulus - 1 |-> Remap(i, Size, ShuffleBits)]

\* The slots serve an SPSC queue: the hypothesis of SpscQueueIsFifo.
ASSUME SlotsAssumption == Spsc => ApartInWindows(Slot, Size)
=============================================================================
