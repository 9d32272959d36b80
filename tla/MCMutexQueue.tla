---------------------------- MODULE MCMutexQueue ----------------------------
(* MutexQueue on small instances: the slots of IndexRemap.                 *)
EXTENDS MutexQueue, IndexRemap

CONSTANT ShuffleBits

SlotTable == [i \in 0 .. Modulus - 1 |-> Remap(i, Size, ShuffleBits)]

\* The slots serve.
ASSUME SlotsAssumption == ApartInWindows(Slot, Size)
=============================================================================
