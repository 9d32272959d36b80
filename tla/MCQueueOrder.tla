---------------------------- MODULE MCQueueOrder ----------------------------
(* QueueOrder on small instances: the slots of IndexRemap.                 *)
EXTENDS QueueOrder, IndexRemap

CONSTANT ShuffleBits

SlotTable == [i \in 0 .. Modulus - 1 |-> Remap(i, Size, ShuffleBits)]
=============================================================================
