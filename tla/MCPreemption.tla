---------------------------- MODULE MCPreemption ----------------------------
(* Preemption on small instances: the slots of IndexRemap.                 *)
EXTENDS Preemption, IndexRemap

CONSTANT ShuffleBits

SlotTable == [i \in 0 .. Modulus - 1 |-> Remap(i, Size, ShuffleBits)]
=============================================================================
