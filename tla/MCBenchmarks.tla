----------------------------- MODULE MCBenchmarks ---------------------------
(* Benchmarks on small instances: the slots of IndexRemap; a machine of    *)
(* which 4 CPUs may be used (taskset), three with CPUs offline, below or   *)
(* above those that may be used, and two that are refused for their counts *)
(* of CPUs.                                                                *)
EXTENDS Benchmarks, IndexRemap

CONSTANT ShuffleBits

SlotTable == [i \in 0 .. Modulus - 1 |-> Remap(i, Size, ShuffleBits)]

\* The last three are refused: by the position of a CPU, by the count of the
\* C++ library, and for want of a second CPU.
MachineSet ==
  {[online |-> 0 .. 5, allowed |-> {0, 2, 3, 5}, hardware_concurrency |-> 6],
   [online |-> {0, 2, 3, 4}, allowed |-> {0, 2, 3}, hardware_concurrency |-> 4],
   [online |-> {0, 1, 3}, allowed |-> {0, 1}, hardware_concurrency |-> 3],
   [online |-> {0, 2, 3}, allowed |-> {0, 2, 3}, hardware_concurrency |-> 3],
   [online |-> 0 .. 3, allowed |-> {0, 1}, hardware_concurrency |-> 2],
   [online |-> 0 .. 3, allowed |-> {3}, hardware_concurrency |-> 4]}

PlanSet == {<<"AtomicQueue", "AtomicQueue2", "throughput">>,
            <<"AtomicQueue", "alternative">>,
            <<"AtomicQueue2">>}
=============================================================================
