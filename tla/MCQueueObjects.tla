--------------------------- MODULE MCQueueObjects ---------------------------
(* QueueObjects on small instances: objects and allocators are alike.      *)
EXTENDS QueueObjects

PageSizes == [PAGE_DEFAULT |-> 2, PAGE_2MB |-> 4, PAGE_1GB |-> 8]

\* The sizes divide the number of words, as powers of 2 do in the program.
ASSUME SizesDivideAssumption == \A n \in Sizes : \E c \in 0 .. Modulus : Modulus = c * n

Symmetry == Permutations(Objects) \cup Permutations(Allocators)
=============================================================================
