----------------------------- MODULE IndexRemap -----------------------------
(***************************************************************************)
(* Which slot an index belongs to: the shuffling of index bits that puts   *)
(* consecutive elements on different cache lines, the number of bits it    *)
(* shuffles, and the rounding of sizes to powers of 2.  Arithmetic in      *)
(* place of shifts and masks.                                              *)
(***************************************************************************)
EXTENDS Integers

\* n bits of index from bit low up: (index >> low) & ~(~0u << n).
Field(index, low, n) == (index \div 2^low) % 2^n

\* Mutant: the bits stay where they are.
SwappedNot(idx, size, n) == idx % size

\* remap: swap the lowest n bits of the index with the next n and keep those
\* above, as far as the size has them.  What RemapXor, RemapAnd and RemapBmi do;
\* module IndexBits has each with its shifts, masks and instructions.
Swapped(idx, size, n) ==
  Field(idx, n, n) + Field(idx, 0, n) * 2^n
    + ((idx % size) - ((idx % size) % 2^(2 * n)))

\* Mutant: consecutive indices share a slot.
RemapPairs(idx, size, n) == (idx \div 2) % size

\* Remap0: with no bits to shuffle, index % size for any size.
Remap(idx, size, n) == IF n = 0 THEN idx % size ELSE Swapped(idx, size, n)

\* GetCacheLineIndexBits: which powers of 2 elements in a cache line have bits
\* to shuffle.  Other numbers have none.
CacheLineBits(perLine) ==
  IF \E k \in 1 .. 8 : perLine = 2^k THEN CHOOSE k \in 1 .. 8 : perLine = 2^k ELSE 0

\* Mutant: no check of the size of the array.
ShuffleAnySize(minimizeContention, size, perLine) ==
  IF minimizeContention THEN CacheLineBits(perLine) ELSE 0

\* GetIndexShuffleBits: none when the array is too small to swap them.
IndexShuffleBits(minimizeContention, size, perLine) ==
  IF minimizeContention /\ size >= 2^(2 * CacheLineBits(perLine))
    THEN CacheLineBits(perLine) ELSE 0
=============================================================================
