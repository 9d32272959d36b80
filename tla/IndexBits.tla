------------------------------ MODULE IndexBits -----------------------------
(***************************************************************************)
(* The size and the slots of every kind of queue, for any size the user    *)
(* asks for, while a counter runs through all its values and wraps.        *)
(***************************************************************************)
EXTENDS Unsigned, IndexRemap

CONSTANTS
  WordBits,       \* 32, the width of unsigned
  PerLine         \* the numbers of elements per cache line to try

ASSUME WordBitsAssumption == WordBits \in 1 .. 32 /\ Modulus = 2^WordBits

ASSUME PerLineAssumption == PerLine \subseteq Nat

\* A word as the set of its one bits, and back: |, & and ^ are the operators on
\* sets, without the recursion of module Bitwise.
Bits(a) == {k \in 0 .. WordBits - 1 : (a \div 2^k) % 2 = 1}
Numbers == [bits \in SUBSET (0 .. WordBits - 1) |-> CHOOSE a \in Word : Bits(a) = bits]
Number(bits) == Numbers[bits]

Or(a, b) == Number(Bits(a) \union Bits(b))
And(a, b) == Number(Bits(a) \intersect Bits(b))
Xor(a, b) == Number((Bits(a) \union Bits(b)) \ (Bits(a) \intersect Bits(b)))

\* or_equal(x, u): x | x >> u.
OrShifted(x, u) == Or(x, x \div 2^u)

\* Mutant: one step of the doubling is missing.
RoundUpShort(a) ==
  LET x1 == OrShifted(Sub(a, 1), 1)
      x4 == OrShifted(x1, 4)
      x8 == OrShifted(x4, 8)
  IN  Add(OrShifted(x8, 16), 1)

\* round_up_to_power_of_2; both ends wrap.
RoundUp(a) ==
  LET x1 == OrShifted(Sub(a, 1), 1)
      x2 == OrShifted(x1, 2)
      x4 == OrShifted(x2, 4)
      x8 == OrShifted(x4, 8)
  IN  Add(OrShifted(x8, 16), 1)

\* ~ and << of unsigned.  (>> is \div.)
Not(a) == Modulus - 1 - a
Shl(a, u) == (a * 2^u) % Modulus

\* The constants of IndexBits.  count2 is the operand of the instructions below.
mask_elem_idx(n) == Not(Shl(Modulus - 1, n))
mask_hi(n) == Shl(Modulus - 1, 2 * n)
count2(n) == 256 * n + n

\* bextr: the bits of a from the first byte of the operand on, as many as its
\* second byte says.  bzhi: those below its first byte.
Bextr(a, operand) == (a \div 2^(operand % 256)) % 2^((operand \div 256) % 256)
Bzhi(a, operand) == a % 2^(operand % 256)

RemapXor(idx, size, n) ==
  LET i == And(idx, Sub(size, 1))
      mix == And(Xor(i, i \div 2^n), mask_elem_idx(n))
  IN  Xor(Xor(i, mix), Shl(mix, n))

RemapAnd(idx, size, n) ==
  Or(Or(And(idx \div 2^n, mask_elem_idx(n)), Shl(And(idx, mask_elem_idx(n)), n)),
     And(idx, And(mask_hi(n), Sub(size, 1))))

\* Mutant: the bits above those of the size are kept.
RemapBmiBeyond(idx, size, n, bmi2) ==
  LET new_line_idx == Shl(IF bmi2 THEN Bzhi(idx, count2(n)) ELSE And(idx, mask_elem_idx(n)), n)
      new_elem_idx == Or(Bextr(idx, count2(n)), And(idx, mask_hi(n)))
  IN  Or(new_elem_idx, new_line_idx)

\* RemapBmi, compiled for BMI2 or for BMI1 only.
RemapBmi(idx, size, n, bmi2) ==
  LET new_line_idx == Shl(IF bmi2 THEN Bzhi(idx, count2(n)) ELSE And(idx, mask_elem_idx(n)), n)
      new_elem_idx == Or(Bextr(idx, count2(n)), And(idx, And(mask_hi(n), Sub(size, 1))))
  IN  Or(new_elem_idx, new_line_idx)

VARIABLES
  kind,           \* the queue: MINIMIZE_CONTENTION or not, or a B queue
  asked,          \* SIZE, or the size given to the constructor
  perLine,        \* CACHE_LINE_SIZE / sizeof an element or a state
  counter         \* head_ or tail_

vars == <<kind, asked, perLine, counter>>

\* size_ and SHUFFLE_BITS.
QueueSize ==
  CASE kind = "plain" -> asked
    [] kind = "minimize" -> RoundUp(asked)
    [] kind = "B" -> LET least == 2^(2 * CacheLineBits(perLine))
                     IN  IF RoundUp(asked) < least THEN least ELSE RoundUp(asked)

ShuffleBits ==
  IF kind = "B" THEN CacheLineBits(perLine)
                ELSE IndexShuffleBits(kind = "minimize", QueueSize, perLine)

\* Any size can be asked for.  A B queue does not compile without bits to
\* shuffle, and its least size is far below half of the words.
Init ==
  /\ kind \in {"plain", "minimize", "B"}
  /\ asked \in 1 .. Modulus - 1
  /\ perLine \in PerLine
  /\ kind = "B" => CacheLineBits(perLine) > 0 /\ 2^(2 * CacheLineBits(perLine)) < Modulus \div 2
  /\ counter = Modulus - 1 - (Modulus \div 8)

\* push and pop count on.
Next == counter' = Add(counter, 1) /\ UNCHANGED <<kind, asked, perLine>>

Spec == Init /\ [][Next]_vars

IsPowerOf2(n) == \E k \in 0 .. WordBits : n = 2^k

SlotAt(k) == Remap(Add(counter, k), QueueSize, ShuffleBits)

-----------------------------------------------------------------------------
\* README and round_up_to_power_of_2: a size is rounded up to a power of 2, and
\* no further than to the next, so that no memory is wasted and % is &.
RoundedToNextPower ==
  kind = "minimize" /\ asked <= Modulus \div 2 =>
    /\ IsPowerOf2(QueueSize)
    /\ asked <= QueueSize /\ QueueSize < 2 * asked

\* A size is honoured: there is room for so many elements, and for no more than
\* the slots there are.
Honoured ==
  /\ asked <= QueueSize
  /\ \A used \in 0 .. QueueSize : Reaches(used, QueueSize) <=> used = QueueSize

\* README: sizes up to 4,294,967,295.  In the code, just these are honoured: up to
\* a quarter of the words if sizes are rounded, below a half otherwise.  Beyond, the
\* check whether the queue is full takes the size for a negative number, or rounding
\* wraps to 0 and a B queue gets its least size without a word.
SizesHonouredBelowHalf ==
  Honoured <=> IF kind = "plain" THEN asked < Modulus \div 2 ELSE asked <= Modulus \div 4

\* As many consecutive indices as the queue has slots take every slot once,
\* across the wrap of the counter, too, for sizes that are powers of 2: the
\* pairing of indices with slots all queue modules rely on.
ConsecutiveIndicesTakeAllSlots ==
  IsPowerOf2(QueueSize) =>
    {SlotAt(k) : k \in 0 .. QueueSize - 1} = 0 .. QueueSize - 1

\* README: consecutive queue elements get mapped into distinct cache lines, as
\* many of them as a line has elements, wherever bits are shuffled.
ConsecutiveIndicesOnDistinctLines ==
  ShuffleBits > 0 =>
    \A j, k \in 0 .. 2^ShuffleBits - 1 :
      j # k => SlotAt(j) \div perLine # SlotAt(k) \div perLine

\* The implementations of the remapping, one of which is compiled in, each with
\* shifts, masks or instructions of its own, agree on every index (tests.cc,
\* remap_index, tries some): RemapXor, RemapAnd and both forms of RemapBmi.
RemapsAgree ==
  ShuffleBits > 0 =>
    LET slot == Remap(counter, QueueSize, ShuffleBits)
    IN  /\ RemapXor(counter, QueueSize, ShuffleBits) = slot
        /\ RemapAnd(counter, QueueSize, ShuffleBits) = slot
        /\ \A bmi2 \in BOOLEAN : RemapBmi(counter, QueueSize, ShuffleBits, bmi2) = slot
=============================================================================
