------------------------------ MODULE Unsigned ------------------------------
(***************************************************************************)
(* The C++ unsigned arithmetic of the queue counters: words of Modulus     *)
(* values (2^32 in the program), wrap-around addition and subtraction, and *)
(* the reading of a word as a signed number (as_signed, defs.h).           *)
(***************************************************************************)
EXTENDS Integers

CONSTANT Modulus        \* 2^32 for unsigned; small and even in a model

ASSUME ModulusAssumption == Modulus \in Nat /\ Modulus >= 2 /\ Modulus % 2 = 0

Word == 0 .. Modulus - 1

\* Mutant: an addition that does not wrap.
AddWide(a, b) == a + b

Add(a, b) == (a + b) % Modulus
Sub(a, b) == (a - b) % Modulus

\* The upper half of the words are the negative numbers.
AsSigned(a) == IF 2 * a < Modulus THEN a ELSE a - Modulus

\* Mutant: a queue of size slots takes one more.
ReachesLate(used, size) == AsSigned(used) > AsSigned(size)

\* The queue-full check: so many used slots are all of a queue's.
Reaches(used, size) == AsSigned(used) >= AsSigned(size)

\* The slots of any so many consecutive indices are different: what the pairing
\* of indices with slots has to achieve, also where the counter wraps.
ApartInWindows(slot, size) ==
  \A i \in Word : \A j, k \in 0 .. size - 1 : slot[Add(i, j)] = slot[Add(i, k)] => j = k
=============================================================================
