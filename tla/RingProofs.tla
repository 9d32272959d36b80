------------------------------ MODULE RingProofs ----------------------------
(***************************************************************************)
(* Facts the proofs about ring buffers share: the arithmetic of words, the *)
(* pairing of indices with slots, and the sequences read off a window of   *)
(* indices.                                                                *)
(***************************************************************************)
EXTENDS Unsigned, IndexRemap, Sequences, WellFoundedInduction, TLAPS

\* The wrap-around operations stay within the words.
LEMMA WordArithmetic ==
  ASSUME NEW a \in Word, NEW b \in Nat
  PROVE  Add(a, b) \in Word /\ Sub(a, b) \in Word
BY ModulusAssumption DEF Word, Add, Sub

\* Words are natural numbers, 0 and 1 among them.
LEMMA WordNat ==
  /\ 0 \in Word /\ 1 \in Word
  /\ \A a \in Word : a \in Nat /\ a < Modulus
BY ModulusAssumption DEF Word

\* The word n after a is n apart from it.
LEMMA SubAdd ==
  ASSUME NEW a \in Word, NEW n \in Word
  PROVE  Sub(Add(a, n), a) = n
BY ModulusAssumption DEF Word, Add, Sub

\* No two words are equally far from a.
LEMMA SubInjective ==
  ASSUME NEW a \in Word, NEW b \in Word, NEW c \in Word, Sub(b, a) = Sub(c, a)
  PROVE  b = c
BY ModulusAssumption DEF Word, Sub

\* Only a word itself is not apart from it.
LEMMA SubZero ==
  ASSUME NEW a \in Word, NEW b \in Word
  PROVE  Sub(b, a) = 0 <=> b = a
BY ModulusAssumption DEF Word, Sub

\* Steps of one add up.
LEMMA AddOne ==
  ASSUME NEW a \in Word, NEW n \in Word
  PROVE  /\ Add(Add(a, n), 1) = Add(a, n + 1)
         /\ Add(Add(a, 1), n) = Add(a, n + 1)
BY ModulusAssumption DEF Word, Add

\* Moving the end of a stretch of words on makes it longer by one, unless it
\* has come round to its start.
LEMMA SubAfter ==
  ASSUME NEW a \in Word, NEW b \in Word, Sub(b, a) # Modulus - 1
  PROVE  Sub(Add(b, 1), a) = Sub(b, a) + 1
BY ModulusAssumption DEF Word, Add, Sub

\* Moving its start on makes it shorter by one, unless it is empty.
LEMMA SubFrom ==
  ASSUME NEW a \in Word, NEW b \in Word, b # a
  PROVE  Sub(b, Add(a, 1)) = Sub(b, a) - 1
BY ModulusAssumption DEF Word, Add, Sub

\* Going from a word to another the way they are apart.
LEMMA AddSub ==
  ASSUME NEW a \in Word, NEW b \in Word
  PROVE  Add(a, Sub(b, a)) = b
BY ModulusAssumption DEF Word, Add, Sub

\* Division with a remainder.
LEMMA Division ==
  ASSUME NEW n \in Int, NEW d \in Nat \ {0}
  PROVE  n \div d \in Int /\ n % d \in 0 .. d - 1 /\ n = (n \div d) * d + (n % d)
OBVIOUS

\* The remainder of a number written as quotient and remainder.
LEMMA Remainder ==
  ASSUME NEW q \in Int, NEW d \in Nat \ {0}, NEW r \in 0 .. d - 1
  PROVE  (q * d + r) % d = r
OBVIOUS

\* Quotient and remainder of a number written as such.
LEMMA Quotient ==
  ASSUME NEW q \in Int, NEW d \in Nat \ {0}, NEW r \in 0 .. d - 1
  PROVE  (q * d + r) \div d = q
OBVIOUS

\* Numbers a multiple of d apart have the same remainder.
LEMMA SameRemainder ==
  ASSUME NEW b \in Int, NEW d \in Nat \ {0}, NEW q \in Int
  PROVE  (q * d + b) % d = b % d
<1>1. q * d + b = (q + (b \div d)) * d + (b % d) /\ q + (b \div d) \in Int
  BY Division
<1>2. b % d \in 0 .. d - 1
  BY Division
<1> QED
  BY <1>1, <1>2, Remainder

\* Different numbers less than d apart have not.
LEMMA RemaindersDiffer ==
  ASSUME NEW a \in Int, NEW b \in Int, NEW d \in Nat \ {0},
         a % d = b % d, a - b < d, b - a < d
  PROVE  a = b
<1> DEFINE q == (a \div d) - (b \div d)
<1>1. q \in Int /\ a - b = q * d
  <2> PICK qa, qb, r : qa = a \div d /\ qb = b \div d /\ r = a % d
    OBVIOUS
  <2>1. qa \in Int /\ qb \in Int /\ r \in Int /\ a = qa * d + r /\ b = qb * d + r
    BY Division
  <2> QED
    BY ONLY <2>1, d \in Nat \ {0}, qa = a \div d, qb = b \div d
<1> HIDE DEF q
<1>2. q = 0
  BY <1>1
<1> QED
  BY <1>1, <1>2

\* With a size that divides the number of words, the slot index % size of an
\* index serves.
LEMMA DivisorsApart ==
  ASSUME NEW size \in Nat \ {0}, NEW m \in Nat, Modulus = m * size,
         NEW slot, \A i \in Word : slot[i] = i % size
  PROVE  ApartInWindows(slot, size)
<1> SUFFICES ASSUME NEW i \in Word, NEW j \in 0 .. size - 1, NEW k \in 0 .. size - 1,
                    slot[Add(i, j)] = slot[Add(i, k)]
             PROVE  j = k
  BY DEF ApartInWindows
<1>1. ASSUME NEW n \in Nat
      PROVE  Add(i, n) \in Word /\ Add(i, n) % size = (i + n) % size
  <2>1. i \in Int /\ i + n \in Int /\ Modulus \in Nat \ {0}
    BY ModulusAssumption DEF Word
  <2>2. PICK q \in Int : i + n = q * Modulus + Add(i, n)
    BY <2>1, Division DEF Add
  <2>3. Add(i, n) \in Word /\ Add(i, n) \in Int
    <3>1. Add(i, n) \in Word
      BY WordArithmetic
    <3> QED
      BY <3>1 DEF Word
  <2> DEFINE r == q * m
  <2>4. i + n = r * size + Add(i, n) /\ r \in Int
    BY <2>1, <2>2, <2>3
  <2> HIDE DEF r
  <2>5. (r * size + Add(i, n)) % size = Add(i, n) % size
    BY <2>3, <2>4, SameRemainder
  <2> QED
    BY <2>3, <2>4, <2>5
<1>2. (i + j) % size = (i + k) % size
  BY <1>1
<1>3. i \in Int /\ i + j \in Int /\ i + k \in Int
  BY DEF Word
<1>4. i + j = i + k
  <2>1. (i + j) - (i + k) < size /\ (i + k) - (i + j) < size
    BY <1>3
  <2> QED
    BY ONLY <1>2, <1>3, <2>1, RemaindersDiffer, size \in Nat \ {0}
<1> QED
  BY <1>3, <1>4

-----------------------------------------------------------------------------
(* Powers of 2 and induction over the bits of a word.                      *)
\* From 0 step by step up to n.
LEMMA StepByStep ==
  ASSUME NEW n \in Nat, NEW S, 0 \in S, \A k \in 0 .. n - 1 : k \in S => k + 1 \in S
  PROVE  \A k \in 0 .. n : k \in S
<1> DEFINE out == {k \in 0 .. n : k \notin S}
<1> SUFFICES ASSUME out # {} PROVE FALSE
  OBVIOUS
<1>1. out \subseteq Nat
  OBVIOUS
<1> HIDE DEF out
<1>2. PICK k \in out : \A i \in out : ~(<<i, k>> \in OpToRel(<, Nat))
  BY <1>1, NatLessThanWellFounded, WFMin, Zenon
<1>3. \A i \in out : ~(i < k)
  BY <1>1, <1>2, Zenon DEF OpToRel
<1> QED
  BY <1>3 DEF out

\* The powers of 2 a word holds.
LEMMA PowerStep ==
  /\ 2^0 = 1
  /\ \A k \in 0 .. 31 : 2^(k + 1) = 2 * 2^k
  /\ \A k \in 0 .. 32 : 2^k \in Nat \ {0}
<1>1. \A k \in {0, 1, 2, 3, 4, 5, 6, 7} : 2^(k + 1) = 2 * 2^k
  <2>1. /\ 2^1 = 2 * 2^0 /\ 2^2 = 2 * 2^1 /\ 2^3 = 2 * 2^2 /\ 2^4 = 2 * 2^3
        /\ 2^5 = 2 * 2^4 /\ 2^6 = 2 * 2^5 /\ 2^7 = 2 * 2^6 /\ 2^8 = 2 * 2^7
    OBVIOUS
  <2>2. /\ 0 + 1 = 1 /\ 1 + 1 = 2 /\ 2 + 1 = 3 /\ 3 + 1 = 4
        /\ 4 + 1 = 5 /\ 5 + 1 = 6 /\ 6 + 1 = 7 /\ 7 + 1 = 8
    OBVIOUS
  <2> QED
    BY ONLY <2>1, <2>2, Zenon
<1>2. \A k \in {8, 9, 10, 11, 12, 13, 14, 15} : 2^(k + 1) = 2 * 2^k
  <2>1. /\ 2^9 = 2 * 2^8 /\ 2^10 = 2 * 2^9 /\ 2^11 = 2 * 2^10 /\ 2^12 = 2 * 2^11
        /\ 2^13 = 2 * 2^12 /\ 2^14 = 2 * 2^13 /\ 2^15 = 2 * 2^14 /\ 2^16 = 2 * 2^15
    OBVIOUS
  <2>2. /\ 8 + 1 = 9 /\ 9 + 1 = 10 /\ 10 + 1 = 11 /\ 11 + 1 = 12
        /\ 12 + 1 = 13 /\ 13 + 1 = 14 /\ 14 + 1 = 15 /\ 15 + 1 = 16
    OBVIOUS
  <2> QED
    BY ONLY <2>1, <2>2, Zenon
<1>3. \A k \in {16, 17, 18, 19, 20, 21, 22, 23} : 2^(k + 1) = 2 * 2^k
  <2>1. /\ 2^17 = 2 * 2^16 /\ 2^18 = 2 * 2^17 /\ 2^19 = 2 * 2^18 /\ 2^20 = 2 * 2^19
        /\ 2^21 = 2 * 2^20 /\ 2^22 = 2 * 2^21 /\ 2^23 = 2 * 2^22 /\ 2^24 = 2 * 2^23
    OBVIOUS
  <2>2. /\ 16 + 1 = 17 /\ 17 + 1 = 18 /\ 18 + 1 = 19 /\ 19 + 1 = 20
        /\ 20 + 1 = 21 /\ 21 + 1 = 22 /\ 22 + 1 = 23 /\ 23 + 1 = 24
    OBVIOUS
  <2> QED
    BY ONLY <2>1, <2>2, Zenon
<1>4. \A k \in {24, 25, 26, 27, 28, 29, 30, 31} : 2^(k + 1) = 2 * 2^k
  <2>1. /\ 2^25 = 2 * 2^24 /\ 2^26 = 2 * 2^25 /\ 2^27 = 2 * 2^26 /\ 2^28 = 2 * 2^27
        /\ 2^29 = 2 * 2^28 /\ 2^30 = 2 * 2^29 /\ 2^31 = 2 * 2^30 /\ 2^32 = 2 * 2^31
    OBVIOUS
  <2>2. /\ 24 + 1 = 25 /\ 25 + 1 = 26 /\ 26 + 1 = 27 /\ 27 + 1 = 28
        /\ 28 + 1 = 29 /\ 29 + 1 = 30 /\ 30 + 1 = 31 /\ 31 + 1 = 32
    OBVIOUS
  <2> QED
    BY ONLY <2>1, <2>2, Zenon
<1>5. \A k \in 0 .. 31 : 2^(k + 1) = 2 * 2^k
  <2>1. ASSUME NEW k \in 0 .. 31 PROVE 2^(k + 1) = 2 * 2^k
    <3>1. CASE k \in {0, 1, 2, 3, 4, 5, 6, 7}
      BY ONLY <1>1, <3>1, Zenon
    <3>2. CASE k \in {8, 9, 10, 11, 12, 13, 14, 15}
      BY ONLY <1>2, <3>2, Zenon
    <3>3. CASE k \in {16, 17, 18, 19, 20, 21, 22, 23}
      BY ONLY <1>3, <3>3, Zenon
    <3>4. CASE k \in {24, 25, 26, 27, 28, 29, 30, 31}
      BY ONLY <1>4, <3>4, Zenon
    <3>5. \/ k \in {0, 1, 2, 3, 4, 5, 6, 7} \/ k \in {8, 9, 10, 11, 12, 13, 14, 15}
          \/ k \in {16, 17, 18, 19, 20, 21, 22, 23}
          \/ k \in {24, 25, 26, 27, 28, 29, 30, 31}
      BY ONLY k \in 0 .. 31
    <3> QED
      BY ONLY <3>1, <3>2, <3>3, <3>4, <3>5
  <2> QED
    BY ONLY <2>1, Zenon
<1>6. 2^0 = 1 /\ 1 \in Nat \ {0}
  OBVIOUS
<1> DEFINE S == {k \in 0 .. 32 : 2^k \in Nat \ {0}}
<1>7. \A k \in 0 .. 32 : k \in S
  <2>1. 0 \in S
    BY <1>6
  <2>2. \A k \in 0 .. 32 - 1 : k \in S => k + 1 \in S
    <3>1. ASSUME NEW k \in 0 .. 32 - 1, k \in S PROVE k + 1 \in 0 .. 32 /\ 2^(k + 1) \in Nat \ {0}
      <4>1. k \in 0 .. 31 /\ 2^k \in Nat \ {0} /\ k + 1 \in 0 .. 32
        BY <3>1
      <4>2. PICK p : p = 2^k
        OBVIOUS
      <4>3. 2^(k + 1) = 2 * p
        BY ONLY <1>5, <4>1, <4>2, Zenon
      <4>4. 2 * p \in Nat \ {0}
        BY <4>1, <4>2
      <4> QED
        BY ONLY <4>1, <4>3, <4>4, Zenon
    <3> QED
      BY <3>1, Zenon
  <2> HIDE DEF S
  <2> QED
    BY <2>1, <2>2, StepByStep
<1> QED
  BY <1>5, <1>6, <1>7

\* Exponents add up.
LEMMA PowerSum ==
  ASSUME NEW a \in Nat, NEW b \in Nat, a + b <= 32
  PROVE  2^(a + b) = 2^a * 2^b
<1> DEFINE S == {k \in 0 .. b : 2^(a + k) = 2^a * 2^k}
<1>1. 0 \in S
  BY PowerStep
<1>2. \A k \in 0 .. b - 1 : k \in S => k + 1 \in S
  <2> SUFFICES ASSUME NEW k \in 0 .. b - 1, k \in S PROVE k + 1 \in S
    OBVIOUS
  <2>1. PICK m : m = a + k
    OBVIOUS
  <2>2. k \in 0 .. 31 /\ k \in 0 .. 32 /\ m \in 0 .. 31 /\ a \in 0 .. 32 /\ a + (k + 1) = m + 1
    BY <2>1
  <2> PICK p, q, r : p = 2^a /\ q = 2^k /\ r = 2^m
    OBVIOUS
  <2>3. /\ 2^(k + 1) = 2 * q /\ 2^(a + (k + 1)) = 2 * r
        /\ p \in Nat /\ q \in Nat /\ r = p * q
    BY ONLY <2>1, <2>2, k \in S, PowerStep, p = 2^a, q = 2^k, r = 2^m, Zenon
  <2>4. 2 * (p * q) = p * (2 * q)
    BY <2>3
  <2>5. k + 1 \in 0 .. b
    OBVIOUS
  <2> QED
    BY ONLY <2>3, <2>4, <2>5, p = 2^a, Zenon
<1> HIDE DEF S
<1>3. \A k \in 0 .. b : k \in S
  BY <1>1, <1>2, StepByStep
<1> QED
  BY <1>3 DEF S

-----------------------------------------------------------------------------
(* The shuffling of index bits.                                            *)
\* The powers of 2 that shuffling is about: of up to 2^8 elements a cache line.
LEMMA Powers ==
  ASSUME NEW n \in 1 .. 8
  PROVE  2^n \in Nat \ {0} /\ 2^(2 * n) = 2^n * 2^n /\ 2^0 = 1
<1>1. n \in {1, 2, 3, 4, 5, 6, 7, 8}
  OBVIOUS
<1>2. /\ 2 * 1 = 2 /\ 2 * 2 = 4 /\ 2 * 3 = 6 /\ 2 * 4 = 8
      /\ 2 * 5 = 10 /\ 2 * 6 = 12 /\ 2 * 7 = 14 /\ 2 * 8 = 16
  OBVIOUS
<1>3. /\ 2^0 = 1
      /\ 2^1 \in Nat \ {0} /\ 2^2 = 2^1 * 2^1
      /\ 2^2 \in Nat \ {0} /\ 2^4 = 2^2 * 2^2
      /\ 2^3 \in Nat \ {0} /\ 2^6 = 2^3 * 2^3
      /\ 2^4 \in Nat \ {0} /\ 2^8 = 2^4 * 2^4
      /\ 2^5 \in Nat \ {0} /\ 2^10 = 2^5 * 2^5
      /\ 2^6 \in Nat \ {0} /\ 2^12 = 2^6 * 2^6
      /\ 2^7 \in Nat \ {0} /\ 2^14 = 2^7 * 2^7
      /\ 2^8 \in Nat \ {0} /\ 2^16 = 2^8 * 2^8
  OBVIOUS
<1> QED
  BY ONLY <1>1, <1>2, <1>3, Zenon

\* The number with these two digits to the base b, and y above them.
Digits(b, y, high, low) == y * (b * b) + (high * b + low)

\* Where these two digits are.
LEMMA TwoDigits ==
  ASSUME NEW b \in Nat \ {0}, NEW q \in Int, NEW high \in 0 .. b - 1, NEW low \in 0 .. b - 1,
         NEW i, i = Digits(b, q, high, low)
  PROVE  (i \div b) % b = high /\ i % b = low
<1> DEFINE c == q * b + high
<1>1. c \in Int /\ i = c * b + low
  BY DEF Digits
<1>2. c % b = high
  BY Remainder
<1> HIDE DEF c
<1> QED
  BY ONLY <1>1, <1>2, b \in Nat \ {0}, low \in 0 .. b - 1, Quotient, Remainder

\* The digits of a number are its own.
LEMMA DigitsDiffer ==
  ASSUME NEW b \in Nat \ {0}, NEW y \in Int, NEW high \in 0 .. b - 1, NEW low \in 0 .. b - 1,
         NEW y2 \in Int, NEW high2 \in 0 .. b - 1, NEW low2 \in 0 .. b - 1,
         Digits(b, y, high, low) = Digits(b, y2, high2, low2)
  PROVE  y = y2 /\ high = high2 /\ low = low2
<1> DEFINE z == high * b + low
           z2 == high2 * b + low2
           bb == b * b
<1>1. /\ z \in 0 .. bb - 1 /\ z2 \in 0 .. bb - 1 /\ bb \in Nat \ {0}
      /\ z \div b = high /\ z % b = low /\ z2 \div b = high2 /\ z2 % b = low2
  <2>1. ASSUME NEW h \in 0 .. b - 1, NEW l \in 0 .. b - 1
        PROVE  h * b + l \in 0 .. bb - 1
    <3>1. h * b >= 0 /\ h * b \in Int /\ h * b <= (b - 1) * b
      OBVIOUS
    <3>2. (b - 1) * b = bb - b
      OBVIOUS
    <3> QED
      BY <3>1, <3>2
  <2>2. bb \in Nat \ {0}
    OBVIOUS
  <2>3. high \in Int /\ high2 \in Int
    OBVIOUS
  <2> QED
    BY ONLY <2>1, <2>2, <2>3, b \in Nat \ {0}, high \in 0 .. b - 1, low \in 0 .. b - 1,
            high2 \in 0 .. b - 1, low2 \in 0 .. b - 1, Quotient, Remainder
<1>2. y * bb + z = y2 * bb + z2
  BY DEF Digits
<1> HIDE DEF z, z2, bb
<1>3. (y * bb + z) \div bb = y /\ (y * bb + z) % bb = z
  BY <1>1, Quotient, Remainder
<1>4. (y2 * bb + z2) \div bb = y2 /\ (y2 * bb + z2) % bb = z2
  BY <1>1, Quotient, Remainder
<1> QED
  BY <1>1, <1>2, <1>3, <1>4

\* n bits are shuffled in size slots, whose number is a multiple of b * b.
Shuffles(n, b, m, size) ==
  n \in 1 .. 8 /\ b = 2^n /\ m \in Nat \ {0} /\ size = m * (b * b)

\* Of the remainder of i by the size, the two lowest digits are swapped.
SwapsDigits(i, n, b, m, size) ==
  \E y \in 0 .. m - 1, high \in 0 .. b - 1, low \in 0 .. b - 1 :
    /\ i % size = Digits(b, y, high, low)
    /\ Swapped(i, size, n) = Digits(b, y, low, high)

\* That is what shuffling the bits of an index does.
LEMMA SwappedDigits ==
  ASSUME NEW n, NEW b, NEW m, NEW size, Shuffles(n, b, m, size), NEW i \in Nat
  PROVE  SwapsDigits(i, n, b, m, size)
<1>0. n \in 1 .. 8 /\ b = 2^n /\ m \in Nat \ {0} /\ size = m * (b * b)
  BY DEF Shuffles
<1>1. b \in Nat \ {0} /\ 2^(2 * n) = b * b /\ 2^0 = 1
  BY <1>0, Powers
<1>2. PICK bb : bb = b * b
  OBVIOUS
<1>3. bb \in Nat \ {0} /\ size = m * bb /\ size \in Nat \ {0}
  BY ONLY <1>0, <1>1, <1>2
<1> DEFINE c == i \div size
           x == i % size
           y == x \div bb
           z == x % bb
           high == z \div b
           low == z % b
<1>4. c \in Int /\ x \in 0 .. size - 1 /\ i = c * size + x
  BY ONLY <1>3, i \in Nat, i \in Int, Division
<1>5. y \in Int /\ z \in 0 .. bb - 1 /\ x = y * bb + z
  <2>1. x \in Int
    BY ONLY <1>4, <1>3
  <2> HIDE DEF x
  <2> QED
    BY ONLY <1>3, <2>1, Division
<1>6. high \in Int /\ low \in 0 .. b - 1 /\ z = high * b + low
  <2>1. z \in Int
    BY ONLY <1>5, <1>3
  <2> HIDE DEF z
  <2> QED
    BY ONLY <1>1, <2>1, Division
<1>7. Swapped(i, size, n) = ((i \div b) % b) + ((i \div 1) % b) * b + (x - z)
  BY ONLY <1>0, <1>1, <1>2 DEF Swapped, Field
<1>8. i \div 1 = i
  OBVIOUS
<1> HIDE DEF c, x, y, z, high, low
<1>9. high \in 0 .. b - 1
  <2>1. high * b < b * b /\ high * b > -b
    BY ONLY <1>1, <1>2, <1>3, <1>5, <1>6
  <2> QED
    BY ONLY <1>1, <1>6, <2>1
<1>10. y \in 0 .. m - 1
  <2>1. y * bb < m * bb /\ y * bb > -bb
    BY ONLY <1>3, <1>4, <1>5
  <2> QED
    BY ONLY <1>3, <1>5, <2>1, <1>0
<1>11. (i \div b) % b = high /\ i % b = low
  <2>1. c * (m * bb) = (c * m) * bb /\ c * m \in Int
    BY ONLY <1>3, <1>4, <1>0
  <2>2. PICK e \in Int : e = c * m
    BY <2>1
  <2>3. i = e * bb + (y * bb + z)
    BY ONLY <1>3, <1>4, <1>5, <2>1, <2>2
  <2>4. (e + y) * bb = e * bb + y * bb
    BY ONLY <1>3, <1>5, <2>2
  <2>5. i = (e + y) * (b * b) + (high * b + low)
    BY ONLY <1>1, <1>2, <1>3, <1>5, <1>6, <2>2, <2>3, <2>4
  <2>6. PICK q \in Int : q = e + y
    BY <1>5
  <2>7. i = Digits(b, q, high, low)
    BY ONLY <2>5, <2>6 DEF Digits
  <2> QED
    BY ONLY <1>1, <1>6, <1>9, <2>7, q \in Int, TwoDigits
<1>12. i % size = Digits(b, y, high, low)
  BY <1>2, <1>5, <1>6 DEF Digits, x
<1>13. Swapped(i, size, n) = Digits(b, y, low, high)
  <2>1. high + low * b + (x - z) = y * bb + (low * b + high)
    BY ONLY <1>1, <1>3, <1>5, <1>6
  <2> QED
    BY ONLY <1>2, <1>7, <1>8, <1>11, <2>1 DEF Digits
<1> QED
  BY <1>6, <1>9, <1>10, <1>12, <1>13 DEF SwapsDigits

\* What makes shuffled indices serve as slots: they are slots, and two indices
\* have the same slot when, and only when, they have without shuffling.
SwapsAsSlots(size, n) ==
  /\ size \in Nat \ {0}
  /\ \A i \in Nat : Swapped(i, size, n) \in 0 .. size - 1
  /\ \A i, j \in Nat : Swapped(i, size, n) = Swapped(j, size, n) <=> i % size = j % size

\* Swapping digits is undone by swapping them again.
LEMMA SwappedSlots ==
  ASSUME NEW n \in 1 .. 8, NEW m \in Nat \ {0}, NEW size, size = m * 2^(2 * n)
  PROVE  SwapsAsSlots(size, n)
<1>1. PICK b : b = 2^n
  OBVIOUS
<1>2. b \in Nat \ {0} /\ size = m * (b * b)
  BY <1>1, Powers
<1>3. size \in Nat \ {0} /\ Shuffles(n, b, m, size)
  BY ONLY <1>1, <1>2, m \in Nat \ {0}, n \in 1 .. 8 DEF Shuffles
<1>4. ASSUME NEW i \in Nat PROVE SwapsDigits(i, n, b, m, size)
  BY ONLY <1>3, i \in Nat, SwappedDigits
<1>5. ASSUME NEW i \in Nat PROVE Swapped(i, size, n) \in 0 .. size - 1
  <2>1. PICK y \in 0 .. m - 1, high \in 0 .. b - 1, low \in 0 .. b - 1 :
               Swapped(i, size, n) = Digits(b, y, low, high)
    BY <1>4 DEF SwapsDigits
  <2>2. /\ low * b + high <= (b - 1) * b + (b - 1) /\ (b - 1) * b = b * b - b
        /\ low * b + high \in Nat
    BY ONLY <1>2, high \in 0 .. b - 1, low \in 0 .. b - 1
  <2>3. PICK bb, z : bb = b * b /\ z = low * b + high
    OBVIOUS
  <2>4. z \in 0 .. bb - 1 /\ bb \in Nat \ {0}
    BY ONLY <1>2, <2>2, <2>3
  <2>5. y * bb + z \in 0 .. m * bb - 1
    <3>1. y * bb <= (m - 1) * bb /\ (m - 1) * bb = m * bb - bb /\ y * bb \in Nat /\ m * bb \in Nat
      BY ONLY <2>4, m \in Nat \ {0}, y \in 0 .. m - 1
    <3> QED
      BY ONLY <2>4, <3>1
  <2> QED
    BY ONLY <1>2, <2>1, <2>3, <2>5 DEF Digits
<1>6. ASSUME NEW i \in Nat, NEW j \in Nat
      PROVE  Swapped(i, size, n) = Swapped(j, size, n) <=> i % size = j % size
  <2>1. PICK y \in 0 .. m - 1, high \in 0 .. b - 1, low \in 0 .. b - 1 :
               /\ i % size = Digits(b, y, high, low)
               /\ Swapped(i, size, n) = Digits(b, y, low, high)
    BY <1>4 DEF SwapsDigits
  <2>2. PICK y2 \in 0 .. m - 1, high2 \in 0 .. b - 1, low2 \in 0 .. b - 1 :
               /\ j % size = Digits(b, y2, high2, low2)
               /\ Swapped(j, size, n) = Digits(b, y2, low2, high2)
    BY <1>4 DEF SwapsDigits
  <2>3. y \in Int /\ y2 \in Int
    OBVIOUS
  <2> b \in Nat \ {0}
    BY <1>2
  <2>4. i % size = j % size => y = y2 /\ high = high2 /\ low = low2
    <3>1. Digits(b, y, high, low) = Digits(b, y2, high2, low2)
             => y = y2 /\ high = high2 /\ low = low2
      BY ONLY b \in Nat \ {0}, <2>3, high \in 0 .. b - 1, low \in 0 .. b - 1,
              high2 \in 0 .. b - 1, low2 \in 0 .. b - 1, DigitsDiffer
    <3> QED
      BY ONLY <2>1, <2>2, <3>1, Zenon
  <2>5. Swapped(i, size, n) = Swapped(j, size, n) => y = y2 /\ high = high2 /\ low = low2
    <3>1. Digits(b, y, low, high) = Digits(b, y2, low2, high2)
             => y = y2 /\ high = high2 /\ low = low2
      BY ONLY b \in Nat \ {0}, <2>3, high \in 0 .. b - 1, low \in 0 .. b - 1,
              high2 \in 0 .. b - 1, low2 \in 0 .. b - 1, DigitsDiffer
    <3> QED
      BY ONLY <2>1, <2>2, <3>1, Zenon
  <2> QED
    BY ONLY <2>1, <2>2, <2>4, <2>5, Zenon
<1> QED
  BY <1>3, <1>5, <1>6 DEF SwapsAsSlots

\* The slots of the program: with a size that divides the number of words, and
\* is large enough to shuffle its indices, any so many consecutive indices have
\* different slots, also where the counter wraps.
THEOREM ShuffledApart ==
  ASSUME NEW n \in 0 .. 8, NEW size \in Nat \ {0}, NEW m \in Nat, size = m * 2^(2 * n),
         NEW c \in Nat, Modulus = c * size,
         NEW slot, \A i \in Word : slot[i] = Remap(i, size, n)
  PROVE  ApartInWindows(slot, size) /\ \A i \in Word : slot[i] \in 0 .. size - 1
<1>1. CASE n = 0
  <2>1. \A i \in Word : slot[i] = i % size
    BY <1>1 DEF Remap
  <2>2. ApartInWindows(slot, size)
    BY <2>1, DivisorsApart
  <2> QED
    BY <2>1, <2>2, WordNat
<1>2. CASE n # 0
  <2>1. SwapsAsSlots(size, n)
    <3>1. n \in 1 .. 8 /\ m \in Nat \ {0}
      BY <1>2
    <3> QED
      BY <3>1, SwappedSlots
  <2>2. \A i \in Word : i \in Nat /\ slot[i] = Swapped(i, size, n)
    BY <1>2, WordNat DEF Remap
  <2>3. PICK plain : plain = [i \in Word |-> i % size]
    OBVIOUS
  <2>4. ApartInWindows(plain, size)
    BY <2>3, DivisorsApart
  <2>5. \A i, j \in Word : slot[i] = slot[j] => plain[i] = plain[j]
    BY <2>1, <2>2, <2>3 DEF SwapsAsSlots
  <2>6. \A i \in Word : \A j \in 0 .. size - 1 : Add(i, j) \in Word
    BY WordArithmetic
  <2>7. ApartInWindows(slot, size)
    BY ONLY <2>4, <2>5, <2>6 DEF ApartInWindows
  <2>8. \A i \in Word : slot[i] \in 0 .. size - 1
    BY <2>1, <2>2 DEF SwapsAsSlots
  <2> QED
    BY <2>7, <2>8
<1> QED
  BY <1>1, <1>2

\* Slots index % size serve just when the size divides the number of words.  When
\* it does not, the index that comes Modulus % size steps before the wrap of the
\* counter has slot 0, and so has the index 0 fewer than size steps later.
THEOREM ApartOnlyForDivisors ==
  ASSUME NEW size \in Word \ {0}, NEW slot, \A i \in Word : slot[i] = i % size
  PROVE  ApartInWindows(slot, size) <=> Modulus % size = 0
<1> PICK q, r : q = Modulus \div size /\ r = Modulus % size
  OBVIOUS
<1>1. size \in Nat \ {0} /\ size < Modulus /\ Modulus \in Nat
  BY WordNat, ModulusAssumption
<1>2. q \in Int /\ r \in 0 .. size - 1 /\ Modulus = q * size + r
  <2>1. Modulus \in Int
    BY <1>1
  <2> QED
    BY ONLY <1>1, <2>1, Division, q = Modulus \div size, r = Modulus % size
<1>3. ASSUME r = 0 PROVE ApartInWindows(slot, size)
  <2>1. q * size = Modulus
    BY ONLY <1>1, <1>2, r = 0
  <2>2. q \in Nat
    <3>1. q < 0 => q * size <= 0
      BY ONLY <1>1, <1>2
    <3> QED
      BY <1>1, <1>2, <2>1, <3>1
  <2> QED
    BY <1>1, <2>1, <2>2, DivisorsApart
<1>4. ASSUME r # 0, ApartInWindows(slot, size) PROVE FALSE
  <2> PICK i : i = Modulus - r
    OBVIOUS
  <2>1. i \in Word /\ 0 \in Word /\ i + r = Modulus /\ r \in 0 .. size - 1 /\ 0 \in 0 .. size - 1
    BY <1>1, <1>2, <1>4 DEF Word
  <2>2. i % size = 0
    <3>1. i = q * size + 0 /\ 0 \in 0 .. size - 1
      BY ONLY <1>1, <1>2, i = Modulus - r
    <3> QED
      BY ONLY <1>1, <1>2, <3>1, Remainder
  <2>3. Add(i, 0) = i /\ Add(i, r) = 0
    <3>1. /\ i + 0 = 0 * Modulus + i /\ i + r = 1 * Modulus + 0
          /\ i \in 0 .. Modulus - 1 /\ 0 \in 0 .. Modulus - 1 /\ Modulus \in Nat \ {0}
      BY <1>1, <2>1 DEF Word
    <3>2. (0 * Modulus + i) % Modulus = i
      BY ONLY <3>1, Remainder
    <3>3. (1 * Modulus + 0) % Modulus = 0
      BY ONLY <3>1, Remainder
    <3> QED
      BY <3>1, <3>2, <3>3 DEF Add
  <2>4. 0 % size = 0
    BY <1>1
  <2>5. slot[Add(i, 0)] = slot[Add(i, r)]
    BY <2>1, <2>2, <2>3, <2>4
  <2> QED
    BY <1>4, <2>1, <2>5 DEF ApartInWindows
<1> QED
  BY <1>3, <1>4

-----------------------------------------------------------------------------
\* A sequence is read off consecutive indices as a function q of their
\* positions.
LEMMA IsSequence ==
  ASSUME NEW S, NEW n \in Nat, NEW q \in [1 .. n -> S]
  PROVE  q \in Seq(S) /\ Len(q) = n
OBVIOUS

\* A function on no index is the empty sequence.
LEMMA IsEmptySequence ==
  ASSUME NEW S, NEW q \in [1 .. 0 -> S]
  PROVE  q = << >>
OBVIOUS

\* One position more at the end.
LEMMA IsAppend ==
  ASSUME NEW S, NEW n \in Nat, NEW q \in [1 .. n -> S], NEW e \in S,
         NEW r \in [1 .. n + 1 -> S],
         \A k \in 1 .. n : r[k] = q[k], r[n + 1] = e
  PROVE  r = Append(q, e)
<1>1. q \in Seq(S) /\ r \in Seq(S) /\ Len(q) = n /\ Len(r) = n + 1
  BY IsSequence
<1> QED
  BY <1>1

\* One position less at the start.
LEMMA IsTail ==
  ASSUME NEW S, NEW n \in Nat \ {0}, NEW q \in [1 .. n -> S],
         NEW r \in [1 .. n - 1 -> S],
         \A k \in 1 .. n - 1 : r[k] = q[k + 1]
  PROVE  q # << >> /\ Head(q) = q[1] /\ r = Tail(q)
<1>1. q \in Seq(S) /\ r \in Seq(S) /\ Len(q) = n /\ Len(r) = n - 1
  BY IsSequence
<1> QED
  BY <1>1
=============================================================================
