--------------------------- MODULE IndexBitsProofs --------------------------
(***************************************************************************)
(* Proofs about sizes and slots: words as sets of bits, what rounding and  *)
(* the remapping by exclusive or compute, and the invariants of IndexBits, *)
(* for all words of up to 32 bits.                                         *)
(***************************************************************************)
EXTENDS IndexBits, RingProofs, FiniteSetTheorems, FunctionTheorems

-----------------------------------------------------------------------------
(* Powers of 2.                                                            *)
\* A smaller exponent, a smaller power, at most half as large.
LEMMA PowerLess ==
  ASSUME NEW a \in Nat, NEW b \in Nat, a < b, b <= 32
  PROVE  2 * 2^a <= 2^b
<1>1. PICK c, d : c = a + 1 /\ d = b - (a + 1)
  OBVIOUS
<1>2. c \in 0 .. 32 /\ c \in Nat /\ d \in 0 .. 32 /\ d \in Nat /\ a \in 0 .. 31 /\ c + d = b /\ c + d <= 32
  BY <1>1
<1> PICK p, q : p = 2^c /\ q = 2^d
  OBVIOUS
<1>3. p = 2 * 2^a /\ p \in Nat \ {0} /\ q \in Nat \ {0}
  BY ONLY <1>1, <1>2, p = 2^c, q = 2^d, PowerStep, Zenon
<1>4. 2^b = p * q
  BY ONLY <1>2, p = 2^c, q = 2^d, PowerSum, Zenon
<1>5. p * q >= p
  BY <1>3
<1> QED
  BY <1>3, <1>4, <1>5

-----------------------------------------------------------------------------
(* Words as sets of bits.                                                  *)
\* Bit k of a.
Bit(a, k) == (a \div 2^k) % 2 = 1

\* Dividing twice.
LEMMA DivideTwice ==
  ASSUME NEW a \in Nat, NEW c \in Nat \ {0}, NEW d \in Nat \ {0}
  PROVE  a \div (c * d) = (a \div c) \div d
<1> PICK q, r, p, s : q = a \div c /\ r = a % c /\ p = q \div d /\ s = q % d
  OBVIOUS
<1>1. q \in Int /\ r \in 0 .. c - 1 /\ a = q * c + r
  <2>1. a \in Int
    OBVIOUS
  <2> QED
    BY ONLY <2>1, c \in Nat \ {0}, Division, q = a \div c, r = a % c
<1>2. p \in Int /\ s \in 0 .. d - 1 /\ q = p * d + s
  BY <1>1, Division
<1> PICK cd, e : cd = c * d /\ e = s * c + r
  OBVIOUS
<1>3. a = p * cd + e
  <2>1. (p * d + s) * c = p * (c * d) + s * c /\ s * c \in Int /\ p * (c * d) \in Int
    BY <1>2
  <2>2. a = (p * d + s) * c + r /\ p * cd = p * (c * d)
    BY ONLY <1>1, <1>2, cd = c * d, Zenon
  <2> QED
    BY ONLY <1>1, <2>1, <2>2, e = s * c + r
<1>4. e \in 0 .. cd - 1 /\ cd \in Nat \ {0}
  <2>1. s * c <= (d - 1) * c /\ (d - 1) * c = c * d - c /\ s * c >= 0
    BY <1>2
  <2>2. cd \in Nat \ {0}
    OBVIOUS
  <2> QED
    BY <1>1, <1>2, <2>1, <2>2
<1>5. a \div cd = p
  BY ONLY <1>2, <1>3, <1>4, Quotient
<1> QED
  BY <1>5

\* The lowest n bits of a are those of l, the others are those of q.
Splits(a, n, q, l) ==
  \A k \in 0 .. 31 :
    /\ k < n => (Bit(a, k) <=> Bit(l, k))
    /\ k >= n => (Bit(a, k) <=> Bit(q, k - n))

\* Where the bits of a number are that is written with a high part and a low
\* one of n bits.
LEMMA BitsOfParts ==
  ASSUME NEW n \in 0 .. 32, NEW q \in Nat, NEW l \in 0 .. 2^n - 1, NEW a, a = q * 2^n + l
  PROVE  Splits(a, n, q, l)
<1> SUFFICES ASSUME NEW k \in 0 .. 31
             PROVE  /\ k < n => (Bit(a, k) <=> Bit(l, k))
                    /\ k >= n => (Bit(a, k) <=> Bit(q, k - n))
  BY DEF Splits
<1>0. 2^n \in Nat \ {0} /\ 2^k \in Nat \ {0} /\ k \in 0 .. 32
  <2>1. k \in 0 .. 32
    OBVIOUS
  <2> QED
    BY <2>1, PowerStep, Zenon
<1>1. CASE k < n
  <2> PICK m, e, p : m = n - (k + 1) /\ e = 2^m /\ p = 2^k
    OBVIOUS
  <2>1. m \in 0 .. 32 /\ m \in Nat /\ k + 1 \in Nat /\ (k + 1) + m = n /\ (k + 1) + m <= 32 /\ k \in 0 .. 31
    BY <1>1
  <2>2. e \in Nat \ {0} /\ p \in Nat \ {0} /\ 2^(k + 1) = 2 * p
    BY ONLY <1>0, <2>1, PowerStep, e = 2^m, p = 2^k, Zenon
  <2>3. 2^n = (2 * p) * e
    BY ONLY <2>1, <2>2, PowerSum, e = 2^m, Zenon
  <2> PICK x, y : x = l \div p /\ y = l % p
    OBVIOUS
  <2>4. l \in Int /\ l \in Nat
    BY <1>0
  <2>5. x \in Int /\ y \in 0 .. p - 1 /\ l = x * p + y
    BY ONLY <2>2, <2>4, Division, x = l \div p, y = l % p
  <2> PICK z : z = q * e
    OBVIOUS
  <2>6. z \in Int
    BY <2>2
  <2>7. a = (2 * z + x) * p + y
    <3>1. q * ((2 * p) * e) = (2 * (q * e)) * p
      BY <2>2
    <3>2. (2 * z + x) * p = (2 * z) * p + x * p
      BY <2>2, <2>5, <2>6
    <3> QED
      BY ONLY <2>3, <2>5, <3>1, <3>2, a = q * 2^n + l, z = q * e, <2>6, <2>2, q \in Nat
  <2> PICK w : w = 2 * z + x
    OBVIOUS
  <2>8. w \in Int /\ a \div p = w
    BY ONLY <2>2, <2>5, <2>6, <2>7, Quotient, w = 2 * z + x
  <2>9. w % 2 = x % 2
    BY <2>5, <2>6
  <2>10. Bit(a, k) <=> Bit(l, k)
    BY ONLY <2>8, <2>9, p = 2^k, x = l \div p, Zenon DEF Bit
  <2>11. ~(k >= n)
    BY <1>1
  <2> QED
    BY ONLY <2>10, <2>11, Zenon
<1>2. CASE k >= n
  <2> PICK m, e : m = k - n /\ e = 2^m
    OBVIOUS
  <2>1. m \in 0 .. 32 /\ m \in Nat /\ n \in Nat /\ n + m = k /\ n + m <= 32
    BY <1>2
  <2>2. 2^k = 2^n * e /\ e \in Nat \ {0}
    BY ONLY <2>1, PowerSum, PowerStep, e = 2^m, Zenon
  <2> PICK p : p = 2^n
    OBVIOUS
  <2>3. a \in Nat /\ p \in Nat \ {0} /\ a = q * p + l /\ l \in 0 .. p - 1
    BY <1>0
  <2>4. a \div p = q
    BY <2>3, Quotient
  <2>5. a \div (p * e) = (a \div p) \div e
    BY ONLY <2>2, <2>3, DivideTwice
  <2>6. a \div 2^k = q \div 2^m
    BY ONLY <2>2, <2>4, <2>5, p = 2^n, e = 2^m, Zenon
  <2>7. Bit(a, k) <=> Bit(q, k - n)
    BY ONLY <2>6, m = k - n, Zenon DEF Bit
  <2>8. ~(k < n)
    BY <1>2
  <2> QED
    BY ONLY <2>7, <2>8, Zenon
<1>3. k < n \/ k >= n
  OBVIOUS
<1> QED
  BY ONLY <1>1, <1>2, <1>3, Zenon

\* A number below 2^n has no bit from n up.
LEMMA NoBitsAbove ==
  ASSUME NEW n \in 0 .. 32, NEW a \in 0 .. 2^n - 1, NEW k \in n .. 31
  PROVE  a \in Nat /\ ~Bit(a, k)
<1>1. k \in 0 .. 31 /\ k - n \in 0 .. 32 /\ 2^n \in Nat \ {0} /\ 2^(k - n) \in Nat \ {0} /\ k >= n
  <2>1. k \in 0 .. 31 /\ k - n \in 0 .. 32 /\ k >= n
    OBVIOUS
  <2> QED
    BY <2>1, PowerStep, Zenon
<1>2. a = 0 * 2^n + a /\ a \in Nat
  BY <1>1
<1>3. Bit(a, k) <=> Bit(0, k - n)
  <2>1. Splits(a, n, 0, a)
    BY ONLY <1>2, BitsOfParts, n \in 0 .. 32, a \in 0 .. 2^n - 1, 0 \in Nat
  <2> QED
    BY <1>1, <2>1 DEF Splits
<1>4. 0 \div 2^(k - n) = 0 /\ 0 % 2 = 0
  BY <1>1
<1> QED
  BY ONLY <1>2, <1>3, <1>4, 0 # 1 DEF Bit

\* The lowest n bits of a number of n + 1 bits, and its highest one.
HasTop(a, n) ==
  \E q \in {0, 1}, l \in 0 .. 2^n - 1 :
    /\ a = q * 2^n + l
    /\ Bit(a, n) <=> q = 1
    /\ \A k \in 0 .. n - 1 : Bit(a, k) <=> Bit(l, k)

\* Every number of n + 1 bits is made of them.
LEMMA HighestBit ==
  ASSUME NEW n \in 0 .. 31, NEW a \in 0 .. 2^(n + 1) - 1
  PROVE  HasTop(a, n)
<1> PICK p : p = 2^n
  OBVIOUS
<1>1. p \in Nat \ {0} /\ 2^(n + 1) = 2 * p /\ n \in 0 .. 32
  <2>1. n \in 0 .. 32
    OBVIOUS
  <2> QED
    BY <2>1, PowerStep, Zenon
<1> PICK q, l : q = a \div p /\ l = a % p
  OBVIOUS
<1>2. a \in Int /\ q \in Int /\ l \in 0 .. p - 1 /\ a = q * p + l
  <2>1. a \in Int
    BY <1>1
  <2> QED
    BY ONLY <1>1, <2>1, Division, q = a \div p, l = a % p
<1>3. q \in {0, 1}
  <2>1. q * p < 2 * p /\ q * p > -p
    BY ONLY <1>1, <1>2, a \in 0 .. 2^(n + 1) - 1
  <2> QED
    BY ONLY <1>1, <1>2, <2>1
<1>4. q \in Nat /\ q \div 1 = q /\ q % 2 = q
  BY <1>3
<1>5. Splits(a, n, q, l)
  BY ONLY <1>1, <1>2, <1>4, BitsOfParts, p = 2^n
<1>6. Bit(a, n) <=> q = 1
  <2>1. Bit(a, n) <=> Bit(q, n - n)
    BY <1>5 DEF Splits
  <2>2. n - n = 0
    OBVIOUS
  <2> QED
    BY ONLY <1>4, <2>1, <2>2, PowerStep, Zenon DEF Bit
<1>7. \A k \in 0 .. n - 1 : Bit(a, k) <=> Bit(l, k)
  BY <1>5 DEF Splits
<1> QED
  BY ONLY <1>2, <1>3, <1>6, <1>7, p = 2^n, Zenon DEF HasTop

\* Numbers with the same bits are the same.
LEMMA SameBits ==
  ASSUME NEW n \in 0 .. 32, NEW a \in 0 .. 2^n - 1, NEW c \in 0 .. 2^n - 1,
         \A k \in 0 .. n - 1 : Bit(a, k) <=> Bit(c, k)
  PROVE  a = c
<1> DEFINE Same(x, y, m) == \A k \in 0 .. m - 1 : Bit(x, k) <=> Bit(y, k)
           S == {m \in 0 .. n : \A x, y \in 0 .. 2^m - 1 : Same(x, y, m) => x = y}
<1>1. 0 \in S
  <2>1. \A x, y \in 0 .. 1 - 1 : x = y
    OBVIOUS
  <2>2. 0 \in 0 .. n
    OBVIOUS
  <2> HIDE DEF Same
  <2> QED
    BY ONLY <2>1, <2>2, PowerStep, Zenon
<1>2. \A m \in 0 .. n - 1 : m \in S => m + 1 \in S
  <2>0. SUFFICES ASSUME NEW m \in 0 .. n - 1, m \in S,
                        NEW x \in 0 .. 2^(m + 1) - 1, NEW y \in 0 .. 2^(m + 1) - 1,
                        Same(x, y, m + 1)
                 PROVE  x = y
    <3>1. \A m \in 0 .. n - 1 : m + 1 \in 0 .. n
      OBVIOUS
    <3> HIDE DEF Same
    <3> QED
      BY <3>1
  <2>1. m \in 0 .. 31
    OBVIOUS
  <2>2. PICK q \in {0, 1}, l \in 0 .. 2^m - 1 :
               /\ x = q * 2^m + l
               /\ Bit(x, m) <=> q = 1
               /\ \A k \in 0 .. m - 1 : Bit(x, k) <=> Bit(l, k)
    <3>1. HasTop(x, m)
      BY ONLY <2>1, HighestBit, x \in 0 .. 2^(m + 1) - 1
    <3> HIDE DEF Same
    <3> QED
      BY ONLY <3>1, Zenon DEF HasTop
  <2>3. PICK r \in {0, 1}, e \in 0 .. 2^m - 1 :
               /\ y = r * 2^m + e
               /\ Bit(y, m) <=> r = 1
               /\ \A k \in 0 .. m - 1 : Bit(y, k) <=> Bit(e, k)
    <3>1. HasTop(y, m)
      BY ONLY <2>1, HighestBit, y \in 0 .. 2^(m + 1) - 1
    <3> HIDE DEF Same
    <3> QED
      BY ONLY <3>1, Zenon DEF HasTop
  <2>4. m \in 0 .. (m + 1) - 1 /\ \A k \in 0 .. m - 1 : k \in 0 .. (m + 1) - 1
    OBVIOUS
  <2>5. 0 # 1
    OBVIOUS
  <2>6. q = r
    BY ONLY <2>2, <2>3, <2>4, <2>5, Same(x, y, m + 1), Zenon
  <2>7. Same(l, e, m)
    BY ONLY <2>2, <2>3, <2>4, Same(x, y, m + 1), Zenon
  <2> HIDE DEF Same
  <2>8. l = e
    BY ONLY <2>7, m \in S, l \in 0 .. 2^m - 1, e \in 0 .. 2^m - 1, Zenon
  <2> QED
    BY ONLY <2>2, <2>3, <2>6, <2>8, Zenon
<1> HIDE DEF S
<1>3. n \in S
  BY <1>1, <1>2, StepByStep
<1> QED
  BY ONLY <1>3, \A k \in 0 .. n - 1 : Bit(a, k) <=> Bit(c, k), a \in 0 .. 2^n - 1, c \in 0 .. 2^n - 1, Zenon DEF S

\* There is a number with the bits one likes.
LEMMA SomeBits ==
  ASSUME NEW n \in 0 .. 32, NEW bits \in SUBSET (0 .. n - 1)
  PROVE  \E a \in 0 .. 2^n - 1 : \A k \in 0 .. 31 : Bit(a, k) <=> k \in bits
<1> DEFINE Has(x, s) == \A k \in 0 .. 31 : Bit(x, k) <=> k \in s
           S == {m \in 0 .. n : \A s \in SUBSET (0 .. m - 1) : \E x \in 0 .. 2^m - 1 : Has(x, s)}
<1>1. 0 \in S
  <2>1. ASSUME NEW s \in SUBSET (0 .. 0 - 1) PROVE Has(0, s)
    <3>1. ASSUME NEW k \in 0 .. 31 PROVE ~Bit(0, k)
      <4>1. 0 \in 0 .. 2^0 - 1 /\ k \in 0 .. 31 /\ 0 \in 0 .. 32
        BY PowerStep
      <4> QED
        BY <4>1, NoBitsAbove
    <3> QED
      BY <3>1
  <2>2. 0 \in 0 .. 2^0 - 1 /\ 0 \in 0 .. n
    BY PowerStep
  <2> HIDE DEF Has
  <2> QED
    BY <2>1, <2>2
<1>2. \A m \in 0 .. n - 1 : m \in S => m + 1 \in S
  <2> SUFFICES ASSUME NEW m \in 0 .. n - 1, m \in S, NEW s \in SUBSET (0 .. (m + 1) - 1)
               PROVE  \E x \in 0 .. 2^(m + 1) - 1 : Has(x, s)
    <3>1. \A m \in 0 .. n - 1 : m + 1 \in 0 .. n
      OBVIOUS
    <3> HIDE DEF Has
    <3> QED
      BY <3>1
  <2> PICK p : p = 2^m
    OBVIOUS
  <2>1. m \in 0 .. 31 /\ m \in 0 .. 32 /\ p \in Nat \ {0} /\ 2^(m + 1) = 2 * p
    <3>1. m \in 0 .. 31 /\ m \in 0 .. 32
      OBVIOUS
    <3> QED
      BY <3>1, PowerStep, Zenon
  <2>2. s \ {m} \in SUBSET (0 .. m - 1)
    OBVIOUS
  <2>3. PICK l \in 0 .. p - 1 : Has(l, s \ {m})
    BY ONLY <2>2, m \in S, p = 2^m, Zenon
  <2>4. CASE m \in s
    <3> PICK one, x : one = 1 /\ x = one * p + l
      OBVIOUS
    <3>1. x \in 0 .. 2 * p - 1 /\ one \in Nat
      BY <2>1
    <3>2. Splits(x, m, one, l)
      BY ONLY <2>1, <3>1, BitsOfParts, p = 2^m, x = one * p + l, l \in 0 .. p - 1
    <3>3. ASSUME NEW k \in 0 .. 31 PROVE Bit(x, k) <=> k \in s
      <4>1. /\ k < m => (Bit(x, k) <=> Bit(l, k))
            /\ k >= m => (Bit(x, k) <=> Bit(one, k - m))
        BY <3>2 DEF Splits
      <4>2. Bit(l, k) <=> k \in s \ {m}
        BY <2>3
      <4>3. CASE k < m
        BY <4>1, <4>2, <4>3
      <4>4. CASE k = m
        <5>1. k - m = 0 /\ k >= m /\ 1 \div 1 = 1 /\ 1 % 2 = 1
          BY <4>4
        <5>2. Bit(one, k - m)
          BY ONLY <5>1, one = 1, PowerStep, Zenon DEF Bit
        <5> QED
          BY <2>4, <4>1, <4>4, <5>1, <5>2
      <4>5. CASE k > m
        <5>1. 1 \in 0 .. 32 /\ 1 \in 0 .. 2^1 - 1 /\ k - m \in 1 .. 31 /\ k >= m
          BY <4>5
        <5>2. ~Bit(one, k - m)
          BY ONLY <5>1, one = 1, NoBitsAbove
        <5>3. k \notin s
          BY <4>5
        <5> QED
          BY <4>1, <5>1, <5>2, <5>3
      <4> QED
        BY <4>3, <4>4, <4>5
    <3> QED
      BY ONLY <2>1, <3>1, <3>3
  <2>5. CASE m \notin s
    <3>1. s \ {m} = s
      BY <2>5
    <3>2. l \in 0 .. 2 * p - 1
      BY <2>1
    <3> HIDE DEF Has
    <3> QED
      BY ONLY <2>1, <2>3, <3>1, <3>2
  <2> QED
    BY <2>4, <2>5
<1> HIDE DEF S
<1>3. n \in S
  BY <1>1, <1>2, StepByStep
<1> QED
  BY ONLY <1>3, bits \in SUBSET (0 .. n - 1), Zenon DEF S

\* The bits of words, and words of sets of bits.
LEMMA BitsOfWords ==
  /\ \A a \in Word : Bits(a) = {k \in 0 .. WordBits - 1 : Bit(a, k)}
  /\ \A bits \in SUBSET (0 .. WordBits - 1) : Number(bits) \in Word /\ Bits(Number(bits)) = bits
  /\ \A a, c \in Word : Bits(a) = Bits(c) => a = c
<1>1. WordBits \in 0 .. 32 /\ Word = 0 .. 2^WordBits - 1 /\ \A k \in 0 .. WordBits - 1 : k \in 0 .. 31
  BY WordBitsAssumption DEF Word
<1>2. \A a : Bits(a) = {k \in 0 .. WordBits - 1 : Bit(a, k)}
  BY DEF Bits, Bit
<1>3. ASSUME NEW bits \in SUBSET (0 .. WordBits - 1)
      PROVE  Number(bits) \in Word /\ Bits(Number(bits)) = bits
  <2>1. PICK a \in Word : \A k \in 0 .. 31 : Bit(a, k) <=> k \in bits
    BY <1>1, SomeBits
  <2>2. Bits(a) = bits
    BY ONLY <1>1, <1>2, <2>1, bits \in SUBSET (0 .. WordBits - 1)
  <2> QED
    BY <2>2 DEF Number, Numbers
<1>4. ASSUME NEW a \in Word, NEW c \in Word, Bits(a) = Bits(c)
      PROVE  a = c
  <2>1. \A k \in 0 .. WordBits - 1 : Bit(a, k) <=> Bit(c, k)
    BY <1>2, <1>4
  <2> QED
    BY ONLY <1>1, <2>1, SameBits, a \in Word, c \in Word
<1> QED
  BY <1>2, <1>3, <1>4

\* Shifting to the right.
LEMMA BitsShifted ==
  ASSUME NEW a \in Word, NEW u \in 0 .. 32
  PROVE  a \div 2^u \in Word /\ Bits(a \div 2^u) = {k \in 0 .. WordBits - 1 : k + u \in Bits(a)}
<1> PICK p, q, l : p = 2^u /\ q = a \div p /\ l = a % p
  OBVIOUS
<1>1. p \in Nat \ {0} /\ WordBits \in 0 .. 32 /\ Word = 0 .. 2^WordBits - 1
  <2>1. p \in Nat \ {0}
    BY ONLY PowerStep, p = 2^u, u \in 0 .. 32, Zenon
  <2> QED
    BY <2>1, WordBitsAssumption DEF Word
<1>2. a \in Nat /\ a < Modulus
  BY WordNat
<1>3. q \in Nat /\ l \in 0 .. p - 1 /\ a = q * p + l /\ q <= a
  <2>1. q \in Int /\ l \in 0 .. p - 1 /\ a = q * p + l
    <3>1. a \in Int
      BY <1>2
    <3> QED
      BY ONLY <1>1, <3>1, Division, q = a \div p, l = a % p
  <2>2. q >= 0
    <3>1. q * p > -p
      BY <1>1, <1>2, <2>1
    <3> QED
      BY ONLY <1>1, <2>1, <3>1
  <2>3. q * p >= q
    BY <1>1, <2>1, <2>2
  <2> QED
    BY <1>1, <1>2, <2>1, <2>2, <2>3
<1>4. q \in Word
  BY <1>2, <1>3, ModulusAssumption DEF Word
<1>5. ASSUME NEW k \in 0 .. WordBits - 1
      PROVE  Bit(q, k) <=> k + u \in Bits(a)
  <2>1. CASE k + u <= 31
    <3>1. k + u \in 0 .. 31 /\ k + u >= u /\ (k + u) - u = k
      BY <1>1, <2>1
    <3>2. Splits(a, u, q, l)
      BY ONLY <1>3, BitsOfParts, p = 2^u, u \in 0 .. 32
    <3>3. Bit(a, k + u) <=> Bit(q, k)
      BY ONLY <3>1, <3>2, Zenon DEF Splits
    <3>4. CASE k + u \in 0 .. WordBits - 1
      BY <3>3, <3>4, BitsOfWords
    <3>5. CASE k + u \notin 0 .. WordBits - 1
      <4>1. k + u \in WordBits .. 31
        BY <1>1, <3>1, <3>5
      <4>2. ~Bit(a, k + u)
        BY ONLY <1>1, <4>1, NoBitsAbove, a \in Word
      <4> QED
        BY <3>3, <3>5, <4>2, BitsOfWords
    <3> QED
      BY <3>4, <3>5
  <2>2. CASE k + u > 31
    <3>1. k + u \notin Bits(a)
      BY <1>1, <2>2, BitsOfWords
    <3>2. ~Bit(q, k)
      <4> PICK e, c : e = WordBits - k /\ c = 2^e
        OBVIOUS
      <4>1. e \in 0 .. 32 /\ e \in Nat /\ k \in Nat /\ k \in 0 .. 32 /\ k \in 0 .. 31 /\ k + e = WordBits /\ k + e <= 32
        BY <1>1
      <4>2. e <= u
        BY <1>1, <2>2
      <4>3. c <= p
        <5>1. CASE e = u
          BY <1>1, <5>1
        <5>2. CASE e < u
          <6>1. 2 * c <= p
            BY ONLY <4>1, <5>2, PowerLess, u \in 0 .. 32, c = 2^e, p = 2^u
          <6>2. c \in Nat \ {0}
            BY ONLY <4>1, PowerStep, c = 2^e, Zenon
          <6> QED
            BY <1>1, <6>1, <6>2
        <5> QED
          BY <4>1, <4>2, <5>1, <5>2
      <4> PICK d : d = 2^k
        OBVIOUS
      <4>4. d \in Nat \ {0} /\ c \in Nat \ {0} /\ Modulus = d * c
        BY ONLY <4>1, PowerStep, PowerSum, WordBitsAssumption, c = 2^e, d = 2^k, Zenon
      <4>5. q < d
        <5>1. SUFFICES ASSUME q >= d PROVE FALSE
          BY <1>3, <4>4
        <5>2. q * p >= d * p /\ d * p >= d * c
          BY ONLY <1>1, <1>3, <4>3, <4>4, <5>1
        <5> QED
          BY ONLY <1>1, <1>2, <1>3, <4>4, <5>2, d * p \in Int, q * p \in Int, d * c \in Int
      <4>6. q \in 0 .. d - 1 /\ k \in k .. 31
        BY <1>3, <4>1, <4>4, <4>5
      <4> QED
        BY ONLY <4>1, <4>6, NoBitsAbove, d = 2^k
    <3> QED
      BY <3>1, <3>2
  <2> QED
    BY <1>1, <2>1, <2>2
<1> QED
  BY ONLY <1>4, <1>5, BitsOfWords, q = a \div p, p = 2^u

\* The mask of the lowest n bits.
LEMMA BitsOfMask ==
  ASSUME NEW n \in 0 .. WordBits
  PROVE  2^n - 1 \in Word /\ Bits(2^n - 1) = 0 .. n - 1
<1> PICK p : p = 2^n
  OBVIOUS
<1>1. n \in 0 .. 32 /\ n \in Nat /\ WordBits \in Nat /\ WordBits <= 32 /\ n <= WordBits
  BY WordBitsAssumption
<1>2. p \in Nat \ {0}
  BY ONLY <1>1, PowerStep, p = 2^n, Zenon
<1>3. p <= Modulus
  <2>1. CASE n < WordBits
    <3>1. 2 * p <= Modulus
      BY ONLY <1>1, <2>1, PowerLess, WordBitsAssumption, p = 2^n
    <3> QED
      BY <1>2, <3>1, ModulusAssumption
  <2>2. CASE n = WordBits
    BY <1>2, <2>2, WordBitsAssumption
  <2> QED
    BY <1>1, <2>1, <2>2
<1>4. p - 1 \in Word
  BY <1>2, <1>3, ModulusAssumption DEF Word
<1>5. ASSUME NEW k \in 0 .. WordBits - 1
      PROVE  Bit(p - 1, k) <=> k < n
  <2>1. CASE k < n
    <3> PICK d, e, c : d = 2^k /\ e = n - (k + 1) /\ c = 2^e
      OBVIOUS
    <3>1. /\ k \in 0 .. 31 /\ k \in 0 .. 32 /\ k + 1 \in Nat /\ e \in Nat /\ e \in 0 .. 32
          /\ (k + 1) + e = n /\ (k + 1) + e <= 32
      BY <1>1, <2>1
    <3>2. d \in Nat \ {0} /\ c \in Nat \ {0} /\ 2^(k + 1) = 2 * d
      BY ONLY <3>1, PowerStep, c = 2^e, d = 2^k, Zenon
    <3>3. p = (2 * d) * c
      BY ONLY <3>1, <3>2, PowerSum, c = 2^e, p = 2^n, Zenon
    <3>4. p - 1 = (2 * c - 1) * d + (d - 1)
      <4>1. (2 * d) * c = (2 * c) * d /\ (2 * c - 1) * d = (2 * c) * d - d
        BY <3>2
      <4> QED
        BY <1>2, <3>2, <3>3, <4>1
    <3> PICK w : w = 2 * c - 1
      OBVIOUS
    <3>5. w \in Int /\ d - 1 \in 0 .. d - 1 /\ w % 2 = 1 /\ p - 1 = w * d + (d - 1)
      BY <3>2, <3>4
    <3>6. (p - 1) \div d = w
      BY ONLY <3>2, <3>5, Quotient
    <3> QED
      BY ONLY <2>1, <3>5, <3>6, d = 2^k, Zenon DEF Bit
  <2>2. CASE k >= n
    <3>1. k \in n .. 31 /\ p - 1 \in 0 .. p - 1 /\ ~(k < n)
      BY <1>1, <1>2, <2>2
    <3>2. ~Bit(p - 1, k)
      BY ONLY <1>1, <3>1, NoBitsAbove, p = 2^n
    <3> QED
      BY <3>1, <3>2
  <2> QED
    BY <1>1, <2>1, <2>2
<1>6. Bits(p - 1) = {k \in 0 .. WordBits - 1 : k < n}
  BY ONLY <1>4, <1>5, BitsOfWords
<1>7. {k \in 0 .. WordBits - 1 : k < n} = 0 .. n - 1
  BY <1>1
<1> QED
  BY ONLY <1>4, <1>6, <1>7, p = 2^n

-----------------------------------------------------------------------------
(* round_up_to_power_of_2.                                                 *)
\* The highest bit of x is p, and the t highest bits from there are ones.
Filled(x, p, t) ==
  /\ x \in Word
  /\ Bits(x) \subseteq 0 .. p
  /\ \A k \in 0 .. p : k > p - t => k \in Bits(x)

\* What x | x >> u is.
LEMMA BitsOrShifted ==
  ASSUME NEW x \in Word, NEW u \in 0 .. 32
  PROVE  /\ OrShifted(x, u) \in Word
         /\ Bits(OrShifted(x, u)) = {k \in 0 .. WordBits - 1 : k \in Bits(x) \/ k + u \in Bits(x)}
<1>1. Bits(x) \subseteq 0 .. WordBits - 1
  BY BitsOfWords
<1>2. Bits(x \div 2^u) = {k \in 0 .. WordBits - 1 : k + u \in Bits(x)}
  BY BitsShifted
<1>3. OrShifted(x, u) = Number(Bits(x) \union Bits(x \div 2^u))
  BY DEF OrShifted, Or
<1> QED
  BY ONLY <1>1, <1>2, <1>3, BitsOfWords

\* Each step of the rounding fills up u more bits.
LEMMA Fills ==
  ASSUME NEW p \in 0 .. WordBits - 1, NEW t \in Nat, NEW u \in 0 .. 32, u <= t,
         NEW x, Filled(x, p, t)
  PROVE  Filled(OrShifted(x, u), p, t + u)
<1>1. x \in Word /\ Bits(x) \subseteq 0 .. p /\ \A k \in 0 .. p : k > p - t => k \in Bits(x)
  BY DEF Filled
<1>2. /\ OrShifted(x, u) \in Word
      /\ Bits(OrShifted(x, u)) = {k \in 0 .. WordBits - 1 : k \in Bits(x) \/ k + u \in Bits(x)}
  BY <1>1, BitsOrShifted
<1>3. WordBits \in Nat
  BY WordBitsAssumption
<1>4. Bits(OrShifted(x, u)) \subseteq 0 .. p
  BY <1>1, <1>2, <1>3
<1>5. ASSUME NEW k \in 0 .. p, k > p - (t + u)
      PROVE  k \in 0 .. WordBits - 1 /\ (k \in Bits(x) \/ k + u \in Bits(x))
  <2>1. CASE k > p - t
    BY <1>1, <1>3, <2>1
  <2>2. CASE k <= p - t
    <3>1. k + u \in 0 .. p /\ k + u > p - t /\ k \in 0 .. WordBits - 1
      BY <1>3, <1>5, <2>2
    <3> QED
      BY <1>1, <3>1
  <2> QED
    BY <2>1, <2>2
<1> QED
  BY <1>2, <1>4, <1>5 DEF Filled

\* The highest bit of a word.
LEMMA HasHighestBit ==
  ASSUME NEW x \in Word, x # 0
  PROVE  \E p \in 0 .. WordBits - 1 : 2^p <= x /\ x < 2^(p + 1) /\ Filled(x, p, 1)
<1> DEFINE S == {k \in 0 .. WordBits : 2^k <= x}
<1>1. x \in Nat /\ x < Modulus /\ WordBits \in 1 .. 32 /\ Modulus = 2^WordBits
  BY WordNat, WordBitsAssumption
<1>2. 0 \in S
  BY <1>1, PowerStep
<1>3. WordBits \notin S
  BY <1>1, ModulusAssumption
<1>4. PICK p \in 0 .. WordBits - 1 : p \in S /\ p + 1 \notin S
  <2> HIDE DEF S
  <2>1. WordBits \in Nat /\ WordBits \in 0 .. WordBits
    BY <1>1
  <2> QED
    BY <1>2, <1>3, <2>1, StepByStep
<1>5. PICK e : e = 2^p
  OBVIOUS
<1>6. p \in 0 .. 31 /\ p \in 0 .. 32 /\ e \in Nat \ {0} /\ 2^(p + 1) = 2 * e
  <2>1. p \in 0 .. 31 /\ p \in 0 .. 32
    BY <1>1
  <2> QED
    BY ONLY <1>5, <2>1, PowerStep, Zenon
<1>7. e <= x /\ x < 2 * e
  <2>1. p + 1 \in 0 .. WordBits
    BY <1>1
  <2>2. ~(2 * e <= x)
    BY ONLY <1>4, <1>6, <2>1, Zenon DEF S
  <2> QED
    BY <1>1, <1>4, <1>5, <1>6, <2>2
<1>8. p \in Bits(x)
  <2>1. x = 1 * e + (x - e) /\ x - e \in 0 .. e - 1 /\ 1 \in Int /\ 1 % 2 = 1
    BY <1>1, <1>6, <1>7
  <2>2. x \div e = 1
    BY ONLY <1>6, <2>1, Quotient
  <2>3. Bit(x, p)
    BY ONLY <1>5, <2>1, <2>2, Zenon DEF Bit
  <2> QED
    BY <2>3, BitsOfWords
<1>9. Bits(x) \subseteq 0 .. p
  <2> SUFFICES ASSUME NEW k \in Bits(x), k > p PROVE FALSE
    BY <1>1, BitsOfWords
  <2>1. k \in p + 1 .. 31 /\ p + 1 \in 0 .. 32 /\ Bit(x, k)
    BY <1>1, <1>6, BitsOfWords
  <2>2. PICK m : m = p + 1
    OBVIOUS
  <2>3. x \in 0 .. 2^m - 1
    <3>1. x \in 0 .. 2 * e - 1
      BY <1>1, <1>6, <1>7
    <3> QED
      BY ONLY <1>6, <2>2, <3>1, Zenon
  <2> QED
    BY ONLY <2>1, <2>2, <2>3, NoBitsAbove
<1>10. Filled(x, p, 1)
  BY <1>8, <1>9 DEF Filled
<1> QED
  BY ONLY <1>5, <1>6, <1>7, <1>10, p \in 0 .. WordBits - 1, Zenon

\* A size is rounded up to the next power of 2, or to 0 where that is the
\* number of words.
LEMMA Rounds ==
  ASSUME NEW a \in 1 .. Modulus - 1
  PROVE  \E p \in 0 .. WordBits :
           a <= 2^p /\ 2^p < 2 * a /\ RoundUp(a) = IF p = WordBits THEN 0 ELSE 2^p
<1> PICK x : x = a - 1
  OBVIOUS
<1>1. x \in Word /\ x = Sub(a, 1) /\ WordBits \in 1 .. 32 /\ Modulus = 2^WordBits
  BY ModulusAssumption, WordBitsAssumption DEF Word, Sub
<1> PICK x1, x2, x4, x8, x16 :
      /\ x1 = OrShifted(x, 1) /\ x2 = OrShifted(x1, 2) /\ x4 = OrShifted(x2, 4)
      /\ x8 = OrShifted(x4, 8) /\ x16 = OrShifted(x8, 16)
  OBVIOUS
<1>2. RoundUp(a) = Add(x16, 1)
  BY <1>1 DEF RoundUp
<1>3. CASE x = 0
  <2>1. Bits(x) = {}
    <3> PICK n : n = 0
      OBVIOUS
    <3>1. n \in 0 .. WordBits /\ 2^n - 1 = x /\ 0 .. n - 1 = {}
      BY <1>1, <1>3, PowerStep
    <3>2. Bits(2^n - 1) = 0 .. n - 1
      BY ONLY <3>1, BitsOfMask
    <3> QED
      BY ONLY <3>1, <3>2, Zenon
  <2>2. \A y \in Word, u \in 0 .. 32 : Bits(y) = {} => OrShifted(y, u) \in Word /\ Bits(OrShifted(y, u)) = {}
    BY BitsOrShifted
  <2>3. 1 \in 0 .. 32 /\ 2 \in 0 .. 32 /\ 4 \in 0 .. 32 /\ 8 \in 0 .. 32 /\ 16 \in 0 .. 32
    OBVIOUS
  <2>4. x16 \in Word /\ Bits(x16) = {}
    <3>1. x1 \in Word /\ Bits(x1) = {}
      BY ONLY <1>1, <2>1, <2>2, <2>3, x1 = OrShifted(x, 1), Zenon
    <3>2. x2 \in Word /\ Bits(x2) = {}
      BY ONLY <3>1, <2>2, <2>3, x2 = OrShifted(x1, 2), Zenon
    <3>3. x4 \in Word /\ Bits(x4) = {}
      BY ONLY <3>2, <2>2, <2>3, x4 = OrShifted(x2, 4), Zenon
    <3>4. x8 \in Word /\ Bits(x8) = {}
      BY ONLY <3>3, <2>2, <2>3, x8 = OrShifted(x4, 8), Zenon
    <3> QED
      BY ONLY <3>4, <2>2, <2>3, x16 = OrShifted(x8, 16), Zenon
  <2>5. x16 = 0
    BY ONLY <1>1, <1>3, <2>1, <2>4, BitsOfWords
  <2>6. RoundUp(a) = 1 /\ a = 1
    BY <1>2, <1>3, <2>5, ModulusAssumption DEF Add
  <2>7. 0 \in 0 .. WordBits /\ 0 # WordBits /\ 2^0 = 1 /\ a <= 1 /\ 1 < 2 * a
    BY <1>1, <2>6, PowerStep
  <2> QED
    BY ONLY <2>6, <2>7, Zenon
<1>4. CASE x # 0
  <2>1. PICK p \in 0 .. WordBits - 1 : 2^p <= x /\ x < 2^(p + 1) /\ Filled(x, p, 1)
    BY <1>1, <1>4, HasHighestBit
  <2>2. Filled(x16, p, 32)
    <3>1. Filled(x1, p, 2)
      <4>1. 1 \in 0 .. 32 /\ 1 \in Nat /\ 1 <= 1 /\ 1 + 1 = 2
        OBVIOUS
      <4> QED
        BY ONLY <2>1, <4>1, Fills, x1 = OrShifted(x, 1), p \in 0 .. WordBits - 1, Zenon
    <3>2. Filled(x2, p, 4)
      <4>1. 2 \in 0 .. 32 /\ 2 \in Nat /\ 2 <= 2 /\ 2 + 2 = 4
        OBVIOUS
      <4> QED
        BY ONLY <3>1, <4>1, Fills, x2 = OrShifted(x1, 2), p \in 0 .. WordBits - 1, Zenon
    <3>3. Filled(x4, p, 8)
      <4>1. 4 \in 0 .. 32 /\ 4 \in Nat /\ 4 <= 4 /\ 4 + 4 = 8
        OBVIOUS
      <4> QED
        BY ONLY <3>2, <4>1, Fills, x4 = OrShifted(x2, 4), p \in 0 .. WordBits - 1, Zenon
    <3>4. Filled(x8, p, 16)
      <4>1. 8 \in 0 .. 32 /\ 8 \in Nat /\ 8 <= 8 /\ 8 + 8 = 16
        OBVIOUS
      <4> QED
        BY ONLY <3>3, <4>1, Fills, x8 = OrShifted(x4, 8), p \in 0 .. WordBits - 1, Zenon
    <3>5. 16 \in 0 .. 32 /\ 16 \in Nat /\ 16 <= 16 /\ 16 + 16 = 32
      OBVIOUS
    <3> QED
      BY ONLY <3>4, <3>5, Fills, x16 = OrShifted(x8, 16), p \in 0 .. WordBits - 1, Zenon
  <2> PICK m, e, d : m = p + 1 /\ e = 2^m /\ d = 2^p
    OBVIOUS
  <2>3. m \in 0 .. WordBits /\ m \in 0 .. 32 /\ p \in 0 .. 31 /\ p \in 0 .. 32 /\ m - 1 = p
    BY <1>1
  <2>4. e = 2 * d /\ d \in Nat \ {0}
    BY ONLY <2>3, PowerStep, m = p + 1, e = 2^m, d = 2^p, Zenon
  <2>5. e - 1 \in Word /\ Bits(e - 1) = 0 .. p
    BY ONLY <2>3, BitsOfMask, e = 2^m
  <2>6. x16 = e - 1
    <3>1. \A k \in 0 .. p : k > p - 32
      BY <2>3
    <3>2. x16 \in Word /\ Bits(x16) = 0 .. p
      BY <2>2, <3>1 DEF Filled
    <3> QED
      BY ONLY <2>5, <3>2, BitsOfWords
  <2>7. RoundUp(a) = e % Modulus
    BY ONLY <1>2, <2>4, <2>6, ModulusAssumption DEF Add
  <2>8. d <= x /\ x < e
    BY ONLY <2>1, m = p + 1, d = 2^p, e = 2^m, Zenon
  <2>9. a <= e /\ e < 2 * a
    BY ONLY <2>4, <2>8, x = a - 1, a \in 1 .. Modulus - 1, ModulusAssumption
  <2>10. RoundUp(a) = IF m = WordBits THEN 0 ELSE e
    <3>1. CASE m = WordBits
      <4>1. e = Modulus
        BY ONLY <1>1, <3>1, e = 2^m, Zenon
      <4>2. Modulus % Modulus = 0
        BY ModulusAssumption
      <4> QED
        BY ONLY <2>7, <3>1, <4>1, <4>2
    <3>2. CASE m # WordBits
      <4>1. e - 1 < Modulus - 1
        <5>1. 2 * e <= Modulus
          <6>1. m < WordBits /\ m \in Nat /\ WordBits \in Nat /\ WordBits <= 32
            BY <1>1, <2>3, <3>2
          <6> QED
            BY ONLY <1>1, <6>1, PowerLess, e = 2^m
        <5> QED
          BY <2>4, <5>1, ModulusAssumption
      <4>2. e % Modulus = e
        BY <2>4, <4>1, ModulusAssumption
      <4> QED
        BY ONLY <2>7, <3>2, <4>2
    <3> QED
      BY <3>1, <3>2
  <2> QED
    BY ONLY <2>3, <2>9, <2>10, e = 2^m, Zenon
<1> QED
  BY <1>3, <1>4

-----------------------------------------------------------------------------
(* RemapXor, RemapAnd and RemapBmi.                                        *)
\* The bits of and, of or, and of exclusive or.
LEMMA BitsOfOperators ==
  ASSUME NEW a, NEW c
  PROVE  /\ And(a, c) \in Word /\ Bits(And(a, c)) = Bits(a) \intersect Bits(c)
         /\ Or(a, c) \in Word /\ Bits(Or(a, c)) = Bits(a) \union Bits(c)
         /\ Xor(a, c) \in Word
         /\ Bits(Xor(a, c)) = (Bits(a) \union Bits(c)) \ (Bits(a) \intersect Bits(c))
<1>1. Bits(a) \subseteq 0 .. WordBits - 1 /\ Bits(c) \subseteq 0 .. WordBits - 1
  BY DEF Bits
<1>2. /\ Bits(a) \intersect Bits(c) \in SUBSET (0 .. WordBits - 1)
      /\ Bits(a) \union Bits(c) \in SUBSET (0 .. WordBits - 1)
      /\ (Bits(a) \union Bits(c)) \ (Bits(a) \intersect Bits(c)) \in SUBSET (0 .. WordBits - 1)
  BY <1>1
<1> QED
  BY <1>2, BitsOfWords DEF And, Or, Xor

\* A mask is a remainder, and shifting to the right a quotient.
LEMMA Masked ==
  ASSUME NEW a \in Word, NEW s \in 0 .. WordBits
  PROVE  /\ And(a, 2^s - 1) = a % 2^s /\ a % 2^s \in Word
         /\ Bits(a % 2^s) = {k \in Bits(a) : k < s}
<1> PICK p, q, l : p = 2^s /\ q = a \div p /\ l = a % p
  OBVIOUS
<1>1. s \in 0 .. 32 /\ WordBits \in Nat /\ WordBits <= 32
  BY WordBitsAssumption
<1>2. p \in Nat \ {0} /\ a \in Nat /\ a < Modulus
  <2>1. p \in Nat \ {0}
    BY ONLY <1>1, PowerStep, p = 2^s, Zenon
  <2> QED
    BY <2>1, WordNat
<1>3. q \in Int /\ l \in 0 .. p - 1 /\ a = q * p + l
  <2>1. a \in Int
    BY <1>2
  <2> QED
    BY ONLY <1>2, <2>1, Division, q = a \div p, l = a % p
<1>4. q \in Nat
  <2>1. q * p > -p
    BY <1>2, <1>3
  <2> QED
    BY ONLY <1>2, <1>3, <2>1
<1>5. l \in Word
  <2>1. q * p >= 0
    BY <1>2, <1>4
  <2> QED
    BY <1>2, <1>3, <2>1, ModulusAssumption DEF Word
<1>6. ASSUME NEW k \in 0 .. WordBits - 1
      PROVE  Bit(l, k) <=> Bit(a, k) /\ k < s
  <2>1. k \in 0 .. 31
    BY <1>1
  <2>2. k < s => (Bit(a, k) <=> Bit(l, k))
    <3>1. Splits(a, s, q, l)
      BY ONLY <1>1, <1>3, <1>4, BitsOfParts, p = 2^s
    <3> QED
      BY <2>1, <3>1 DEF Splits
  <2>3. CASE k >= s
    <3>1. k \in s .. 31 /\ ~(k < s)
      BY <1>1, <2>1, <2>3
    <3>2. ~Bit(l, k)
      BY ONLY <1>1, <1>3, <3>1, NoBitsAbove, p = 2^s
    <3> QED
      BY <3>1, <3>2
  <2>4. k < s \/ k >= s
    BY <1>1
  <2> QED
    BY <2>2, <2>3, <2>4
<1>7. Bits(l) = {k \in Bits(a) : k < s}
  BY ONLY <1>5, <1>6, BitsOfWords, a \in Word
<1>8. And(a, p - 1) = l
  <2>1. p - 1 \in Word /\ Bits(p - 1) = 0 .. s - 1
    BY ONLY BitsOfMask, p = 2^s, s \in 0 .. WordBits
  <2>2. Bits(a) \subseteq 0 .. WordBits - 1
    BY BitsOfWords
  <2>3. Bits(a) \intersect Bits(p - 1) = {k \in Bits(a) : k < s}
    BY <1>1, <2>1, <2>2
  <2>4. And(a, p - 1) = Number(Bits(l))
    BY <1>7, <2>3 DEF And
  <2> QED
    BY ONLY <1>5, <1>7, <2>2, <2>4, BitsOfWords
<1> QED
  BY ONLY <1>5, <1>7, <1>8, p = 2^s, l = a % p, Zenon

\* The same of the lowest n bits, which are a number below 2^n.
LEMMA MaskedBelow ==
  ASSUME NEW a \in Word, NEW n \in 0 .. WordBits
  PROVE  /\ And(a, 2^n - 1) = a % 2^n /\ a % 2^n \in 0 .. 2^n - 1
         /\ Bits(a % 2^n) = {k \in Bits(a) : k < n}
<1> PICK p : p = 2^n
  OBVIOUS
<1>1. p \in Nat \ {0} /\ a \in Nat
  <2>1. n \in 0 .. 32
    BY WordBitsAssumption
  <2> QED
    BY ONLY <2>1, PowerStep, WordNat, a \in Word, p = 2^n, Zenon
<1>2. a % p \in 0 .. p - 1
  BY <1>1
<1> QED
  BY ONLY <1>2, Masked, a \in Word, n \in 0 .. WordBits, p = 2^n, Zenon

\* Ones shifted to the left by n, and the complement of that.
LEMMA OnesShifted ==
  ASSUME NEW n \in 0 .. WordBits, NEW ones, ones = Shl(Modulus - 1, n)
  PROVE  ones = Modulus - 2^n /\ ones \in Word /\ Not(ones) = 2^n - 1
<1> PICK p : p = 2^n
  OBVIOUS
<1>1. p \in Nat \ {0} /\ p - 1 \in Word
  <2>1. n \in 0 .. 32
    BY WordBitsAssumption
  <2> QED
    BY ONLY <2>1, PowerStep, BitsOfMask, n \in 0 .. WordBits, p = 2^n, Zenon
<1>2. Modulus \in Nat \ {0} /\ Modulus - p \in 0 .. Modulus - 1 /\ p - 1 \in Int
  BY <1>1, ModulusAssumption DEF Word
<1>3. (Modulus - 1) * p = (p - 1) * Modulus + (Modulus - p)
  BY <1>1, <1>2
<1>4. ((Modulus - 1) * p) % Modulus = Modulus - p
  BY ONLY <1>2, <1>3, Remainder
<1>5. ones = Modulus - p
  BY ONLY <1>4, ones = Shl(Modulus - 1, n), p = 2^n, Zenon DEF Shl
<1>6. Not(ones) = p - 1
  BY <1>1, <1>2, <1>5 DEF Not
<1> QED
  BY ONLY <1>2, <1>5, <1>6, p = 2^n DEF Word

\* The bits of the masks: the lowest n, and those from 2 * n up.
LEMMA BitsOfMasks ==
  ASSUME NEW n \in 1 .. 8, 2 * n <= WordBits
  PROVE  /\ mask_elem_idx(n) = 2^n - 1
         /\ Bits(mask_hi(n)) = {k \in 0 .. WordBits - 1 : k >= n + n}
<1> PICK u, w : u = 2 * n /\ w = WordBits - u
  OBVIOUS
<1>1. /\ WordBits \in Nat /\ WordBits <= 32 /\ n \in 0 .. WordBits /\ u \in 0 .. WordBits
      /\ u \in 0 .. 32 /\ u \in Nat /\ w \in Nat /\ w \in 0 .. 32 /\ w \in 0 .. WordBits
      /\ w + u = WordBits /\ w + u <= 32 /\ u = n + n
  BY WordBitsAssumption
<1>2. mask_elem_idx(n) = 2^n - 1
  BY ONLY <1>1, OnesShifted DEF mask_elem_idx
<1> PICK p, h, ones : p = 2^u /\ h = 2^w - 1 /\ ones = Shl(Modulus - 1, u)
  OBVIOUS
<1>3. ones = Modulus - p /\ ones \in Word
  BY ONLY <1>1, OnesShifted, p = 2^u, ones = Shl(Modulus - 1, u)
<1>4. p \in Nat \ {0} /\ 2^w \in Nat \ {0}
  BY ONLY <1>1, PowerStep, p = 2^u, Zenon
<1>5. Modulus = 2^w * p
  BY ONLY <1>1, PowerSum, WordBitsAssumption, p = 2^u, Zenon
<1>6. h \in Nat /\ ones = h * p + 0 /\ 0 \in 0 .. p - 1
  <2> PICK e : e = 2^w
    OBVIOUS
  <2>1. h = e - 1 /\ e \in Nat \ {0} /\ ones = e * p - p
    BY ONLY <1>3, <1>4, <1>5, e = 2^w, h = 2^w - 1
  <2> QED
    BY ONLY <1>4, <2>1
<1>7. Splits(ones, u, h, 0)
  BY ONLY <1>1, <1>6, BitsOfParts, p = 2^u
<1>8. h \in Word /\ Bits(h) = 0 .. w - 1
  BY ONLY <1>1, BitsOfMask, h = 2^w - 1
<1>9. ASSUME NEW k \in 0 .. WordBits - 1
      PROVE  k \in Bits(ones) <=> k >= u
  <2>1. k \in 0 .. 31 /\ 0 \in 0 .. 32 /\ k \in 0 .. 31 /\ 0 \in 0 .. 2^0 - 1
    BY <1>1, PowerStep
  <2> PICK zero : zero = 0
    OBVIOUS
  <2>2. ~Bit(zero, k)
    BY ONLY <2>1, NoBitsAbove, zero = 0
  <2>3. /\ k < u => (Bit(ones, k) <=> Bit(zero, k))
        /\ k >= u => (Bit(ones, k) <=> Bit(h, k - u))
    BY ONLY <1>7, <2>1, zero = 0 DEF Splits
  <2>4. k >= u => k - u \in 0 .. w - 1 /\ k - u \in 0 .. WordBits - 1
    BY <1>1
  <2>5. k >= u => Bit(h, k - u)
    BY ONLY <1>8, <2>4, BitsOfWords
  <2>6. k < u \/ k >= u
    BY <1>1
  <2>7. k < u => ~(k >= u)
    BY <1>1
  <2>8. k \in Bits(ones) <=> Bit(ones, k)
    BY ONLY <1>3, BitsOfWords, k \in 0 .. WordBits - 1
  <2> QED
    BY ONLY <2>2, <2>3, <2>5, <2>6, <2>7, <2>8, Zenon
<1>10. Bits(ones) = {k \in 0 .. WordBits - 1 : k >= u}
  BY ONLY <1>3, <1>9, BitsOfWords
<1>11. mask_hi(n) = ones
  BY DEF mask_hi
<1> QED
  BY ONLY <1>1, <1>2, <1>10, <1>11, Zenon

\* A number of n bits shifted to the left by n.
LEMMA ShiftedUp ==
  ASSUME NEW n \in 1 .. 8, 2 * n <= WordBits, NEW a \in 0 .. 2^n - 1
  PROVE  /\ Shl(a, n) \in Word
         /\ \A k \in 0 .. WordBits - 1 : k \in Bits(Shl(a, n)) <=> k >= n /\ k - n \in Bits(a)
<1> PICK b, up : b = 2^n /\ up = a * b
  OBVIOUS
<1>1. /\ WordBits \in Nat /\ WordBits <= 32 /\ n \in 0 .. 32 /\ n \in Nat /\ 2 * n \in 0 .. WordBits
      /\ n \in 0 .. WordBits
  BY WordBitsAssumption
<1>2. b \in Nat \ {0} /\ 2^(2 * n) = b * b /\ a \in 0 .. b - 1
  BY ONLY <1>1, Powers, PowerStep, b = 2^n, n \in 1 .. 8, a \in 0 .. 2^n - 1, Zenon
<1>3. a \in Word /\ b * b - 1 \in Word
  <2>1. b - 1 \in Word /\ b * b - 1 \in Word
    BY ONLY <1>1, <1>2, BitsOfMask, b = 2^n, Zenon
  <2> QED
    BY <1>2, <2>1, ModulusAssumption DEF Word
<1>4. up \in 0 .. b * b - 1
  <2>1. a * b <= (b - 1) * b /\ (b - 1) * b = b * b - b /\ a * b >= 0 /\ a * b \in Int
    BY <1>2
  <2> QED
    BY <1>2, <2>1
<1>5. up \in Word
  BY <1>2, <1>3, <1>4, ModulusAssumption DEF Word
<1>6. Shl(a, n) = up
  <2>1. up % Modulus = up
    BY <1>5, ModulusAssumption DEF Word
  <2> QED
    BY ONLY <2>1, up = a * b, b = 2^n, Zenon DEF Shl
<1>7. ASSUME NEW k \in 0 .. WordBits - 1
      PROVE  k \in Bits(up) <=> k >= n /\ k - n \in Bits(a)
  <2>1. a \in Nat /\ 0 \in 0 .. b - 1 /\ up = a * b + 0 /\ k \in 0 .. 31 /\ 0 \in 0 .. 32 /\ 0 \in 0 .. 2^0 - 1
    BY <1>1, <1>2, PowerStep
  <2> PICK zero : zero = 0
    OBVIOUS
  <2>2. /\ k < n => (Bit(up, k) <=> Bit(zero, k))
        /\ k >= n => (Bit(up, k) <=> Bit(a, k - n))
    <3>1. Splits(up, n, a, zero)
      BY ONLY <1>1, <2>1, BitsOfParts, b = 2^n, zero = 0
    <3> QED
      BY <2>1, <3>1 DEF Splits
  <2>3. ~Bit(zero, k)
    BY ONLY <2>1, NoBitsAbove, zero = 0
  <2>4. k \in Bits(up) <=> Bit(up, k)
    BY DEF Bits, Bit
  <2>5. k >= n => (Bit(a, k - n) <=> k - n \in Bits(a))
    BY <1>1, <1>3, BitsOfWords
  <2>6. k < n => ~(k >= n)
    BY <1>1
  <2>7. k < n \/ k >= n
    BY <1>1
  <2> QED
    BY ONLY <2>2, <2>3, <2>4, <2>5, <2>6, <2>7, Zenon
<1> QED
  BY ONLY <1>5, <1>6, <1>7, Zenon

\* The bits of x are those of low, of high and of y.
Consists(x, n, y, high, low) ==
  \A k \in 0 .. 31 :
    /\ k < n => (Bit(x, k) <=> Bit(low, k))
    /\ k >= n /\ k < n + n => (Bit(x, k) <=> Bit(high, k - n))
    /\ k >= n + n => (Bit(x, k) <=> Bit(y, (k - n) - n))

\* The bits of a number with two digits of n bits each.
LEMMA BitsOfDigits ==
  ASSUME NEW n \in 1 .. 8, NEW b, b = 2^n, NEW y \in Nat,
         NEW high \in 0 .. b - 1, NEW low \in 0 .. b - 1
  PROVE  Consists(Digits(b, y, high, low), n, y, high, low)
<1> SUFFICES ASSUME NEW k \in 0 .. 31
             PROVE  /\ k < n => (Bit(Digits(b, y, high, low), k) <=> Bit(low, k))
                    /\ k >= n /\ k < n + n => (Bit(Digits(b, y, high, low), k) <=> Bit(high, k - n))
                    /\ k >= n + n => (Bit(Digits(b, y, high, low), k) <=> Bit(y, (k - n) - n))
  BY DEF Consists
<1>1. n \in 0 .. 32 /\ b \in Nat \ {0}
  <2>1. n \in 0 .. 32
    OBVIOUS
  <2> QED
    BY <2>1, PowerStep, Zenon
<1> PICK x, z : x = Digits(b, y, high, low) /\ z = y * b + high
  OBVIOUS
<1>2. x = z * b + low /\ z \in Nat
  <2>1. (y * b + high) * b = y * (b * b) + high * b
    BY <1>1
  <2>2. x = y * (b * b) + (high * b + low) /\ high * b \in Nat /\ y * (b * b) \in Nat /\ y * b \in Nat
    BY <1>1 DEF Digits
  <2> QED
    BY <2>1, <2>2
<1>3. /\ k < n => (Bit(x, k) <=> Bit(low, k))
      /\ k >= n => (Bit(x, k) <=> Bit(z, k - n))
  <2>1. Splits(x, n, z, low)
    BY ONLY <1>1, <1>2, BitsOfParts, b = 2^n, low \in 0 .. b - 1
  <2> QED
    BY <2>1 DEF Splits
<1>4. CASE k < n
  <2>1. ~(k >= n) /\ ~(k >= n + n)
    BY <1>4
  <2> QED
    BY ONLY <1>3, <1>4, <2>1, x = Digits(b, y, high, low), Zenon
<1>5. CASE k >= n
  <2> PICK j : j = k - n
    OBVIOUS
  <2>1. j \in 0 .. 31 /\ (k < n + n <=> j < n) /\ (k >= n + n <=> j >= n) /\ ~(k < n)
    BY <1>5
  <2>2. /\ j < n => (Bit(z, j) <=> Bit(high, j))
        /\ j >= n => (Bit(z, j) <=> Bit(y, j - n))
    <3>1. Splits(z, n, y, high)
      BY ONLY <1>1, BitsOfParts, y \in Nat, z = y * b + high, high \in 0 .. b - 1, b = 2^n
    <3> QED
      BY <2>1, <3>1 DEF Splits
  <2> QED
    BY ONLY <1>3, <1>5, <2>1, <2>2, x = Digits(b, y, high, low), j = k - n, Zenon
<1> QED
  BY <1>4, <1>5

\* The lowest n bits of idx are swapped with the next n, and none from s up are kept.
SwapsBits(x, idx, n, s) ==
  /\ x \in Word
  /\ \A k \in 0 .. WordBits - 1 :
       k \in Bits(x) <=> \/ k < n /\ k + n \in Bits(idx)
                         \/ k >= n /\ k < n + n /\ k - n \in Bits(idx)
                         \/ k >= n + n /\ k < s /\ k \in Bits(idx)

\* Only one word has these bits.
LEMMA SwapsSame ==
  ASSUME NEW n, NEW s, NEW idx, NEW x, NEW y, SwapsBits(x, idx, n, s), SwapsBits(y, idx, n, s)
  PROVE  x = y
<1>1. x \in Word /\ y \in Word /\ \A k \in 0 .. WordBits - 1 : k \in Bits(x) <=> k \in Bits(y)
  BY DEF SwapsBits
<1>2. Bits(x) = Bits(y)
  BY <1>1, BitsOfWords
<1> QED
  BY <1>1, <1>2, BitsOfWords

\* A size that is a power of 2, with bits to shuffle in it.
ShuffleSize(n, s, size) ==
  n \in 1 .. 8 /\ s \in 0 .. WordBits /\ 2 * n <= s /\ size = 2^s

\* The numbers that go with it.
LEMMA ShuffleNumbers ==
  ASSUME NEW n, NEW s, NEW size, ShuffleSize(n, s, size)
  PROVE  /\ WordBits \in Nat /\ WordBits <= 32 /\ n \in 1 .. 8 /\ n \in 0 .. WordBits
         /\ s \in 0 .. WordBits /\ 2 * n <= s /\ 2 * n <= WordBits
         /\ size = 2^s /\ size \in Nat \ {0} /\ size - 1 \in Word /\ Sub(size, 1) = size - 1
<1>1. /\ WordBits \in Nat /\ WordBits <= 32 /\ n \in 1 .. 8 /\ n \in 0 .. WordBits
      /\ s \in 0 .. WordBits /\ 2 * n <= s /\ 2 * n <= WordBits /\ size = 2^s /\ s \in 0 .. 32
  BY WordBitsAssumption DEF ShuffleSize
<1>2. size \in Nat \ {0}
  BY ONLY <1>1, PowerStep, Zenon
<1>3. size - 1 \in Word
  BY ONLY <1>1, BitsOfMask, Zenon
<1>4. Sub(size, 1) = size - 1
  BY ONLY <1>2, <1>3, ModulusAssumption DEF Word, Sub
<1> QED
  BY ONLY <1>1, <1>2, <1>3, <1>4, Zenon

\* The arithmetic of Swapped swaps these bits.
LEMMA SwappedBits ==
  ASSUME NEW n, NEW s, NEW size, ShuffleSize(n, s, size), NEW idx \in Word
  PROVE  SwapsBits(Swapped(idx, size, n), idx, n, s)
<1>0. /\ WordBits \in Nat /\ WordBits <= 32 /\ n \in 1 .. 8 /\ n \in 0 .. WordBits
      /\ s \in 0 .. WordBits /\ 2 * n <= s /\ 2 * n <= WordBits
      /\ size = 2^s /\ size \in Nat \ {0} /\ size - 1 \in Word
  BY ONLY ShuffleNumbers, ShuffleSize(n, s, size)
<1> PICK b, c : b = 2^n /\ c = s - 2 * n
  OBVIOUS
<1> PICK m : m = 2^c
  OBVIOUS
<1>1. /\ n \in 0 .. 32 /\ c \in Nat /\ c \in 0 .. 32 /\ 2 * n \in Nat
      /\ c + 2 * n = s /\ c + 2 * n <= 32
  BY <1>0
<1>2. b \in Nat \ {0} /\ m \in Nat \ {0}
  BY ONLY <1>1, PowerStep, b = 2^n, m = 2^c, Zenon
<1>3. size = m * 2^(2 * n)
  BY ONLY <1>0, <1>1, PowerSum, m = 2^c, Zenon
<1>4. 2^(2 * n) = b * b
  BY ONLY Powers, <1>0, b = 2^n
<1> PICK x, i : x = Swapped(idx, size, n) /\ i = idx % size
  OBVIOUS
<1>5. x \in Word
  <2>1. SwapsAsSlots(size, n)
    BY ONLY <1>0, <1>2, <1>3, SwappedSlots
  <2>2. x \in 0 .. size - 1
    BY <2>1, WordNat DEF SwapsAsSlots
  <2> QED
    BY <1>0, <2>2, ModulusAssumption DEF Word
<1>6. SwapsDigits(idx, n, b, m, size)
  <2>1. Shuffles(n, b, m, size)
    BY ONLY <1>0, <1>2, <1>3, <1>4, b = 2^n DEF Shuffles
  <2> QED
    BY ONLY <2>1, SwappedDigits, WordNat, idx \in Word
<1>7. PICK y \in 0 .. m - 1, high \in 0 .. b - 1, low \in 0 .. b - 1 :
             i = Digits(b, y, high, low) /\ x = Digits(b, y, low, high)
  BY ONLY <1>6, i = idx % size, x = Swapped(idx, size, n) DEF SwapsDigits
<1>8. y \in Nat
  BY <1>2
<1>9. i \in Word /\ Bits(i) = {k \in Bits(idx) : k < s}
  BY ONLY <1>0, Masked, idx \in Word, i = idx % size
<1>10. Consists(i, n, y, high, low)
  BY ONLY <1>0, <1>7, <1>8, BitsOfDigits, b = 2^n
<1>11. Consists(x, n, y, low, high)
  BY ONLY <1>0, <1>7, <1>8, BitsOfDigits, b = 2^n
<1>12. ASSUME NEW k \in 0 .. WordBits - 1 PROVE k \in Bits(x) <=> Bit(x, k)
  BY ONLY <1>5, BitsOfWords, k \in 0 .. WordBits - 1
<1>13. ASSUME NEW k \in 0 .. WordBits - 1 PROVE Bit(i, k) <=> k \in Bits(idx) /\ k < s
  BY ONLY <1>9, BitsOfWords, k \in 0 .. WordBits - 1
<1>14. ASSUME NEW k \in 0 .. WordBits - 1
       PROVE  k \in Bits(x) <=> \/ k < n /\ k + n \in Bits(idx)
                                \/ k >= n /\ k < n + n /\ k - n \in Bits(idx)
                                \/ k >= n + n /\ k < s /\ k \in Bits(idx)
  <2>1. k \in 0 .. 31 /\ k \in Nat
    BY <1>0
  <2>2. CASE k < n
    <3> PICK g : g = k + n
      OBVIOUS
    <3>1. /\ g \in 0 .. 31 /\ g \in 0 .. WordBits - 1 /\ g >= n /\ g < n + n /\ g - n = k /\ g < s
          /\ ~(k >= n) /\ ~(k >= n + n)
      BY <1>0, <2>1, <2>2, g = k + n
    <3>2. Bit(i, g) <=> Bit(high, g - n)
      BY ONLY <1>10, <3>1 DEF Consists
    <3>3. Bit(x, k) <=> Bit(high, k)
      BY ONLY <1>11, <2>1, <2>2 DEF Consists
    <3>4. Bit(i, g) <=> g \in Bits(idx) /\ g < s
      BY ONLY <1>13, <3>1, Zenon
    <3>5. k \in Bits(x) <=> Bit(x, k)
      BY ONLY <1>12, k \in 0 .. WordBits - 1, Zenon
    <3> QED
      BY ONLY <2>2, <3>1, <3>2, <3>3, <3>4, <3>5, g = k + n, Zenon
  <2>3. CASE k >= n /\ k < n + n
    <3> PICK h : h = k - n
      OBVIOUS
    <3>1. h \in 0 .. 31 /\ h \in 0 .. WordBits - 1 /\ h < n /\ h < s /\ ~(k < n) /\ ~(k >= n + n)
      BY <1>0, <2>1, <2>3, h = k - n
    <3>2. Bit(i, h) <=> Bit(low, h)
      BY ONLY <1>10, <3>1 DEF Consists
    <3>3. Bit(x, k) <=> Bit(low, k - n)
      BY ONLY <1>11, <2>1, <2>3 DEF Consists
    <3>4. Bit(i, h) <=> h \in Bits(idx) /\ h < s
      BY ONLY <1>13, <3>1, Zenon
    <3>5. k \in Bits(x) <=> Bit(x, k)
      BY ONLY <1>12, k \in 0 .. WordBits - 1, Zenon
    <3> QED
      BY ONLY <2>3, <3>1, <3>2, <3>3, <3>4, <3>5, h = k - n, Zenon
  <2>4. CASE k >= n + n
    <3>1. k >= n + n /\ ~(k < n) /\ ~(k < n + n)
      BY <1>0, <2>1, <2>4
    <3>2. Bit(i, k) <=> Bit(y, (k - n) - n)
      BY ONLY <1>10, <2>1, <3>1 DEF Consists
    <3>3. Bit(x, k) <=> Bit(y, (k - n) - n)
      BY ONLY <1>11, <2>1, <3>1 DEF Consists
    <3>4. Bit(i, k) <=> k \in Bits(idx) /\ k < s
      BY ONLY <1>13, k \in 0 .. WordBits - 1, Zenon
    <3>5. k \in Bits(x) <=> Bit(x, k)
      BY ONLY <1>12, k \in 0 .. WordBits - 1, Zenon
    <3> QED
      BY ONLY <3>1, <3>2, <3>3, <3>4, <3>5, Zenon
  <2>5. k < n \/ (k >= n /\ k < n + n) \/ k >= n + n
    BY <1>0, <2>1
  <2> QED
    BY ONLY <2>2, <2>3, <2>4, <2>5, Zenon
<1> QED
  BY ONLY <1>5, <1>14, x = Swapped(idx, size, n) DEF SwapsBits

\* So does RemapXor.
LEMMA XorSwaps ==
  ASSUME NEW n, NEW s, NEW size, ShuffleSize(n, s, size), NEW idx \in Word
  PROVE  SwapsBits(RemapXor(idx, size, n), idx, n, s)
<1>0. /\ WordBits \in Nat /\ WordBits <= 32 /\ n \in 1 .. 8 /\ n \in 0 .. WordBits
      /\ s \in 0 .. WordBits /\ 2 * n <= s /\ 2 * n <= WordBits
      /\ size = 2^s /\ size - 1 \in Word /\ Sub(size, 1) = size - 1 /\ n \in 0 .. 32
  BY ShuffleNumbers
<1> PICK i, j : i = And(idx, Sub(size, 1)) /\ j = i \div 2^n
  OBVIOUS
<1> PICK y, mix, up : y = Xor(i, j) /\ mix = And(y, mask_elem_idx(n)) /\ up = Shl(mix, n)
  OBVIOUS
<1> PICK half, x : half = Xor(i, mix) /\ x = Xor(half, up)
  OBVIOUS
<1>1. RemapXor(idx, size, n) = x
  BY ONLY i = And(idx, Sub(size, 1)), j = i \div 2^n, y = Xor(i, j), mix = And(y, mask_elem_idx(n)),
          up = Shl(mix, n), half = Xor(i, mix), x = Xor(half, up), Zenon DEF RemapXor
<1>2. i \in Word /\ Bits(i) = {k \in Bits(idx) : k < s}
  BY ONLY <1>0, Masked, idx \in Word, i = And(idx, Sub(size, 1))
<1>3. j \in Word /\ Bits(j) = {k \in 0 .. WordBits - 1 : k + n \in Bits(i)}
  BY ONLY <1>0, <1>2, BitsShifted, j = i \div 2^n
<1>4. y \in Word /\ Bits(y) = (Bits(i) \union Bits(j)) \ (Bits(i) \intersect Bits(j))
  BY ONLY BitsOfOperators, y = Xor(i, j)
<1>5. mix \in 0 .. 2^n - 1 /\ Bits(mix) = {k \in Bits(y) : k < n}
  <2>1. mask_elem_idx(n) = 2^n - 1
    BY ONLY <1>0, BitsOfMasks
  <2>2. mix = y % 2^n
    BY ONLY <1>0, <1>4, <2>1, MaskedBelow, mix = And(y, mask_elem_idx(n)), Zenon
  <2> QED
    BY ONLY <1>0, <1>4, <2>2, MaskedBelow, Zenon
<1>6. up \in Word /\ \A k \in 0 .. WordBits - 1 : k \in Bits(up) <=> k >= n /\ k - n \in Bits(mix)
  BY ONLY <1>0, <1>5, ShiftedUp, up = Shl(mix, n)
<1>7. Bits(half) = (Bits(i) \union Bits(mix)) \ (Bits(i) \intersect Bits(mix))
  BY ONLY BitsOfOperators, half = Xor(i, mix)
<1>8. x \in Word /\ Bits(x) = (Bits(half) \union Bits(up)) \ (Bits(half) \intersect Bits(up))
  BY ONLY BitsOfOperators, x = Xor(half, up)
<1>9. Bits(idx) \subseteq 0 .. WordBits - 1
  BY DEF Bits
<1>10. ASSUME NEW h \in 0 .. WordBits - 1, h < n
       PROVE  h \in Bits(mix) <=> ~(h \in Bits(idx) <=> h + n \in Bits(idx))
  <2>1. h < s /\ h + n < s /\ h + n \in 0 .. WordBits - 1
    BY <1>0, <1>10
  <2>2. (h \in Bits(i) <=> h \in Bits(idx)) /\ (h \in Bits(j) <=> h + n \in Bits(idx))
    BY ONLY <1>2, <1>3, <2>1, h \in 0 .. WordBits - 1
  <2>3. h \in Bits(mix) <=> ~(h \in Bits(i) <=> h \in Bits(j))
    BY ONLY <1>4, <1>5, <1>10
  <2> QED
    BY ONLY <2>2, <2>3
<1>11. ASSUME NEW k \in 0 .. WordBits - 1
       PROVE  k \in Bits(x) <=> \/ k < n /\ k + n \in Bits(idx)
                                \/ k >= n /\ k < n + n /\ k - n \in Bits(idx)
                                \/ k >= n + n /\ k < s /\ k \in Bits(idx)
  <2>1. k \in Bits(x) <=> ~(~(k \in Bits(i) <=> k \in Bits(mix)) <=> k \in Bits(up))
    BY ONLY <1>7, <1>8
  <2>2. k \in Bits(i) <=> k \in Bits(idx) /\ k < s
    BY ONLY <1>2
  <2>3. k \in Bits(up) <=> k >= n /\ k - n \in Bits(mix)
    BY ONLY <1>6, k \in 0 .. WordBits - 1, Zenon
  <2>4. k \in Bits(mix) => k < n
    BY ONLY <1>5
  <2>5. CASE k < n
    <3>1. ~(k >= n) /\ ~(k >= n + n) /\ k < s
      BY <1>0, <2>5
    <3>2. k \in Bits(mix) <=> ~(k \in Bits(idx) <=> k + n \in Bits(idx))
      BY ONLY <1>10, <2>5, k \in 0 .. WordBits - 1, Zenon
    <3> QED
      BY ONLY <2>1, <2>2, <2>3, <2>5, <3>1, <3>2, Zenon
  <2>6. CASE k >= n /\ k < n + n
    <3> PICK h : h = k - n
      OBVIOUS
    <3>1. h \in 0 .. WordBits - 1 /\ h < n /\ h + n = k /\ ~(k < n) /\ ~(k >= n + n) /\ k < s
      BY <1>0, <2>6, h = k - n
    <3>2. h \in Bits(mix) <=> ~(h \in Bits(idx) <=> h + n \in Bits(idx))
      BY ONLY <1>10, <3>1, Zenon
    <3> QED
      BY ONLY <2>1, <2>2, <2>3, <2>4, <2>6, <3>1, <3>2, h = k - n, Zenon
  <2>7. CASE k >= n + n
    <3>1. k >= n /\ ~(k < n) /\ ~(k < n + n) /\ ~(k - n < n)
      BY <1>0, <2>7
    <3>2. ~(k - n \in Bits(mix))
      BY ONLY <1>5, <3>1
    <3> QED
      BY ONLY <2>1, <2>2, <2>3, <2>4, <2>7, <3>1, <3>2, Zenon
  <2>8. k < n \/ (k >= n /\ k < n + n) \/ k >= n + n
    BY <1>0
  <2> QED
    BY ONLY <2>5, <2>6, <2>7, <2>8, Zenon
<1> QED
  BY ONLY <1>1, <1>8, <1>11 DEF SwapsBits

\* The three parts of the result that RemapAnd and RemapBmi put together.
PartBits(elem, line, rest, idx, n, s) ==
  /\ elem \in Word /\ line \in Word /\ rest \in Word
  /\ \A k \in 0 .. WordBits - 1 :
       /\ k \in Bits(elem) <=> k < n /\ k + n \in Bits(idx)
       /\ k \in Bits(line) <=> k >= n /\ k < n + n /\ k - n \in Bits(idx)
       /\ k \in Bits(rest) <=> k >= n + n /\ k < s /\ k \in Bits(idx)

\* What they are, however they are computed.
LEMMA PartsSwap ==
  ASSUME NEW n, NEW s, NEW size, ShuffleSize(n, s, size), NEW idx \in Word,
         NEW elem, elem = (idx \div 2^n) % 2^n, NEW line, line = Shl(idx % 2^n, n),
         NEW rest, rest = And(idx, And(mask_hi(n), Sub(size, 1)))
  PROVE  PartBits(elem, line, rest, idx, n, s)
<1>0. /\ WordBits \in Nat /\ WordBits <= 32 /\ n \in 1 .. 8 /\ n \in 0 .. WordBits
      /\ s \in 0 .. WordBits /\ 2 * n <= s /\ 2 * n <= WordBits
      /\ size = 2^s /\ size - 1 \in Word /\ Sub(size, 1) = size - 1 /\ n \in 0 .. 32
  BY ShuffleNumbers
<1>1. Bits(idx) \subseteq 0 .. WordBits - 1
  BY DEF Bits
<1> PICK j, l : j = idx \div 2^n /\ l = idx % 2^n
  OBVIOUS
<1>2. j \in Word /\ Bits(j) = {k \in 0 .. WordBits - 1 : k + n \in Bits(idx)}
  BY ONLY <1>0, BitsShifted, idx \in Word, j = idx \div 2^n
<1>3. elem \in Word /\ Bits(elem) = {k \in Bits(j) : k < n}
  BY ONLY <1>0, <1>2, Masked, elem = (idx \div 2^n) % 2^n, j = idx \div 2^n
<1>4. l \in 0 .. 2^n - 1 /\ Bits(l) = {k \in Bits(idx) : k < n}
  BY ONLY <1>0, MaskedBelow, idx \in Word, l = idx % 2^n
<1>5. line \in Word /\ \A k \in 0 .. WordBits - 1 : k \in Bits(line) <=> k >= n /\ k - n \in Bits(l)
  BY ONLY <1>0, <1>4, ShiftedUp, line = Shl(idx % 2^n, n), l = idx % 2^n
<1>6. /\ rest \in Word
      /\ Bits(rest) = Bits(idx) \intersect (Bits(mask_hi(n)) \intersect Bits(size - 1))
  BY ONLY <1>0, BitsOfOperators, rest = And(idx, And(mask_hi(n), Sub(size, 1)))
<1>7. Bits(size - 1) = 0 .. s - 1 /\ Bits(mask_hi(n)) = {k \in 0 .. WordBits - 1 : k >= n + n}
  BY ONLY <1>0, BitsOfMask, BitsOfMasks
<1>8. ASSUME NEW k \in 0 .. WordBits - 1
      PROVE  /\ k \in Bits(elem) <=> k < n /\ k + n \in Bits(idx)
             /\ k \in Bits(line) <=> k >= n /\ k < n + n /\ k - n \in Bits(idx)
             /\ k \in Bits(rest) <=> k >= n + n /\ k < s /\ k \in Bits(idx)
  <2>1. k \in Bits(elem) <=> k < n /\ k + n \in Bits(idx)
    BY ONLY <1>2, <1>3, k \in 0 .. WordBits - 1
  <2>2. k - n \in Bits(l) <=> k - n \in Bits(idx) /\ k - n < n
    BY ONLY <1>4
  <2>3. k - n < n <=> k < n + n
    BY <1>0
  <2>4. k \in Bits(line) <=> k >= n /\ k < n + n /\ k - n \in Bits(idx)
    BY ONLY <1>5, <2>2, <2>3, k \in 0 .. WordBits - 1, Zenon
  <2>5. k \in 0 .. s - 1 <=> k < s
    BY <1>0
  <2>6. k \in Bits(rest) <=> k >= n + n /\ k < s /\ k \in Bits(idx)
    BY ONLY <1>6, <1>7, <2>5, k \in 0 .. WordBits - 1
  <2> QED
    BY ONLY <2>1, <2>4, <2>6, Zenon
<1> QED
  BY ONLY <1>3, <1>5, <1>6, <1>8 DEF PartBits

\* Their order does not matter.
LEMMA PartsTogether ==
  ASSUME NEW n, NEW s, NEW idx, NEW elem, NEW line, NEW rest, PartBits(elem, line, rest, idx, n, s)
  PROVE  /\ SwapsBits(Or(Or(elem, line), rest), idx, n, s)
         /\ SwapsBits(Or(Or(elem, rest), line), idx, n, s)
<1>1. /\ Or(Or(elem, line), rest) \in Word
      /\ Bits(Or(Or(elem, line), rest)) = (Bits(elem) \union Bits(line)) \union Bits(rest)
      /\ Or(Or(elem, rest), line) \in Word
      /\ Bits(Or(Or(elem, rest), line)) = (Bits(elem) \union Bits(rest)) \union Bits(line)
  BY ONLY BitsOfOperators
<1> PICK x, y : x = Or(Or(elem, line), rest) /\ y = Or(Or(elem, rest), line)
  OBVIOUS
<1>2. ASSUME NEW k \in 0 .. WordBits - 1
      PROVE  /\ k \in Bits(x) <=> k \in Bits(elem) \/ k \in Bits(line) \/ k \in Bits(rest)
             /\ k \in Bits(y) <=> k \in Bits(elem) \/ k \in Bits(line) \/ k \in Bits(rest)
  BY ONLY <1>1, x = Or(Or(elem, line), rest), y = Or(Or(elem, rest), line)
<1>3. ASSUME NEW k \in 0 .. WordBits - 1
      PROVE  /\ k \in Bits(elem) <=> k < n /\ k + n \in Bits(idx)
             /\ k \in Bits(line) <=> k >= n /\ k < n + n /\ k - n \in Bits(idx)
             /\ k \in Bits(rest) <=> k >= n + n /\ k < s /\ k \in Bits(idx)
  BY ONLY PartBits(elem, line, rest, idx, n, s), k \in 0 .. WordBits - 1, Zenon DEF PartBits
<1>4. x \in Word /\ y \in Word
  BY ONLY <1>1, x = Or(Or(elem, line), rest), y = Or(Or(elem, rest), line), Zenon
<1>5. ASSUME NEW z \in {x, y}, NEW k \in 0 .. WordBits - 1
      PROVE  k \in Bits(z) <=> \/ k < n /\ k + n \in Bits(idx)
                               \/ k >= n /\ k < n + n /\ k - n \in Bits(idx)
                               \/ k >= n + n /\ k < s /\ k \in Bits(idx)
  BY ONLY <1>2, <1>3, z \in {x, y}, k \in 0 .. WordBits - 1, Zenon
<1>6. SwapsBits(x, idx, n, s) /\ SwapsBits(y, idx, n, s)
  BY ONLY <1>4, <1>5, Zenon DEF SwapsBits
<1> QED
  BY ONLY <1>6, x = Or(Or(elem, line), rest), y = Or(Or(elem, rest), line), Zenon

\* So does RemapAnd.
LEMMA AndSwaps ==
  ASSUME NEW n, NEW s, NEW size, ShuffleSize(n, s, size), NEW idx \in Word
  PROVE  SwapsBits(RemapAnd(idx, size, n), idx, n, s)
<1>0. /\ n \in 1 .. 8 /\ n \in 0 .. WordBits /\ 2 * n <= WordBits /\ n \in 0 .. 32
  BY ShuffleNumbers
<1> PICK elem, line, rest :
      /\ elem = (idx \div 2^n) % 2^n /\ line = Shl(idx % 2^n, n)
      /\ rest = And(idx, And(mask_hi(n), Sub(size, 1)))
  OBVIOUS
<1>1. SwapsBits(Or(Or(elem, line), rest), idx, n, s)
  <2>1. PartBits(elem, line, rest, idx, n, s)
    BY PartsSwap
  <2> QED
    BY ONLY <2>1, PartsTogether
<1>2. mask_elem_idx(n) = 2^n - 1 /\ idx \div 2^n \in Word
  BY ONLY <1>0, BitsOfMasks, BitsShifted, idx \in Word
<1>3. And(idx \div 2^n, mask_elem_idx(n)) = elem /\ Shl(And(idx, mask_elem_idx(n)), n) = line
  <2>1. And(idx \div 2^n, 2^n - 1) = (idx \div 2^n) % 2^n /\ And(idx, 2^n - 1) = idx % 2^n
    BY ONLY <1>0, <1>2, Masked, idx \in Word, Zenon
  <2> QED
    BY ONLY <1>2, <2>1, elem = (idx \div 2^n) % 2^n, line = Shl(idx % 2^n, n), Zenon
<1>4. RemapAnd(idx, size, n) = Or(Or(elem, line), rest)
  BY ONLY <1>3, rest = And(idx, And(mask_hi(n), Sub(size, 1))), Zenon DEF RemapAnd
<1> QED
  BY ONLY <1>1, <1>4, Zenon

\* And so do both forms of RemapBmi.
LEMMA BmiSwaps ==
  ASSUME NEW n, NEW s, NEW size, ShuffleSize(n, s, size), NEW idx \in Word, NEW bmi2 \in BOOLEAN
  PROVE  SwapsBits(RemapBmi(idx, size, n, bmi2), idx, n, s)
<1>0. /\ n \in 1 .. 8 /\ n \in 0 .. WordBits /\ 2 * n <= WordBits /\ n \in 0 .. 32
  BY ShuffleNumbers
<1> PICK elem, line, rest :
      /\ elem = (idx \div 2^n) % 2^n /\ line = Shl(idx % 2^n, n)
      /\ rest = And(idx, And(mask_hi(n), Sub(size, 1)))
  OBVIOUS
<1>1. SwapsBits(Or(Or(elem, rest), line), idx, n, s)
  <2>1. PartBits(elem, line, rest, idx, n, s)
    BY PartsSwap
  <2> QED
    BY ONLY <2>1, PartsTogether
<1>2. count2(n) % 256 = n /\ (count2(n) \div 256) % 256 = n
  <2>1. (256 * n + n) % 256 = n /\ (256 * n + n) \div 256 = n /\ n % 256 = n
    BY ONLY <1>0
  <2> QED
    BY ONLY <2>1, Zenon DEF count2
<1>3. Bextr(idx, count2(n)) = elem /\ Bzhi(idx, count2(n)) = idx % 2^n
  BY ONLY <1>2, elem = (idx \div 2^n) % 2^n, Zenon DEF Bextr, Bzhi
<1>4. And(idx, mask_elem_idx(n)) = idx % 2^n
  <2>1. mask_elem_idx(n) = 2^n - 1
    BY ONLY <1>0, BitsOfMasks
  <2> QED
    BY ONLY <1>0, <2>1, Masked, idx \in Word, Zenon
<1>5. RemapBmi(idx, size, n, bmi2) = Or(Or(elem, rest), line)
  <2>1. CASE bmi2
    BY ONLY <1>3, <2>1, line = Shl(idx % 2^n, n), rest = And(idx, And(mask_hi(n), Sub(size, 1))), Zenon
       DEF RemapBmi
  <2>2. CASE ~bmi2
    BY ONLY <1>3, <1>4, <2>2, line = Shl(idx % 2^n, n), rest = And(idx, And(mask_hi(n), Sub(size, 1))), Zenon
       DEF RemapBmi
  <2> QED
    BY ONLY <2>1, <2>2, bmi2 \in BOOLEAN, Zenon
<1> QED
  BY ONLY <1>1, <1>5, Zenon

-----------------------------------------------------------------------------
(* The invariants of IndexBits.                                            *)
\* What stays as the counter runs.
SizesInv ==
  /\ kind \in {"plain", "minimize", "B"}
  /\ asked \in 1 .. Modulus - 1
  /\ perLine \in PerLine
  /\ kind = "B" => CacheLineBits(perLine) > 0 /\ 2^(2 * CacheLineBits(perLine)) < Modulus \div 2
  /\ counter \in Word

\* It does.
LEMMA SizesInvariant == Spec => []SizesInv
<1>1. Init => SizesInv
  <2>1. Modulus - 1 - (Modulus \div 8) \in Word
    BY ModulusAssumption DEF Word
  <2> QED
    BY <2>1 DEF Init, SizesInv
<1>2. SizesInv /\ [Next]_vars => SizesInv'
  <2>1. \A c \in Word : Add(c, 1) \in Word
    BY WordArithmetic
  <2> QED
    BY <2>1 DEF SizesInv, Next, vars
<1> QED
  BY <1>1, <1>2, PTL DEF Spec

\* The numbers of elements a cache line has bits for.
LEMMA LineBits ==
  ASSUME NEW e
  PROVE  \/ CacheLineBits(e) = 0
         \/ CacheLineBits(e) \in 1 .. 8 /\ e = 2^CacheLineBits(e)
BY DEF CacheLineBits

\* A size is a power of 2 from p up, and its number of bits is at least p.
LEMMA PowerAtLeast ==
  ASSUME NEW p \in 0 .. 32, NEW s \in 0 .. 32, 2^p <= 2^s
  PROVE  p <= s
<1> SUFFICES ASSUME s < p PROVE FALSE
  OBVIOUS
<1> PICK c, d : c = 2^p /\ d = 2^s
  OBVIOUS
<1>1. 2 * d <= c
  BY ONLY PowerLess, s < p, p \in 0 .. 32, s \in 0 .. 32, c = 2^p, d = 2^s
<1>2. c \in Nat /\ d \in Nat \ {0} /\ c <= d
  BY ONLY PowerStep, p \in 0 .. 32, s \in 0 .. 32, 2^p <= 2^s, c = 2^p, d = 2^s, Zenon
<1> QED
  BY ONLY <1>1, <1>2

\* The size of an array that is rounded up: 0 when it would have as many
\* elements as there are words.
RoundedSize(p) ==
  /\ p \in 0 .. WordBits
  /\ asked <= 2^p /\ 2^p < 2 * asked
  /\ RoundUp(asked) = IF p = WordBits THEN 0 ELSE 2^p

\* The sizes of the queues.
LEMMA QueueSizes ==
  ASSUME SizesInv
  PROVE  /\ kind = "plain" => QueueSize = asked
         /\ kind = "minimize" => QueueSize = RoundUp(asked)
         /\ kind = "B" =>
              \E least \in Nat \ {0} :
                /\ least = 2^(2 * CacheLineBits(perLine)) /\ least < Modulus \div 2
                /\ QueueSize = IF RoundUp(asked) < least THEN least ELSE RoundUp(asked)
         /\ \E p : RoundedSize(p)
<1>1. \E p : RoundedSize(p)
  BY Rounds DEF SizesInv, RoundedSize
<1>2. ASSUME kind = "B" PROVE 2^(2 * CacheLineBits(perLine)) \in Nat \ {0}
  <2> PICK n : n = CacheLineBits(perLine)
    OBVIOUS
  <2>1. n \in 1 .. 8
    BY <1>2, LineBits DEF SizesInv
  <2>2. 2 * n \in 0 .. 32
    BY <2>1
  <2> QED
    BY ONLY <2>2, PowerStep, n = CacheLineBits(perLine), Zenon
<1>3. kind = "plain" => QueueSize = asked
  BY DEF QueueSize
<1>4. kind = "minimize" => QueueSize = RoundUp(asked)
  BY DEF QueueSize
<1>5. kind = "B" => QueueSize = IF RoundUp(asked) < 2^(2 * CacheLineBits(perLine))
                                  THEN 2^(2 * CacheLineBits(perLine)) ELSE RoundUp(asked)
  BY DEF QueueSize
<1>6. kind = "B" => 2^(2 * CacheLineBits(perLine)) < Modulus \div 2
  BY DEF SizesInv
<1> QED
  BY <1>1, <1>2, <1>3, <1>4, <1>5, <1>6, Zenon

\* Where bits are shuffled, n of them, the size is 2^s and large enough.
Shuffled(n, s) ==
  /\ n \in 1 .. 8 /\ ShuffleBits = n /\ perLine = 2^n
  /\ s \in 0 .. WordBits /\ 2 * n <= s /\ QueueSize = 2^s

\* All queues keep to that.
LEMMA ShuffledSizes ==
  ASSUME SizesInv
  PROVE  /\ ShuffleBits \in 0 .. 8
         /\ ShuffleBits > 0 => \E n, s : Shuffled(n, s)
<1>1. kind \in {"plain", "minimize", "B"}
  BY DEF SizesInv
<1>2. CASE kind = "plain"
  BY <1>2 DEF ShuffleBits, IndexShuffleBits
<1> PICK n : n = CacheLineBits(perLine)
  OBVIOUS
<1>3. n = 0 \/ (n \in 1 .. 8 /\ perLine = 2^n)
  BY LineBits
<1> PICK p : RoundedSize(p)
  BY QueueSizes
<1>4. /\ p \in 0 .. WordBits /\ p \in 0 .. 32 /\ WordBits \in 1 .. 32 /\ Modulus = 2^WordBits
      /\ RoundUp(asked) = IF p = WordBits THEN 0 ELSE 2^p
  <2>1. p \in 0 .. WordBits
    BY DEF RoundedSize
  <2>2. p \in 0 .. 32
    BY <2>1, WordBitsAssumption
  <2> QED
    BY <2>1, <2>2, WordBitsAssumption DEF RoundedSize
<1>5. ASSUME n \in 1 .. 8 PROVE 2 * n \in 0 .. 32 /\ 2^(2 * n) \in Nat \ {0}
  <2>1. 2 * n \in 0 .. 32
    BY <1>5
  <2> QED
    BY ONLY <2>1, PowerStep, Zenon
<1>6. ASSUME n \in 1 .. 8, RoundUp(asked) >= 2^(2 * n)
      PROVE  RoundUp(asked) = 2^p /\ 2 * n <= p
  <2>1. RoundUp(asked) = 2^p
    BY <1>4, <1>5, <1>6
  <2>2. 2^(2 * n) <= 2^p
    <3>1. 2^p \in Nat
      BY ONLY <1>4, PowerStep, Zenon
    <3> QED
      BY <1>5, <1>6, <2>1, <3>1
  <2>3. 2 * n <= p
    <3> PICK m : m = 2 * n
      OBVIOUS
    <3>1. m \in 0 .. 32 /\ 2^m <= 2^p
      BY ONLY <1>5, <1>6, <2>2, m = 2 * n, Zenon
    <3> QED
      BY ONLY <1>4, <3>1, PowerAtLeast, m = 2 * n
  <2> QED
    BY <2>1, <2>3
<1>7. CASE kind = "minimize"
  <2>1. QueueSize = RoundUp(asked)
    BY <1>7, QueueSizes
  <2>2. ShuffleBits = IF RoundUp(asked) >= 2^(2 * n) THEN n ELSE 0
    BY <1>7, <2>1 DEF ShuffleBits, IndexShuffleBits
  <2>3. ASSUME ShuffleBits > 0
        PROVE  Shuffled(n, p)
    <3>1. n \in 1 .. 8 /\ RoundUp(asked) >= 2^(2 * n) /\ ShuffleBits = n
      BY <1>3, <2>2, <2>3
    <3>2. RoundUp(asked) = 2^p /\ 2 * n <= p
      BY <1>6, <3>1
    <3> QED
      BY <1>3, <1>4, <2>1, <3>1, <3>2 DEF Shuffled
  <2> QED
    BY <1>3, <2>2, <2>3
<1>8. CASE kind = "B"
  <2>1. ShuffleBits = n
    BY <1>8 DEF ShuffleBits
  <2>2. n \in 1 .. 8 /\ perLine = 2^n /\ 2^(2 * n) < Modulus \div 2
    BY <1>3, <1>8 DEF SizesInv
  <2>3. QueueSize = IF RoundUp(asked) < 2^(2 * n) THEN 2^(2 * n) ELSE RoundUp(asked)
    BY <1>8 DEF QueueSize
  <2>4. CASE RoundUp(asked) < 2^(2 * n)
    <3> PICK m : m = 2 * n
      OBVIOUS
    <3>1. m \in 0 .. 32 /\ 2^m \in Nat \ {0} /\ 2^m < Modulus \div 2
      BY ONLY <1>5, <2>2, m = 2 * n, Zenon
    <3>2. m < WordBits
      <4> SUFFICES ASSUME WordBits <= m PROVE FALSE
        BY <1>4, <3>1
      <4>1. CASE WordBits = m
        BY <1>4, <3>1, <4>1, ModulusAssumption
      <4>2. CASE WordBits < m
        <5>1. 2 * Modulus <= 2^m
          BY ONLY <1>4, <3>1, <4>2, PowerLess
        <5> QED
          BY <3>1, <5>1, ModulusAssumption
      <4> QED
        BY <1>4, <3>1, <4>1, <4>2
    <3>3. m \in 0 .. WordBits /\ 2 * n <= m /\ QueueSize = 2^m
      <4>1. m \in 0 .. WordBits /\ 2 * n <= m
        BY <1>4, <2>2, <3>1, <3>2
      <4>2. QueueSize = 2^m
        BY ONLY <2>3, <2>4, m = 2 * n, Zenon
      <4> QED
        BY <4>1, <4>2
    <3>4. Shuffled(n, m)
      BY <2>1, <2>2, <3>3 DEF Shuffled
    <3> QED
      BY <2>1, <2>2, <3>4
  <2>5. CASE ~(RoundUp(asked) < 2^(2 * n))
    <3>1. RoundUp(asked) \in Int
      <4>1. 2^p \in Nat
        BY ONLY <1>4, PowerStep, Zenon
      <4> QED
        BY <1>4, <4>1
    <3>2. RoundUp(asked) = 2^p /\ 2 * n <= p
      BY <1>5, <1>6, <2>2, <2>5, <3>1
    <3>3. QueueSize = 2^p
      BY <2>3, <2>5, <3>2
    <3>4. Shuffled(n, p)
      BY <1>4, <2>1, <2>2, <3>2, <3>3 DEF Shuffled
    <3> QED
      BY <2>1, <2>2, <3>4
  <2> QED
    BY <2>4, <2>5
<1> QED
  BY <1>1, <1>2, <1>7, <1>8

\* The check whether a queue is full works for sizes below half of the words.
LEMMA ReachesBelowHalf ==
  ASSUME NEW q \in Word
  PROVE  (\A used \in 0 .. q : Reaches(used, q) <=> used = q) <=> 2 * q < Modulus
<1>1. q \in Nat /\ Modulus \in Nat /\ Modulus > 0
  BY WordNat, ModulusAssumption
<1>2. CASE 2 * q < Modulus
  <2>1. ASSUME NEW used \in 0 .. q PROVE Reaches(used, q) <=> used = q
    <3>1. 2 * used < Modulus
      BY <1>1, <1>2
    <3> QED
      BY <1>1, <1>2, <3>1 DEF Reaches, AsSigned
  <2> QED
    BY <1>2, <2>1
<1>3. CASE ~(2 * q < Modulus)
  <2>1. 0 \in 0 .. q /\ 0 # q
    BY <1>1, <1>3
  <2>2. Reaches(0, q)
    <3>1. AsSigned(0) = 0 /\ AsSigned(q) = q - Modulus /\ q < Modulus
      BY <1>1, <1>3, WordNat DEF AsSigned
    <3> QED
      BY <1>1, <3>1 DEF Reaches
  <2> QED
    BY <1>3, <2>1, <2>2
<1> QED
  BY <1>2, <1>3

\* Which sizes are honoured, in other words.
LEMMA HonouredSizes ==
  ASSUME SizesInv, QueueSize \in Word
  PROVE  Honoured <=> asked <= QueueSize /\ 2 * QueueSize < Modulus
BY ReachesBelowHalf DEF Honoured

\* What is rounded up to p bits is at most a quarter of the words, half of them,
\* or all.
LEMMA Halves ==
  ASSUME SizesInv, NEW p, RoundedSize(p)
  PROVE  /\ RoundUp(asked) \in Word
         /\ \/ asked <= RoundUp(asked) /\ 4 * RoundUp(asked) <= Modulus
               /\ asked <= Modulus \div 4
            \/ asked <= RoundUp(asked) /\ 2 * RoundUp(asked) = Modulus
               /\ asked > Modulus \div 4 /\ asked <= Modulus \div 2
            \/ RoundUp(asked) = 0 /\ asked > Modulus \div 2 /\ asked > Modulus \div 4
<1>1. /\ p \in 0 .. WordBits /\ p \in 0 .. 32 /\ WordBits \in 1 .. 32 /\ Modulus = 2^WordBits
      /\ asked <= 2^p /\ 2^p < 2 * asked
      /\ RoundUp(asked) = IF p = WordBits THEN 0 ELSE 2^p
  <2>1. p \in 0 .. WordBits
    BY DEF RoundedSize
  <2>2. p \in 0 .. 32
    BY <2>1, WordBitsAssumption
  <2> QED
    BY <2>1, <2>2, WordBitsAssumption DEF RoundedSize
<1> PICK d : d = 2^p
  OBVIOUS
<1>2. d \in Nat \ {0} /\ asked <= d /\ d < 2 * asked /\ asked \in 1 .. Modulus - 1
  <2>1. d \in Nat \ {0}
    BY ONLY <1>1, PowerStep, d = 2^p, Zenon
  <2> QED
    BY <1>1, <2>1 DEF SizesInv
<1>3. CASE p = WordBits
  <2>1. RoundUp(asked) = 0 /\ d = Modulus
    BY ONLY <1>1, <1>3, d = 2^p, Zenon
  <2> QED
    BY <1>2, <2>1, ModulusAssumption DEF Word
<1>4. CASE p # WordBits
  <2>1. RoundUp(asked) = d
    BY ONLY <1>1, <1>4, d = 2^p, Zenon
  <2>2. CASE p + 1 = WordBits
    <3>1. 2^(p + 1) = 2 * d
      <4>1. p \in 0 .. 31
        BY <1>1, <2>2
      <4> QED
        BY ONLY <4>1, PowerStep, d = 2^p, Zenon
    <3>2. 2 * d = Modulus
      BY ONLY <1>1, <2>2, <3>1, Zenon
    <3> QED
      BY <1>2, <2>1, <3>2, ModulusAssumption DEF Word
  <2>3. CASE p + 1 # WordBits
    <3> PICK m, e : m = p + 1 /\ e = 2^m
      OBVIOUS
    <3>1. m < WordBits /\ m \in Nat /\ p \in 0 .. 31
      BY <1>1, <1>4, <2>3
    <3>2. e = 2 * d
      BY ONLY <3>1, PowerStep, m = p + 1, e = 2^m, d = 2^p, Zenon
    <3>3. 2 * e <= Modulus
      BY ONLY <1>1, <3>1, PowerLess, e = 2^m
    <3> QED
      BY <1>2, <2>1, <3>2, <3>3, ModulusAssumption DEF Word
  <2> QED
    BY <2>2, <2>3
<1> QED
  BY <1>3, <1>4

\* Sizes are words, and never 0 unless rounded to it.
LEMMA SizesAreWords ==
  ASSUME SizesInv
  PROVE  QueueSize \in Word
<1>1. PICK p : RoundedSize(p)
  BY QueueSizes
<1>2. RoundUp(asked) \in Word
  BY <1>1, Halves
<1>3. asked \in Word
  BY ModulusAssumption DEF SizesInv, Word
<1>4. kind \in {"plain", "minimize", "B"}
  BY DEF SizesInv
<1>5. kind = "B" => QueueSize \in Word
  BY <1>2, QueueSizes, ModulusAssumption DEF Word
<1> QED
  BY <1>2, <1>3, <1>4, <1>5, QueueSizes

\* A size asked for of AtomicQueue is rounded up to a power of 2 and no further
\* than to the next (round_up_to_power_of_2), whatever the width of unsigned.
THEOREM RoundsUpToPowersOf2 == Spec => []RoundedToNextPower
<1>1. SizesInv => RoundedToNextPower
  <2> SUFFICES ASSUME SizesInv, kind = "minimize", asked <= Modulus \div 2
               PROVE  IsPowerOf2(QueueSize) /\ asked <= QueueSize /\ QueueSize < 2 * asked
    BY DEF RoundedToNextPower
  <2>1. PICK p : RoundedSize(p)
    BY QueueSizes
  <2>2. QueueSize = RoundUp(asked)
    BY QueueSizes
  <2>3. RoundUp(asked) # 0
    BY <2>1, Halves, ModulusAssumption DEF SizesInv
  <2>4. RoundUp(asked) = 2^p /\ p \in 0 .. WordBits /\ asked <= 2^p /\ 2^p < 2 * asked
    BY <2>1, <2>3 DEF RoundedSize
  <2> QED
    BY ONLY <2>2, <2>4, Zenon DEF IsPowerOf2
<1> QED
  BY <1>1, SizesInvariant, PTL

\* Exactly the sizes below half of the words, or up to a quarter where they are
\* rounded, are honoured by the check whether the queue is full (try_push).
THEOREM OnlySmallSizesHonoured == Spec => []SizesHonouredBelowHalf
<1>1. SizesInv => SizesHonouredBelowHalf
  <2> SUFFICES ASSUME SizesInv PROVE SizesHonouredBelowHalf
    OBVIOUS
  <2>1. Honoured <=> asked <= QueueSize /\ 2 * QueueSize < Modulus
    BY SizesAreWords, HonouredSizes
  <2>2. PICK p : RoundedSize(p)
    BY QueueSizes
  <2>3. asked \in 1 .. Modulus - 1 /\ kind \in {"plain", "minimize", "B"}
    BY DEF SizesInv
  <2>4. CASE kind = "plain"
    <3>1. QueueSize = asked
      BY <2>4, QueueSizes
    <3>2. 2 * asked < Modulus <=> asked < Modulus \div 2
      BY <2>3, ModulusAssumption
    <3>3. Honoured <=> asked < Modulus \div 2
      BY <2>1, <2>3, <3>1, <3>2
    <3> QED
      BY <2>4, <3>3 DEF SizesHonouredBelowHalf
  <2>5. CASE kind = "minimize"
    <3>1. QueueSize = RoundUp(asked)
      BY <2>5, QueueSizes
    <3>2. Honoured <=> asked <= Modulus \div 4
      BY <2>1, <2>2, <2>3, <3>1, Halves, ModulusAssumption DEF Word
    <3> QED
      BY <2>5, <3>2 DEF SizesHonouredBelowHalf
  <2>6. CASE kind = "B"
    <3>1. PICK least \in Nat \ {0} :
             /\ least = 2^(2 * CacheLineBits(perLine)) /\ least < Modulus \div 2
             /\ QueueSize = IF RoundUp(asked) < least THEN least ELSE RoundUp(asked)
      BY <2>6, QueueSizes
    <3>2. 2 * least < Modulus
      BY <3>1, ModulusAssumption
    <3>3. RoundUp(asked) \in Nat
      BY <2>2, Halves, WordNat
    <3>4. Honoured <=> asked <= Modulus \div 4
      <4>1. QueueSize = least \/ QueueSize = RoundUp(asked)
        BY <3>1
      <4>2. CASE asked <= Modulus \div 4
        <5>1. asked <= RoundUp(asked) /\ 4 * RoundUp(asked) <= Modulus
          BY <2>2, <2>3, <4>2, Halves, ModulusAssumption
        <5> QED
          BY <2>1, <2>3, <3>1, <3>2, <3>3, <4>2, <5>1, ModulusAssumption
      <4>3. CASE asked > Modulus \div 4
        <5>1. \/ 2 * RoundUp(asked) = Modulus
              \/ RoundUp(asked) = 0 /\ asked > Modulus \div 2
          BY <2>2, <2>3, <4>3, Halves, ModulusAssumption
        <5>2. CASE 2 * RoundUp(asked) = Modulus
          <6>1. QueueSize = RoundUp(asked)
            BY <3>1, <3>2, <3>3, <5>2
          <6> QED
            BY <2>1, <2>3, <3>3, <4>3, <5>2, <6>1, ModulusAssumption
        <5>3. CASE RoundUp(asked) = 0 /\ asked > Modulus \div 2
          <6>1. QueueSize = least
            BY <3>1, <5>3
          <6> QED
            BY <2>1, <2>3, <3>1, <4>3, <5>3, <6>1, ModulusAssumption
        <5> QED
          BY <5>1, <5>2, <5>3
      <4> QED
        BY <2>3, <4>2, <4>3, ModulusAssumption
    <3> QED
      BY <2>6, <3>4 DEF SizesHonouredBelowHalf
  <2> QED
    BY <2>3, <2>4, <2>5, <2>6
<1> QED
  BY <1>1, SizesInvariant, PTL

\* The slots of any QueueSize consecutive indices are different, and slots.
LEMMA SlotsApart ==
  ASSUME SizesInv, IsPowerOf2(QueueSize),
         NEW slot, slot = [i \in Word |-> Remap(i, QueueSize, ShuffleBits)]
  PROVE  /\ QueueSize \in Nat \ {0} /\ ApartInWindows(slot, QueueSize)
         /\ \A i \in Word : slot[i] \in 0 .. QueueSize - 1
<1> PICK n, size : n = ShuffleBits /\ size = QueueSize
  OBVIOUS
<1>1. PICK s \in 0 .. WordBits : size = 2^s /\ n \in 0 .. 8 /\ (n > 0 => 2 * n <= s)
  <2>1. n \in 0 .. 8
    BY ShuffledSizes
  <2>2. CASE n = 0
    <3>1. PICK s \in 0 .. WordBits : size = 2^s
      BY DEF IsPowerOf2
    <3> QED
      BY <2>1, <2>2, <3>1
  <2>3. CASE n > 0
    <3>1. PICK k, s : Shuffled(k, s)
      BY <2>3, ShuffledSizes
    <3> QED
      BY <2>1, <3>1 DEF Shuffled
  <2> QED
    BY <2>1, <2>2, <2>3
<1>2. s \in 0 .. 32 /\ WordBits \in 1 .. 32 /\ Modulus = 2^WordBits
  BY WordBitsAssumption
<1>3. size \in Nat \ {0}
  BY ONLY <1>1, <1>2, PowerStep, Zenon
<1>4. \E c \in Nat : Modulus = c * size
  <2> PICK r, c : r = WordBits - s /\ c = 2^r
    OBVIOUS
  <2>1. r \in 0 .. 32 /\ r \in Nat /\ s \in Nat /\ r + s = WordBits /\ r + s <= 32
    BY <1>2
  <2>2. Modulus = c * size /\ c \in Nat
    BY ONLY <1>1, <1>2, <2>1, PowerSum, PowerStep, c = 2^r, Zenon
  <2> QED
    BY <2>2
<1>5. \E m \in Nat : size = m * 2^(2 * n)
  <2>1. CASE n = 0
    <3>1. size = size * 1 /\ 2 * n = 0 /\ size \in Nat
      BY <1>3, <2>1
    <3> QED
      BY ONLY <3>1, PowerStep, Zenon
  <2>2. CASE n > 0
    <3> PICK b, r, m : b = 2 * n /\ r = s - b /\ m = 2^r
      OBVIOUS
    <3>1. b \in Nat /\ r \in Nat /\ r \in 0 .. 32 /\ r + b = s /\ r + b <= 32
      BY <1>1, <1>2, <2>2
    <3>2. size = m * 2^b /\ m \in Nat
      BY ONLY <1>1, <3>1, PowerSum, PowerStep, m = 2^r, Zenon
    <3> QED
      BY ONLY <3>2, b = 2 * n, Zenon
  <2> QED
    BY <1>1, <2>1, <2>2
<1>6. \A i \in Word : slot[i] = Remap(i, size, n)
  OBVIOUS
<1>7. ApartInWindows(slot, size) /\ \A i \in Word : slot[i] \in 0 .. size - 1
  BY ONLY <1>1, <1>3, <1>4, <1>5, <1>6, ShuffledApart
<1> QED
  BY <1>3, <1>7

\* Consecutive indices take every slot once, also where the counter wraps
\* (do_push and do_pop on the slot of the index they claimed).
THEOREM IndicesTakeAllSlots == Spec => []ConsecutiveIndicesTakeAllSlots
<1>1. SizesInv => ConsecutiveIndicesTakeAllSlots
  <2> SUFFICES ASSUME SizesInv, IsPowerOf2(QueueSize)
               PROVE  {SlotAt(k) : k \in 0 .. QueueSize - 1} = 0 .. QueueSize - 1
    BY DEF ConsecutiveIndicesTakeAllSlots
  <2> PICK size, slot : size = QueueSize /\ slot = [i \in Word |-> Remap(i, QueueSize, ShuffleBits)]
    OBVIOUS
  <2>1. /\ size \in Nat \ {0} /\ ApartInWindows(slot, size)
        /\ \A i \in Word : slot[i] \in 0 .. size - 1
    BY SlotsApart
  <2>2. counter \in Word
    BY DEF SizesInv
  <2>3. ASSUME NEW k \in 0 .. size - 1
        PROVE  SlotAt(k) = slot[Add(counter, k)] /\ SlotAt(k) \in 0 .. size - 1
    <3>1. Add(counter, k) \in Word
      BY <2>1, <2>2, WordArithmetic
    <3> QED
      BY <2>1, <3>1 DEF SlotAt
  <2> DEFINE f == [k \in 0 .. size - 1 |-> SlotAt(k)]
  <2>4. f \in [0 .. size - 1 -> 0 .. size - 1]
    BY <2>3
  <2>5. \A j, k \in 0 .. size - 1 : f[j] = f[k] => j = k
    <3>1. \A j, k \in 0 .. size - 1 : slot[Add(counter, j)] = slot[Add(counter, k)] => j = k
      BY ONLY <2>1, <2>2 DEF ApartInWindows
    <3>2. \A k \in 0 .. size - 1 : f[k] = slot[Add(counter, k)]
      BY <2>3
    <3> QED
      BY ONLY <3>1, <3>2, Zenon
  <2>6. \A k \in 0 .. size - 1 : f[k] = SlotAt(k)
    OBVIOUS
  <2> HIDE DEF f
  <2>7. f \in Injection(0 .. size - 1, 0 .. size - 1)
    BY <2>4, <2>5, Fun_IsInj
  <2>8. IsFiniteSet(0 .. size - 1)
    BY <2>1, FS_Interval
  <2>9. f \in Surjection(0 .. size - 1, 0 .. size - 1)
    BY <2>7, <2>8, FS_Injection
  <2>10. \A t \in 0 .. size - 1 : \E k \in 0 .. size - 1 : f[k] = t
    BY <2>9 DEF Surjection
  <2>11. PICK T : T = 0 .. size - 1
    OBVIOUS
  <2>12. /\ \A k \in T : SlotAt(k) \in T
         /\ \A t \in T : \E k \in T : SlotAt(k) = t
    BY ONLY <2>3, <2>6, <2>10, <2>11, Zenon
  <2>13. {SlotAt(k) : k \in T} = T
    BY ONLY <2>12, Zenon
  <2> QED
    BY ONLY <2>11, <2>13, size = QueueSize, Zenon
<1> QED
  BY <1>1, SizesInvariant, PTL

\* The line of a slot, as lines repeat, is the lowest digit of its index.
LEMMA LineOfSlot ==
  ASSUME NEW n, NEW b, NEW m, NEW size, Shuffles(n, b, m, size), NEW i \in Nat
  PROVE  (Swapped(i, size, n) \div b) % b = i % b
<1>1. n \in 1 .. 8 /\ b = 2^n /\ m \in Nat \ {0} /\ size = m * (b * b)
  BY DEF Shuffles
<1>2. b \in Nat \ {0}
  BY <1>1, Powers
<1>3. SwapsDigits(i, n, b, m, size)
  BY SwappedDigits
<1>4. PICK y \in 0 .. m - 1, high \in 0 .. b - 1, low \in 0 .. b - 1 :
             /\ i % size = Digits(b, y, high, low)
             /\ Swapped(i, size, n) = Digits(b, y, low, high)
  BY <1>3 DEF SwapsDigits
<1>5. y \in Int
  BY <1>1
<1> PICK x, w : x = i % size /\ w = Swapped(i, size, n)
  OBVIOUS
<1>6. (w \div b) % b = low
  BY ONLY <1>2, <1>4, <1>5, w = Swapped(i, size, n), TwoDigits
<1>7. x % b = low
  BY ONLY <1>2, <1>4, <1>5, x = i % size, TwoDigits
<1>8. i % b = x % b
  <2>1. size \in Nat \ {0} /\ i \in Int
    BY <1>1, <1>2
  <2> PICK c : c = i \div size
    OBVIOUS
  <2>2. c \in Int /\ i = c * size + x /\ x \in Int
    <3>1. c \in Int /\ x \in 0 .. size - 1 /\ i = c * size + x
      BY ONLY <2>1, Division, x = i % size, c = i \div size
    <3> QED
      BY ONLY <2>1, <3>1
  <2>3. PICK q : q = c * (m * b)
    OBVIOUS
  <2>4. q \in Int /\ i = q * b + x
    BY ONLY <1>1, <1>2, <2>2, <2>3
  <2>5. (q * b + x) % b = x % b
    <3>1. x \in Int /\ q \in Int /\ b \in Nat \ {0}
      BY ONLY <1>2, <2>2, <2>4
    <3> QED
      BY ONLY <3>1, SameRemainder
  <2> QED
    BY ONLY <2>4, <2>5, Zenon
<1> QED
  BY ONLY <1>6, <1>7, <1>8, w = Swapped(i, size, n), Zenon

\* Where bits are shuffled, the size has room for both digits.
LEMMA ShuffledDigits ==
  ASSUME NEW n, NEW s, Shuffled(n, s)
  PROVE  /\ \E m : Shuffles(n, 2^n, m, QueueSize)
         /\ 2^n \in Nat \ {0} /\ \E c \in Nat : Modulus = c * 2^n
<1> PICK b, r, m, size : b = 2^n /\ r = s - 2 * n /\ m = 2^r /\ size = QueueSize
  OBVIOUS
<1>1. n \in 1 .. 8 /\ s \in 0 .. WordBits /\ 2 * n <= s /\ size = 2^s
  BY DEF Shuffled
<1>2. WordBits \in 1 .. 32 /\ Modulus = 2^WordBits
  BY WordBitsAssumption
<1>3. b \in Nat \ {0} /\ 2^(2 * n) = b * b
  BY ONLY <1>1, b = 2^n, Powers
<1>4. size = m * (b * b) /\ m \in Nat \ {0}
  <2>1. r \in Nat /\ r \in 0 .. 32 /\ 2 * n \in Nat /\ r + 2 * n = s /\ r + 2 * n <= 32
    BY <1>1, <1>2
  <2> QED
    BY ONLY <1>1, <1>3, <2>1, PowerSum, PowerStep, m = 2^r, Zenon
<1>5. \E c \in Nat : Modulus = c * b
  <2> PICK d, c : d = WordBits - n /\ c = 2^d
    OBVIOUS
  <2>1. d \in Nat /\ d \in 0 .. 32 /\ n \in Nat /\ d + n = WordBits /\ d + n <= 32
    BY <1>1, <1>2
  <2>2. Modulus = c * b /\ c \in Nat
    BY ONLY <1>2, <2>1, PowerSum, PowerStep, b = 2^n, c = 2^d, Zenon
  <2> QED
    BY <2>2
<1>6. Shuffles(n, b, m, size)
  BY ONLY <1>1, <1>4, b = 2^n DEF Shuffles
<1> QED
  BY ONLY <1>3, <1>5, <1>6, b = 2^n, size = QueueSize, Zenon

\* As many consecutive elements as a cache line has room for are on different
\* lines, wherever bits are shuffled, also where the counter wraps.
THEOREM NeighboursOnDistinctLines == Spec => []ConsecutiveIndicesOnDistinctLines
<1>1. SizesInv => ConsecutiveIndicesOnDistinctLines
  <2> SUFFICES ASSUME SizesInv, ShuffleBits > 0,
                      NEW j \in 0 .. 2^ShuffleBits - 1, NEW k \in 0 .. 2^ShuffleBits - 1,
                      SlotAt(j) \div perLine = SlotAt(k) \div perLine
               PROVE  j = k
    BY DEF ConsecutiveIndicesOnDistinctLines
  <2>1. PICK n, s : Shuffled(n, s)
    BY ShuffledSizes
  <2>2. n \in 1 .. 8 /\ ShuffleBits = n /\ perLine = 2^n
    BY <2>1 DEF Shuffled
  <2> PICK b, size, plain : b = 2^n /\ size = QueueSize /\ plain = [i \in Word |-> i % b]
    OBVIOUS
  <2>3. b \in Nat \ {0} /\ (\E c \in Nat : Modulus = c * b) /\ \E m : Shuffles(n, b, m, size)
    BY ONLY <2>1, ShuffledDigits, b = 2^n, size = QueueSize
  <2>4. j \in 0 .. b - 1 /\ k \in 0 .. b - 1
    BY ONLY <2>2, b = 2^n, j \in 0 .. 2^ShuffleBits - 1, k \in 0 .. 2^ShuffleBits - 1, Zenon
  <2>5. ApartInWindows(plain, b)
    BY ONLY <2>3, DivisorsApart, plain = [i \in Word |-> i % b]
  <2>6. counter \in Word
    BY DEF SizesInv
  <2>7. ASSUME NEW h \in 0 .. b - 1
        PROVE  (SlotAt(h) \div b) % b = plain[Add(counter, h)]
    <3> PICK i : i = Add(counter, h)
      OBVIOUS
    <3>1. i \in Word /\ i \in Nat
      BY <2>3, <2>6, WordArithmetic, WordNat
    <3>2. SlotAt(h) = Swapped(i, size, n)
      BY <2>2 DEF SlotAt, Remap
    <3>3. (Swapped(i, size, n) \div b) % b = i % b
      BY ONLY <2>3, <3>1, LineOfSlot
    <3>4. plain[i] = i % b
      BY ONLY <3>1, plain = [a \in Word |-> a % b]
    <3> QED
      BY ONLY <3>2, <3>3, <3>4, i = Add(counter, h), Zenon
  <2>8. SlotAt(j) \div b = SlotAt(k) \div b
    BY ONLY <2>2, b = 2^n, SlotAt(j) \div perLine = SlotAt(k) \div perLine, Zenon
  <2>9. plain[Add(counter, j)] = plain[Add(counter, k)]
    BY ONLY <2>4, <2>7, <2>8, Zenon
  <2> QED
    BY ONLY <2>4, <2>5, <2>6, <2>9 DEF ApartInWindows
<1> QED
  BY <1>1, SizesInvariant, PTL

\* The implementations agree on every index.
THEOREM AllRemapsAgree == Spec => []RemapsAgree
<1>1. SizesInv => RemapsAgree
  <2> SUFFICES ASSUME SizesInv, ShuffleBits > 0
               PROVE  /\ RemapXor(counter, QueueSize, ShuffleBits)
                           = Remap(counter, QueueSize, ShuffleBits)
                      /\ RemapAnd(counter, QueueSize, ShuffleBits)
                           = Remap(counter, QueueSize, ShuffleBits)
                      /\ \A bmi2 \in BOOLEAN :
                           RemapBmi(counter, QueueSize, ShuffleBits, bmi2)
                             = Remap(counter, QueueSize, ShuffleBits)
    BY DEF RemapsAgree
  <2>1. PICK n, s : Shuffled(n, s)
    BY ShuffledSizes
  <2>2. ShuffleBits = n /\ n # 0 /\ ShuffleSize(n, s, QueueSize)
    BY <2>1 DEF Shuffled, ShuffleSize
  <2>3. counter \in Word
    BY DEF SizesInv
  <2>4. Remap(counter, QueueSize, n) = Swapped(counter, QueueSize, n)
    BY ONLY <2>2, Zenon DEF Remap
  <2>5. SwapsBits(Remap(counter, QueueSize, n), counter, n, s)
    BY ONLY <2>2, <2>3, <2>4, SwappedBits
  <2>6. RemapXor(counter, QueueSize, n) = Remap(counter, QueueSize, n)
    BY ONLY <2>2, <2>3, <2>5, XorSwaps, SwapsSame
  <2>7. RemapAnd(counter, QueueSize, n) = Remap(counter, QueueSize, n)
    BY ONLY <2>2, <2>3, <2>5, AndSwaps, SwapsSame
  <2>8. ASSUME NEW bmi2 \in BOOLEAN
        PROVE  RemapBmi(counter, QueueSize, n, bmi2) = Remap(counter, QueueSize, n)
    BY ONLY <2>2, <2>3, <2>5, bmi2 \in BOOLEAN, BmiSwaps, SwapsSame
  <2> QED
    BY ONLY <2>2, <2>6, <2>7, <2>8, Zenon
<1> QED
  BY <1>1, SizesInvariant, PTL
=============================================================================
