------------------------- MODULE QueueObjectsProofs -------------------------
(***************************************************************************)
(* Proofs about QueueObjects for any objects, allocators, amount of memory *)
(* and sizes of pages, any width of the counters, and the sizes that the   *)
(* constructors make: powers of 2 from 2^(2 * ShuffleBits) to 2^31, with 1 *)
(* to 8 bits shuffled.                                                     *)
(***************************************************************************)
EXTENDS QueueObjects, RingProofs, SequenceTheorems

\* The names that the allocators' own definitions hide behind ordinals.
Owner == Allocators \cup {Huge}
BlockSet == [at : Nat, count : Nat \ {0}, by : Owner]

-----------------------------------------------------------------------------
(* Scopes.                                                                 *)
\* An object that exists has one place in the order of creation.
Scoped ==
  /\ scope \in Seq(Objects)
  /\ \A j, k \in DOMAIN scope : scope[j] = scope[k] => j = k

\* RemoveAt takes one member out and keeps the order of the others.
LEMMA Removed ==
  ASSUME NEW S, NEW s \in Seq(S), NEW k \in 1 .. Len(s)
  PROVE  /\ RemoveAt(s, k) \in Seq(S) /\ Len(RemoveAt(s, k)) = Len(s) - 1
         /\ \A j \in 1 .. Len(s) - 1 :
              RemoveAt(s, k)[j] = IF j < k THEN s[j] ELSE s[j + 1]
<1> DEFINE front == SubSeq(s, 1, k - 1)
           rest == SubSeq(s, k + 1, Len(s))
<1>1. front \in Seq(S) /\ Len(front) = k - 1 /\ \A j \in 1 .. k - 1 : front[j] = s[j]
  OBVIOUS
<1>2. rest \in Seq(S) /\ Len(rest) = Len(s) - k /\ \A j \in 1 .. Len(s) - k : rest[j] = s[k + j]
  OBVIOUS
<1>3. RemoveAt(s, k) = front \o rest
  BY DEF RemoveAt
<1>4. Len(s) \in Nat
  OBVIOUS
<1> HIDE DEF front, rest
<1>5. /\ front \o rest \in Seq(S) /\ Len(front \o rest) = Len(front) + Len(rest)
      /\ \A i \in 1 .. Len(front) + Len(rest) :
           (front \o rest)[i] = IF i <= Len(front) THEN front[i] ELSE rest[i - Len(front)]
  BY <1>1, <1>2, ConcatProperties
<1>6. ASSUME NEW j \in 1 .. Len(s) - 1
      PROVE  RemoveAt(s, k)[j] = IF j < k THEN s[j] ELSE s[j + 1]
  <2>1. (front \o rest)[j] = IF j <= k - 1 THEN front[j] ELSE rest[j - (k - 1)]
    BY <1>1, <1>2, <1>4, <1>5
  <2>2. CASE j < k
    BY <1>1, <1>3, <2>1, <2>2
  <2>3. CASE ~(j < k)
    <3>1. j - (k - 1) \in 1 .. Len(s) - k /\ k + (j - (k - 1)) = j + 1
      BY <1>4, <2>3
    <3>2. rest[j - (k - 1)] = s[j + 1]
      BY <1>2, <3>1
    <3> QED
      BY <1>3, <1>4, <2>1, <2>3, <3>2
  <2> QED
    BY <2>2, <2>3
<1> QED
  BY <1>1, <1>2, <1>3, <1>4, <1>5, <1>6

\* An object that is created comes last.
LEMMA ScopeEntered ==
  ASSUME Scoped, NEW q \in Objects \ alive, scope' = Append(scope, q)
  PROVE  /\ Scoped' /\ alive' = alive \cup {q}
         /\ Len(scope') = Len(scope) + 1 /\ Last(scope') = q
         /\ \A k \in 1 .. Len(scope) : scope'[k] = scope[k]
<1>1. /\ scope \in Seq(Objects) /\ DOMAIN scope = 1 .. Len(scope) /\ Len(scope) \in Nat
      /\ scope' \in Seq(Objects) /\ DOMAIN scope' = 1 .. Len(scope')
      /\ Len(scope') = Len(scope) + 1 /\ scope'[Len(scope) + 1] = q
      /\ \A k \in 1 .. Len(scope) : scope'[k] = scope[k]
  BY DEF Scoped
<1>2. \A k \in 1 .. Len(scope) : scope[k] # q
  BY <1>1 DEF alive
<1>3. Scoped'
  BY <1>1, <1>2 DEF Scoped
<1>4. alive' = alive \cup {q}
  BY <1>1 DEF alive
<1> QED
  BY <1>1, <1>3, <1>4 DEF Last

\* One that is destroyed is no more.
LEMMA ScopeLeft ==
  ASSUME Scoped, NEW k \in DOMAIN scope, scope' = RemoveAt(scope, k)
  PROVE  /\ Scoped' /\ alive' = alive \ {scope[k]}
         /\ Len(scope') = Len(scope) - 1
         /\ \A j \in 1 .. Len(scope) - 1 :
              scope'[j] = IF j < k THEN scope[j] ELSE scope[j + 1]
<1>1. /\ scope \in Seq(Objects) /\ DOMAIN scope = 1 .. Len(scope) /\ Len(scope) \in Nat
      /\ k \in 1 .. Len(scope)
  BY DEF Scoped
<1>2. /\ scope' \in Seq(Objects) /\ Len(scope') = Len(scope) - 1
      /\ \A j \in 1 .. Len(scope) - 1 :
           scope'[j] = IF j < k THEN scope[j] ELSE scope[j + 1]
  BY <1>1, Removed
<1>3. DOMAIN scope' = 1 .. Len(scope) - 1
  BY <1>2
<1>4. Scoped'
  <2>1. ASSUME NEW i \in DOMAIN scope', NEW j \in DOMAIN scope', scope'[i] = scope'[j]
        PROVE  i = j
    <3>1. i \in 1 .. Len(scope) - 1 /\ j \in 1 .. Len(scope) - 1
      BY <1>3
    <3>2. (IF i < k THEN i ELSE i + 1) = (IF j < k THEN j ELSE j + 1)
      <4> DEFINE place(l) == IF l < k THEN l ELSE l + 1
      <4>1. place(i) \in DOMAIN scope /\ place(j) \in DOMAIN scope
        BY <1>1, <3>1
      <4>2. scope'[i] = scope[place(i)] /\ scope'[j] = scope[place(j)]
        BY <1>2, <3>1
      <4> QED
        BY <2>1, <4>1, <4>2 DEF Scoped
    <3> QED
      BY <1>1, <3>1, <3>2
  <2> QED
    BY <1>2, <2>1 DEF Scoped
<1>5. alive' = alive \ {scope[k]}
  <2>1. ASSUME NEW r \in alive' PROVE r \in alive \ {scope[k]}
    BY <1>1, <1>2, <1>3, <2>1 DEF alive, Scoped
  <2>2. ASSUME NEW r \in alive \ {scope[k]} PROVE r \in alive'
    <3>1. PICK j \in 1 .. Len(scope) : scope[j] = r /\ j # k
      BY <1>1 DEF alive
    <3>2. CASE j < k
      BY <1>1, <1>2, <1>3, <3>1, <3>2 DEF alive
    <3>3. CASE j > k
      <4>1. j - 1 \in 1 .. Len(scope) - 1 /\ ~(j - 1 < k) /\ (j - 1) + 1 = j
        BY <1>1, <3>3
      <4> QED
        BY <1>2, <1>3, <3>1, <4>1 DEF alive
    <3> QED
      BY <1>1, <3>1, <3>2, <3>3
  <2> QED
    BY <2>1, <2>2
<1> QED
  BY <1>2, <1>4, <1>5

-----------------------------------------------------------------------------
(* Allocators.                                                             *)
\* Blocks end where memory does.
HeapTyped(h) ==
  /\ h \in [cur : Nat, end : Nat, live : SUBSET BlockSet, broken : BOOLEAN]
  /\ \A b \in h.live : b.at + b.count <= Total
  /\ h.end <= Total

\* A set of numbers with an upper bound has a greatest one, and a set of
\* naturals a least one.
LEMMA LeastOf ==
  ASSUME NEW S \in SUBSET Nat, S # {}
  PROVE  Min(S) \in S /\ \A x \in S : Min(S) <= x
<1>1. PICK least \in S : \A x \in S : ~(<<x, least>> \in OpToRel(<, Nat))
  BY NatLessThanWellFounded, WFMin, Zenon
<1>2. ASSUME NEW x \in S PROVE least <= x
  <2>1. x \in Nat /\ least \in Nat
    OBVIOUS
  <2>2. ~(x < least)
    <3> SUFFICES ASSUME x < least PROVE <<x, least>> \in OpToRel(<, Nat)
      BY <1>1, Zenon
    <3> QED
      BY <2>1, Zenon DEF OpToRel
  <2> QED
    BY <2>1, <2>2
<1> QED
  BY <1>2 DEF Min

\* A bounded set of numbers has a greatest one.
LEMMA GreatestOf ==
  ASSUME NEW S \in SUBSET Nat, S # {}, NEW bound \in Nat, \A x \in S : x <= bound
  PROVE  \E y \in S : \A x \in S : x <= y
<1> DEFINE T == {bound - x : x \in S}
<1>1. T \in SUBSET Nat /\ T # {}
  <2>1. ASSUME NEW x \in S PROVE bound - x \in Nat
    <3>1. x \in Nat /\ x <= bound
      OBVIOUS
    <3> QED
      BY <3>1
  <2> QED
    BY <2>1
<1>2. Min(T) \in T /\ \A t \in T : Min(T) <= t
  BY <1>1, LeastOf
<1>3. PICK y \in S : Min(T) = bound - y
  BY <1>2
<1>4. \A x \in S : bound - y <= bound - x
  BY <1>2, <1>3
<1> QED
  BY <1>4

\* A standard allocator finds addresses that nobody uses.
LEMMA PlaceIsFree ==
  ASSUME NEW h, HeapTyped(h), NEW n \in Nat \ {0}, NEW a \in Allocators
  PROVE  /\ Place(h, n, a) \in Nat
         /\ \A b \in h.live : Cells(Place(h, n, a), n) \cap Cells(b.at, b.count) = {}
         /\ Block(Place(h, n, a), n, a) \notin h.live
<1> DEFINE ends == {0} \cup {b.at + b.count : b \in h.live}
           free == {at \in ends : Cells(at, n) \cap Used(h) = {}}
<1>1. h.live \in SUBSET BlockSet /\ \A b \in h.live : b.at \in Nat /\ b.count \in Nat /\ b.count > 0
  BY DEF HeapTyped, BlockSet
<1>2. ends \in SUBSET Nat /\ ends # {} /\ \A x \in ends : x <= Total
  BY <1>1, TotalAssumption DEF HeapTyped
<1>3. PICK last \in ends : \A x \in ends : x <= last
  BY <1>2, GreatestOf, TotalAssumption
<1>4. last \in free
  <2>1. \A b \in h.live : b.at + b.count <= last
    BY <1>3
  <2>2. \A b \in h.live : Cells(last, n) \cap Cells(b.at, b.count) = {}
    BY <1>1, <1>2, <2>1 DEF Cells
  <2>3. Cells(last, n) \cap Used(h) = {}
    BY ONLY <2>2 DEF Used
  <2> HIDE DEF ends
  <2> QED
    BY ONLY last \in ends, <2>3
<1>5. Place(h, n, a) = Min(free)
  BY HugeAssumption DEF Place
<1>6. Place(h, n, a) \in free
  <2>1. free \in SUBSET Nat /\ free # {}
    BY <1>2, <1>4
  <2> HIDE DEF free
  <2> QED
    BY ONLY <1>5, <2>1, LeastOf
<1>7. Place(h, n, a) \in Nat
  BY <1>2, <1>6
<1>8. \A b \in h.live : Cells(Place(h, n, a), n) \cap Cells(b.at, b.count) = {}
  BY <1>6 DEF Used
<1>9. Block(Place(h, n, a), n, a) \notin h.live
  <2>1. Place(h, n, a) \in Cells(Place(h, n, a), n)
    BY <1>7 DEF Cells
  <2> QED
    BY <1>8, <2>1 DEF Block
<1> QED
  BY <1>7, <1>8, <1>9

\* A block within the memory.
InMemory(at, n) == at \in Nat /\ at + n <= Total

\* Heap h2 is h with a block of n cells at "at" taken by allocator a.
Takes(h, h2, at, n, a) ==
  /\ HeapTyped(h2)
  /\ h2.live = h.live \cup {Block(at, n, a)}
  /\ h2.cur = IF a = Huge THEN at + n ELSE h.cur
  /\ h2.end = h.end
  /\ h2.broken = h.broken

\* What allocate does to a heap.
LEMMA AllocatedIs ==
  ASSUME NEW h, HeapTyped(h), NEW n \in Nat \ {0}, NEW a \in Owner,
         InMemory(Place(h, n, a), n)
  PROVE  Takes(h, Allocated(h, n, a), Place(h, n, a), n, a)
<1> DEFINE at == Place(h, n, a)
<1>0. at \in Nat /\ at + n <= Total
  BY DEF InMemory
<1>1. Allocated(h, n, a) =
        [h EXCEPT !.live = @ \cup {Block(at, n, a)}, !.cur = IF a = Huge THEN at + n ELSE @]
  BY DEF Allocated
<1> HIDE DEF at
<1>2. Block(at, n, a) \in BlockSet /\ Block(at, n, a).at = at /\ Block(at, n, a).count = n
  BY <1>0 DEF Block, BlockSet
<1> DEFINE block == Block(at, n, a)
<1> HIDE DEF block
<1>3. /\ block \in BlockSet /\ block.at + block.count <= Total
  BY <1>0, <1>2 DEF block
<1>4. Allocated(h, n, a) =
        [h EXCEPT !.live = @ \cup {block}, !.cur = IF a = Huge THEN at + n ELSE @]
  BY <1>1 DEF block
<1>5. PICK cur : cur = IF a = Huge THEN at + n ELSE h.cur
  OBVIOUS
<1>6. cur \in Nat
  BY <1>0, <1>5 DEF HeapTyped
<1>7. Allocated(h, n, a) = [h EXCEPT !.live = h.live \cup {block}, !.cur = cur]
  BY <1>4, <1>5 DEF HeapTyped
<1>8. /\ Allocated(h, n, a).live = h.live \cup {block}
      /\ Allocated(h, n, a).cur = cur
      /\ Allocated(h, n, a).end = h.end
      /\ Allocated(h, n, a).broken = h.broken
      /\ Allocated(h, n, a) \in [cur : Nat, end : Nat, live : SUBSET BlockSet, broken : BOOLEAN]
  BY <1>3, <1>6, <1>7 DEF HeapTyped
<1>9. HeapTyped(Allocated(h, n, a))
  BY <1>3, <1>8 DEF HeapTyped
<1> QED
  BY <1>5, <1>8, <1>9 DEF block, at, Takes

\* What deallocate does with a block that is one, and with another.
LEMMA FreedIs ==
  ASSUME NEW h, HeapTyped(h), NEW at \in Nat, NEW n \in Nat, NEW a \in Allocators,
         Block(at, n, a) \in h.live
  PROVE  /\ HeapTyped(Freed(h, at, n, a))
         /\ Freed(h, at, n, a).live = h.live \ {Block(at, n, a)}
         /\ Freed(h, at, n, a).broken = h.broken
<1>1. Freed(h, at, n, a) = [h EXCEPT !.live = @ \ {Block(at, n, a)}, !.cur = h.cur]
  BY HugeAssumption DEF Freed, HeapTyped
<1> QED
  BY <1>1 DEF HeapTyped

\* Heap h2 is h with its last cells, from "at" on, given back.
GivesBack(h, h2, at) ==
  HeapTyped(h2) /\ h2.cur = at /\ h2.end = h.end /\ h2.broken = h.broken

\* What HugePages do with their last allocation, the only one they take back.
LEMMA FreedLast ==
  ASSUME NEW h, HeapTyped(h), NEW at \in Nat, NEW n \in Nat, at = h.cur - n
  PROVE  GivesBack(h, Freed(h, at, n, Huge), at)
<1>1. Freed(h, at, n, Huge) = [h EXCEPT !.live = @ \ {Block(at, n, Huge)}, !.cur = at]
  BY DEF Freed
<1> QED
  BY <1>1 DEF HeapTyped, GivesBack

\* However a block is given back, the heap remains one.
LEMMA FreedTyped ==
  ASSUME NEW h, HeapTyped(h), NEW at \in Nat, NEW n, NEW a
  PROVE  HeapTyped(Freed(h, at, n, a))
<1>1. \/ Freed(h, at, n, a) =
           [h EXCEPT !.live = @ \ {Block(at, n, a)}, !.cur = IF a = Huge THEN at ELSE @]
      \/ Freed(h, at, n, a) = [h EXCEPT !.broken = TRUE]
  BY DEF Freed
<1> QED
  BY <1>1 DEF HeapTyped

\* HugePages has at least what was requested.
LEMMA RoundedUp ==
  ASSUME NEW n \in Nat, NEW page \in Nat \ {0}
  PROVE  /\ ((n + page - 1) \div page) * page \in n .. n + page - 1
<1>1. PICK d \in Int : d = (n + page - 1) \div page
  OBVIOUS
<1>2. /\ n + page - 1 = page * d + ((n + page - 1) % page)
      /\ (n + page - 1) % page \in 0 .. page - 1
  BY <1>1
<1>3. page * d = d * page /\ page * d \in Int
  OBVIOUS
<1> QED
  BY <1>1, <1>2, <1>3

\* No queue has size 0 when it is constructed.
LEMMA SizesArePositive == \A n \in Sizes : n \in Word \ {0} /\ n \in Nat \ {0}
<1>1. ASSUME NEW n \in Sizes PROVE n \in Word /\ n \in Nat \ {0}
  <2>1. PICK k \in 2 * ShuffleBits .. 31 : n = 2^k
    BY SizesAssumption
  <2>2. k \in 0 .. 32
    BY SizesAssumption, k \in 2 * ShuffleBits .. 31
  <2>3. n \in Nat \ {0}
    BY ONLY <2>1, <2>2, PowerStep, Zenon
  <2> QED
    BY <2>3, SizesAssumption
<1> QED
  BY <1>1

-----------------------------------------------------------------------------
(* Objects.                                                                *)
ObjectType ==
  [allocator : Owner, head_ : Word, tail_ : Word, size_ : Word, states_ : Int, elements_ : Int]

\* An object without memory has no size, and the indices in use are a small
\* number, not a negative one.
Sound(o) ==
  /\ o.elements_ = Null => o.states_ = Null /\ o.size_ = 0
  /\ o.elements_ # Null => o.elements_ \in Nat /\ o.size_ \in Nat \ {0}
  /\ o.states_ # Null => o.states_ \in Nat /\ o.states_ # o.elements_
  /\ 2 * Sub(o.head_, o.tail_) < Modulus

\* The shape of the state.
ShapeInv ==
  /\ Scoped
  /\ HeapTyped(heap)
  /\ obj \in [Objects -> ObjectType]
  /\ \A q \in Objects : Sound(obj[q])
  /\ self \in [Objects -> Int]
  /\ program = "scopes" => \A q \in alive : self[q] \in Nat

NewObject(n, a, states, elements) ==
  [allocator |-> a, head_ |-> 0, tail_ |-> 0, size_ |-> n,
   states_ |-> states, elements_ |-> elements]

\* The members of a new object, and its blocks.
LEMMA NewObjectIs ==
  ASSUME NEW n \in Word \ {0}, NEW a \in Owner, NEW s \in Int, NEW e \in Nat,
         s # Null => s \in Nat /\ s # e
  PROVE  /\ NewObject(n, a, s, e) \in ObjectType /\ Sound(NewObject(n, a, s, e))
         /\ Owned(NewObject(n, a, s, e)) =
              {Block(e, n, a)} \cup (IF s = Null THEN {} ELSE {Block(s, n, a)})
<1> DEFINE o == NewObject(n, a, s, e)
<1>1. /\ o.allocator = a /\ o.head_ = 0 /\ o.tail_ = 0 /\ o.size_ = n
      /\ o.states_ = s /\ o.elements_ = e /\ e # Null
  BY DEF NewObject, Null
<1>2. o \in ObjectType
  BY ModulusAssumption DEF NewObject, ObjectType, Word
<1>3. Sub(0, 0) = 0
  BY ModulusAssumption DEF Sub
<1>4. Sound(o)
  <2>1. n \in Nat \ {0}
    BY WordNat
  <2> QED
    BY <1>1, <1>3, <2>1, ModulusAssumption DEF Sound
<1> HIDE DEF o
<1>5. Arrays(o) = {e} \cup (IF s = Null THEN {} ELSE {s})
  BY <1>1 DEF Arrays
<1>6. Owned(o) = {Block(p, n, a) : p \in {e} \cup (IF s = Null THEN {} ELSE {s})}
  BY <1>1, <1>5 DEF Owned
<1>7. Owned(o) = {Block(e, n, a)} \cup (IF s = Null THEN {} ELSE {Block(s, n, a)})
  BY <1>6
<1> QED
  BY <1>2, <1>4, <1>7 DEF o

\* A constructor with a standard allocator: one array or two of them, in
\* memory that nobody has.
LEMMA MadeOfValues ==
  ASSUME ShapeInv, NEW q \in Objects, NEW n \in Sizes, NEW a \in Allocators, Construct(q, n, a)
  PROVE  \E s \in Int, e \in Nat :
           /\ s # Null => s \in Nat /\ s # e
           /\ obj' = [obj EXCEPT ![q] = NewObject(n, a, s, e)]
           /\ HeapTyped(heap') /\ heap'.broken = heap.broken
           /\ heap'.live = heap.live \cup Owned(NewObject(n, a, s, e))
           /\ Owned(NewObject(n, a, s, e)) \cap heap.live = {}
<1>1. PICK h : h = heap
  OBVIOUS
<1>2. HeapTyped(h) /\ n \in Word \ {0} /\ n \in Nat \ {0} /\ a \in Owner /\ a # Huge
  BY <1>1, SizesArePositive, HugeAssumption DEF ShapeInv, Owner
<1>3. PICK e1 : e1 = Place(h, n, a)
  OBVIOUS
<1>4. /\ e1 \in Nat /\ Block(e1, n, a) \notin h.live
  BY <1>2, <1>3, PlaceIsFree
<1>5. e1 + n <= Total
  BY <1>1, <1>2, <1>3 DEF Construct, Around, Fits
<1>6. PICK h2 : h2 = Allocated(h, n, a)
  OBVIOUS
<1>7. /\ HeapTyped(h2) /\ h2.live = h.live \cup {Block(e1, n, a)} /\ h2.broken = h.broken
  <2>1. InMemory(Place(h, n, a), n)
    BY <1>3, <1>4, <1>5 DEF InMemory
  <2>2. Takes(h, Allocated(h, n, a), Place(h, n, a), n, a)
    BY <1>2, <2>1, AllocatedIs
  <2> QED
    BY <1>3, <1>6, <2>2 DEF Takes
<1>8. CASE class # "AtomicQueueB2"
  <2>1. obj' = [obj EXCEPT ![q] = NewObject(n, a, Null, e1)] /\ heap' = h2
    BY <1>1, <1>2, <1>3, <1>6, <1>8 DEF Construct, Around, NewObject
  <2>2. Owned(NewObject(n, a, Null, e1)) = {Block(e1, n, a)}
    BY <1>2, <1>4, NewObjectIs DEF Null
  <2>3. Null \in Int
    BY DEF Null
  <2> QED
    BY <1>1, <1>4, <1>7, <2>1, <2>2, <2>3
<1>9. CASE class = "AtomicQueueB2"
  <2>1. PICK e2 : e2 = Place(h2, n, a)
    OBVIOUS
  <2>2. /\ e2 \in Nat /\ Block(e2, n, a) \notin h2.live
    BY <1>2, <1>7, <2>1, PlaceIsFree
  <2>3. e2 + n <= Total
    BY <1>1, <1>2, <1>6, <1>9, <2>1 DEF Construct, Around, Fits
  <2>4. PICK h3 : h3 = Allocated(h2, n, a)
    OBVIOUS
  <2>5. /\ HeapTyped(h3) /\ h3.live = h2.live \cup {Block(e2, n, a)} /\ h3.broken = h2.broken
    <3>1. InMemory(Place(h2, n, a), n)
      BY <2>1, <2>2, <2>3 DEF InMemory
    <3>2. Takes(h2, Allocated(h2, n, a), Place(h2, n, a), n, a)
      BY <1>2, <1>7, <3>1, AllocatedIs
    <3> QED
      BY <2>1, <2>4, <3>2 DEF Takes
  <2>6. obj' = [obj EXCEPT ![q] = NewObject(n, a, e1, e2)] /\ heap' = h3
    BY <1>1, <1>2, <1>3, <1>6, <1>9, <2>1, <2>4 DEF Construct, Around, NewObject
  <2>7. e1 # e2 /\ e1 # Null
    BY <1>4, <1>7, <2>2 DEF Null
  <2>8. Owned(NewObject(n, a, e1, e2)) = {Block(e2, n, a)} \cup {Block(e1, n, a)}
    BY <1>2, <1>4, <2>2, <2>7, NewObjectIs
  <2>9. h3.live = h.live \cup ({Block(e2, n, a)} \cup {Block(e1, n, a)})
    BY <1>7, <2>5
  <2>10. ({Block(e2, n, a)} \cup {Block(e1, n, a)}) \cap h.live = {}
    BY <1>4, <1>7, <2>2
  <2>11. h3.broken = h.broken
    BY <1>7, <2>5
  <2> e1 \in Int /\ e2 \in Nat
    BY <1>4, <2>2
  <2> WITNESS e1 \in Int, e2 \in Nat
  <2> QED
    BY <1>1, <1>4, <2>5, <2>6, <2>7, <2>8, <2>9, <2>10, <2>11
<1> QED
  BY <1>8, <1>9

\* One in HugePages: the object, then its arrays, one after the other.
LEMMA MadeOfPages ==
  ASSUME ShapeInv, NEW q \in Objects, NEW n \in Sizes, Construct(q, n, Huge)
  PROVE  \E s \in Int, e \in Nat :
           /\ (s = Null /\ e = heap.cur + 1) \/ (s = heap.cur + 1 /\ e = s + n)
           /\ obj' = [obj EXCEPT ![q] = NewObject(n, Huge, s, e)]
           /\ self' = [self EXCEPT ![q] = heap.cur]
           /\ HeapTyped(heap') /\ heap'.broken = heap.broken
           /\ heap'.end = heap.end
           /\ heap'.cur = e + n /\ heap'.cur <= heap.end
<1>1. PICK h : h = heap
  OBVIOUS
<1>2. HeapTyped(h) /\ n \in Nat \ {0} /\ Huge \in Owner /\ h.cur \in Nat /\ h.end \in Nat
      /\ h.end <= Total
  BY <1>1, SizesArePositive DEF ShapeInv, Owner, HeapTyped
<1>3. PICK h1 : h1 = Allocated(h, 1, Huge)
  OBVIOUS
<1>4. h.cur = Place(h, 1, Huge)
  BY DEF Place
<1>5. h1.cur = h.cur + 1 /\ h1.end = h.end
  BY <1>3, <1>4, <1>2 DEF Allocated, HeapTyped
<1>6. h.cur + 1 + n <= h.end
  BY <1>1, <1>3, <1>5 DEF Construct, Around, Fits, Place
<1>7. HeapTyped(h1) /\ h1.broken = h.broken
  <2>1. InMemory(Place(h, 1, Huge), 1)
    BY <1>2, <1>4, <1>6, TotalAssumption DEF InMemory
  <2>2. Takes(h, Allocated(h, 1, Huge), Place(h, 1, Huge), 1, Huge)
    BY <1>2, <2>1, AllocatedIs
  <2> QED
    BY <1>3, <2>2 DEF Takes
<1>8. PICK h2 : h2 = Allocated(h1, n, Huge)
  OBVIOUS
<1>9. h1.cur = Place(h1, n, Huge)
  BY DEF Place
<1>10. HeapTyped(h2) /\ h2.cur = h.cur + 1 + n /\ h2.end = h.end /\ h2.broken = h.broken
  <2>1. InMemory(Place(h1, n, Huge), n)
    BY <1>2, <1>5, <1>6, <1>9, TotalAssumption DEF InMemory
  <2>2. Takes(h1, Allocated(h1, n, Huge), Place(h1, n, Huge), n, Huge)
    BY <1>2, <1>7, <2>1, AllocatedIs
  <2> QED
    BY <1>2, <1>5, <1>7, <1>8, <1>9, <2>2 DEF Takes
<1>11. CASE class # "AtomicQueueB2"
  <2>1. /\ obj' = [obj EXCEPT ![q] = NewObject(n, Huge, Null, h.cur + 1)] /\ heap' = h2
        /\ self' = [self EXCEPT ![q] = h.cur]
    BY <1>1, <1>3, <1>5, <1>8, <1>9, <1>11 DEF Construct, Around, NewObject
  <2> Null \in Int /\ h.cur + 1 \in Nat
    BY <1>2 DEF Null
  <2> WITNESS Null \in Int, h.cur + 1 \in Nat
  <2> QED
    BY <1>1, <1>2, <1>6, <1>10, <2>1
<1>12. CASE class = "AtomicQueueB2"
  <2>1. PICK h3 : h3 = Allocated(h2, n, Huge)
    OBVIOUS
  <2>2. h2.cur = Place(h2, n, Huge)
    BY DEF Place
  <2>3. h2.cur + n <= h.end
    BY <1>1, <1>3, <1>8, <1>10, <1>12, <2>2 DEF Construct, Around, Fits
  <2>4. HeapTyped(h3) /\ h3.cur = h2.cur + n /\ h3.end = h.end /\ h3.broken = h.broken
    <3>1. InMemory(Place(h2, n, Huge), n)
      BY <1>2, <1>10, <2>2, <2>3, TotalAssumption DEF InMemory
    <3>2. Takes(h2, Allocated(h2, n, Huge), Place(h2, n, Huge), n, Huge)
      BY <1>2, <1>10, <3>1, AllocatedIs
    <3> QED
      BY <1>10, <2>1, <2>2, <3>2 DEF Takes
  <2>5. /\ obj' = [obj EXCEPT ![q] = NewObject(n, Huge, h.cur + 1, h2.cur)] /\ heap' = h3
        /\ self' = [self EXCEPT ![q] = h.cur]
    BY <1>1, <1>3, <1>5, <1>8, <1>9, <1>12, <2>1, <2>2 DEF Construct, Around, NewObject
  <2> h.cur + 1 \in Int /\ h2.cur \in Nat
    BY <1>2, <1>10
  <2> WITNESS h.cur + 1 \in Int, h2.cur \in Nat
  <2> QED
    BY <1>1, <1>2, <1>10, <2>3, <2>4, <2>5
<1> QED
  BY <1>11, <1>12

\* A push and a pop move one counter each, and leave its size to the object.
LEMMA PushedSound ==
  ASSUME NEW o \in ObjectType, Sound(o), HasRoom(o),
         NEW o2, o2 = [o EXCEPT !.head_ = Add(@, 1)]
  PROVE  /\ o2 \in ObjectType /\ Sound(o2) /\ o.elements_ # Null
         /\ Sub(o2.head_, o2.tail_) = Sub(o.head_, o.tail_) + 1
         /\ Sub(o.head_, o.tail_) \in 0 .. o.size_ - 1
<1>1. /\ o.head_ \in Word /\ o.tail_ \in Word /\ o.size_ \in Word
  BY DEF ObjectType
<1>2. /\ o2.head_ = Add(o.head_, 1) /\ o2.tail_ = o.tail_ /\ o2.size_ = o.size_
      /\ o2.states_ = o.states_ /\ o2.elements_ = o.elements_
      /\ Add(o.head_, 1) \in Word /\ Sub(o.head_, o.tail_) \in Word
      /\ o2 \in ObjectType
  BY <1>1, WordArithmetic, WordNat DEF ObjectType
<1>3. PICK u \in Word : u = Sub(o.head_, o.tail_)
  BY <1>2
<1>4. 2 * u < Modulus /\ u < o.size_ /\ 2 * o.size_ < Modulus
  BY <1>1, <1>3, ModulusAssumption DEF HasRoom, AsSigned, Sound, Word
<1>5. Sub(Add(o.head_, 1), o.tail_) = u + 1
  BY <1>1, <1>3, <1>4, SubAfter, ModulusAssumption DEF Word
<1>6. u \in Nat /\ o.size_ \in Nat
  BY <1>1, <1>3, WordNat
<1> QED
  BY <1>2, <1>3, <1>4, <1>5, <1>6, ModulusAssumption DEF Sound

\* A pop leaves a sound object.
LEMMA PoppedSound ==
  ASSUME NEW o \in ObjectType, Sound(o), AsSigned(Sub(o.head_, o.tail_)) > 0,
         NEW o2, o2 = [o EXCEPT !.tail_ = Add(@, 1)]
  PROVE  /\ o2 \in ObjectType /\ Sound(o2)
         /\ Sub(o2.head_, o2.tail_) = Sub(o.head_, o.tail_) - 1
         /\ Sub(o.head_, o.tail_) > 0
<1>1. /\ o.head_ \in Word /\ o.tail_ \in Word
  BY DEF ObjectType
<1>2. /\ o2.head_ = o.head_ /\ o2.tail_ = Add(o.tail_, 1) /\ o2.size_ = o.size_
      /\ o2.states_ = o.states_ /\ o2.elements_ = o.elements_
      /\ Add(o.tail_, 1) \in Word /\ Sub(o.head_, o.tail_) \in Word
      /\ o2 \in ObjectType
  BY <1>1, WordArithmetic, WordNat DEF ObjectType
<1>3. PICK u \in Word : u = Sub(o.head_, o.tail_)
  BY <1>2
<1>4. 2 * u < Modulus /\ u > 0
  BY <1>3 DEF AsSigned, Sound
<1>5. Sub(o.head_, Add(o.tail_, 1)) = u - 1
  BY <1>1, <1>3, <1>4, SubFrom, SubZero
<1>6. u \in Nat
  BY <1>3, WordNat
<1> QED
  BY <1>2, <1>3, <1>4, <1>5, <1>6, ModulusAssumption DEF Sound

\* What is left of an object that was moved from or destroyed is sound too.
LEMMA MovedSound ==
  ASSUME NEW o \in ObjectType, Sound(o)
  PROVE  /\ Moved(o) \in ObjectType /\ Sound(Moved(o)) /\ Owned(Moved(o)) = {}
<1>1. /\ Moved(o).head_ = o.head_ /\ Moved(o).tail_ = o.tail_ /\ Moved(o).size_ = 0
      /\ Moved(o).states_ = Null /\ Moved(o).elements_ = Null
      /\ Moved(o) \in ObjectType
  <2>1. Null \in Int /\ 0 \in Word
    BY WordNat DEF Null
  <2> QED
    BY <2>1 DEF Moved, ObjectType
<1> QED
  BY <1>1 DEF Sound, Owned, Arrays

\* A destroyed object is sound, and owns nothing.
LEMMA NoObjectSound ==
  NoObject \in ObjectType /\ Sound(NoObject) /\ Owned(NoObject) = {}
<1>1. /\ NoObject.head_ = 0 /\ NoObject.tail_ = 0 /\ NoObject.size_ = 0
      /\ NoObject.states_ = Null /\ NoObject.elements_ = Null
      /\ NoObject \in ObjectType
  BY WordNat DEF NoObject, ObjectType, Null, Owner
<1>2. Sub(0, 0) = 0
  BY WordNat, SubZero
<1> QED
  BY <1>1, <1>2, ModulusAssumption DEF Sound, Owned, Arrays

\* A destructor gives a heap back that is one.
LEMMA DestroyKeepsHeap ==
  ASSUME ShapeInv, NEW q \in Objects, Destroy(q)
  PROVE  HeapTyped(heap')
<1>1. PICK h : h = heap
  OBVIOUS
<1>2. PICK o : o = obj[q]
  OBVIOUS
<1>3. HeapTyped(h) /\ o \in ObjectType /\ Sound(o)
  BY <1>1, <1>2 DEF ShapeInv
<1>4. PICK h1 : h1 = Freed(h, o.elements_, o.size_, o.allocator)
  OBVIOUS
<1>5. PICK h2 : h2 = IF o.elements_ = Null THEN h
                     ELSE IF o.states_ = Null THEN h1
                     ELSE Freed(h1, o.states_, o.size_, o.allocator)
  OBVIOUS
<1>6. o.elements_ # Null => HeapTyped(h1)
  BY <1>3, <1>4, FreedTyped DEF Sound
<1>7. HeapTyped(h2)
  BY <1>3, <1>5, <1>6, FreedTyped DEF Sound
<1>8. /\ q \in alive
      /\ heap' = IF program = "scopes" THEN Freed(h2, self[q], 1, Huge) ELSE h2
  BY <1>1, <1>2, <1>4, <1>5 DEF Destroy, FreedArrays
<1>9. program = "scopes" => self[q] \in Nat
  BY <1>8 DEF ShapeInv
<1>10. PICK p : p = self[q]
  OBVIOUS
<1>11. HeapTyped(Freed(h2, p, 1, Huge)) \/ program # "scopes"
  BY <1>7, <1>9, <1>10, FreedTyped
<1> QED
  BY <1>7, <1>8, <1>10, <1>11

\* Every member function keeps the shape.
LEMMA ShapeStep == ShapeInv /\ [Next]_vars => ShapeInv'
<1> SUFFICES ASSUME ShapeInv, [Next]_vars PROVE ShapeInv'
  OBVIOUS
<1>0. /\ Scoped /\ HeapTyped(heap) /\ obj \in [Objects -> ObjectType]
      /\ self \in [Objects -> Int] /\ \A q \in Objects : Sound(obj[q])
      /\ program = "scopes" => \A q \in alive : self[q] \in Nat
      /\ alive \subseteq Objects
  <2>1. alive \subseteq Objects
    BY DEF ShapeInv, Scoped, alive
  <2> QED
    BY <2>1 DEF ShapeInv
\* Objects that are put in the place of others.
<1>1. ASSUME NEW q \in Objects, NEW o \in ObjectType, Sound(o), obj' = [obj EXCEPT ![q] = o]
      PROVE  obj' \in [Objects -> ObjectType] /\ \A r \in Objects : Sound(obj'[r])
  BY <1>0, <1>1
<1>2. ASSUME Map PROVE ShapeInv'
  <2>1. UNCHANGED <<scope, obj, self, program>>
    BY <1>2 DEF Map
  <2>2. HeapTyped(heap')
    <3>1. CASE UNCHANGED heap
      BY <1>0, <3>1 DEF HeapTyped
    <3>2. CASE heap' = Mapped(heap, type) /\ type \in DOMAIN Smaller
      <4>1. type \in DOMAIN PageSize
        BY <3>2, PageSizeAssumption DEF Smaller
      <4>2. PICK end : end = ((Requested + PageSize[type] - 1) \div PageSize[type]) * PageSize[type]
        OBVIOUS
      <4>3. end \in Nat /\ end <= Total
        <5>1. PICK page \in Nat \ {0} : page = PageSize[type]
          BY <4>1, PageSizeAssumption
        <5>2. end \in Requested .. Requested + page - 1 /\ Requested + page - 1 <= Total
          BY <4>1, <4>2, <5>1, RoundedUp, TotalAssumption, PageSizeAssumption
        <5> QED
          BY <5>1, <5>2, TotalAssumption
      <4>4. heap' = [heap EXCEPT !.end = end]
        BY <3>2, <4>2 DEF Mapped
      <4> QED
        BY <1>0, <4>3, <4>4 DEF HeapTyped
    <3> QED
      BY <1>2, <3>1, <3>2 DEF Map
  <2> QED
    BY <1>0, <2>1, <2>2 DEF ShapeInv, Scoped, alive
<1>3. ASSUME NEW q \in Objects, NEW n \in Sizes, NEW a \in Owner, Construct(q, n, a)
      PROVE  ShapeInv'
  <2>1. q \notin alive /\ scope' = Append(scope, q) /\ UNCHANGED program
        /\ self' = [self EXCEPT ![q] = IF a = Huge THEN heap.cur ELSE Null]
        /\ (a = Huge) = (program = "scopes")
    BY <1>3 DEF Construct
  <2>2. Scoped' /\ alive' = alive \cup {q}
    BY <1>0, <2>1, ScopeEntered
  <2>3. self' \in [Objects -> Int] /\ (program' = "scopes" => \A r \in alive' : self'[r] \in Nat)
    BY <1>0, <2>1, <2>2 DEF HeapTyped, Null
  <2>4. \E s \in Int, e \in Nat :
          /\ s # Null => s \in Nat /\ s # e
          /\ obj' = [obj EXCEPT ![q] = NewObject(n, a, s, e)]
          /\ HeapTyped(heap')
    <3>1. CASE a \in Allocators
      BY <1>3, <3>1, MadeOfValues
    <3>2. CASE a = Huge
      <4>1. PICK s \in Int, e \in Nat :
              /\ (s = Null /\ e = heap.cur + 1) \/ (s = heap.cur + 1 /\ e = s + n)
              /\ obj' = [obj EXCEPT ![q] = NewObject(n, a, s, e)]
              /\ HeapTyped(heap')
        BY <1>3, <3>2, MadeOfPages
      <4>2. s # Null => s \in Nat /\ s # e
        BY <1>0, <4>1, SizesArePositive DEF HeapTyped
      <4> QED
        BY <4>1, <4>2
    <3> QED
      BY <3>1, <3>2 DEF Owner
  <2>5. PICK s \in Int, e \in Nat :
          /\ s # Null => s \in Nat /\ s # e
          /\ obj' = [obj EXCEPT ![q] = NewObject(n, a, s, e)]
          /\ HeapTyped(heap')
    BY <2>4
  <2>6. NewObject(n, a, s, e) \in ObjectType /\ Sound(NewObject(n, a, s, e))
    BY <2>5, NewObjectIs, SizesArePositive
  <2>7. obj' \in [Objects -> ObjectType] /\ \A r \in Objects : Sound(obj'[r])
    BY <1>1, <2>5, <2>6
  <2> QED
    BY <2>2, <2>3, <2>5, <2>7 DEF ShapeInv
<1>4. ASSUME NEW q \in Objects, NEW n \in Sizes, NEW a \in Owner, ConstructThrows(q, n, a)
      PROVE  ShapeInv'
  <2>1. PICK h : h = heap
    OBVIOUS
  <2>2. PICK at : at = Place(h, n, a)
    OBVIOUS
  <2>3. /\ UNCHANGED <<scope, obj, self, program>> /\ a \in Allocators
        /\ heap' = Allocated(h, n, a) /\ at + n <= Total
    BY <1>4, <2>1, <2>2 DEF ConstructThrows, Fits, Owner
  <2>4. at \in Nat
    BY <1>0, <2>1, <2>2, <2>3, PlaceIsFree, SizesArePositive
  <2>5. HeapTyped(heap')
    <3>1. InMemory(Place(h, n, a), n)
      BY <2>2, <2>3, <2>4 DEF InMemory
    <3>2. Takes(h, Allocated(h, n, a), Place(h, n, a), n, a)
      BY <1>0, <2>1, SizesArePositive, <3>1, AllocatedIs
    <3> QED
      BY <2>3, <3>2 DEF Takes
  <2> QED
    BY <1>0, <2>3, <2>5 DEF ShapeInv, Scoped, alive
<1>5. ASSUME NEW q \in Objects, NEW r \in Objects, MoveConstruct(q, r) PROVE ShapeInv'
  <2>1. /\ q \notin alive /\ scope' = Append(scope, q) /\ UNCHANGED <<program, heap, self>>
        /\ program = "values"
        /\ obj' = [obj EXCEPT ![q] = obj[r], ![r] = Moved(obj[r])]
    BY <1>5 DEF MoveConstruct
  <2>2. Scoped' /\ alive' = alive \cup {q}
    BY <1>0, <2>1, ScopeEntered
  <2>3. Moved(obj[r]) \in ObjectType /\ Sound(Moved(obj[r]))
    BY <1>0, MovedSound
  <2>4. obj' \in [Objects -> ObjectType] /\ \A t \in Objects : Sound(obj'[t])
    BY <1>0, <2>1, <2>3
  <2> QED
    BY <1>0, <2>1, <2>2, <2>4 DEF ShapeInv, HeapTyped
<1>6. ASSUME NEW q \in Objects, NEW r \in Objects, Swap(q, r) PROVE ShapeInv'
  <2>1. /\ UNCHANGED <<program, heap, self, scope>>
        /\ obj' = [obj EXCEPT ![q] = obj[r], ![r] = obj[q]]
    BY <1>6 DEF Swap, SwappedWith
  <2>2. obj' \in [Objects -> ObjectType] /\ \A t \in Objects : Sound(obj'[t])
    BY <1>0, <2>1
  <2> QED
    BY <1>0, <2>1, <2>2 DEF ShapeInv, HeapTyped, Scoped, alive
<1>7. ASSUME NEW q \in Objects, Destroy(q) PROVE ShapeInv'
  <2>1. /\ UNCHANGED program /\ self' = [self EXCEPT ![q] = Null]
        /\ obj' = [obj EXCEPT ![q] = NoObject]
    BY <1>7 DEF Destroy
  <2>2. PICK k \in DOMAIN scope : scope[k] = q /\ scope' = RemoveAt(scope, k)
    BY <1>7 DEF Destroy
  <2>3. Scoped' /\ alive' = alive \ {q}
    BY <1>0, <2>2, ScopeLeft
  <2>4. obj' \in [Objects -> ObjectType] /\ \A t \in Objects : Sound(obj'[t])
    BY <1>1, <2>1, NoObjectSound
  <2>5. self' \in [Objects -> Int] /\ (program' = "scopes" => \A t \in alive' : self'[t] \in Nat)
    BY <1>0, <2>1, <2>3 DEF Null
  <2>6. HeapTyped(heap')
    BY <1>7, DestroyKeepsHeap
  <2> QED
    BY <2>3, <2>4, <2>5, <2>6 DEF ShapeInv
<1>8. ASSUME NEW q \in Objects, TryPush(q) PROVE ShapeInv'
  <2>1. PICK o : o = obj[q]
    OBVIOUS
  <2>2. PICK o2 : o2 = [o EXCEPT !.head_ = Add(@, 1)]
    OBVIOUS
  <2>3. /\ UNCHANGED <<program, heap, self, scope>>
        /\ HasRoom(o) /\ obj' = [obj EXCEPT ![q] = o2]
    BY <1>0, <1>8, <2>1, <2>2 DEF TryPush
  <2>4. o2 \in ObjectType /\ Sound(o2)
    BY <1>0, <2>1, <2>2, <2>3, PushedSound
  <2>5. obj' \in [Objects -> ObjectType] /\ \A t \in Objects : Sound(obj'[t])
    BY <1>1, <2>3, <2>4
  <2> QED
    BY <1>0, <2>3, <2>5 DEF ShapeInv, HeapTyped, Scoped, alive
<1>9. ASSUME NEW q \in Objects, TryPop(q) PROVE ShapeInv'
  <2>1. PICK o : o = obj[q]
    OBVIOUS
  <2>2. PICK o2 : o2 = [o EXCEPT !.tail_ = Add(@, 1)]
    OBVIOUS
  <2>3. /\ UNCHANGED <<program, heap, self, scope>>
        /\ AsSigned(Sub(o.head_, o.tail_)) > 0 /\ obj' = [obj EXCEPT ![q] = o2]
    BY <1>0, <1>9, <2>1, <2>2 DEF TryPop
  <2>4. o2 \in ObjectType /\ Sound(o2)
    BY <1>0, <2>1, <2>2, <2>3, PoppedSound
  <2>5. obj' \in [Objects -> ObjectType] /\ \A t \in Objects : Sound(obj'[t])
    BY <1>1, <2>3, <2>4
  <2> QED
    BY <1>0, <2>3, <2>5 DEF ShapeInv, HeapTyped, Scoped, alive
<1>10. CASE UNCHANGED vars
  BY <1>0, <1>10 DEF vars, ShapeInv, HeapTyped, Scoped, alive
<1> QED
  BY <1>2, <1>3, <1>4, <1>5, <1>6, <1>7, <1>8, <1>9, <1>10 DEF Next, Owner

\* In every state objects and heap are well formed.
LEMMA ShapeInvariant == Spec => []ShapeInv
<1>1. Init => ShapeInv
  <2> SUFFICES ASSUME Init PROVE ShapeInv
    OBVIOUS
  <2>1. scope = << >> /\ alive = {} /\ Scoped
    BY DEF Init, alive, Scoped
  <2>2. HeapTyped(heap)
    BY TotalAssumption DEF Init, NewHeap, HeapTyped
  <2> QED
    BY <2>1, <2>2, NoObjectSound DEF Init, ShapeInv, Null
<1> QED
  BY <1>1, ShapeStep, PTL DEF Spec

-----------------------------------------------------------------------------
\* try_push refuses an object that was moved from: of its members it keeps only
\* the counters, and their difference is never a negative number, which would
\* be less than the size 0 that the object is left with.  For any width of the
\* counters and any sizes, also those that are negative numbers.
THEOREM MovedFromHasNoRoom == Spec => []MovedFromRefuses
<1>1. ShapeInv => MovedFromRefuses
  <2> SUFFICES ASSUME ShapeInv, NEW q \in alive \ holding PROVE ~HasRoom(obj[q])
    BY DEF MovedFromRefuses
  <2>1. PICK o : o = obj[q]
    OBVIOUS
  <2>2. o \in ObjectType /\ Sound(o) /\ o.elements_ = Null
    BY <2>1 DEF ShapeInv, Scoped, alive, holding
  <2>3. o.size_ = 0 /\ 2 * Sub(o.head_, o.tail_) < Modulus /\ Sub(o.head_, o.tail_) \in Word
    BY <2>2, WordArithmetic, WordNat DEF Sound, ObjectType
  <2>4. ~HasRoom(o)
    BY <2>3, ModulusAssumption DEF HasRoom, AsSigned, Word
  <2> QED
    BY <2>1, <2>4
<1> QED
  BY <1>1, ShapeInvariant, PTL

-----------------------------------------------------------------------------
(* Who owns which block.                                                   *)
\* The kind of queue and the program stay, and messages are pushed one by one.
LEMMA NextKeeps ==
  ASSUME [Next]_vars
  PROVE  class' = class /\ program' = program /\ (pushes' = pushes \/ pushes' = pushes + 1)
<1>1. ASSUME Map PROVE class' = class /\ program' = program /\ pushes' = pushes
  BY ONLY <1>1 DEF Map
<1>2. ASSUME NEW q, NEW n, NEW a, Construct(q, n, a) \/ ConstructThrows(q, n, a)
      PROVE  class' = class /\ program' = program /\ pushes' = pushes
  BY ONLY <1>2 DEF Construct, ConstructThrows
<1>3. ASSUME NEW q, NEW r, MoveConstruct(q, r) \/ Swap(q, r)
      PROVE  class' = class /\ program' = program /\ pushes' = pushes
  BY ONLY <1>3 DEF MoveConstruct, Swap
<1>4. ASSUME NEW q, Destroy(q) \/ TryPop(q)
      PROVE  class' = class /\ program' = program /\ pushes' = pushes
  BY ONLY <1>4 DEF Destroy, TryPop
<1>5. ASSUME NEW q, TryPush(q)
      PROVE  class' = class /\ program' = program /\ pushes' = pushes + 1
  BY ONLY <1>5 DEF TryPush
<1>6. ASSUME UNCHANGED vars PROVE class' = class /\ program' = program /\ pushes' = pushes
  BY ONLY <1>6 DEF vars
<1> QED
  BY ONLY [Next]_vars, <1>1, <1>2, <1>3, <1>4, <1>5, <1>6, Zenon DEF Next

OwnersInv ==
  program = "values" =>
    /\ heap.broken = FALSE
    /\ \A b : b \in heap.live <=> b \in lost \/ \E q \in alive : b \in Owned(obj[q])
    /\ \A q, r \in alive : q # r => Owned(obj[q]) \cap Owned(obj[r]) = {}
    /\ \A q \in alive : Owned(obj[q]) \cap lost = {}
    /\ \A q \in alive : obj[q].elements_ # Null => obj[q].allocator \in Allocators

\* The blocks of an object that has memory.
LEMMA OwnedIs ==
  ASSUME NEW o, o.elements_ # Null
  PROVE  Owned(o) = {Block(o.elements_, o.size_, o.allocator)}
                      \cup (IF o.states_ = Null THEN {}
                            ELSE {Block(o.states_, o.size_, o.allocator)})
<1>1. Arrays(o) = {o.elements_} \cup (IF o.states_ = Null THEN {} ELSE {o.states_})
  BY DEF Arrays
<1> QED
  BY <1>1 DEF Owned

\* A destructor gives back the blocks of its object and no others.
LEMMA DestroyFrees ==
  ASSUME NEW h, HeapTyped(h), NEW o \in ObjectType, Sound(o), o.elements_ # Null,
         o.allocator \in Allocators, Owned(o) \subseteq h.live,
         NEW h1, h1 = Freed(h, o.elements_, o.size_, o.allocator),
         NEW h2, h2 = IF o.states_ = Null THEN h1
                      ELSE Freed(h1, o.states_, o.size_, o.allocator)
  PROVE  h2.live = h.live \ Owned(o) /\ h2.broken = h.broken
<1> DEFINE b1 == Block(o.elements_, o.size_, o.allocator)
           b2 == Block(o.states_, o.size_, o.allocator)
<1>1. Owned(o) = {b1} \cup (IF o.states_ = Null THEN {} ELSE {b2})
  BY OwnedIs
<1>2. o.elements_ \in Nat /\ o.size_ \in Nat
  BY DEF Sound
<1>3. HeapTyped(h1) /\ h1.live = h.live \ {b1} /\ h1.broken = h.broken
  BY <1>1, <1>2, FreedIs
<1>4. ASSUME o.states_ # Null
      PROVE  h2.live = h1.live \ {b2} /\ h2.broken = h1.broken
  <2>1. o.states_ \in Nat /\ o.states_ # o.elements_
    BY <1>4 DEF Sound
  <2>2. b2 # b1
    BY <2>1 DEF Block
  <2>3. b2 \in h1.live
    BY <1>1, <1>3, <1>4, <2>2
  <2> HIDE DEF b1
  <2> QED
    BY <1>2, <1>3, <1>4, <2>1, <2>3, FreedIs
<1> HIDE DEF b1, b2
<1>5. CASE o.states_ = Null
  BY <1>1, <1>3, <1>5
<1>6. CASE o.states_ # Null
  BY <1>1, <1>3, <1>4, <1>6
<1> QED
  BY <1>5, <1>6

\* Every member function keeps each block with its one owner.
LEMMA OwnersStep == ShapeInv /\ OwnersInv /\ [Next]_vars => OwnersInv'
<1> SUFFICES ASSUME ShapeInv, OwnersInv, [Next]_vars, program' = "values"
             PROVE  OwnersInv'
  BY DEF OwnersInv
<1>0. program = "values"
  BY NextKeeps
<1>1. /\ Scoped /\ HeapTyped(heap) /\ obj \in [Objects -> ObjectType]
      /\ \A q \in Objects : Sound(obj[q])
      /\ alive \subseteq Objects
  BY DEF ShapeInv, Scoped, alive
<1>2. /\ heap.broken = FALSE
      /\ \A b : b \in heap.live <=> b \in lost \/ \E q \in alive : b \in Owned(obj[q])
      /\ \A q, r \in alive : q # r => Owned(obj[q]) \cap Owned(obj[r]) = {}
      /\ \A q \in alive : Owned(obj[q]) \cap lost = {}
      /\ \A q \in alive : obj[q].elements_ # Null => obj[q].allocator \in Allocators
  BY <1>0 DEF OwnersInv
<1>3. ASSUME NEW q \in Objects, NEW n \in Sizes, NEW a \in Owner, Construct(q, n, a)
      PROVE  OwnersInv'
  <2>1. q \notin alive /\ scope' = Append(scope, q) /\ UNCHANGED lost /\ a \in Allocators
    BY <1>0, <1>3 DEF Construct, Owner
  <2>2. alive' = alive \cup {q}
    BY <1>1, <2>1, ScopeEntered
  <2>3. PICK s \in Int, e \in Nat :
          /\ s # Null => s \in Nat /\ s # e
          /\ obj' = [obj EXCEPT ![q] = NewObject(n, a, s, e)]
          /\ HeapTyped(heap') /\ heap'.broken = heap.broken
          /\ heap'.live = heap.live \cup Owned(NewObject(n, a, s, e))
          /\ Owned(NewObject(n, a, s, e)) \cap heap.live = {}
    BY <1>3, <2>1, MadeOfValues
  <2>4. PICK o : o = NewObject(n, a, s, e)
    OBVIOUS
  <2>5. o.allocator = a
    BY <2>4 DEF NewObject
  <2>6. obj'[q] = o /\ \A r \in alive : obj'[r] = obj[r]
    BY <1>1, <2>1, <2>3, <2>4
  <2>7. heap'.live = heap.live \cup Owned(o) /\ Owned(o) \cap heap.live = {}
    BY <2>3, <2>4
  <2>8. \A b : b \in heap'.live <=> b \in lost' \/ \E r \in alive' : b \in Owned(obj'[r])
    BY <1>2, <2>1, <2>2, <2>6, <2>7
  <2>9. \A r, t \in alive' : r # t => Owned(obj'[r]) \cap Owned(obj'[t]) = {}
    BY <1>2, <2>2, <2>6, <2>7
  <2>10. \A r \in alive' : Owned(obj'[r]) \cap lost' = {}
    BY <1>2, <2>1, <2>2, <2>6, <2>7
  <2>11. \A r \in alive' : obj'[r].elements_ # Null => obj'[r].allocator \in Allocators
    BY <1>2, <2>1, <2>2, <2>5, <2>6
  <2> QED
    BY <1>2, <2>3, <2>8, <2>9, <2>10, <2>11 DEF OwnersInv
<1>4. ASSUME NEW q \in Objects, NEW n \in Sizes, NEW a \in Owner, ConstructThrows(q, n, a)
      PROVE  OwnersInv'
  <2>1. PICK h : h = heap
    OBVIOUS
  <2>2. PICK at : at = Place(h, n, a)
    OBVIOUS
  <2>3. /\ UNCHANGED <<scope, obj, program>> /\ a \in Allocators
        /\ heap' = Allocated(h, n, a) /\ at + n <= Total
        /\ lost' = lost \cup {Block(at, n, a)}
    BY <1>4, <2>1, <2>2 DEF ConstructThrows, Fits, Owner
  <2>4. at \in Nat /\ Block(at, n, a) \notin heap.live
    BY <1>1, <2>1, <2>2, <2>3, PlaceIsFree, SizesArePositive
  <2>5. PICK block : block = Block(at, n, a)
    OBVIOUS
  <2>6. heap'.live = heap.live \cup {block} /\ heap'.broken = heap.broken
    <3>1. InMemory(Place(h, n, a), n)
      BY <2>2, <2>3, <2>4 DEF InMemory
    <3>2. Takes(h, Allocated(h, n, a), Place(h, n, a), n, a)
      BY <1>1, <2>1, SizesArePositive, <3>1, AllocatedIs
    <3> QED
      BY <2>1, <2>2, <2>3, <2>5, <3>2 DEF Takes
  <2>7. lost' = lost \cup {block} /\ block \notin heap.live /\ alive' = alive /\ obj' = obj
    BY <2>3, <2>4, <2>5 DEF alive
  <2> QED
    BY <1>2, <2>6, <2>7 DEF OwnersInv
<1>5. ASSUME NEW q \in Objects, NEW r \in Objects, MoveConstruct(q, r) PROVE OwnersInv'
  <2>1. /\ q \notin alive /\ r \in alive /\ scope' = Append(scope, q) /\ UNCHANGED <<heap, lost>>
        /\ obj' = [obj EXCEPT ![q] = obj[r], ![r] = Moved(obj[r])]
    BY <1>5 DEF MoveConstruct
  <2>2. alive' = alive \cup {q}
    BY <1>1, <2>1, ScopeEntered
  <2>3. PICK o : o = Moved(obj[r])
    OBVIOUS
  <2>4. Owned(o) = {} /\ o.elements_ = Null
    BY <1>1, <2>3, MovedSound DEF Moved, ObjectType
  <2>5. obj'[q] = obj[r] /\ obj'[r] = o /\ \A t \in alive \ {r} : obj'[t] = obj[t]
    BY <1>1, <2>1, <2>3
  <2>6. \A b : b \in heap'.live <=> b \in lost' \/ \E t \in alive' : b \in Owned(obj'[t])
    BY <1>2, <2>1, <2>2, <2>4, <2>5
  <2>7. ASSUME NEW t \in alive', NEW u \in alive', t # u
        PROVE  Owned(obj'[t]) \cap Owned(obj'[u]) = {}
    <3>1. CASE t = r \/ u = r
      BY <2>4, <2>5, <3>1
    <3>2. CASE t = q /\ u # r
      <4>1. u \in alive \ {r} /\ obj'[t] = obj[r] /\ obj'[u] = obj[u]
        BY <2>2, <2>5, <2>7, <3>2
      <4> QED
        BY <1>2, <2>1, <4>1
    <3>3. CASE u = q /\ t # r
      <4>1. t \in alive \ {r} /\ obj'[u] = obj[r] /\ obj'[t] = obj[t]
        BY <2>2, <2>5, <2>7, <3>3
      <4> QED
        BY <1>2, <2>1, <4>1
    <3>4. CASE t \notin {q, r} /\ u \notin {q, r}
      <4>1. t \in alive /\ u \in alive /\ obj'[u] = obj[u] /\ obj'[t] = obj[t]
        BY <2>2, <2>5, <3>4
      <4> QED
        BY <1>2, <2>7, <4>1
    <3> QED
      BY <3>1, <3>2, <3>3, <3>4
  <2>8. \A t \in alive' : Owned(obj'[t]) \cap lost' = {}
    BY <1>2, <2>1, <2>2, <2>4, <2>5
  <2>9. ASSUME NEW t \in alive', obj'[t].elements_ # Null
        PROVE  obj'[t].allocator \in Allocators
    <3>1. CASE t = r
      BY <2>4, <2>5, <2>9, <3>1
    <3>2. CASE t = q
      BY <1>2, <2>1, <2>5, <2>9, <3>2
    <3>3. CASE t \notin {q, r}
      BY <1>2, <2>2, <2>5, <2>9, <3>3
    <3> QED
      BY <3>1, <3>2, <3>3
  <2> QED
    BY <1>2, <2>1, <2>6, <2>7, <2>8, <2>9 DEF OwnersInv
<1>6. ASSUME NEW q \in Objects, NEW r \in Objects, Swap(q, r) PROVE OwnersInv'
  <2>1. /\ q \in alive /\ r \in alive /\ UNCHANGED <<heap, scope, lost>>
        /\ obj' = [obj EXCEPT ![q] = obj[r], ![r] = obj[q]]
    BY <1>6 DEF Swap, SwappedWith
  <2>2. alive' = alive
    BY <2>1 DEF alive
  <2>3. obj'[q] = obj[r] /\ obj'[r] = obj[q] /\ \A t \in alive \ {q, r} : obj'[t] = obj[t]
    BY <1>1, <2>1
  <2>4. \A b : b \in heap'.live <=> b \in lost' \/ \E t \in alive' : b \in Owned(obj'[t])
    BY <1>2, <2>1, <2>2, <2>3
  <2>5. ASSUME NEW t \in alive', NEW u \in alive', t # u
        PROVE  Owned(obj'[t]) \cap Owned(obj'[u]) = {}
    <3> DEFINE from(x) == IF x = q THEN r ELSE IF x = r THEN q ELSE x
    <3>1. from(t) \in alive /\ from(u) \in alive /\ from(t) # from(u)
      BY <2>1, <2>2, <2>5
    <3>2. obj'[t] = obj[from(t)] /\ obj'[u] = obj[from(u)]
      BY <2>2, <2>3
    <3> HIDE DEF from
    <3> QED
      BY <1>2, <3>1, <3>2
  <2>6. \A t \in alive' : Owned(obj'[t]) \cap lost' = {}
    BY <1>2, <2>1, <2>2, <2>3
  <2>7. \A t \in alive' : obj'[t].elements_ # Null => obj'[t].allocator \in Allocators
    <3> SUFFICES ASSUME NEW t \in alive'
                 PROVE  obj'[t].elements_ # Null => obj'[t].allocator \in Allocators
      OBVIOUS
    <3>1. \E u \in alive : obj'[t] = obj[u]
      BY <2>1, <2>2, <2>3
    <3> QED
      BY ONLY <1>2, <3>1, Zenon
  <2> QED
    BY <1>2, <2>1, <2>4, <2>5, <2>6, <2>7 DEF OwnersInv
<1>7. ASSUME NEW q \in Objects, Destroy(q) PROVE OwnersInv'
  <2>1. PICK k \in DOMAIN scope : scope[k] = q /\ scope' = RemoveAt(scope, k)
    BY <1>7 DEF Destroy
  <2>2. q \in alive /\ alive' = alive \ {q}
    BY <1>1, <2>1, ScopeLeft DEF alive
  <2>3. UNCHANGED lost /\ \A r \in alive' : obj'[r] = obj[r]
    BY <1>1, <1>7, <2>2 DEF Destroy
  <2>4. PICK h : h = heap
    OBVIOUS
  <2>5. PICK o : o = obj[q]
    OBVIOUS
  <2>6. o \in ObjectType /\ Sound(o) /\ Owned(o) \subseteq heap.live
    BY <1>1, <1>2, <2>2, <2>5
  <2>7. heap'.live = heap.live \ Owned(o) /\ heap'.broken = heap.broken
    <3>1. CASE o.elements_ = Null
      <4>1. heap' = heap
        BY <1>0, <1>7, <2>5, <3>1 DEF Destroy
      <4>2. Owned(o) = {}
        BY <2>6, <3>1 DEF Sound, Owned, Arrays
      <4> QED
        BY <4>1, <4>2
    <3>2. CASE o.elements_ # Null
      <4>1. PICK h1 : h1 = Freed(h, o.elements_, o.size_, o.allocator)
        OBVIOUS
      <4>2. PICK h2 : h2 = IF o.states_ = Null THEN h1
                           ELSE Freed(h1, o.states_, o.size_, o.allocator)
        OBVIOUS
      <4>3. heap' = h2
        BY <1>0, <1>7, <2>4, <2>5, <3>2, <4>1, <4>2 DEF Destroy, FreedArrays
      <4>4. o.allocator \in Allocators
        BY <1>2, <2>2, <2>5, <3>2
      <4>5. HeapTyped(h) /\ Owned(o) \subseteq h.live
        BY <1>1, <2>4, <2>6
      <4>6. h2.live = h.live \ Owned(o) /\ h2.broken = h.broken
        BY <2>6, <3>2, <4>1, <4>2, <4>4, <4>5, DestroyFrees
      <4> QED
        BY <2>4, <4>3, <4>6
    <3> QED
      BY <3>1, <3>2
  <2>8. \A b : b \in heap'.live <=> b \in lost' \/ \E r \in alive' : b \in Owned(obj'[r])
    BY <1>2, <2>2, <2>3, <2>5, <2>7
  <2> QED
    BY <1>2, <2>2, <2>3, <2>7, <2>8 DEF OwnersInv
<1>8. ASSUME NEW q \in Objects, TryPush(q) \/ TryPop(q) PROVE OwnersInv'
  <2>1. q \in alive /\ UNCHANGED <<heap, scope, lost>>
    BY <1>8 DEF TryPush, TryPop
  <2>2. alive' = alive
    BY <2>1 DEF alive
  <2>3. \/ obj' = [obj EXCEPT ![q].head_ = Add(@, 1)]
        \/ obj' = [obj EXCEPT ![q].tail_ = Add(@, 1)]
    BY <1>8 DEF TryPush, TryPop
  <2>4. /\ obj'[q].states_ = obj[q].states_ /\ obj'[q].elements_ = obj[q].elements_
        /\ obj'[q].size_ = obj[q].size_ /\ obj'[q].allocator = obj[q].allocator
        /\ \A r \in alive \ {q} : obj'[r] = obj[r]
    BY <1>1, <2>3 DEF ObjectType
  <2>5. Owned(obj'[q]) = Owned(obj[q])
    BY <2>4 DEF Owned, Arrays
  <2>6. \A r \in alive : Owned(obj'[r]) = Owned(obj[r])
    BY <2>4, <2>5
  <2>7. \A r \in alive : obj'[r].elements_ # Null => obj'[r].allocator \in Allocators
    BY <1>2, <2>1, <2>4
  <2> QED
    BY <1>2, <2>1, <2>2, <2>6, <2>7 DEF OwnersInv
<1>9. CASE UNCHANGED vars
  BY <1>2, <1>9 DEF vars, OwnersInv, alive
<1> QED
  BY <1>0, <1>3, <1>4, <1>5, <1>6, <1>7, <1>8, <1>9 DEF Next, Owner, Map

\* In every state each block in use has an owner or is lost.
LEMMA OwnersInvariant == Spec => []OwnersInv
<1>1. Init => OwnersInv
  BY DEF Init, OwnersInv, NewHeap, alive
<1> QED
  BY <1>1, OwnersStep, ShapeInvariant, PTL DEF Spec

\* Each block of memory has one owner, which gives it back to the allocator it
\* is from, with the size it was allocated with: moves and swaps never leave a
\* block to two objects or to none, for any objects, sizes and allocators.
THEOREM OneOwner == Spec => []BlocksHaveOneOwner
<1>1. ShapeInv /\ OwnersInv => BlocksHaveOneOwner
  <2> SUFFICES ASSUME OwnersInv, program = "values" PROVE BlocksHaveOneOwner
    BY DEF BlocksHaveOneOwner
  <2>1. heap.live = lost \cup UNION {Owned(obj[q]) : q \in alive}
    BY DEF OwnersInv
  <2> QED
    BY <2>1 DEF OwnersInv, BlocksHaveOneOwner
<1> QED
  BY <1>1, OwnersInvariant, ShapeInvariant, PTL

-----------------------------------------------------------------------------
(* HugePages.                                                              *)
\* An object lies where the one created before it ends, followed by its arrays.
EndOf(q) == obj[q].elements_ + obj[q].size_

StartOf(k) == IF k = 1 THEN 0 ELSE EndOf(scope[k - 1])

OnPages(q) ==
  /\ obj[q].allocator = Huge /\ obj[q].elements_ # Null
  /\ \/ obj[q].states_ = Null /\ obj[q].elements_ = self[q] + 1
     \/ obj[q].states_ = self[q] + 1 /\ obj[q].elements_ = obj[q].states_ + obj[q].size_

StackInv ==
  program = "scopes" =>
    /\ heap.broken = FALSE
    /\ heap.cur <= heap.end
    /\ heap.cur = StartOf(Len(scope) + 1)
    /\ \A k \in DOMAIN scope : OnPages(scope[k]) /\ self[scope[k]] = StartOf(k)
    /\ type = "mapped" => heap.end >= Requested
    /\ type # "mapped" => scope = << >> /\ heap.end = 0

\* A new object is put on top.
LEMMA StackGrows ==
  ASSUME ShapeInv, StackInv, program = "scopes",
         NEW q \in Objects, NEW n \in Sizes, Construct(q, n, Huge)
  PROVE  StackInv'
<1>1. /\ q \notin alive /\ scope' = Append(scope, q) /\ UNCHANGED <<program, type>>
  BY DEF Construct
<1>2. PICK s \in Int, e \in Nat :
        /\ (s = Null /\ e = heap.cur + 1) \/ (s = heap.cur + 1 /\ e = s + n)
        /\ obj' = [obj EXCEPT ![q] = NewObject(n, Huge, s, e)]
        /\ self' = [self EXCEPT ![q] = heap.cur]
        /\ HeapTyped(heap') /\ heap'.broken = heap.broken
        /\ heap'.end = heap.end
        /\ heap'.cur = e + n /\ heap'.cur <= heap.end
  BY MadeOfPages
<1>3. /\ scope \in Seq(Objects) /\ Len(scope) \in Nat /\ DOMAIN scope = 1 .. Len(scope)
      /\ DOMAIN scope' = 1 .. Len(scope) + 1
      /\ Len(scope') = Len(scope) + 1 /\ scope'[Len(scope) + 1] = q
      /\ \A k \in 1 .. Len(scope) : scope'[k] = scope[k] /\ scope[k] \in Objects /\ scope[k] # q
  BY <1>1 DEF ShapeInv, Scoped, alive
<1>4. /\ obj'[q].allocator = Huge /\ obj'[q].size_ = n /\ obj'[q].states_ = s
      /\ obj'[q].elements_ = e /\ self'[q] = heap.cur
      /\ \A r \in Objects \ {q} : obj'[r] = obj[r] /\ self'[r] = self[r]
  BY <1>2 DEF ShapeInv, NewObject
<1>5. n \in Nat \ {0} /\ heap.cur \in Nat /\ heap.end \in Nat
  BY SizesArePositive DEF ShapeInv, HeapTyped
<1>6. \A k \in 1 .. Len(scope) : EndOf(scope[k])' = EndOf(scope[k])
  BY <1>3, <1>4 DEF EndOf
<1>7. \A k \in 1 .. Len(scope) + 1 : StartOf(k)' = StartOf(k)
  BY <1>3, <1>6 DEF StartOf
<1>8. \A k \in 1 .. Len(scope) : OnPages(scope[k])' /\ self'[scope'[k]] = StartOf(k)'
  BY <1>3, <1>4, <1>7 DEF StackInv, OnPages
<1>9. OnPages(q)'
  BY <1>2, <1>4, <1>5 DEF OnPages, Null
<1>10. PICK top : top = Len(scope) + 1
  OBVIOUS
<1>11. \A k \in DOMAIN scope' : OnPages(scope[k])' /\ self'[scope'[k]] = StartOf(k)'
  <2>1. \A k \in 1 .. top : k \in 1 .. Len(scope) \/ k = top
    BY <1>3, <1>10
  <2>2. scope'[top] = q /\ self'[q] = StartOf(top)'
    BY <1>3, <1>4, <1>7, <1>10 DEF StackInv
  <2>3. OnPages(scope[top])'
    BY <1>9, <2>2 DEF OnPages
  <2> QED
    BY <1>3, <1>8, <1>10, <2>1, <2>2, <2>3
<1>12. heap'.cur = StartOf(Len(scope) + 1)'
  BY <1>2, <1>3, <1>4 DEF StartOf, EndOf
<1>13. type = "mapped"
  BY <1>2, <1>5 DEF StackInv
<1> QED
  BY <1>1, <1>2, <1>11, <1>12, <1>13 DEF StackInv

\* The object on top gives back what it lies in, from the end to the start.
LEMMA StackShrinks ==
  ASSUME ShapeInv, StackInv, program = "scopes", NEW q \in Objects, Destroy(q)
  PROVE  StackInv'
<1>1. PICK k \in DOMAIN scope : scope[k] = q /\ scope' = RemoveAt(scope, k) /\ q = Last(scope)
  BY DEF Destroy
<1>2. /\ scope \in Seq(Objects) /\ Len(scope) \in Nat /\ DOMAIN scope = 1 .. Len(scope)
      /\ k = Len(scope)
  BY <1>1 DEF ShapeInv, Scoped, Last
<1>3. /\ Scoped' /\ Len(scope') = k - 1
      /\ \A j \in 1 .. k - 1 : scope'[j] = scope[j] /\ scope[j] \in Objects /\ scope[j] # q
  <2>1. Scoped /\ \A j \in 1 .. k - 1 : scope[j] \in Objects /\ j \in DOMAIN scope
    BY <1>2 DEF ShapeInv, Scoped
  <2>2. /\ Scoped' /\ Len(scope') = Len(scope) - 1
        /\ \A j \in 1 .. Len(scope) - 1 :
             scope'[j] = IF j < k THEN scope[j] ELSE scope[j + 1]
    BY <1>1, <2>1, ScopeLeft
  <2>3. \A j \in 1 .. k - 1 : scope'[j] = scope[j]
    BY <1>2, <2>2
  <2>4. \A j \in 1 .. k - 1 : scope[j] # q
    BY <1>1, <1>2, <2>1 DEF Scoped
  <2> QED
    BY <1>2, <2>1, <2>2, <2>3, <2>4
<1>4. DOMAIN scope' = 1 .. k - 1
  BY <1>3 DEF Scoped
<1>5. PICK h : h = heap
  OBVIOUS
<1>6. PICK o : o = obj[q]
  OBVIOUS
<1>7. PICK at : at = self[q]
  OBVIOUS
<1>8. /\ HeapTyped(h) /\ o \in ObjectType /\ Sound(o) /\ at \in Nat
      /\ o.elements_ # Null /\ o.elements_ \in Nat /\ o.size_ \in Nat \ {0}
  <2>1. q \in alive
    BY DEF Destroy
  <2>2. o.elements_ # Null
    BY <1>1, <1>6 DEF StackInv, OnPages
  <2> QED
    BY <1>5, <1>6, <1>7, <2>1, <2>2 DEF ShapeInv, Sound
<1>9. /\ o.allocator = Huge
      /\ \/ o.states_ = Null /\ o.elements_ = at + 1
         \/ o.states_ = at + 1 /\ o.elements_ = o.states_ + o.size_
      /\ h.cur = o.elements_ + o.size_ /\ at = StartOf(k)
  BY <1>1, <1>2, <1>5, <1>6, <1>7 DEF StackInv, OnPages, StartOf, EndOf
<1>10. PICK h1 : h1 = Freed(h, o.elements_, o.size_, Huge)
  OBVIOUS
<1>11. HeapTyped(h1) /\ h1.cur = o.elements_ /\ h1.end = h.end /\ h1.broken = h.broken
  <2>1. o.elements_ = h.cur - o.size_ /\ o.size_ \in Nat
    BY <1>8, <1>9
  <2> QED
    <3>1. GivesBack(h, Freed(h, o.elements_, o.size_, Huge), o.elements_)
      BY <1>8, <2>1, FreedLast
    <3> QED
      BY <1>10, <3>1 DEF GivesBack
<1>12. PICK h2 : h2 = IF o.states_ = Null THEN h1 ELSE Freed(h1, o.states_, o.size_, Huge)
  OBVIOUS
<1>13. HeapTyped(h2) /\ h2.cur = at + 1 /\ h2.end = h.end /\ h2.broken = h.broken
  <2>1. CASE o.states_ = Null
    BY <1>8, <1>9, <1>11, <1>12, <2>1 DEF Null
  <2>2. CASE o.states_ # Null
    <3>1. o.states_ \in Nat /\ o.states_ = at + 1 /\ o.states_ = h1.cur - o.size_ /\ o.size_ \in Nat
      BY <1>8, <1>9, <1>11, <2>2
    <3> QED
      <4>1. GivesBack(h1, Freed(h1, o.states_, o.size_, Huge), o.states_)
        BY <1>11, <3>1, FreedLast
      <4> QED
        BY <1>11, <1>12, <2>2, <3>1, <4>1 DEF GivesBack
  <2> QED
    BY <2>1, <2>2
<1>14. PICK h3 : h3 = Freed(h2, at, 1, Huge)
  OBVIOUS
<1>15. h3.cur = at /\ h3.end = h.end /\ h3.broken = h.broken
  <2>1. at = h2.cur - 1 /\ 1 \in Nat
    BY <1>8, <1>13
  <2>2. h3.cur = at /\ h3.end = h2.end /\ h3.broken = h2.broken
    <3>1. GivesBack(h2, Freed(h2, at, 1, Huge), at)
      BY <1>8, <1>13, <2>1, FreedLast
    <3> QED
      BY <1>14, <3>1 DEF GivesBack
  <2> QED
    BY <1>13, <2>2
<1>16. heap' = h3
  BY <1>5, <1>6, <1>7, <1>8, <1>9, <1>10, <1>12, <1>14 DEF Destroy, FreedArrays
<1>17. /\ UNCHANGED <<program, type>>
       /\ \A r \in Objects \ {q} : obj'[r] = obj[r] /\ self'[r] = self[r]
  BY DEF Destroy, ShapeInv
<1>18. \A j \in 1 .. k : StartOf(j)' = StartOf(j)
  BY <1>2, <1>3, <1>17 DEF StartOf, EndOf
<1>19. \A j \in 1 .. k - 1 : OnPages(scope[j])' /\ self'[scope'[j]] = StartOf(j)'
  <2> SUFFICES ASSUME NEW j \in 1 .. k - 1
               PROVE  OnPages(scope[j])' /\ self'[scope'[j]] = StartOf(j)'
    OBVIOUS
  <2>1. j \in DOMAIN scope /\ j \in 1 .. k
    BY <1>2
  <2>2. scope'[j] = scope[j] /\ obj'[scope[j]] = obj[scope[j]] /\ self'[scope[j]] = self[scope[j]]
    BY <1>3, <1>17
  <2> QED
    BY <1>18, <2>1, <2>2 DEF StackInv, OnPages
<1>20. heap'.cur = StartOf(Len(scope) + 1)'
  BY <1>2, <1>3, <1>9, <1>15, <1>16, <1>18
<1>21. heap'.cur <= heap'.end /\ heap'.broken = FALSE /\ heap'.end = heap.end
  BY <1>5, <1>8, <1>9, <1>15, <1>16 DEF StackInv, HeapTyped
<1>22. type = "mapped"
  BY <1>1, <1>2 DEF StackInv
<1> QED
  BY <1>4, <1>17, <1>19, <1>20, <1>21, <1>22 DEF StackInv

\* The other steps of the benchmarks move no object: the mapping, while there
\* is none, and pushes and pops.
LEMMA StackStep == ShapeInv /\ StackInv /\ [Next]_vars => StackInv'
<1> SUFFICES ASSUME ShapeInv, StackInv, [Next]_vars, program' = "scopes"
             PROVE  StackInv'
  BY DEF StackInv
<1>0. program = "scopes"
  BY NextKeeps
<1>1. ASSUME UNCHANGED <<heap, scope, self, type, program>>,
             \A r \in Objects : /\ obj'[r].allocator = obj[r].allocator
                                /\ obj'[r].elements_ = obj[r].elements_
                                /\ obj'[r].states_ = obj[r].states_
                                /\ obj'[r].size_ = obj[r].size_
      PROVE  StackInv'
  <2>1. \A k \in DOMAIN scope : scope[k] \in Objects
    BY DEF ShapeInv, Scoped
  <2>2. \A k \in DOMAIN scope : EndOf(scope[k])' = EndOf(scope[k])
    BY <1>1, <2>1 DEF EndOf
  <2>3. \A k \in 1 .. Len(scope) + 1 : StartOf(k)' = StartOf(k)
    BY <1>1, <2>2 DEF StartOf, ShapeInv, Scoped
  <2>4. DOMAIN scope = 1 .. Len(scope) /\ Len(scope) \in Nat
    BY DEF ShapeInv, Scoped
  <2>5. \A k \in DOMAIN scope : OnPages(scope[k])' /\ self'[scope'[k]] = StartOf(k)'
    BY <1>0, <1>1, <2>1, <2>3, <2>4 DEF StackInv, OnPages
  <2>6. heap'.cur = StartOf(Len(scope) + 1)'
    BY <1>0, <1>1, <2>3, <2>4 DEF StackInv
  <2> QED
    BY <1>0, <1>1, <2>5, <2>6 DEF StackInv
<1>2. ASSUME Map PROVE StackInv'
  <2>1. UNCHANGED <<scope, obj, self, program>> /\ type # "mapped"
    BY <1>2 DEF Map, Smaller
  <2>2. scope = << >> /\ heap.end = 0 /\ heap.cur = 0 /\ heap.broken = FALSE
    <3>1. scope = << >> /\ heap.end = 0 /\ heap.broken = FALSE /\ heap.cur = StartOf(Len(scope) + 1)
      BY <1>0, <2>1 DEF StackInv
    <3>2. Len(scope) + 1 = 1
      BY <3>1
    <3> QED
      BY <3>1, <3>2 DEF StartOf
  <2>3. Len(scope') + 1 = 1 /\ DOMAIN scope' = {}
    BY <2>1, <2>2
  <2>4. CASE type' = "mapped" /\ heap' = Mapped(heap, type)
    <3>1. type \in DOMAIN PageSize
      BY <1>2, PageSizeAssumption DEF Map, Smaller
    <3>2. PICK page \in Nat \ {0} : page = PageSize[type]
      BY <3>1, PageSizeAssumption
    <3>3. PICK end : end = ((Requested + page - 1) \div page) * page
      OBVIOUS
    <3>4. end \in Requested .. Requested + page - 1 /\ Requested \in Nat
      BY <3>3, RoundedUp, TotalAssumption
    <3>5. heap' = [heap EXCEPT !.end = end]
      BY <2>4, <3>2, <3>3 DEF Mapped
    <3>6. heap'.end = end /\ heap'.cur = 0 /\ heap'.broken = FALSE
      BY <2>2, <3>5 DEF ShapeInv, HeapTyped
    <3>7. end >= Requested /\ 0 <= end
      BY <3>4
    <3> QED
      BY <2>3, <2>4, <3>6, <3>7 DEF StackInv, StartOf
  <2>5. CASE type' = Smaller[type] /\ UNCHANGED heap
    <3>1. type' # "mapped"
      BY <1>2, <2>5 DEF Map, Smaller
    <3> QED
      BY <2>1, <2>2, <2>3, <2>5, <3>1 DEF StackInv, StartOf
  <2> QED
    BY <1>2, <2>4, <2>5 DEF Map
<1>3. ASSUME NEW q \in Objects, NEW n \in Sizes, NEW a \in Owner, Construct(q, n, a)
      PROVE  StackInv'
  BY <1>0, <1>3, StackGrows DEF Construct
<1>4. ASSUME NEW q \in Objects, Destroy(q) PROVE StackInv'
  BY <1>0, <1>4, StackShrinks
<1>5. ASSUME NEW q \in Objects, TryPush(q) \/ TryPop(q) PROVE StackInv'
  <2>1. /\ UNCHANGED <<heap, scope, self, type, program>>
        /\ \/ obj' = [obj EXCEPT ![q].head_ = Add(@, 1)]
           \/ obj' = [obj EXCEPT ![q].tail_ = Add(@, 1)]
    BY <1>5 DEF TryPush, TryPop
  <2>2. obj \in [Objects -> ObjectType]
    BY DEF ShapeInv
  <2> QED
    BY <1>1, <2>1, <2>2 DEF ObjectType
<1>6. CASE UNCHANGED vars
  BY <1>1, <1>6 DEF vars
<1> QED
  BY <1>0, <1>2, <1>3, <1>4, <1>5, <1>6
     DEF Next, Owner, ConstructThrows, MoveConstruct, Swap

\* In every state the objects in HugePages lie one after the other.
LEMMA StackInvariant == Spec => []StackInv
<1>1. Init => StackInv
  <2> SUFFICES ASSUME Init PROVE StackInv
    OBVIOUS
  <2>1. scope = << >> /\ Len(scope) + 1 = 1 /\ DOMAIN scope = {}
    BY DEF Init
  <2>2. heap.cur = 0 /\ heap.end = 0 /\ heap.broken = FALSE /\ type # "mapped"
    BY DEF Init, NewHeap
  <2> QED
    BY <2>1, <2>2 DEF StackInv, StartOf
<1> QED
  BY <1>1, StackStep, ShapeInvariant, PTL DEF Spec

\* In the benchmarks every deallocation is of what HugePages handed out last, so
\* that it never aborts, and when the last queue is gone so is its memory: for
\* any sizes of queues and pages and any amount of memory, whichever types of
\* pages the system refuses.
THEOREM PagesUnwound == Spec => []HugePagesUnwound
<1>1. ShapeInv /\ StackInv => HugePagesUnwound
  <2> SUFFICES ASSUME ShapeInv, StackInv, program = "scopes" PROVE HugePagesUnwound
    BY DEF HugePagesUnwound
  <2>1. ASSUME alive = {} PROVE heap.cur = 0
    <3>1. DOMAIN scope = 1 .. Len(scope) /\ Len(scope) \in Nat /\ DOMAIN scope = {}
      BY <2>1 DEF alive, ShapeInv, Scoped
    <3>2. Len(scope) + 1 = 1
      BY <3>1
    <3> QED
      BY <3>2 DEF StackInv, StartOf
  <2> QED
    BY <2>1 DEF StackInv, HugePagesUnwound
<1> QED
  BY <1>1, StackInvariant, ShapeInvariant, PTL

-----------------------------------------------------------------------------
(* What queues hold as objects: the slots of a queue are its own, those     *)
(* without messages are ready for a push, and what is pushed into an object *)
(* follows it through moves and swaps.                                      *)
\* What the program has: sizes that are powers of 2 divide the number of words.
SizesDivide == \A n \in Sizes : \E c \in Nat : Modulus = c * n

-----------------------------------------------------------------------------
(* The slots of a ring of n.                                               *)
SlotOfRing(i, n) == Remap(i, n, ShuffleBits)

RingSlots(n) ==
  /\ \A i \in Word : SlotOfRing(i, n) \in 0 .. n - 1
  /\ \A t \in Word : \A j, k \in 0 .. n - 1 :
       SlotOfRing(Add(t, j), n) = SlotOfRing(Add(t, k), n) => j = k
  /\ \A t \in Word : SlotOfRing(Add(t, n), n) = SlotOfRing(t, n)

\* The sizes have bits to shuffle.
LEMMA SizesShuffle ==
  ASSUME NEW n \in Sizes
  PROVE  ShuffleBits \in 1 .. 8 /\ \E m \in Nat \ {0} : n = m * 2^(2 * ShuffleBits)
<1>1. ShuffleBits \in 1 .. 8
  BY SizesAssumption
<1>2. PICK k \in 2 * ShuffleBits .. 31 : n = 2^k
  BY SizesAssumption
<1>3. PICK a, b : a = 2 * ShuffleBits /\ b = k - a
  OBVIOUS
<1>4. a \in Nat /\ b \in Nat /\ b \in 0 .. 32 /\ b + a = k /\ b + a <= 32
  BY <1>1, <1>3
<1>5. n = 2^b * 2^a
  BY ONLY <1>2, <1>4, PowerSum, Zenon
<1>6. 2^b \in Nat \ {0}
  BY ONLY <1>4, PowerStep, Zenon
<1> QED
  BY ONLY <1>1, <1>3, <1>5, <1>6, Zenon

\* Any so many consecutive indices have slots of their own, and those one round
\* apart the same.
LEMMA SizesServe ==
  ASSUME SizesDivide, NEW n \in Sizes
  PROVE  RingSlots(n)
<1>1. n \in Nat \ {0} /\ n \in Word
  BY SizesArePositive
<1>2. PICK c \in Nat : Modulus = c * n
  BY DEF SizesDivide
<1>3. PICK m \in Nat \ {0} : n = m * 2^(2 * ShuffleBits)
  BY SizesShuffle
<1>4. ShuffleBits \in 1 .. 8 /\ ShuffleBits \in 0 .. 8 /\ ShuffleBits # 0 /\ m \in Nat
  BY SizesShuffle
<1>5. PICK slot : slot = [i \in Word |-> Remap(i, n, ShuffleBits)]
  OBVIOUS
<1>6. ApartInWindows(slot, n) /\ \A i \in Word : slot[i] \in 0 .. n - 1
  BY <1>1, <1>2, <1>3, <1>4, <1>5, ShuffledApart
<1>7. \A i \in Word : slot[i] = SlotOfRing(i, n)
  BY <1>5 DEF SlotOfRing
<1>8. \A t \in Word : \A j \in 0 .. n : Add(t, j) \in Word
  BY <1>1, WordArithmetic
<1>9. ASSUME NEW t \in Word PROVE SlotOfRing(Add(t, n), n) = SlotOfRing(t, n)
  <2>1. SwapsAsSlots(n, ShuffleBits)
    BY <1>3, <1>4, SwappedSlots
  <2>2. Add(t, n) \in Nat /\ t \in Nat /\ Add(t, n) \in Word
    <3>1. n \in 0 .. n
      BY <1>1
    <3>2. Add(t, n) \in Word
      BY <1>8, <3>1
    <3> QED
      BY <3>2, WordNat
  <2>3. Add(t, n) % n = t % n
    <3>1. t + n \in Int /\ Modulus \in Nat \ {0}
      BY <1>1, <2>2, ModulusAssumption
    <3>2. (t + n) \div Modulus \in Int /\ t + n = ((t + n) \div Modulus) * Modulus + Add(t, n)
      BY ONLY <3>1, Division DEF Add
    <3>3. PICK q : q = (t + n) \div Modulus
      OBVIOUS
    <3>4. q \in Int /\ q * Modulus = (q * c) * n /\ q * c \in Int
      BY <1>1, <1>2, <3>2, <3>3
    <3>5. PICK r \in Int : r = q * c
      BY <3>4
    <3>6. t + n = r * n + Add(t, n)
      BY ONLY <3>2, <3>3, <3>4, <3>5
    <3>7. (1 * n + t) % n = t % n
      BY ONLY <1>1, t \in Int, 1 \in Int, SameRemainder
    <3>9. PICK b \in Int : b = Add(t, n)
      BY <2>2
    <3>10. (r * n + b) % n = b % n
      BY ONLY <1>1, r \in Int, b \in Int, SameRemainder
    <3>8. 1 * n + t = t + n
      BY <1>1, <2>2
    <3> QED
      BY ONLY <3>6, <3>7, <3>8, <3>9, <3>10
  <2>4. Swapped(Add(t, n), n, ShuffleBits) = Swapped(t, n, ShuffleBits)
    BY ONLY <2>1, <2>2, <2>3 DEF SwapsAsSlots
  <2> QED
    BY <1>4, <2>4 DEF SlotOfRing, Remap
<1>10. \A i \in Word : SlotOfRing(i, n) \in 0 .. n - 1
  BY <1>6, <1>7
<1>11. ASSUME NEW t \in Word, NEW j \in 0 .. n - 1, NEW k \in 0 .. n - 1,
              SlotOfRing(Add(t, j), n) = SlotOfRing(Add(t, k), n)
       PROVE  j = k
  <2>1. j \in 0 .. n /\ k \in 0 .. n
    BY <1>1
  <2>2. slot[Add(t, j)] = slot[Add(t, k)]
    BY <1>7, <1>8, <1>11, <2>1
  <2> QED
    BY <1>6, <2>2 DEF ApartInWindows
<1> QED
  BY <1>9, <1>10, <1>11 DEF RingSlots

-----------------------------------------------------------------------------
(* One queue and its memory.                                               *)
\* A queue with memory has arrays apart from one another, in the memory there
\* is, and no more messages than slots.
RingObject(o, cl) ==
  /\ o \in ObjectType /\ Sound(o) /\ o.elements_ # Null
  /\ o.size_ \in Sizes
  /\ Sub(o.head_, o.tail_) <= o.size_
  /\ o.elements_ + o.size_ <= Total
  /\ cl = "AtomicQueueB2" <=> o.states_ # Null
  /\ o.states_ # Null =>
       /\ o.states_ + o.size_ <= Total
       /\ Cells(o.states_, o.size_) \cap Cells(o.elements_, o.size_) = {}

\* The slot of an index is ready for a push.
FreeAt(o, i, mem, cl) ==
  /\ cl = "AtomicQueueB" => mem[ElementAt(o, i)] = Blank
  /\ cl = "AtomicQueueB2" => mem[StateAt(o, i)] = Blank

ReadyIn(o, mem, cl) ==
  \A k \in Sub(o.head_, o.tail_) .. o.size_ - 1 : FreeAt(o, Add(o.tail_, k), mem, cl)

ContentsIn(o, mem) ==
  [k \in 1 .. Sub(o.head_, o.tail_) |-> mem[ElementAt(o, Add(o.tail_, k - 1))]]

Classes == {"AtomicQueueB", "AtomicQueueB2"}

\* The numbers of a queue with memory.
LEMMA RingNumbers ==
  ASSUME NEW o, NEW cl, RingObject(o, cl)
  PROVE  /\ o.head_ \in Word /\ o.tail_ \in Word /\ o.size_ \in Word
         /\ o.size_ \in Nat \ {0} /\ o.elements_ \in Nat
         /\ o.states_ # Null => o.states_ \in Nat
         /\ Sub(o.head_, o.tail_) \in 0 .. o.size_ /\ Sub(o.head_, o.tail_) \in Word
         /\ Sub(o.head_, o.tail_) \in Nat
<1>1. /\ o.head_ \in Word /\ o.tail_ \in Word /\ o.size_ \in Word
      /\ Sub(o.head_, o.tail_) <= o.size_ /\ o.size_ \in Sizes
      /\ o.elements_ \in Nat
      /\ o.states_ # Null => o.states_ \in Nat
  BY DEF RingObject, ObjectType, Sound
<1>2. Sub(o.head_, o.tail_) \in Word /\ o.tail_ \in Nat
  BY <1>1, WordArithmetic, WordNat
<1>3. Sub(o.head_, o.tail_) \in Nat /\ o.size_ \in Nat \ {0}
  BY <1>1, <1>2, WordNat, SizesArePositive
<1>4. Sub(o.head_, o.tail_) \in 0 .. o.size_
  BY <1>1, <1>3
<1> QED
  BY <1>1, <1>2, <1>3, <1>4

\* The cells of an index are the object's own.
LEMMA Places ==
  ASSUME SizesDivide, NEW o, NEW cl, RingObject(o, cl), NEW i \in Word
  PROVE  /\ ElementAt(o, i) \in OwnedCells(o) /\ ElementAt(o, i) \in Address
         /\ cl = "AtomicQueueB2" =>
              /\ StateAt(o, i) \in OwnedCells(o) /\ StateAt(o, i) \in Address
              /\ \A j \in Word : StateAt(o, i) # ElementAt(o, j)
<1>1. /\ o.size_ \in Nat \ {0} /\ o.elements_ \in Nat
      /\ o.states_ # Null => o.states_ \in Nat
  BY RingNumbers
<1>2. /\ o.elements_ # Null /\ o.size_ \in Sizes /\ o.elements_ + o.size_ <= Total
      /\ cl = "AtomicQueueB2" => o.states_ # Null
      /\ o.states_ # Null =>
           /\ o.states_ + o.size_ <= Total
           /\ Cells(o.states_, o.size_) \cap Cells(o.elements_, o.size_) = {}
  BY DEF RingObject
<1>3. \A j \in Word : SlotIn(o, j) \in 0 .. o.size_ - 1
  BY <1>2, SizesServe DEF RingSlots, SlotOfRing, SlotIn
<1>4. \A j \in Word : ElementAt(o, j) \in Cells(o.elements_, o.size_)
  BY <1>1, <1>3 DEF ElementAt, Cells
<1>5. o.elements_ \in Arrays(o) /\ (o.states_ # Null => o.states_ \in Arrays(o))
  BY <1>2 DEF Arrays
<1>6. /\ Cells(o.elements_, o.size_) \subseteq OwnedCells(o)
      /\ o.states_ # Null => Cells(o.states_, o.size_) \subseteq OwnedCells(o)
  BY <1>5 DEF OwnedCells
<1>7. /\ Cells(o.elements_, o.size_) \subseteq Address
      /\ o.states_ # Null => Cells(o.states_, o.size_) \subseteq Address
  BY <1>1, <1>2, TotalAssumption DEF Cells, Address
<1>8. o.states_ # Null => StateAt(o, i) \in Cells(o.states_, o.size_)
  BY <1>1, <1>3 DEF StateAt, Cells
<1>9. o.states_ # Null => \A j \in Word : StateAt(o, i) # ElementAt(o, j)
  BY <1>2, <1>4, <1>8
<1> QED
  BY <1>2, <1>4, <1>6, <1>7, <1>8, <1>9

\* The cells of the indices of one round are different.
LEMMA PlacesApart ==
  ASSUME SizesDivide, NEW o, NEW cl, RingObject(o, cl), NEW t \in Word,
         NEW j \in 0 .. o.size_ - 1, NEW k \in 0 .. o.size_ - 1, j # k
  PROVE  /\ ElementAt(o, Add(t, j)) # ElementAt(o, Add(t, k))
         /\ cl = "AtomicQueueB2" => StateAt(o, Add(t, j)) # StateAt(o, Add(t, k))
<1>1. /\ o.size_ \in Nat \ {0} /\ o.elements_ \in Nat
      /\ o.states_ # Null => o.states_ \in Nat
  BY RingNumbers
<1>2. RingSlots(o.size_) /\ (cl = "AtomicQueueB2" => o.states_ # Null)
  BY SizesServe DEF RingObject
<1>3. Add(t, j) \in Word /\ Add(t, k) \in Word
  BY <1>1, WordArithmetic
<1>4. SlotIn(o, Add(t, j)) # SlotIn(o, Add(t, k))
  BY <1>2 DEF RingSlots, SlotOfRing, SlotIn
<1>5. SlotIn(o, Add(t, j)) \in Int /\ SlotIn(o, Add(t, k)) \in Int
  BY <1>1, <1>2, <1>3 DEF RingSlots, SlotOfRing, SlotIn
<1> QED
  BY <1>1, <1>2, <1>4, <1>5 DEF ElementAt, StateAt

\* What is written elsewhere changes neither what a queue holds nor its free
\* slots.
LEMMA Unwritten ==
  ASSUME SizesDivide, NEW o, NEW cl \in Classes, RingObject(o, cl), NEW mem, NEW mem2,
         \A a \in OwnedCells(o) : mem2[a] = mem[a]
  PROVE  /\ ReadyIn(o, mem2, cl) <=> ReadyIn(o, mem, cl)
         /\ ContentsIn(o, mem2) = ContentsIn(o, mem)
<1>1. /\ o.tail_ \in Word /\ o.size_ \in Nat \ {0}
      /\ Sub(o.head_, o.tail_) \in Nat
  BY RingNumbers
<1>2. \A k \in Nat : Add(o.tail_, k) \in Word
  BY <1>1, WordArithmetic
<1>3. \A i \in Word : /\ mem2[ElementAt(o, i)] = mem[ElementAt(o, i)]
                      /\ cl = "AtomicQueueB2" => mem2[StateAt(o, i)] = mem[StateAt(o, i)]
  BY Places
<1>4. \A i \in Word : FreeAt(o, i, mem2, cl) <=> FreeAt(o, i, mem, cl)
  BY <1>3 DEF FreeAt
<1>5. \A k \in Sub(o.head_, o.tail_) .. o.size_ - 1 : k \in Nat
  BY <1>1
<1>6. \A k \in 1 .. Sub(o.head_, o.tail_) : k - 1 \in Nat
  BY <1>1
<1>7. ReadyIn(o, mem2, cl) <=> ReadyIn(o, mem, cl)
  BY <1>2, <1>4, <1>5 DEF ReadyIn
<1>8. ContentsIn(o, mem2) = ContentsIn(o, mem)
  BY <1>2, <1>3, <1>6 DEF ContentsIn
<1> QED
  BY <1>7, <1>8

\* A new queue is ready for as many pushes as it has slots, and empty.
LEMMA NewIsReady ==
  ASSUME SizesDivide, NEW o, NEW cl \in Classes, RingObject(o, cl), o.head_ = o.tail_,
         NEW mem, \A a \in OwnedCells(o) : mem[a] = Blank
  PROVE  ReadyIn(o, mem, cl) /\ ContentsIn(o, mem) = << >>
<1>1. /\ o.tail_ \in Word /\ o.size_ \in Nat \ {0}
  BY RingNumbers
<1>2. \A k \in Nat : Add(o.tail_, k) \in Word
  BY <1>1, WordArithmetic
<1>3. Sub(o.head_, o.tail_) = 0
  BY <1>1, SubZero
<1>4. \A i \in Word : FreeAt(o, i, mem, cl)
  BY Places DEF FreeAt
<1>5. \A k \in 0 .. o.size_ - 1 : k \in Nat
  BY <1>1
<1>6. ReadyIn(o, mem, cl)
  BY <1>2, <1>3, <1>4, <1>5 DEF ReadyIn
<1>7. ContentsIn(o, mem) \in [1 .. 0 -> {0}]
  BY <1>3 DEF ContentsIn
<1>8. ContentsIn(o, mem) = << >>
  BY <1>7, IsEmptySequence
<1> QED
  BY <1>6, <1>8

\* What try_push writes, and where.
Pushed(o, mem, mem2, value, cl) ==
  /\ \A a \in Address :
       a # ElementAt(o, o.head_) /\ (cl = "AtomicQueueB2" => a # StateAt(o, o.head_)) =>
         mem2[a] = mem[a]
  /\ mem2[ElementAt(o, o.head_)] = value

\* What try_push leaves.
PutsAtEnd(o, o2, mem, mem2, value, cl) ==
  /\ RingObject(o2, cl)
  /\ ReadyIn(o, mem, cl) => ReadyIn(o2, mem2, cl)
  /\ ContentsIn(o2, mem2) = Append(ContentsIn(o, mem), value)

\* A push puts its message at the end, and leaves the other free slots ready.
LEMMA PushAppends ==
  ASSUME SizesDivide, NEW o, NEW cl \in Classes, RingObject(o, cl), HasRoom(o),
         NEW o2, o2 = [o EXCEPT !.head_ = Add(@, 1)],
         NEW mem \in [Address -> Int], NEW mem2 \in [Address -> Int], NEW value \in Int,
         Pushed(o, mem, mem2, value, cl)
  PROVE  PutsAtEnd(o, o2, mem, mem2, value, cl)
<1>1. /\ o.head_ \in Word /\ o.tail_ \in Word /\ o.size_ \in Nat \ {0}
      /\ Sub(o.head_, o.tail_) \in Nat
  BY RingNumbers
<1>2. /\ o2 \in ObjectType /\ Sound(o2)
      /\ Sub(o2.head_, o2.tail_) = Sub(o.head_, o.tail_) + 1
      /\ Sub(o.head_, o.tail_) \in 0 .. o.size_ - 1
  BY PushedSound DEF RingObject
<1>3. /\ o2.head_ = Add(o.head_, 1) /\ o2.tail_ = o.tail_ /\ o2.size_ = o.size_
      /\ o2.elements_ = o.elements_ /\ o2.states_ = o.states_
  BY DEF RingObject, ObjectType
<1>4. PICK u : u = Sub(o.head_, o.tail_)
  OBVIOUS
<1>5. u \in Nat /\ u \in 0 .. o.size_ - 1 /\ u + 1 <= o.size_ /\ Sub(o2.head_, o2.tail_) = u + 1
  BY <1>1, <1>2, <1>4
<1>6. Add(o.tail_, u) = o.head_
  BY <1>1, <1>4, AddSub
<1>7. RingObject(o2, cl)
  BY <1>2, <1>3, <1>5 DEF RingObject
<1>8. \A k \in Nat : Add(o.tail_, k) \in Word
  BY <1>1, WordArithmetic
<1>9. \A i : ElementAt(o2, i) = ElementAt(o, i) /\ StateAt(o2, i) = StateAt(o, i)
  BY <1>3 DEF ElementAt, StateAt, SlotIn
<1>10. ASSUME NEW k \in 0 .. o.size_ - 1, k # u
       PROVE  /\ mem2[ElementAt(o, Add(o.tail_, k))] = mem[ElementAt(o, Add(o.tail_, k))]
              /\ cl = "AtomicQueueB2" =>
                   mem2[StateAt(o, Add(o.tail_, k))] = mem[StateAt(o, Add(o.tail_, k))]
  <2>1. /\ ElementAt(o, Add(o.tail_, k)) # ElementAt(o, o.head_)
        /\ cl = "AtomicQueueB2" => StateAt(o, Add(o.tail_, k)) # StateAt(o, o.head_)
    BY <1>1, <1>5, <1>6, <1>10, PlacesApart
  <2>2. Add(o.tail_, k) \in Word
    BY <1>1, <1>8
  <2>3. /\ ElementAt(o, Add(o.tail_, k)) \in Address
        /\ cl = "AtomicQueueB2" =>
             /\ StateAt(o, Add(o.tail_, k)) \in Address
             /\ StateAt(o, Add(o.tail_, k)) # ElementAt(o, o.head_)
             /\ ElementAt(o, Add(o.tail_, k)) # StateAt(o, o.head_)
    BY <1>1, <2>2, Places
  <2> QED
    BY <2>1, <2>3 DEF Pushed
<1>11. ASSUME ReadyIn(o, mem, cl) PROVE ReadyIn(o2, mem2, cl)
  <2>1. \A k \in u + 1 .. o.size_ - 1 : k \in 0 .. o.size_ - 1 /\ k \in u .. o.size_ - 1 /\ k # u
    BY <1>1, <1>5
  <2>2. \A k \in u + 1 .. o.size_ - 1 : FreeAt(o, Add(o.tail_, k), mem, cl)
    BY <1>4, <1>11, <2>1 DEF ReadyIn
  <2>3. \A k \in u + 1 .. o.size_ - 1 : FreeAt(o2, Add(o.tail_, k), mem2, cl)
    BY <1>9, <1>10, <2>1, <2>2 DEF FreeAt
  <2> QED
    BY <1>3, <1>5, <2>3 DEF ReadyIn
<1>12. /\ \A k \in 1 .. u : ContentsIn(o2, mem2)[k] = ContentsIn(o, mem)[k]
       /\ ContentsIn(o2, mem2)[u + 1] = value
  <2>1. \A k \in 1 .. u : /\ k - 1 \in 0 .. o.size_ - 1 /\ k - 1 # u
                          /\ k \in 1 .. u + 1
    BY <1>1, <1>5
  <2>2. /\ \A k \in 1 .. u + 1 : ContentsIn(o2, mem2)[k] = mem2[ElementAt(o, Add(o.tail_, k - 1))]
        /\ \A k \in 1 .. u : ContentsIn(o, mem)[k] = mem[ElementAt(o, Add(o.tail_, k - 1))]
    BY <1>3, <1>4, <1>5, <1>9 DEF ContentsIn
  <2>3. u + 1 \in 1 .. u + 1 /\ (u + 1) - 1 = u
    BY <1>5
  <2>4. ContentsIn(o2, mem2)[u + 1] = value
    BY <1>6, <2>2, <2>3 DEF Pushed
  <2> QED
    BY <1>10, <2>1, <2>2, <2>4
<1>13. /\ ContentsIn(o, mem) \in [1 .. u -> Int]
       /\ ContentsIn(o2, mem2) \in [1 .. u + 1 -> Int]
  <2>1. \A k \in 1 .. u + 1 : k - 1 \in Nat
    BY <1>5
  <2>2. \A k \in 1 .. u + 1 : ElementAt(o, Add(o.tail_, k - 1)) \in Address
    BY <1>8, <2>1, Places
  <2>3. \A k \in 1 .. u : k \in 1 .. u + 1
    BY <1>5
  <2> QED
    BY <1>3, <1>4, <1>5, <1>9, <2>2, <2>3 DEF ContentsIn
<1>14. ContentsIn(o2, mem2) = Append(ContentsIn(o, mem), value)
  <2>1. PICK before, after : before = ContentsIn(o, mem) /\ after = ContentsIn(o2, mem2)
    OBVIOUS
  <2>2. after = Append(before, value)
    BY ONLY <1>5, <1>12, <1>13, <2>1, value \in Int, IsAppend
  <2> QED
    BY <2>1, <2>2
<1> QED
  BY ONLY <1>7, <1>11, <1>14 DEF PutsAtEnd

\* What try_pop writes, and where.
Popped(o, mem, mem2, cl) ==
  /\ \A a \in Address :
       a # ElementAt(o, o.tail_) /\ (cl = "AtomicQueueB2" => a # StateAt(o, o.tail_)) =>
         mem2[a] = mem[a]
  /\ mem2[ElementAt(o, o.tail_)] \in {mem[ElementAt(o, o.tail_)], Blank}
  /\ cl = "AtomicQueueB" => mem2[ElementAt(o, o.tail_)] = Blank
  /\ cl = "AtomicQueueB2" => mem2[StateAt(o, o.tail_)] = Blank

\* What try_pop finds, and what it leaves.
HasMessage(o) == AsSigned(Sub(o.head_, o.tail_)) > 0

TakesFront(o, o2, mem, mem2, cl) ==
  /\ RingObject(o2, cl)
  /\ ReadyIn(o, mem, cl) => ReadyIn(o2, mem2, cl)
  /\ ContentsIn(o, mem) # << >>
  /\ ContentsIn(o2, mem2) = Tail(ContentsIn(o, mem))

\* A pop takes the message at the front and makes its slot ready for the push
\* that comes one round later.
LEMMA PopTakesFront ==
  ASSUME SizesDivide, NEW o, NEW cl \in Classes, RingObject(o, cl),
         HasMessage(o),
         NEW o2, o2 = [o EXCEPT !.tail_ = Add(@, 1)],
         NEW mem \in [Address -> Int], NEW mem2 \in [Address -> Int],
         Popped(o, mem, mem2, cl)
  PROVE  TakesFront(o, o2, mem, mem2, cl)
<1>1. /\ o.head_ \in Word /\ o.tail_ \in Word /\ o.size_ \in Nat \ {0}
      /\ o.size_ \in Word
      /\ Sub(o.head_, o.tail_) \in 0 .. o.size_ /\ Sub(o.head_, o.tail_) \in Nat
  BY RingNumbers
<1>2. /\ o2 \in ObjectType /\ Sound(o2)
      /\ Sub(o2.head_, o2.tail_) = Sub(o.head_, o.tail_) - 1
      /\ Sub(o.head_, o.tail_) > 0
  BY PoppedSound DEF RingObject, HasMessage
<1>3. /\ o2.head_ = o.head_ /\ o2.tail_ = Add(o.tail_, 1) /\ o2.size_ = o.size_
      /\ o2.elements_ = o.elements_ /\ o2.states_ = o.states_
  BY DEF RingObject, ObjectType
<1>4. PICK u : u = Sub(o.head_, o.tail_)
  OBVIOUS
<1>5. u \in Nat \ {0} /\ u \in 1 .. o.size_ /\ Sub(o2.head_, o2.tail_) = u - 1
  BY <1>1, <1>2, <1>4
<1>6. ASSUME NEW k \in 0 .. o.size_ - 1 PROVE Add(o2.tail_, k) = Add(o.tail_, k + 1)
  <2>1. k \in Word
    BY <1>1, ModulusAssumption DEF Word
  <2> QED
    BY <1>1, <1>3, <2>1, AddOne
<1>7. RingObject(o2, cl)
  BY <1>1, <1>2, <1>3, <1>5 DEF RingObject
<1>8. (\A k \in Nat : Add(o.tail_, k) \in Word) /\ Add(o.tail_, 0) = o.tail_
  <2>1. PICK t \in Word : t = o.tail_
    BY <1>1
  <2>2. Add(t, 0) = t
    BY ONLY t \in Word, SubZero, AddSub
  <2>3. \A k \in Nat : Add(t, k) \in Word
    BY WordArithmetic
  <2> QED
    BY <2>1, <2>2, <2>3
<1>9. \A i : ElementAt(o2, i) = ElementAt(o, i) /\ StateAt(o2, i) = StateAt(o, i)
  BY <1>3 DEF ElementAt, StateAt, SlotIn
<1>10. ASSUME NEW k \in 1 .. o.size_ - 1
       PROVE  mem2[ElementAt(o, Add(o.tail_, k))] = mem[ElementAt(o, Add(o.tail_, k))]
  <2>1. k \in 0 .. o.size_ - 1 /\ 0 \in 0 .. o.size_ - 1 /\ k # 0 /\ k \in Nat
    BY <1>1
  <2>2. ElementAt(o, Add(o.tail_, k)) # ElementAt(o, o.tail_)
    BY <1>1, <1>8, <2>1, PlacesApart
  <2>3. /\ ElementAt(o, Add(o.tail_, k)) \in Address
        /\ cl = "AtomicQueueB2" => ElementAt(o, Add(o.tail_, k)) # StateAt(o, o.tail_)
    BY <1>1, <1>8, <2>1, Places
  <2> QED
    BY <2>2, <2>3 DEF Popped
<1>11. ASSUME ReadyIn(o, mem, cl) PROVE ReadyIn(o2, mem2, cl)
  <2>1. ASSUME NEW k \in u - 1 .. o.size_ - 1
        PROVE  FreeAt(o, Add(o.tail_, k + 1), mem2, cl)
    <3>1. k \in Nat /\ k + 1 \in Nat /\ Add(o.tail_, k + 1) \in Word
      BY <1>1, <1>5, <1>8
    <3>2. \A a \in Address : mem[a] = Blank => mem2[a] = Blank
      <4>1. PICK e, s : e = ElementAt(o, o.tail_) /\ s = StateAt(o, o.tail_)
        OBVIOUS
      <4> QED
        BY ONLY <4>1, Popped(o, mem, mem2, cl) DEF Popped
    <3>3. /\ ElementAt(o, Add(o.tail_, k + 1)) \in Address
          /\ cl = "AtomicQueueB2" => StateAt(o, Add(o.tail_, k + 1)) \in Address
      BY <3>1, Places
    <3>4. CASE k + 1 <= o.size_ - 1
      <4>1. k + 1 \in u .. o.size_ - 1
        BY <1>1, <1>5, <3>4
      <4>2. FreeAt(o, Add(o.tail_, k + 1), mem, cl)
        BY <1>4, <1>11, <4>1 DEF ReadyIn
      <4> QED
        BY <3>2, <3>3, <4>2 DEF FreeAt
    <3>5. CASE k + 1 = o.size_
      <4>1. SlotIn(o, Add(o.tail_, k + 1)) = SlotIn(o, o.tail_)
        BY <1>1, <3>5, SizesServe DEF RingSlots, SlotOfRing, SlotIn, RingObject
      <4> QED
        BY <4>1 DEF FreeAt, Popped, ElementAt, StateAt
    <3> QED
      BY <1>1, <1>5, <3>4, <3>5
  <2>2. \A k \in u - 1 .. o.size_ - 1 : k \in 0 .. o.size_ - 1
    BY <1>1, <1>5
  <2>3. \A k \in u - 1 .. o.size_ - 1 : FreeAt(o2, Add(o2.tail_, k), mem2, cl)
    BY <1>6, <1>9, <2>1, <2>2 DEF FreeAt
  <2> QED
    BY <1>3, <1>5, <2>3 DEF ReadyIn
<1>12. \A k \in 1 .. u - 1 : ContentsIn(o2, mem2)[k] = ContentsIn(o, mem)[k + 1]
  <2>1. \A k \in 1 .. u - 1 : /\ k \in 1 .. o.size_ - 1 /\ k - 1 \in 0 .. o.size_ - 1
                              /\ (k - 1) + 1 = k
                              /\ k + 1 \in 1 .. u /\ (k + 1) - 1 = k
    BY <1>1, <1>5
  <2>2. /\ \A k \in 1 .. u - 1 : ContentsIn(o2, mem2)[k] = mem2[ElementAt(o, Add(o2.tail_, k - 1))]
        /\ \A k \in 1 .. u : ContentsIn(o, mem)[k] = mem[ElementAt(o, Add(o.tail_, k - 1))]
    BY <1>3, <1>4, <1>5, <1>9 DEF ContentsIn
  <2>3. ASSUME NEW k \in 1 .. u - 1
        PROVE  ContentsIn(o2, mem2)[k] = ContentsIn(o, mem)[k + 1]
    <3>1. Add(o2.tail_, k - 1) = Add(o.tail_, k)
      BY <1>6, <2>1
    <3>2. ContentsIn(o, mem)[k + 1] = mem[ElementAt(o, Add(o.tail_, k))]
      BY <2>1, <2>2
    <3> QED
      BY <1>10, <2>1, <2>2, <3>1, <3>2
  <2> QED
    BY <2>3
<1>13. /\ ContentsIn(o, mem) \in [1 .. u -> Int]
       /\ ContentsIn(o2, mem2) \in [1 .. u - 1 -> Int]
  <2>1. /\ \A k \in 1 .. u : k - 1 \in Nat
        /\ \A k \in 1 .. u - 1 : k - 1 \in Nat
    BY <1>5
  <2>2. o2.tail_ \in Word
    BY <1>7, RingNumbers
  <2>3. /\ \A k \in 1 .. u : ElementAt(o, Add(o.tail_, k - 1)) \in Address
        /\ \A k \in 1 .. u - 1 : ElementAt(o, Add(o2.tail_, k - 1)) \in Address
    BY <1>8, <2>1, <2>2, WordArithmetic, Places
  <2> QED
    BY <1>3, <1>4, <1>5, <1>9, <2>3 DEF ContentsIn
<1>14. ContentsIn(o, mem) # << >> /\ ContentsIn(o2, mem2) = Tail(ContentsIn(o, mem))
  <2>1. PICK before, after : before = ContentsIn(o, mem) /\ after = ContentsIn(o2, mem2)
    OBVIOUS
  <2>2. before # << >> /\ after = Tail(before)
    BY ONLY <1>5, <1>12, <1>13, <2>1, IsTail
  <2> QED
    BY <2>1, <2>2
<1> QED
  BY <1>7, <1>11, <1>14 DEF TakesFront

-----------------------------------------------------------------------------
(* The queues side by side.                                                *)
\* HugePages: an object ends before the next one starts.
Ordered ==
  program = "scopes" =>
    \A j, k \in DOMAIN scope : j < k => EndOf(scope[j]) <= self[scope[k]]

\* Each queue is a ring of its own cells, and those without messages are ready.
QueuesInv ==
  /\ \A q \in holding : RingObject(obj[q], class) /\ ReadyIn(obj[q], memory, class)
  /\ \A q, r \in holding : q # r => OwnedCells(obj[q]) \cap OwnedCells(obj[r]) = {}

ObjectsInv ==
  /\ class \in Classes
  /\ program \in {"values", "scopes"}
  /\ pushes \in Nat
  /\ memory \in [Address -> Int]
  /\ QueuesInv
  /\ Ordered

HeapInv == ShapeInv /\ OwnersInv /\ StackInv

\* The cells of a queue, and where they are.
LEMMA OwnedCellsAre ==
  ASSUME NEW o, NEW cl, RingObject(o, cl)
  PROVE  /\ OwnedCells(o) \subseteq Address
         /\ \A x : x \in OwnedCells(o) <=>
                   \/ x \in Cells(o.elements_, o.size_)
                   \/ o.states_ # Null /\ x \in Cells(o.states_, o.size_)
<1>1. /\ o.size_ \in Nat \ {0} /\ o.elements_ \in Nat
      /\ o.states_ # Null => o.states_ \in Nat
  BY RingNumbers
<1>2. /\ o.elements_ # Null /\ o.elements_ + o.size_ <= Total
      /\ o.states_ # Null => o.states_ + o.size_ <= Total
  BY DEF RingObject
<1>3. \A p : p \in Arrays(o) <=> p = o.elements_ \/ (p = o.states_ /\ o.states_ # Null)
  BY <1>2 DEF Arrays
<1>4. \A x : x \in OwnedCells(o) <=> \E p \in Arrays(o) : x \in Cells(p, o.size_)
  BY DEF OwnedCells
<1>5. \A x : x \in OwnedCells(o) <=>
               \/ x \in Cells(o.elements_, o.size_)
               \/ o.states_ # Null /\ x \in Cells(o.states_, o.size_)
  <2>1. o.elements_ \in Arrays(o) /\ (o.states_ # Null => o.states_ \in Arrays(o))
    BY <1>3
  <2>2. ASSUME NEW x
        PROVE  x \in OwnedCells(o) <=>
                 \/ x \in Cells(o.elements_, o.size_)
                 \/ o.states_ # Null /\ x \in Cells(o.states_, o.size_)
    BY <1>3, <1>4, <2>1
  <2> QED
    BY <2>2
<1>6. Cells(o.elements_, o.size_) \subseteq Address
  BY <1>1, <1>2, TotalAssumption DEF Cells, Address
<1>7. o.states_ # Null => Cells(o.states_, o.size_) \subseteq Address
  BY <1>1, <1>2, TotalAssumption DEF Cells, Address
<1> QED
  BY <1>5, <1>6, <1>7

\* No block that is in use has one of so many cells from an address on.
FreeFrom(h, at, n) == \A b \in h.live : Cells(at, n) \cap Cells(b.at, b.count) = {}

\* Such cells belong to none of the queues the heap has blocks of.
LEMMA OwnedElsewhere ==
  ASSUME NEW h, NEW o, NEW r, Owned(r) \subseteq h.live,
         \A p \in Arrays(o) : FreeFrom(h, p, o.size_)
  PROVE  OwnedCells(o) \cap OwnedCells(r) = {}
<1> SUFFICES ASSUME NEW x \in OwnedCells(o), x \in OwnedCells(r) PROVE FALSE
  OBVIOUS
<1>1. PICK p \in Arrays(o) : x \in Cells(p, o.size_)
  BY DEF OwnedCells
<1>2. PICK t \in Arrays(r) : x \in Cells(t, r.size_)
  BY DEF OwnedCells
<1>3. PICK b : b = Block(t, r.size_, r.allocator)
  OBVIOUS
<1>4. b \in h.live /\ b.at = t /\ b.count = r.size_
  BY <1>2, <1>3 DEF Owned, Block
<1> QED
  BY <1>1, <1>2, <1>4 DEF FreeFrom

\* A queue made at these addresses.
MadeAt(o, cl) ==
  /\ RingObject(o, cl)
  /\ o.head_ = o.tail_
  /\ memory' = Filled(o)

\* A queue made with a standard allocator has cells that nobody has.
LEMMA MadeApart ==
  ASSUME ShapeInv, class \in Classes,
         NEW q \in Objects, NEW n \in Sizes, NEW a \in Allocators, Construct(q, n, a)
  PROVE  \E o : /\ obj' = [obj EXCEPT ![q] = o]
               /\ MadeAt(o, class)
               /\ \A p \in Arrays(o) : FreeFrom(heap, p, o.size_)
<1>1. PICK h : h = heap
  OBVIOUS
<1>2. HeapTyped(h) /\ n \in Word \ {0} /\ n \in Nat \ {0} /\ a \in Owner /\ a # Huge
  BY <1>1, SizesArePositive, HugeAssumption DEF ShapeInv, Owner
<1>3. PICK e1 : e1 = Place(h, n, a)
  OBVIOUS
<1>4. /\ e1 \in Nat /\ FreeFrom(h, e1, n)
  BY <1>2, <1>3, PlaceIsFree DEF FreeFrom
<1>5. e1 + n <= Total
  BY <1>1, <1>2, <1>3 DEF Construct, Around, Fits
<1>6. PICK h2 : h2 = Allocated(h, n, a)
  OBVIOUS
<1>7. /\ HeapTyped(h2) /\ h2.live = h.live \cup {Block(e1, n, a)}
  <2>1. InMemory(Place(h, n, a), n)
    BY <1>3, <1>4, <1>5 DEF InMemory
  <2>2. Takes(h, Allocated(h, n, a), Place(h, n, a), n, a)
    BY <1>2, <2>1, AllocatedIs
  <2> QED
    BY <1>3, <1>6, <2>2 DEF Takes
<1>8. PICK e2 : e2 = Place(h2, n, a)
  OBVIOUS
<1>9. /\ e2 \in Nat /\ FreeFrom(h2, e2, n)
  BY <1>2, <1>7, <1>8, PlaceIsFree DEF FreeFrom
<1>10. FreeFrom(h, e2, n) /\ Cells(e2, n) \cap Cells(e1, n) = {}
  <2>1. PICK b : b = Block(e1, n, a)
    OBVIOUS
  <2>2. b.at = e1 /\ b.count = n /\ b \in h2.live
    BY <1>7, <2>1 DEF Block
  <2> QED
    BY <1>7, <1>9, <2>2 DEF FreeFrom
<1>11. e1 # Null /\ e2 # Null /\ Null \in Int
  BY <1>4, <1>9 DEF Null
<1>12. CASE class # "AtomicQueueB2"
  <2>1. PICK o : o = NewObject(n, a, Null, e1)
    OBVIOUS
  <2>2. obj' = [obj EXCEPT ![q] = o] /\ memory' = Filled(o)
    BY <1>1, <1>2, <1>3, <1>12, <2>1 DEF Construct, Around, NewObject
  <2>3. o \in ObjectType /\ Sound(o)
    BY <1>2, <1>4, <1>11, <2>1, NewObjectIs
  <2>4. /\ o.head_ = 0 /\ o.tail_ = 0 /\ o.size_ = n /\ o.states_ = Null /\ o.elements_ = e1
    BY <2>1 DEF NewObject
  <2>5. Sub(o.head_, o.tail_) = 0
    BY <2>4, WordNat, SubZero
  <2>6. RingObject(o, class)
    BY <1>2, <1>5, <1>11, <1>12, <2>3, <2>4, <2>5 DEF RingObject
  <2>7. \A p \in Arrays(o) : p = e1
    BY <2>4 DEF Arrays
  <2> QED
    BY <1>1, <1>4, <2>2, <2>4, <2>6, <2>7 DEF MadeAt
<1>13. CASE class = "AtomicQueueB2"
  <2>1. PICK o : o = NewObject(n, a, e1, e2)
    OBVIOUS
  <2>2. obj' = [obj EXCEPT ![q] = o] /\ memory' = Filled(o) /\ e2 + n <= Total
    BY <1>1, <1>2, <1>3, <1>6, <1>8, <1>13, <2>1 DEF Construct, Around, NewObject, Fits
  <2>3. e1 # e2
    <3>1. e1 \in Cells(e1, n)
      BY <1>2, <1>4 DEF Cells
    <3> QED
      BY <1>10, <3>1
  <2>4. o \in ObjectType /\ Sound(o)
    BY <1>2, <1>4, <1>9, <2>1, <2>3, NewObjectIs
  <2>5. /\ o.head_ = 0 /\ o.tail_ = 0 /\ o.size_ = n /\ o.states_ = e1 /\ o.elements_ = e2
    BY <2>1 DEF NewObject
  <2>6. Sub(o.head_, o.tail_) = 0
    BY <2>5, WordNat, SubZero
  <2>7. RingObject(o, class)
    BY <1>2, <1>5, <1>10, <1>11, <1>13, <2>2, <2>4, <2>5, <2>6 DEF RingObject
  <2>8. \A p \in Arrays(o) : p = e1 \/ p = e2
    BY <2>5 DEF Arrays
  <2> QED
    BY <1>1, <1>4, <1>10, <2>2, <2>5, <2>7, <2>8 DEF MadeAt
<1> QED
  BY <1>12, <1>13

\* One made in HugePages has cells above what is in use.
LEMMA MadeOnTop ==
  ASSUME ShapeInv, class \in Classes,
         NEW q \in Objects, NEW n \in Sizes, Construct(q, n, Huge)
  PROVE  \E o : /\ obj' = [obj EXCEPT ![q] = o]
               /\ MadeAt(o, class)
               /\ \A p \in Arrays(o) : p \in Nat /\ p >= heap.cur
<1>1. PICK s \in Int, e \in Nat :
        /\ (s = Null /\ e = heap.cur + 1) \/ (s = heap.cur + 1 /\ e = s + n)
        /\ obj' = [obj EXCEPT ![q] = NewObject(n, Huge, s, e)]
        /\ heap'.cur = e + n /\ heap'.cur <= heap.end
  BY MadeOfPages
<1>2. PICK o : o = NewObject(n, Huge, s, e)
  OBVIOUS
<1>3. n \in Word \ {0} /\ n \in Nat \ {0} /\ Huge \in Owner
      /\ heap.cur \in Nat /\ heap.end \in Nat /\ heap.end <= Total
  BY SizesArePositive DEF ShapeInv, Owner, HeapTyped
<1>4. s # Null => s \in Nat /\ s # e
  BY <1>1, <1>3
<1>5. o \in ObjectType /\ Sound(o)
  BY <1>2, <1>3, <1>4, NewObjectIs
<1>6. o.head_ = 0 /\ o.tail_ = 0 /\ o.size_ = n /\ o.states_ = s /\ o.elements_ = e
  BY <1>2 DEF NewObject
<1>7. Sub(o.head_, o.tail_) = 0
  BY <1>6, WordNat, SubZero
<1>8. PICK first : first = Allocated(heap, 1, Huge)
  OBVIOUS
<1>9. Place(first, n, Huge) = heap.cur + 1
  BY <1>8 DEF Place, Allocated, ShapeInv, HeapTyped
<1>10. obj'[q] = o
  BY <1>1, <1>2 DEF ShapeInv
<1>11. /\ s = IF class = "AtomicQueueB2" THEN heap.cur + 1 ELSE Null
       /\ memory' = Filled(o)
  BY <1>6, <1>8, <1>9, <1>10 DEF Construct, Around, ShapeInv
<1>12. class = "AtomicQueueB2" <=> s # Null
  BY <1>3, <1>11 DEF Null
<1>13. ASSUME s # Null
       PROVE  /\ s + n <= Total
              /\ Cells(s, n) \cap Cells(e, n) = {}
  <2>1. s \in Nat /\ e = s + n /\ e \in Nat
    BY <1>1, <1>4, <1>13
  <2>2. e + n <= Total
    BY <1>1, <1>3, TotalAssumption
  <2>3. \A x \in Cells(s, n) : x \notin Cells(e, n)
    BY <1>3, <2>1 DEF Cells
  <2> QED
    BY <1>3, <2>1, <2>2, <2>3, TotalAssumption
<1>14. RingObject(o, class)
  <2>1. e # Null /\ e + n <= Total /\ 0 <= n
    BY <1>1, <1>3, TotalAssumption DEF Null
  <2> QED
    BY <1>5, <1>6, <1>7, <1>12, <1>13, <2>1 DEF RingObject
<1>15. \A p \in Arrays(o) : p \in Nat /\ p >= heap.cur
  BY <1>1, <1>3, <1>4, <1>6 DEF Arrays
<1> QED
  BY <1>1, <1>2, <1>6, <1>11, <1>14, <1>15 DEF MadeAt

\* All objects in HugePages lie below cur.
LEMMA ObjectsBelow ==
  ASSUME ShapeInv, StackInv, Ordered, program = "scopes"
  PROVE  /\ \A k \in DOMAIN scope : EndOf(scope[k]) <= heap.cur
         /\ heap.cur \in Nat
<1>1. /\ Len(scope) \in Nat /\ DOMAIN scope = 1 .. Len(scope)
      /\ \A k \in DOMAIN scope : scope[k] \in Objects /\ scope[k] \in alive
  BY DEF ShapeInv, Scoped, alive
<1>2. heap.cur = StartOf(Len(scope) + 1) /\ heap.cur \in Nat
  BY DEF StackInv, ShapeInv, HeapTyped
<1>3. \A k \in DOMAIN scope :
        /\ OnPages(scope[k]) /\ self[scope[k]] \in Nat
        /\ obj[scope[k]].elements_ \in Nat /\ obj[scope[k]].size_ \in Nat \ {0}
  BY <1>1 DEF StackInv, ShapeInv, OnPages, Sound
<1>4. \A k \in DOMAIN scope : EndOf(scope[k]) \in Nat /\ self[scope[k]] <= EndOf(scope[k])
  <2> SUFFICES ASSUME NEW k \in DOMAIN scope
               PROVE  EndOf(scope[k]) \in Nat /\ self[scope[k]] <= EndOf(scope[k])
    OBVIOUS
  <2>1. PICK o : o = obj[scope[k]]
    OBVIOUS
  <2>2. PICK at : at = self[scope[k]]
    OBVIOUS
  <2>3. /\ at \in Nat /\ o.elements_ \in Nat /\ o.size_ \in Nat \ {0}
        /\ \/ o.states_ = Null /\ o.elements_ = at + 1
           \/ o.states_ = at + 1 /\ o.elements_ = o.states_ + o.size_
    BY <1>3, <2>1, <2>2 DEF OnPages
  <2> QED
    BY <2>1, <2>2, <2>3 DEF EndOf
<1>5. ASSUME NEW k \in DOMAIN scope PROVE EndOf(scope[k]) <= heap.cur
  <2>1. PICK top : top = Len(scope)
    OBVIOUS
  <2>2. top \in DOMAIN scope /\ top + 1 # 1 /\ (top + 1) - 1 = top
    BY <1>1, <2>1
  <2>3. heap.cur = EndOf(scope[top])
    BY <1>2, <2>1, <2>2 DEF StartOf
  <2>4. CASE k = top
    BY <1>2, <2>3, <2>4
  <2>5. CASE k < top
    <3>1. EndOf(scope[k]) <= self[scope[top]]
      BY <2>2, <2>5 DEF Ordered
    <3> QED
      BY <1>3, <1>4, <2>2, <2>3, <3>1
  <2> QED
    BY <1>1, <2>1, <2>4, <2>5
<1> QED
  BY <1>2, <1>5

\* What is left of the objects in HugePages, and one put on top, stay in order.
LEMMA OrderedStep == ShapeInv /\ StackInv /\ Ordered /\ [Next]_vars => Ordered'
<1> SUFFICES ASSUME ShapeInv, StackInv, Ordered, [Next]_vars, program' = "scopes"
             PROVE  Ordered'
  BY DEF Ordered
<1>0. program = "scopes"
  BY NextKeeps
<1>1. /\ Scoped /\ obj \in [Objects -> ObjectType] /\ self \in [Objects -> Int]
      /\ Len(scope) \in Nat /\ DOMAIN scope = 1 .. Len(scope)
      /\ \A k \in DOMAIN scope : scope[k] \in Objects
  BY DEF ShapeInv, Scoped
<1>2. \A j, k \in DOMAIN scope : j < k => EndOf(scope[j]) <= self[scope[k]]
  BY <1>0 DEF Ordered
<1>3. ASSUME UNCHANGED <<scope, self>>,
             \A r \in Objects : /\ obj'[r].elements_ = obj[r].elements_
                                /\ obj'[r].size_ = obj[r].size_
      PROVE  Ordered'
  <2>1. \A k \in DOMAIN scope : EndOf(scope[k])' = EndOf(scope[k])
    BY <1>1, <1>3 DEF EndOf
  <2> QED
    BY <1>2, <1>3, <2>1 DEF Ordered
<1>4. ASSUME NEW q \in Objects, NEW n \in Sizes, NEW a \in Owner, Construct(q, n, a)
      PROVE  Ordered'
  <2>1. q \notin alive /\ scope' = Append(scope, q) /\ a = Huge
    BY <1>0, <1>4 DEF Construct
  <2>2. self' = [self EXCEPT ![q] = heap.cur] /\ \E o : obj' = [obj EXCEPT ![q] = o]
    BY <1>4, <2>1 DEF Construct
  <2>3. /\ Scoped' /\ Len(scope') = Len(scope) + 1 /\ Last(scope') = q
        /\ \A k \in 1 .. Len(scope) : scope'[k] = scope[k]
    BY <1>1, <2>1, ScopeEntered
  <2>4. PICK top : top = Len(scope) + 1
    OBVIOUS
  <2>5. DOMAIN scope' = 1 .. top /\ scope'[top] = q
    BY <2>3, <2>4 DEF Scoped, Last
  <2>6. \A k \in 1 .. Len(scope) : k \in DOMAIN scope /\ scope[k] # q /\ scope[k] \in Objects
    BY <1>1, <2>1 DEF alive
  <2>7. \A r \in Objects \ {q} : obj'[r] = obj[r] /\ self'[r] = self[r]
    BY <1>1, <2>2
  <2>8. \A k \in 1 .. Len(scope) : /\ EndOf(scope[k])' = EndOf(scope[k])
                                   /\ self'[scope'[k]] = self[scope[k]]
    BY <2>3, <2>6, <2>7 DEF EndOf
  <2>9. self'[q] = heap.cur /\ \A k \in DOMAIN scope : EndOf(scope[k]) <= heap.cur
    BY <1>0, <1>1, <2>2, ObjectsBelow
  <2>10. ASSUME NEW j \in DOMAIN scope', NEW k \in DOMAIN scope', j < k
         PROVE  EndOf(scope[j])' <= self'[scope'[k]]
    <3>1. j \in 1 .. Len(scope) /\ (k \in 1 .. Len(scope) \/ k = top)
      BY <1>1, <2>4, <2>5, <2>10
    <3>2. CASE k \in 1 .. Len(scope)
      BY <1>2, <2>6, <2>8, <2>10, <3>1, <3>2
    <3>3. CASE k = top
      BY <2>5, <2>6, <2>8, <2>9, <3>1, <3>3
    <3> QED
      BY <3>1, <3>2, <3>3
  <2> QED
    BY <2>10 DEF Ordered
<1>5. ASSUME NEW q \in Objects, Destroy(q) PROVE Ordered'
  <2>1. PICK l \in DOMAIN scope : scope[l] = q /\ scope' = RemoveAt(scope, l) /\ q = Last(scope)
    BY <1>0, <1>5 DEF Destroy
  <2>2. l = Len(scope)
    BY <1>1, <2>1 DEF Scoped, Last
  <2>3. /\ Scoped' /\ Len(scope') = Len(scope) - 1
        /\ \A j \in 1 .. Len(scope) - 1 :
             scope'[j] = IF j < l THEN scope[j] ELSE scope[j + 1]
    BY <1>1, <2>1, ScopeLeft
  <2>4. DOMAIN scope' = 1 .. l - 1
    BY <2>2, <2>3 DEF Scoped
  <2>5. /\ self' = [self EXCEPT ![q] = Null] /\ obj' = [obj EXCEPT ![q] = NoObject]
    BY <1>5 DEF Destroy
  <2>6. \A k \in 1 .. l - 1 : /\ k \in DOMAIN scope /\ scope'[k] = scope[k]
                              /\ scope[k] \in Objects \ {q}
    <3> SUFFICES ASSUME NEW k \in 1 .. l - 1
                 PROVE  /\ k \in DOMAIN scope /\ scope'[k] = scope[k]
                        /\ scope[k] \in Objects \ {q}
      OBVIOUS
    <3>1. k \in DOMAIN scope /\ k < l /\ k \in 1 .. Len(scope) - 1 /\ k # l
      <4>1. PICK len \in Nat : len = Len(scope)
        BY <1>1
      <4>2. k \in 1 .. len - 1 /\ DOMAIN scope = 1 .. len
        BY <1>1, <2>2, <4>1
      <4> QED
        BY <2>2, <4>1, <4>2
    <3>2. scope'[k] = scope[k]
      BY <2>3, <3>1
    <3>3. scope[k] # q
      BY <1>1, <2>1, <3>1 DEF Scoped
    <3> QED
      BY <1>1, <3>1, <3>2, <3>3
  <2>7. \A r \in Objects \ {q} : obj'[r] = obj[r] /\ self'[r] = self[r]
    BY <1>1, <2>5
  <2>8. \A k \in 1 .. l - 1 : /\ EndOf(scope[k])' = EndOf(scope[k])
                              /\ self'[scope'[k]] = self[scope[k]]
    BY <2>6, <2>7 DEF EndOf
  <2> QED
    BY <1>2, <2>4, <2>6, <2>8 DEF Ordered
<1>6. ASSUME NEW q \in Objects, TryPush(q) \/ TryPop(q) PROVE Ordered'
  <2>1. /\ UNCHANGED <<scope, self>>
        /\ \/ obj' = [obj EXCEPT ![q].head_ = Add(@, 1)]
           \/ obj' = [obj EXCEPT ![q].tail_ = Add(@, 1)]
    BY <1>6 DEF TryPush, TryPop
  <2> QED
    <3>1. PICK o \in ObjectType : o = obj[q]
      BY <1>1
    <3>2. \E o2 : /\ obj' = [obj EXCEPT ![q] = o2]
                 /\ o2.elements_ = o.elements_ /\ o2.size_ = o.size_
      <4>1. PICK o2 : o2 = [o EXCEPT !.head_ = Add(@, 1)]
        OBVIOUS
      <4>2. PICK o3 : o3 = [o EXCEPT !.tail_ = Add(@, 1)]
        OBVIOUS
      <4>3. /\ o2.elements_ = o.elements_ /\ o2.size_ = o.size_
            /\ o3.elements_ = o.elements_ /\ o3.size_ = o.size_
        BY <4>1, <4>2 DEF ObjectType
      <4>4. obj' = [obj EXCEPT ![q] = o2] \/ obj' = [obj EXCEPT ![q] = o3]
        BY <2>1, <3>1, <4>1, <4>2
      <4> QED
        BY <4>3, <4>4
    <3>3. \A r \in Objects : /\ obj'[r].elements_ = obj[r].elements_
                             /\ obj'[r].size_ = obj[r].size_
      BY <1>1, <3>1, <3>2
    <3> QED
      BY <1>3, <2>1, <3>3
<1>7. CASE Map \/ UNCHANGED vars
  BY <1>3, <1>7 DEF Map, vars
<1> QED
  BY <1>0, <1>4, <1>5, <1>6, <1>7
     DEF Next, Owner, ConstructThrows, MoveConstruct, Swap

-----------------------------------------------------------------------------
(* Each member function, as a step of values.                              *)
\* The contents of all objects, now and after a step.
LEMMA ContentsAre ==
  /\ contents = [q \in Objects |->
       IF q \in holding THEN ContentsIn(obj[q], memory) ELSE << >>]
  /\ contents' = [q \in Objects |->
       IF q \in holding' THEN ContentsIn(obj'[q], memory') ELSE << >>]
<1>1. \A o : DOMAIN InTransit(o) = 1 .. Sub(o.head_, o.tail_)
  BY DEF InTransit
<1>2. \A o : \A k \in 1 .. Sub(o.head_, o.tail_) : InTransit(o)[k] = Add(o.tail_, k - 1)
  BY DEF InTransit
<1>3. ASSUME NEW o, NEW mem
      PROVE  [k \in DOMAIN InTransit(o) |-> mem[ElementAt(o, InTransit(o)[k])]]
               = ContentsIn(o, mem)
  BY <1>1, <1>2 DEF ContentsIn
<1> QED
  BY <1>3 DEF contents

\* t has the messages and the free slots that u had.
Same(t, u) ==
  /\ RingObject(obj'[t], class') /\ ReadyIn(obj'[t], memory', class')
  /\ ContentsIn(obj'[t], memory') = ContentsIn(obj[u], memory)
  /\ OwnedCells(obj'[t]) = OwnedCells(obj[u])

\* An object that takes over another's members, or keeps its own, has its
\* messages and its free slots as long as nobody writes to its cells.
LEMMA SameQueue ==
  ASSUME SizesDivide, ObjectsInv, class' = class, NEW t, NEW u \in holding,
         obj'[t] = obj[u], \A a \in OwnedCells(obj[u]) : memory'[a] = memory[a]
  PROVE  Same(t, u)
<1>1. PICK o : o = obj[u]
  OBVIOUS
<1>2. RingObject(o, class) /\ ReadyIn(o, memory, class) /\ class \in Classes
  BY <1>1 DEF ObjectsInv, QueuesInv
<1>3. PICK mem2 : mem2 = memory'
  OBVIOUS
<1>4. \A a \in OwnedCells(o) : mem2[a] = memory[a]
  BY <1>1, <1>3
<1>5. /\ ReadyIn(o, mem2, class) <=> ReadyIn(o, memory, class)
      /\ ContentsIn(o, mem2) = ContentsIn(o, memory)
  BY <1>2, <1>4, Unwritten
<1> QED
  BY <1>1, <1>2, <1>3, <1>5 DEF Same

\* A constructor's cells are nobody else's.
LEMMA MadeElsewhere ==
  ASSUME HeapInv, ObjectsInv, NEW q \in Objects, NEW n \in Sizes, NEW a \in Owner,
         Construct(q, n, a)
  PROVE  \E o : /\ obj' = [obj EXCEPT ![q] = o]
               /\ MadeAt(o, class)
               /\ \A r \in holding : OwnedCells(o) \cap OwnedCells(obj[r]) = {}
<1>1. (a = Huge) = (program = "scopes") /\ program \in {"values", "scopes"}
  BY DEF Construct, ObjectsInv
<1>2. class \in Classes /\ \A r \in holding : RingObject(obj[r], class)
  BY DEF ObjectsInv, QueuesInv
<1>3. CASE a \in Allocators
  <2>1. PICK o : /\ obj' = [obj EXCEPT ![q] = o]
                 /\ MadeAt(o, class)
                 /\ \A p \in Arrays(o) : FreeFrom(heap, p, o.size_)
    BY <1>2, <1>3, MadeApart DEF HeapInv
  <2>2. \A r \in holding : Owned(obj[r]) \subseteq heap.live
    BY <1>1, <1>3, HugeAssumption DEF HeapInv, OwnersInv, holding
  <2>3. \A r \in holding : OwnedCells(o) \cap OwnedCells(obj[r]) = {}
    BY <2>1, <2>2, OwnedElsewhere
  <2> QED
    BY <2>1, <2>3
<1>4. CASE a = Huge
  <2>1. PICK o : /\ obj' = [obj EXCEPT ![q] = o]
                 /\ MadeAt(o, class)
                 /\ \A p \in Arrays(o) : p \in Nat /\ p >= heap.cur
    BY <1>2, <1>4, MadeOnTop DEF HeapInv
  <2>2. /\ heap.cur \in Nat
        /\ \A k \in DOMAIN scope : EndOf(scope[k]) <= heap.cur /\ OnPages(scope[k])
    BY <1>1, <1>4, ObjectsBelow DEF HeapInv, ObjectsInv, StackInv
  <2>3. \A r \in holding : EndOf(r) <= heap.cur /\ OnPages(r)
    BY <2>2 DEF holding, alive
  <2>4. \A x \in OwnedCells(o) : x \in Nat /\ x >= heap.cur
    <3> SUFFICES ASSUME NEW x \in OwnedCells(o) PROVE x \in Nat /\ x >= heap.cur
      OBVIOUS
    <3>1. PICK p \in Arrays(o) : x \in Cells(p, o.size_)
      BY DEF OwnedCells
    <3>2. o.size_ \in Nat
      BY <2>1, RingNumbers DEF MadeAt
    <3> QED
      BY <2>1, <2>2, <3>1, <3>2 DEF Cells
  <2>5. ASSUME NEW r \in holding, NEW x \in OwnedCells(obj[r]), x \in Nat
        PROVE  x < heap.cur
    <3>1. PICK u : u = obj[r]
      OBVIOUS
    <3>2. RingObject(u, class) /\ u.elements_ + u.size_ <= heap.cur
      BY <1>2, <2>3, <3>1 DEF EndOf
    <3>3. u.size_ \in Nat /\ u.elements_ \in Nat /\ (u.states_ # Null => u.states_ \in Nat)
      BY <3>2, RingNumbers
    <3>4. \/ x \in Cells(u.elements_, u.size_)
          \/ u.states_ # Null /\ x \in Cells(u.states_, u.size_)
      BY <2>5, <3>1, <3>2, OwnedCellsAre
    <3>5. u.states_ # Null => u.elements_ = u.states_ + u.size_
      BY <2>3, <3>1 DEF OnPages
    <3> QED
      BY <2>2, <3>2, <3>3, <3>4, <3>5 DEF Cells
  <2>6. \A r \in holding : OwnedCells(o) \cap OwnedCells(obj[r]) = {}
    <3> SUFFICES ASSUME NEW r \in holding, NEW x \in OwnedCells(o), x \in OwnedCells(obj[r])
                 PROVE  FALSE
      OBVIOUS
    <3>1. x \in Nat /\ x >= heap.cur
      BY <2>4
    <3>2. x < heap.cur
      BY <2>5, <3>1
    <3> QED
      BY <2>2, <3>1, <3>2
  <2> QED
    BY <2>1, <2>6
<1> QED
  BY <1>3, <1>4 DEF Owner

\* A new queue is empty, whatever its memory held before, and changes no other.
LEMMA CreateStep ==
  ASSUME SizesDivide, HeapInv, ObjectsInv, NEW q \in Objects, NEW n \in Sizes, NEW a \in Owner,
         Construct(q, n, a)
  PROVE  memory' \in [Address -> Int] /\ QueuesInv' /\ Values!Create(q)
<1>1. /\ q \notin alive /\ scope' = Append(scope, q) /\ UNCHANGED <<class, pushes>>
      /\ Scoped /\ obj \in [Objects -> ObjectType] /\ alive \subseteq Objects
  BY DEF Construct, HeapInv, ShapeInv, Scoped, alive
<1>2. alive' = alive \cup {q}
  BY <1>1, ScopeEntered
<1>3. PICK o : /\ obj' = [obj EXCEPT ![q] = o]
               /\ MadeAt(o, class)
               /\ \A r \in holding : OwnedCells(o) \cap OwnedCells(obj[r]) = {}
  BY MadeElsewhere
<1>4. /\ obj'[q] = o /\ o.elements_ # Null
      /\ \A r \in Objects \ {q} : obj'[r] = obj[r]
  BY <1>1, <1>3 DEF MadeAt, RingObject
<1>5. q \notin holding /\ holding' = holding \cup {q}
  BY <1>1, <1>2, <1>4 DEF holding
<1>6. /\ memory' \in [Address -> Int]
      /\ \A x \in OwnedCells(o) : memory'[x] = Blank
      /\ \A x \in Address \ OwnedCells(o) : memory'[x] = memory[x]
  <2>1. OwnedCells(o) \subseteq Address
    BY <1>3, OwnedCellsAre DEF MadeAt
  <2>2. memory \in [Address -> Int] /\ Blank \in Int
    BY DEF ObjectsInv, Blank
  <2> QED
    BY <1>3, <2>1, <2>2 DEF MadeAt, Filled
<1>7. ASSUME NEW r \in holding PROVE Same(r, r)
  <2>1. OwnedCells(obj[r]) \subseteq Address
    BY OwnedCellsAre DEF ObjectsInv, QueuesInv
  <2>2. \A x \in OwnedCells(obj[r]) : memory'[x] = memory[x]
    BY <1>3, <1>6, <2>1
  <2>3. r \in Objects \ {q}
    BY <1>1, <1>5 DEF holding
  <2> QED
    BY <1>1, <1>4, <2>2, <2>3, SameQueue
<1>8. /\ RingObject(obj'[q], class') /\ ReadyIn(obj'[q], memory', class')
      /\ ContentsIn(obj'[q], memory') = << >>
  <2>1. RingObject(o, class) /\ o.head_ = o.tail_ /\ class \in Classes
    BY <1>3 DEF MadeAt, ObjectsInv
  <2>2. ReadyIn(o, memory', class) /\ ContentsIn(o, memory') = << >>
    BY <1>6, <2>1, NewIsReady
  <2> QED
    BY <1>1, <1>4, <2>1, <2>2
<1>9. QueuesInv'
  <2>1. \A r \in holding' : RingObject(obj'[r], class') /\ ReadyIn(obj'[r], memory', class')
    BY <1>5, <1>7, <1>8 DEF Same
  <2>2. \A r \in holding : OwnedCells(obj'[r]) = OwnedCells(obj[r])
    BY <1>7 DEF Same
  <2>3. \A r, t \in holding : r # t => OwnedCells(obj[r]) \cap OwnedCells(obj[t]) = {}
    BY DEF ObjectsInv, QueuesInv
  <2>4. \A r, t \in holding' : r # t => OwnedCells(obj'[r]) \cap OwnedCells(obj'[t]) = {}
    BY <1>3, <1>4, <1>5, <2>2, <2>3
  <2> QED
    BY <2>1, <2>4 DEF QueuesInv
<1>10. contents' = contents
  <2>1. \A r \in Objects :
          (IF r \in holding' THEN ContentsIn(obj'[r], memory') ELSE << >>)
            = IF r \in holding THEN ContentsIn(obj[r], memory) ELSE << >>
    BY <1>5, <1>7, <1>8 DEF Same
  <2> QED
    BY <2>1, ContentsAre
<1> QED
  BY <1>1, <1>5, <1>6, <1>9, <1>10 DEF Values!Create

\* A destructor takes one queue away and no other queue's messages.
LEMMA DestroyStep ==
  ASSUME SizesDivide, HeapInv, ObjectsInv, NEW q \in Objects, Destroy(q)
  PROVE  memory' \in [Address -> Int] /\ QueuesInv' /\ Values!Destroy(q)
<1>1. /\ UNCHANGED <<class, pushes>> /\ Scoped /\ obj \in [Objects -> ObjectType]
      /\ obj' = [obj EXCEPT ![q] = NoObject] /\ alive \subseteq Objects
      /\ memory' = [a \in Address |-> IF a \in OwnedCells(obj[q]) THEN Junk ELSE memory[a]]
  BY DEF Destroy, HeapInv, ShapeInv, Scoped, alive
<1>2. alive' = alive \ {q}
  <2>1. PICK k \in DOMAIN scope : scope[k] = q /\ scope' = RemoveAt(scope, k)
    BY DEF Destroy
  <2> QED
    BY <1>1, <2>1, ScopeLeft
<1>3. \A r \in Objects \ {q} : obj'[r] = obj[r]
  BY <1>1
<1>4. holding' = holding \ {q} /\ holding \subseteq Objects
  BY <1>1, <1>2, <1>3 DEF holding
<1>5. memory' \in [Address -> Int] /\ \A x \in Address \ OwnedCells(obj[q]) : memory'[x] = memory[x]
  BY <1>1 DEF ObjectsInv, Junk
<1>6. \A r \in holding \ {q} : OwnedCells(obj[r]) \cap OwnedCells(obj[q]) = {}
  <2>1. CASE q \in holding
    BY <2>1 DEF ObjectsInv, QueuesInv
  <2>2. CASE q \notin holding
    <3>1. q \in alive
      BY DEF Destroy
    <3>2. obj[q].elements_ = Null /\ obj[q].states_ = Null
      BY <2>2, <3>1 DEF holding, HeapInv, ShapeInv, Sound
    <3>3. OwnedCells(obj[q]) = {}
      BY <3>2 DEF OwnedCells, Arrays
    <3> QED
      BY <3>3
  <2> QED
    BY <2>1, <2>2
<1>7. ASSUME NEW r \in holding \ {q} PROVE Same(r, r)
  <2>1. OwnedCells(obj[r]) \subseteq Address
    BY OwnedCellsAre DEF ObjectsInv, QueuesInv
  <2>2. \A x \in OwnedCells(obj[r]) : memory'[x] = memory[x]
    BY <1>5, <1>6, <2>1
  <2> QED
    BY <1>1, <1>3, <1>4, <2>2, SameQueue
<1>8. QueuesInv'
  <2>1. \A r \in holding' : RingObject(obj'[r], class') /\ ReadyIn(obj'[r], memory', class')
    BY <1>4, <1>7 DEF Same
  <2>2. \A r \in holding \ {q} : OwnedCells(obj'[r]) = OwnedCells(obj[r])
    BY <1>7 DEF Same
  <2>3. \A r, t \in holding : r # t => OwnedCells(obj[r]) \cap OwnedCells(obj[t]) = {}
    BY DEF ObjectsInv, QueuesInv
  <2>4. \A r, t \in holding' : r # t => OwnedCells(obj'[r]) \cap OwnedCells(obj'[t]) = {}
    BY <1>4, <2>2, <2>3
  <2> QED
    BY <2>1, <2>4 DEF QueuesInv
<1>9. contents' = [contents EXCEPT ![q] = << >>]
  <2>1. \A r \in Objects :
          (IF r \in holding' THEN ContentsIn(obj'[r], memory') ELSE << >>)
            = IF r = q THEN << >>
              ELSE IF r \in holding THEN ContentsIn(obj[r], memory) ELSE << >>
    BY <1>4, <1>7 DEF Same
  <2> QED
    BY <2>1, ContentsAre
<1> QED
  BY <1>1, <1>4, <1>5, <1>8, <1>9 DEF Values!Destroy

\* The object whose members t has after q and r have exchanged theirs.
Other(q, r, t) == IF t = q THEN r ELSE IF t = r THEN q ELSE t

\* Objects that exchange their members exchange what they hold: nobody writes.
LEMMA ExchangeStep ==
  ASSUME SizesDivide, ObjectsInv, NEW q \in Objects, NEW r \in Objects,
         UNCHANGED <<class, memory, pushes>>,
         holding \subseteq Objects, holding' \subseteq Objects,
         \A t \in Objects : t \in holding' <=> Other(q, r, t) \in holding,
         \A t \in holding' : obj'[t] = obj[Other(q, r, t)]
  PROVE  memory' \in [Address -> Int] /\ QueuesInv' /\ Values!Exchange(q, r)
<1>1. ASSUME NEW t \in holding' PROVE Same(t, Other(q, r, t)) /\ Other(q, r, t) \in holding
  <2>1. Other(q, r, t) \in holding /\ obj'[t] = obj[Other(q, r, t)]
    OBVIOUS
  <2>2. \A x \in OwnedCells(obj[Other(q, r, t)]) : memory'[x] = memory[x]
    OBVIOUS
  <2> QED
    BY <2>1, <2>2, SameQueue
<1>2. \A t \in Objects : Other(q, r, t) \in Objects /\ Other(q, r, Other(q, r, t)) = t
  BY DEF Other
<1>3. QueuesInv'
  <2>1. \A t \in holding' : RingObject(obj'[t], class') /\ ReadyIn(obj'[t], memory', class')
    BY <1>1 DEF Same
  <2>2. \A t \in holding' : /\ OwnedCells(obj'[t]) = OwnedCells(obj[Other(q, r, t)])
                            /\ Other(q, r, t) \in holding
    BY <1>1 DEF Same
  <2>3. \A t, u \in holding : t # u => OwnedCells(obj[t]) \cap OwnedCells(obj[u]) = {}
    BY DEF ObjectsInv, QueuesInv
  <2>4. \A t, u \in holding' : t # u => Other(q, r, t) # Other(q, r, u)
    BY <1>2
  <2>5. \A t, u \in holding' : t # u => OwnedCells(obj'[t]) \cap OwnedCells(obj'[u]) = {}
    BY <2>2, <2>3, <2>4
  <2> QED
    BY <2>1, <2>5 DEF QueuesInv
<1>4. contents' = [contents EXCEPT ![q] = contents[r], ![r] = contents[q]]
  <2>1. contents' = [t \in Objects |-> contents[Other(q, r, t)]]
    <3>1. \A t \in Objects :
            (IF t \in holding' THEN ContentsIn(obj'[t], memory') ELSE << >>)
              = IF Other(q, r, t) \in holding
                  THEN ContentsIn(obj[Other(q, r, t)], memory) ELSE << >>
      BY <1>1 DEF Same
    <3> QED
      BY <1>2, <3>1, ContentsAre
  <2>2. \A t \in Objects : contents[Other(q, r, t)]
          = [contents EXCEPT ![q] = contents[r], ![r] = contents[q]][t]
    BY ContentsAre DEF Other
  <2>3. [contents EXCEPT ![q] = contents[r], ![r] = contents[q]]
          = [t \in Objects |-> [contents EXCEPT ![q] = contents[r], ![r] = contents[q]][t]]
    BY ContentsAre
  <2> QED
    BY <2>1, <2>2, <2>3
<1>5. holding' = {IF h = q THEN r ELSE IF h = r THEN q ELSE h : h \in holding}
  <2>1. \A t \in holding' : \E h \in holding : t = Other(q, r, h)
    BY <1>2
  <2>2. \A h \in holding : Other(q, r, h) \in holding'
    BY <1>2
  <2>3. holding' = {Other(q, r, h) : h \in holding}
    BY <2>1, <2>2
  <2> QED
    BY <2>3 DEF Other
<1> QED
  BY <1>3, <1>4, <1>5 DEF Values!Exchange, ObjectsInv

\* A move constructor gives all to an object that had nothing.
LEMMA MoveStep ==
  ASSUME SizesDivide, HeapInv, ObjectsInv, NEW q \in Objects, NEW r \in Objects,
         MoveConstruct(q, r)
  PROVE  memory' \in [Address -> Int] /\ QueuesInv' /\ Values!Exchange(q, r)
<1>1. /\ q \notin alive /\ r \in alive /\ scope' = Append(scope, q)
      /\ UNCHANGED <<class, memory, pushes>>
      /\ Scoped /\ obj \in [Objects -> ObjectType] /\ alive \subseteq Objects
      /\ obj' = [obj EXCEPT ![q] = obj[r], ![r] = Moved(obj[r])]
  BY DEF MoveConstruct, HeapInv, ShapeInv, Scoped, alive
<1>2. alive' = alive \cup {q} /\ q # r
  BY <1>1, ScopeEntered
<1>3. Moved(obj[r]).elements_ = Null
  BY <1>1 DEF Moved, ObjectType
<1>4. /\ obj'[q] = obj[r] /\ obj'[r] = Moved(obj[r])
      /\ \A t \in Objects \ {q, r} : obj'[t] = obj[t]
  BY <1>1, <1>2
<1>5. holding \subseteq Objects /\ holding' \subseteq Objects
  BY <1>1, <1>2 DEF holding
<1>6. \A t \in Objects : t \in holding' <=> Other(q, r, t) \in holding
  BY <1>1, <1>2, <1>3, <1>4 DEF holding, Other
<1>7. \A t \in holding' : obj'[t] = obj[Other(q, r, t)]
  <2>1. r \notin holding'
    BY <1>3, <1>4 DEF holding
  <2> QED
    BY <1>4, <1>5, <2>1 DEF Other
<1> QED
  BY <1>1, <1>5, <1>6, <1>7, ExchangeStep

\* Two objects swap what they hold, which may be one and the same.
LEMMA SwapStep ==
  ASSUME SizesDivide, HeapInv, ObjectsInv, NEW q \in Objects, NEW r \in Objects, Swap(q, r)
  PROVE  memory' \in [Address -> Int] /\ QueuesInv' /\ Values!Exchange(q, r)
<1>1. /\ q \in alive /\ r \in alive /\ UNCHANGED <<class, memory, pushes, scope>>
      /\ obj \in [Objects -> ObjectType] /\ alive \subseteq Objects
      /\ obj' = [obj EXCEPT ![q] = obj[r], ![r] = obj[q]]
  BY DEF Swap, SwappedWith, HeapInv, ShapeInv, Scoped, alive
<1>2. alive' = alive
  BY <1>1 DEF alive
<1>3. \A t \in Objects : obj'[t] = obj[Other(q, r, t)]
  BY <1>1 DEF Other
<1>4. holding \subseteq Objects /\ holding' \subseteq Objects
  BY <1>1, <1>2 DEF holding
<1>5. \A t \in Objects : t \in holding' <=> Other(q, r, t) \in holding
  BY <1>1, <1>2, <1>3 DEF holding, Other
<1>6. \A t \in holding' : obj'[t] = obj[Other(q, r, t)]
  BY <1>3, <1>4
<1> QED
  BY <1>1, <1>4, <1>5, <1>6, ExchangeStep

\* A call on one object that writes to its own cells only is no call on another.
LEMMA WrittenInside ==
  ASSUME SizesDivide, HeapInv, ObjectsInv, NEW q \in holding, NEW o2, o2.elements_ # Null,
         UNCHANGED <<class, scope>>, obj' = [obj EXCEPT ![q] = o2],
         OwnedCells(o2) = OwnedCells(obj[q]),
         memory' \in [Address -> Int],
         \A x \in Address \ OwnedCells(obj[q]) : memory'[x] = memory[x],
         RingObject(o2, class), ReadyIn(o2, memory', class)
  PROVE  /\ QueuesInv' /\ holding' = holding
         /\ contents' = [contents EXCEPT ![q] = ContentsIn(o2, memory')]
<1>1. /\ obj \in [Objects -> ObjectType] /\ alive \subseteq Objects /\ alive' = alive
      /\ q \in alive /\ q \in Objects
  BY DEF HeapInv, ShapeInv, Scoped, alive, holding
<1>2. obj'[q] = o2 /\ \A r \in Objects \ {q} : obj'[r] = obj[r]
  BY <1>1
<1>3. holding' = holding /\ holding \subseteq Objects
  BY <1>1, <1>2 DEF holding
<1>4. ASSUME NEW r \in holding \ {q} PROVE Same(r, r)
  <2>1. OwnedCells(obj[r]) \subseteq Address
    BY OwnedCellsAre DEF ObjectsInv, QueuesInv
  <2>2. OwnedCells(obj[r]) \cap OwnedCells(obj[q]) = {}
    BY DEF ObjectsInv, QueuesInv
  <2>3. \A x \in OwnedCells(obj[r]) : memory'[x] = memory[x]
    BY <2>1, <2>2
  <2>4. obj'[r] = obj[r]
    BY <1>2, <1>3
  <2> QED
    BY <2>3, <2>4, SameQueue
<1>5. QueuesInv'
  <2>1. \A r \in holding' : RingObject(obj'[r], class') /\ ReadyIn(obj'[r], memory', class')
    BY <1>2, <1>3, <1>4 DEF Same
  <2>2. \A r \in holding : OwnedCells(obj'[r]) = OwnedCells(obj[r])
    BY <1>2, <1>4 DEF Same
  <2>3. \A r, t \in holding : r # t => OwnedCells(obj[r]) \cap OwnedCells(obj[t]) = {}
    BY DEF ObjectsInv, QueuesInv
  <2>4. \A r, t \in holding' : r # t => OwnedCells(obj'[r]) \cap OwnedCells(obj'[t]) = {}
    BY <1>3, <2>2, <2>3
  <2> QED
    BY <2>1, <2>4 DEF QueuesInv
<1>6. contents' = [contents EXCEPT ![q] = ContentsIn(o2, memory')]
  <2>1. \A r \in Objects :
          (IF r \in holding' THEN ContentsIn(obj'[r], memory') ELSE << >>)
            = IF r = q THEN ContentsIn(o2, memory')
              ELSE IF r \in holding THEN ContentsIn(obj[r], memory) ELSE << >>
    BY <1>2, <1>3, <1>4 DEF Same
  <2> QED
    BY <2>1, ContentsAre
<1> QED
  BY <1>3, <1>5, <1>6

\* try_push puts the message at the end of the queue.
LEMMA PushStep ==
  ASSUME SizesDivide, HeapInv, ObjectsInv, NEW q \in Objects, TryPush(q)
  PROVE  memory' \in [Address -> Int] /\ QueuesInv' /\ Values!Push(q)
<1>1. PICK o : o = obj[q]
  OBVIOUS
<1>2. PICK o2 : o2 = [o EXCEPT !.head_ = Add(@, 1)]
  OBVIOUS
<1>3. PICK value : value = pushes + 1
  OBVIOUS
<1>4. /\ q \in alive /\ pushes < MaxPush /\ pushes' = value /\ HasRoom(o)
      /\ UNCHANGED <<class, scope>> /\ obj \in [Objects -> ObjectType] /\ Sound(o)
      /\ obj' = [obj EXCEPT ![q] = o2] /\ o \in ObjectType
      /\ memory' = [a \in Address |->
           IF a = ElementAt(o, o.head_) THEN value
           ELSE IF class = "AtomicQueueB2" /\ a = StateAt(o, o.head_) THEN STORED
           ELSE memory[a]]
  BY <1>1, <1>2, <1>3 DEF TryPush, HeapInv, ShapeInv
<1>5. /\ class \in Classes /\ memory \in [Address -> Int]
      /\ value \in Int /\ STORED \in Int
  BY <1>3 DEF ObjectsInv, STORED
<1>6. o.elements_ # Null
  BY <1>2, <1>4, PushedSound
<1>7. q \in holding /\ RingObject(o, class) /\ ReadyIn(o, memory, class)
  BY <1>1, <1>4, <1>6 DEF holding, ObjectsInv, QueuesInv
<1>8. memory' \in [Address -> Int]
  BY <1>4, <1>5
<1>9. /\ ElementAt(o, o.head_) \in OwnedCells(o) /\ ElementAt(o, o.head_) \in Address
      /\ class = "AtomicQueueB2" => StateAt(o, o.head_) \in OwnedCells(o)
  <2>1. o.head_ \in Word
    BY <1>4 DEF ObjectType
  <2> QED
    BY <1>7, <2>1, Places
<1>10. Pushed(o, memory, memory', value, class)
  BY <1>4, <1>9 DEF Pushed
<1>11. \A x \in Address \ OwnedCells(o) : memory'[x] = memory[x]
  BY <1>4, <1>9
<1>12. PICK mem2 \in [Address -> Int] : mem2 = memory'
  BY <1>8
<1>13. /\ RingObject(o2, class) /\ ReadyIn(o2, mem2, class)
       /\ ContentsIn(o2, mem2) = Append(ContentsIn(o, memory), value)
  <2>1. Pushed(o, memory, mem2, value, class) /\ HasRoom(o) /\ mem2 \in [Address -> Int]
    BY <1>4, <1>10, <1>12
  <2>2. PutsAtEnd(o, o2, memory, mem2, value, class)
    BY ONLY SizesDivide, <1>2, <1>5, <1>7, <2>1, PushAppends
  <2> QED
    BY ONLY <1>7, <2>2 DEF PutsAtEnd
<1>14. OwnedCells(o2) = OwnedCells(o) /\ o2.elements_ # Null
  <2>1. o2.elements_ = o.elements_ /\ o2.states_ = o.states_ /\ o2.size_ = o.size_
    BY <1>2, <1>4 DEF ObjectType
  <2> QED
    BY <1>6, <2>1 DEF OwnedCells, Arrays
<1>15. /\ QueuesInv' /\ holding' = holding
       /\ contents' = [contents EXCEPT ![q] = ContentsIn(o2, memory')]
  BY <1>1, <1>4, <1>7, <1>8, <1>11, <1>12, <1>13, <1>14, WrittenInside
<1>16. contents[q] = ContentsIn(o, memory)
  BY <1>1, <1>7, ContentsAre DEF holding, HeapInv, ShapeInv, Scoped, alive
<1>17. contents' = [contents EXCEPT ![q] = Append(@, pushes + 1)]
  BY <1>3, <1>12, <1>13, <1>15, <1>16
<1> QED
  BY <1>3, <1>4, <1>7, <1>8, <1>15, <1>17 DEF Values!Push

\* try_pop takes the message at the front.
LEMMA PopStep ==
  ASSUME SizesDivide, HeapInv, ObjectsInv, NEW q \in Objects, TryPop(q)
  PROVE  memory' \in [Address -> Int] /\ QueuesInv' /\ Values!Pop(q)
<1>1. PICK o : o = obj[q]
  OBVIOUS
<1>2. PICK o2 : o2 = [o EXCEPT !.tail_ = Add(@, 1)]
  OBVIOUS
<1>3. /\ q \in alive /\ o.elements_ # Null /\ AsSigned(Sub(o.head_, o.tail_)) > 0
      /\ UNCHANGED <<class, scope, pushes>> /\ obj \in [Objects -> ObjectType] /\ Sound(o)
      /\ obj' = [obj EXCEPT ![q] = o2] /\ o \in ObjectType
      /\ memory' = [a \in Address |->
           IF a = ElementAt(o, o.tail_) THEN Left(memory[a])
           ELSE IF class = "AtomicQueueB2" /\ a = StateAt(o, o.tail_) THEN Blank
           ELSE memory[a]]
  BY <1>1, <1>2 DEF TryPop, HeapInv, ShapeInv
<1>4. /\ class \in Classes /\ memory \in [Address -> Int] /\ Blank \in Int
  BY DEF ObjectsInv, Blank
<1>5. q \in holding /\ RingObject(o, class) /\ ReadyIn(o, memory, class)
  BY <1>1, <1>3 DEF holding, ObjectsInv, QueuesInv
<1>6. PICK e, s, left : e = ElementAt(o, o.tail_) /\ s = StateAt(o, o.tail_) /\ left = Left(memory[e])
  OBVIOUS
<1>7. /\ ElementAt(o, o.tail_) \in OwnedCells(o) /\ ElementAt(o, o.tail_) \in Address
      /\ class = "AtomicQueueB2" =>
           StateAt(o, o.tail_) \in OwnedCells(o) /\ StateAt(o, o.tail_) \in Address
  <2>1. o.tail_ \in Word
    BY <1>3 DEF ObjectType
  <2> QED
    BY <1>5, <2>1, Places
<1>8. /\ memory' = [a \in Address |-> IF a = e THEN left
                                 ELSE IF class = "AtomicQueueB2" /\ a = s THEN Blank
                                 ELSE memory[a]]
      /\ e \in Address /\ e \in OwnedCells(o)
      /\ class = "AtomicQueueB2" => s \in Address /\ s \in OwnedCells(o) /\ s # e
  <2>1. class = "AtomicQueueB2" => StateAt(o, o.tail_) # ElementAt(o, o.tail_)
    BY <1>3, <1>5, Places DEF ObjectType
  <2> QED
    BY <1>3, <1>6, <1>7, <2>1
<1>9. /\ left \in {memory[e], Blank} /\ left \in Int
      /\ class = "AtomicQueueB" => left = Blank
  BY <1>4, <1>6, <1>8 DEF Left
<1>10. /\ memory' \in [Address -> Int]
       /\ \A x \in Address \ OwnedCells(o) : memory'[x] = memory[x]
  BY ONLY <1>4, <1>8, <1>9
<1>11. Popped(o, memory, memory', class)
  BY ONLY <1>6, <1>8, <1>9 DEF Popped
<1>12. PICK mem2 \in [Address -> Int] : mem2 = memory'
  BY <1>10
<1>13. /\ RingObject(o2, class) /\ ReadyIn(o2, mem2, class)
       /\ ContentsIn(o, memory) # << >>
       /\ ContentsIn(o2, mem2) = Tail(ContentsIn(o, memory))
  <2>1. Popped(o, memory, mem2, class) /\ HasMessage(o)
    BY <1>3, <1>11, <1>12 DEF HasMessage
  <2>2. TakesFront(o, o2, memory, mem2, class)
    BY ONLY SizesDivide, <1>2, <1>4, <1>5, <1>12, <2>1, PopTakesFront
  <2> QED
    BY <1>5, <2>2 DEF TakesFront
<1>14. OwnedCells(o2) = OwnedCells(o) /\ o2.elements_ # Null
  <2>1. o2.elements_ = o.elements_ /\ o2.states_ = o.states_ /\ o2.size_ = o.size_
    BY <1>2, <1>3 DEF ObjectType
  <2> QED
    BY <1>3, <2>1 DEF OwnedCells, Arrays
<1>15. /\ QueuesInv' /\ holding' = holding
       /\ contents' = [contents EXCEPT ![q] = ContentsIn(o2, memory')]
  BY <1>1, <1>3, <1>5, <1>10, <1>12, <1>13, <1>14, WrittenInside
<1>16. contents[q] = ContentsIn(o, memory)
  BY <1>1, <1>5, ContentsAre DEF holding, HeapInv, ShapeInv, Scoped, alive
<1>17. contents' = [contents EXCEPT ![q] = Tail(@)]
  BY <1>12, <1>13, <1>15, <1>16
<1> QED
  BY <1>3, <1>10, <1>13, <1>15, <1>16, <1>17 DEF Values!Pop

-----------------------------------------------------------------------------
\* The other steps move no queue.
LEMMA QueuesStay ==
  ASSUME QueuesInv, UNCHANGED <<class, scope, obj, memory, pushes>>
  PROVE  QueuesInv' /\ UNCHANGED <<holding, contents, pushes>>
BY DEF QueuesInv, holding, alive, contents

ContentsInv == HeapInv /\ ObjectsInv

\* Every step of a member function is one of the values, or none.
LEMMA ContentsStep ==
  ASSUME SizesDivide, ContentsInv, [Next]_vars
  PROVE  ObjectsInv' /\ [Values!Next]_<<holding, contents, pushes>>
<1>1. HeapInv /\ ObjectsInv /\ Ordered'
  BY OrderedStep DEF ContentsInv, HeapInv, ObjectsInv
<1>2. UNCHANGED <<class, program>> /\ pushes' \in Nat
  <2>1. UNCHANGED <<class, program>> /\ (pushes' = pushes \/ pushes' = pushes + 1)
    BY NextKeeps
  <2>2. pushes \in Nat
    BY <1>1 DEF ObjectsInv
  <2> QED
    BY <2>1, <2>2
<1>3. class' \in Classes /\ program' \in {"values", "scopes"}
  BY <1>1, <1>2 DEF ObjectsInv
<1>4. ASSUME memory' \in [Address -> Int], QueuesInv',
             \/ \E q \in Objects : \/ Values!Create(q) \/ Values!Destroy(q)
                                  \/ Values!Push(q) \/ Values!Pop(q)
             \/ \E q, r \in Objects : Values!Exchange(q, r)
      PROVE  ObjectsInv' /\ Values!Next
  BY <1>1, <1>2, <1>3, <1>4 DEF ObjectsInv, Values!Next
<1>5. ASSUME UNCHANGED <<class, scope, obj, memory, pushes>>
      PROVE  ObjectsInv' /\ UNCHANGED <<holding, contents, pushes>>
  BY <1>1, <1>2, <1>3, <1>5, QueuesStay DEF ObjectsInv
<1>6. ASSUME NEW q \in Objects, NEW n \in Sizes, NEW a \in Owner, Construct(q, n, a)
      PROVE  ObjectsInv' /\ Values!Next
  BY <1>1, <1>4, <1>6, CreateStep
<1>7. ASSUME NEW q \in Objects, Destroy(q) \/ TryPush(q) \/ TryPop(q)
      PROVE  ObjectsInv' /\ Values!Next
  BY <1>1, <1>4, <1>7, DestroyStep, PushStep, PopStep
<1>8. ASSUME NEW q \in Objects, NEW r \in Objects, MoveConstruct(q, r) \/ Swap(q, r)
      PROVE  ObjectsInv' /\ Values!Next
  BY <1>1, <1>4, <1>8, MoveStep, SwapStep
<1>9. ASSUME Map \/ UNCHANGED vars
             \/ \E q \in Objects, n \in Sizes, a \in Owner : ConstructThrows(q, n, a)
      PROVE  ObjectsInv' /\ UNCHANGED <<holding, contents, pushes>>
  BY <1>5, <1>9 DEF Map, ConstructThrows, vars
<1> QED
  BY <1>6, <1>7, <1>8, <1>9 DEF Next, Owner

\* No object, no message.
LEMMA ContentsInit == Init => ObjectsInv /\ Values!Init
<1> SUFFICES ASSUME Init PROVE ObjectsInv /\ Values!Init
  OBVIOUS
<1>1. scope = << >> /\ DOMAIN scope = {} /\ alive = {} /\ holding = {}
  BY DEF Init, alive, holding
<1>2. QueuesInv /\ Ordered
  BY <1>1 DEF QueuesInv, Ordered
<1>3. /\ memory \in [Address -> Int] /\ pushes = 0 /\ class \in Classes
      /\ program \in {"values", "scopes"}
  BY DEF Init, Junk, Classes
<1>4. contents = [q \in Objects |-> << >>]
  BY <1>1, ContentsAre
<1> QED
  BY <1>1, <1>2, <1>3, <1>4 DEF ObjectsInv, Values!Init

\* In every state the queues lie apart in memory and are ready for pushes.
LEMMA ContentsInvariant == ASSUME SizesDivide PROVE Spec => []ContentsInv
<1>1. Init => ObjectsInv
  BY ContentsInit
<1>2. ContentsInv /\ [Next]_vars => ObjectsInv'
  BY ContentsStep
<1>3. Spec => []HeapInv
  BY ShapeInvariant, OwnersInvariant, StackInvariant, PTL DEF HeapInv
<1> QED
  BY <1>1, <1>2, <1>3, PTL DEF Spec, ContentsInv

\* Every slot that holds no message is ready for a push, in every queue, whether
\* its memory was used before, and by what, and whether it was moved or swapped:
\* for all sizes that divide the words, as the powers of 2 do that constructors
\* round to.
THEOREM FreeSlotsStayReady == ASSUME SizesDivide PROVE Spec => []FreeSlotsAreReady
<1>1. ContentsInv => FreeSlotsAreReady
  BY DEF ContentsInv, ObjectsInv, QueuesInv, FreeSlotsAreReady, ReadyIn, FreeAt, SlotFree
<1> QED
  BY <1>1, ContentsInvariant, PTL

\* The special member functions treat a queue as one value: its messages
\* follow it, in order, through moves and swaps, and none reaches another object,
\* for any objects, allocators, memory and sizes that divide the words.
THEOREM ObjectsAreContainers == ASSUME SizesDivide PROVE Spec => ImplementsContainers
<1>1. Init => Values!Init
  BY ContentsInit
<1>2. ContentsInv /\ [Next]_vars => [Values!Next]_<<holding, contents, pushes>>
  BY ContentsStep
<1> QED
  BY <1>1, <1>2, ContentsInvariant, PTL DEF Spec, ImplementsContainers, Values!Spec
=============================================================================
