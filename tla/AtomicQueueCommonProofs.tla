----------------------- MODULE AtomicQueueCommonProofs ----------------------
(* Facts the proofs about both kinds of queue rest on.                     *)
EXTENDS AtomicQueueCommon, RingProofs, FiniteSetTheorems

\* What the actions need to know of the constants: the index a call starts
\* and ends with is a word, and so are the one after an index and the values a
\* relaxed load of a counter may return; every index has a slot.
LEMMA Constants ==
  /\ 0 \in Word
  /\ \A i \in Word : Slot[i] \in Slots /\ Add(i, 1) \in Word
  /\ \A i \in Word : \A j \in Own(i) : j \in Word
<1>1. 0 \in Word
  BY ModulusAssumption DEF Word
<1>2. ASSUME NEW i \in Word PROVE Slot[i] \in Slots /\ Add(i, 1) \in Word
  BY WordArithmetic, SlotAssumption
<1>3. ASSUME NEW i \in Word, NEW j \in Own(i) PROVE j \in Word
  BY <1>3, WordArithmetic, LagAssumption DEF Own, Recent
<1> QED
  BY <1>1, <1>2, <1>3

\* Counting one more of x, whether or not x is counted at all.
LEMMA CountUp ==
  ASSUME NEW S, NEW f \in [S -> Nat], NEW x
  PROVE  [f EXCEPT ![x] = @ + 1] \in [S -> Nat]
<1>1. CASE x \in S
  BY <1>1
<1>2. CASE x \notin S
  <2>1. [f EXCEPT ![x] = @ + 1] = f
    BY <1>2
  <2> QED
    BY <2>1
<1> QED
  BY <1>1, <1>2

-----------------------------------------------------------------------------
\* The argument both kinds of queue share.  f gives each slot the message it
\* holds, or nil; sent counts the messages pushed.  A message is in one slot
\* only, and it has been pushed, so that the next message of a producer is in
\* no slot yet.
Apart(f, nil) == \A s, r \in Slots : f[s] = f[r] /\ f[s] # nil => s = r

Past(f, sent) ==
  \A s \in Slots : \A p \in Producers : \A n \in 1 .. MaxPush :
    f[s] = <<p, n>> => n <= sent[p]

\* Storing the next message of p in a free slot keeps it so.
LEMMA PutMessage ==
  ASSUME NEW nil, nil \notin Message,
         NEW f \in [Slots -> Message \cup {nil}], Apart(f, nil),
         NEW sent \in [Producers -> 0 .. MaxPush], Past(f, sent),
         NEW p \in Producers, sent[p] < MaxPush,
         NEW slot \in Slots, f[slot] = nil
  PROVE  LET m == <<p, sent[p] + 1>>
             g == [f EXCEPT ![slot] = m]
         IN  /\ Apart(g, nil)
             /\ Past(g, [sent EXCEPT ![p] = sent[p] + 1])
<1> DEFINE m == <<p, sent[p] + 1>>
           g == [f EXCEPT ![slot] = m]
           sent2 == [sent EXCEPT ![p] = sent[p] + 1]
<1>1. m \in Message /\ m # nil
  BY MaxPushAssumption DEF Message
<1>2. \A s \in Slots : f[s] # m
  BY <1>1 DEF Past, Message
<1>3. Apart(g, nil)
  BY <1>1, <1>2 DEF Apart
<1>4. Past(g, sent2)
  <2> SUFFICES ASSUME NEW s \in Slots, NEW q \in Producers, NEW n \in 1 .. MaxPush,
                      g[s] = <<q, n>>
               PROVE  n <= sent2[q]
    BY DEF Past
  <2>1. CASE s = slot
    BY <2>1
  <2>2. CASE s # slot
    <3>1. n <= sent[q]
      BY <2>2 DEF Past
    <3> QED
      BY <3>1, MaxPushAssumption
  <2> QED
    BY <2>1, <2>2
<1> QED
  BY <1>3, <1>4

\* Taking a message out of its slot does, too.
LEMMA TakeMessage ==
  ASSUME NEW nil, nil \notin Message,
         NEW f \in [Slots -> Message \cup {nil}], Apart(f, nil),
         NEW sent, Past(f, sent),
         NEW slot \in Slots
  PROVE  LET g == [f EXCEPT ![slot] = nil]
         IN  /\ Apart(g, nil)
             /\ Past(g, sent)
BY DEF Apart, Past, Message

-----------------------------------------------------------------------------
(* The queue of an SPSC mode.                                              *)
\* With a mapping that keeps the slots of Size consecutive indices apart, the
\* index Size after another has its slot.
LEMMA SlotComesRound ==
  ASSUME ApartInWindows(Slot, Size), NEW i \in Word
  PROVE  Slot[Add(i, Size)] = Slot[i]
<1> DEFINE slot == [k \in 0 .. Size |-> Slot[Add(i, k)]]
<1>1. Size \in Nat /\ Size > 0 /\ Size \in Word
  BY SizeAssumption, WordNat
<1>2. \A k \in 0 .. Size : k \in Nat /\ Add(i, k) \in Word
  BY <1>1, WordArithmetic
<1>3. slot \in [0 .. Size -> Slots]
  BY <1>2, SlotAssumption
<1>4. /\ IsFiniteSet(0 .. Size) /\ Cardinality(0 .. Size) = Size + 1
      /\ IsFiniteSet(Slots) /\ Cardinality(Slots) = Size
  BY <1>1, FS_Interval DEF Slots
<1>5. PICK j, k \in 0 .. Size : j # k /\ slot[j] = slot[k]
  <2> HIDE DEF slot
  <2> PICK S, T : S = 0 .. Size /\ T = Slots
    OBVIOUS
  <2>1. Cardinality(T) < Cardinality(S)
    BY <1>1, <1>4
  <2>2. IsFiniteSet(S) /\ IsFiniteSet(T) /\ Cardinality(T) < Cardinality(S) /\ slot \in [S -> T]
    BY <1>3, <1>4, <2>1
  <2>3. S = 0 .. Size
    OBVIOUS
  <2> QED
    BY ONLY <2>2, <2>3, FS_PigeonHole
<1>6. Slot[Add(i, j)] = Slot[Add(i, k)]
  BY <1>5
<1> HIDE DEF slot
<1>7. j = Size \/ k = Size
  BY <1>1, <1>5, <1>6 DEF ApartInWindows
<1>8. j = 0 \/ k = 0
  <2> SUFFICES ASSUME j # 0, k # 0 PROVE FALSE
    OBVIOUS
  <2>1. /\ j - 1 \in 0 .. Size - 1 /\ k - 1 \in 0 .. Size - 1
        /\ j - 1 \in Word /\ k - 1 \in Word
    BY <1>1, ModulusAssumption DEF Word
  <2>2. Add(Add(i, 1), j - 1) = Add(i, j) /\ Add(Add(i, 1), k - 1) = Add(i, k)
    BY <2>1, AddOne, (j - 1) + 1 = j, (k - 1) + 1 = k
  <2>3. Add(i, 1) \in Word
    BY Constants
  <2>4. j - 1 = k - 1
    BY <1>6, <2>1, <2>2, <2>3 DEF ApartInWindows
  <2> QED
    BY <1>5, <2>4
<1>9. Add(i, 0) = i
  BY ModulusAssumption DEF Add, Word
<1> QED
  BY <1>1, <1>5, <1>6, <1>7, <1>8, <1>9

\* The messages are in the slots of the first count indices from first on, of
\* the Size ones that have a slot each.
Ring(f, nil, first, count) ==
  /\ count \in 0 .. Size
  /\ \A k \in 0 .. Size - 1 : f[Slot[Add(first, k)]] # nil <=> k < count

\* r is q with m put at its end while there is room, or with m taken from its
\* start.
Put(q, r, m) == Len(q) < Size /\ r = Append(q, m)
Taken(q, r, m) == q # << >> /\ Head(q) = m /\ r = Tail(q)

\* Storing a message in the free slot of the index last appends it.
LEMMA PutAtEnd ==
  ASSUME ApartInWindows(Slot, Size),
         NEW nil, nil \notin Message, NEW m \in Message,
         NEW f \in [Slots -> Message \cup {nil}], NEW g,
         NEW first \in Word, NEW last \in Word,
         Ring(f, nil, first, Sub(last, first)),
         f[Slot[last]] = nil, g = [f EXCEPT ![Slot[last]] = m]
  PROVE  /\ Put(QueueOf(f, first, last), QueueOf(g, first, Add(last, 1)), m)
         /\ Ring(g, nil, first, Sub(Add(last, 1), first))
<1> DEFINE count == Sub(last, first)
           q == QueueOf(f, first, last)
           r == QueueOf(g, first, Add(last, 1))
<1>1. Size \in Nat /\ Size > 0 /\ Size < Modulus /\ count \in 0 .. Size
  BY SizeAssumption, WordNat DEF Ring
<1>2. Add(first, count) = last
  BY AddSub
<1>3. count < Size
  <2> SUFFICES ASSUME count = Size PROVE FALSE
    BY <1>1
  <2>1. Slot[last] = Slot[first] /\ Add(first, 0) = first
    BY <1>2, SlotComesRound, ModulusAssumption DEF Add, Word
  <2>2. f[Slot[Add(first, 0)]] # nil
    BY <1>1 DEF Ring
  <2> QED
    BY <2>1, <2>2
<1>4. Sub(Add(last, 1), first) = count + 1
  BY <1>1, <1>3, SubAfter, ModulusAssumption
<1> HIDE DEF count
<1>5. ASSUME NEW k \in 0 .. Size - 1
      PROVE  Add(first, k) \in Word /\ Slot[Add(first, k)] \in Slots
  <2>1. k \in Nat
    BY <1>1
  <2> QED
    BY <2>1, WordArithmetic, Constants
<1>6. \A k \in 0 .. Size - 1 : Slot[Add(first, k)] = Slot[last] <=> k = count
  BY <1>1, <1>2, <1>3 DEF ApartInWindows
<1>7. \A k \in 0 .. Size - 1 : g[Slot[Add(first, k)]] = IF k = count THEN m ELSE f[Slot[Add(first, k)]]
  BY <1>5, <1>6
<1>8. Ring(f, nil, first, count)
  BY DEF count
<1>9. Ring(g, nil, first, count + 1)
  <2>1. count + 1 \in 0 .. Size
    BY <1>1, <1>3
  <2>2. ASSUME NEW k \in 0 .. Size - 1
        PROVE  g[Slot[Add(first, k)]] # nil <=> k < count + 1
    BY <1>1, <1>7, <1>8 DEF Ring
  <2> QED
    BY <2>1, <2>2 DEF Ring
<1>10. \A k \in 0 .. count : f[Slot[Add(first, k)]] \in Message \cup {nil} /\ g[Slot[Add(first, k)]] \in Message \cup {nil}
  <2>1. \A k \in 0 .. count : k \in 0 .. Size - 1
    BY <1>1, <1>3
  <2> QED
    BY <1>5, <1>7, <2>1
<1>11. q = [k \in 1 .. count |-> f[Slot[Add(first, k - 1)]]]
  BY DEF QueueOf, count
<1>12. r = [k \in 1 .. count + 1 |-> g[Slot[Add(first, k - 1)]]]
  BY <1>4 DEF QueueOf
<1> HIDE DEF q, r
<1>13. /\ q \in [1 .. count -> Message \cup {nil}] /\ r \in [1 .. count + 1 -> Message \cup {nil}]
       /\ r[count + 1] = m
       /\ \A k \in 1 .. count : r[k] = q[k]
  <2>1. ASSUME NEW k \in 1 .. count + 1
        PROVE  k - 1 \in 0 .. count /\ k - 1 \in 0 .. Size - 1
                 /\ (k - 1 = count <=> k = count + 1) /\ (k \in 1 .. count <=> k # count + 1)
    BY <1>1, <1>3
  <2>2. count + 1 \in 1 .. count + 1 /\ \A k \in 1 .. count : k \in 1 .. count + 1
    BY <1>1
  <2>3. r \in [1 .. count + 1 -> Message \cup {nil}] /\ q \in [1 .. count -> Message \cup {nil}]
    BY <1>10, <1>11, <1>12, <2>1, <2>2
  <2>4. r[count + 1] = m
    BY <1>7, <1>12, <2>1, <2>2
  <2>5. ASSUME NEW k \in 1 .. count PROVE r[k] = q[k]
    BY <1>7, <1>11, <1>12, <2>1, <2>2
  <2> QED
    BY <2>3, <2>4, <2>5
<1>14. r = Append(q, m) /\ Len(q) = count
  <2>1. count \in Nat
    BY <1>1
  <2> QED
    BY <1>13, <2>1, IsAppend, IsSequence
<1>15. Put(q, r, m)
  BY <1>3, <1>14 DEF Put
<1> QED
  BY <1>4, <1>9, <1>15 DEF q, r

\* Taking the message out of the slot of the index first takes the oldest.
LEMMA TakeAtStart ==
  ASSUME ApartInWindows(Slot, Size),
         NEW nil, NEW f \in [Slots -> Message \cup {nil}], NEW g,
         NEW first \in Word, NEW last \in Word,
         Ring(f, nil, first, Sub(last, first)),
         f[Slot[first]] # nil, g = [f EXCEPT ![Slot[first]] = nil]
  PROVE  /\ Taken(QueueOf(f, first, last), QueueOf(g, Add(first, 1), last), f[Slot[first]])
         /\ Ring(g, nil, Add(first, 1), Sub(last, Add(first, 1)))
<1> DEFINE count == Sub(last, first)
           q == QueueOf(f, first, last)
           next == Add(first, 1)
           r == QueueOf(g, next, last)
<1>1. Size \in Nat /\ Size > 0 /\ Size < Modulus /\ count \in 0 .. Size
  BY SizeAssumption, WordNat DEF Ring
<1>2. Add(first, 0) = first
  BY ModulusAssumption DEF Add, Word
<1>3. count > 0
  <2>1. f[Slot[Add(first, 0)]] # nil
    BY <1>2
  <2> QED
    BY <1>1, <2>1 DEF Ring
<1>4. Sub(last, next) = count - 1
  BY <1>3, SubFrom, SubZero
<1> HIDE DEF count
<1>5. ASSUME NEW k \in 0 .. Size
      PROVE  Add(first, k) \in Word /\ Slot[Add(first, k)] \in Slots
  <2>1. k \in Nat
    BY <1>1
  <2> QED
    BY <2>1, WordArithmetic, Constants
<1>6. ASSUME NEW k \in 0 .. Size - 1
      PROVE  Add(next, k) = Add(first, k + 1)
  <2>1. k \in Word
    BY <1>1, ModulusAssumption DEF Word
  <2> QED
    BY <2>1, AddOne
<1>7. \A k \in 0 .. Size - 1 : Slot[Add(first, k)] = Slot[first] <=> k = 0
  BY <1>1, <1>2 DEF ApartInWindows
<1>8. Slot[Add(first, Size)] = Slot[first]
  BY SlotComesRound
<1>9. /\ \A k \in 0 .. Size - 1 : k < Size - 1 => g[Slot[Add(next, k)]] = f[Slot[Add(first, k + 1)]]
      /\ g[Slot[Add(next, Size - 1)]] = nil
  <2>1. ASSUME NEW k \in 0 .. Size - 1, k < Size - 1
        PROVE  g[Slot[Add(next, k)]] = f[Slot[Add(first, k + 1)]]
    <3>1. k + 1 \in 0 .. Size - 1 /\ k + 1 # 0 /\ k + 1 \in 0 .. Size
      BY <1>1, <2>1
    <3> QED
      BY <1>5, <1>6, <1>7, <3>1
  <2>2. g[Slot[Add(next, Size - 1)]] = nil
    <3>1. Size - 1 \in 0 .. Size - 1 /\ (Size - 1) + 1 = Size /\ Size \in 0 .. Size
      BY <1>1
    <3>2. Slot[Add(next, Size - 1)] = Slot[first]
      BY <1>6, <1>8, <3>1
    <3> QED
      BY <1>5, <1>8, <3>1, <3>2
  <2> QED
    BY <2>1, <2>2
<1>10. Ring(f, nil, first, count)
  BY DEF count
<1>11. Ring(g, nil, next, count - 1)
  <2>1. count - 1 \in 0 .. Size
    BY <1>1, <1>3
  <2>2. ASSUME NEW k \in 0 .. Size - 1
        PROVE  g[Slot[Add(next, k)]] # nil <=> k < count - 1
    <3>1. CASE k < Size - 1
      <4>1. k + 1 \in 0 .. Size - 1
        BY <1>1, <3>1
      <4>2. f[Slot[Add(first, k + 1)]] # nil <=> k + 1 < count
        BY <1>10, <4>1 DEF Ring
      <4>3. k + 1 < count <=> k < count - 1
        BY <1>1
      <4> QED
        BY <1>9, <3>1, <4>2, <4>3
    <3>2. CASE k = Size - 1
      BY <1>1, <1>9, <3>2
    <3> QED
      BY <1>1, <3>1, <3>2
  <2> QED
    BY <2>1, <2>2 DEF Ring
<1>12. q = [k \in 1 .. count |-> f[Slot[Add(first, k - 1)]]]
  BY DEF QueueOf, count
<1>13. r = [k \in 1 .. count - 1 |-> g[Slot[Add(next, k - 1)]]]
  BY <1>4 DEF QueueOf
<1> HIDE DEF q, r, next
<1>14. /\ q \in [1 .. count -> Message \cup {nil}] /\ r \in [1 .. count - 1 -> Message \cup {nil}]
       /\ \A k \in 1 .. count - 1 : r[k] = q[k + 1]
       /\ q[1] = f[Slot[first]]
  <2>1. ASSUME NEW k \in 1 .. count
        PROVE  k - 1 \in 0 .. Size
    BY <1>1
  <2>2. ASSUME NEW k \in 1 .. count - 1
        PROVE  /\ k - 1 \in 0 .. Size - 1 /\ k - 1 < Size - 1 /\ (k - 1) + 1 = k
               /\ k + 1 \in 1 .. count /\ (k + 1) - 1 = k /\ k \in 0 .. Size
    BY <1>1
  <2>3. q \in [1 .. count -> Message \cup {nil}]
    BY <1>5, <1>12, <2>1
  <2>4. ASSUME NEW k \in 1 .. count - 1 PROVE r[k] = f[Slot[Add(first, k)]] /\ q[k + 1] = f[Slot[Add(first, k)]]
    BY <1>9, <1>12, <1>13, <2>2
  <2>5. r \in [1 .. count - 1 -> Message \cup {nil}]
    BY <1>5, <1>13, <2>2, <2>4
  <2>6. q[1] = f[Slot[first]]
    BY <1>1, <1>2, <1>3, <1>12
  <2> QED
    BY <2>3, <2>4, <2>5, <2>6
<1>15. Taken(q, r, f[Slot[first]])
  <2>1. count \in Nat \ {0}
    BY <1>1, <1>3
  <2>2. q # << >> /\ Head(q) = q[1] /\ r = Tail(q)
    BY <1>14, <2>1, IsTail
  <2> QED
    BY <1>14, <2>2 DEF Taken
<1> QED
  BY <1>4, <1>11, <1>15 DEF q, r, next

\* Each counter is written by one thread in SPSC mode, so that the index the
\* thread holds is the counter, before it has claimed it, or the one before.
EndsInv ==
  /\ \A p \in Producers :
       /\ pc[p] \in {"check", "claim"} => index[p] = head_
       /\ Busy(p) => head_ = Add(index[p], 1)
  /\ \A c \in Consumers :
       /\ pc[c] \in {"check", "claim"} => index[c] = tail_
       /\ Busy(c) => tail_ = Add(index[c], 1)

\* The ends of the queue are where the only producer and the only consumer
\* are.
EndsFacts ==
  /\ \A p \in Producers : PushEnd = IF Busy(p) THEN index[p] ELSE head_
  /\ \A c \in Consumers : PopEnd = IF Busy(c) THEN index[c] ELSE tail_
  /\ Producers = {} => PushEnd = head_
  /\ Consumers = {} => PopEnd = tail_

\* In SPSC mode the two threads are the ends of the queue.
LEMMA EndsAre == Spsc => EndsFacts
<1> SUFFICES ASSUME Spsc PROVE EndsFacts
  OBVIOUS
<1>1. ASSUME NEW T, \A t, u \in T : t = u, NEW counter, NEW t \in T
      PROVE  InUse(T, counter) = IF Busy(t) THEN index[t] ELSE counter
  <2>1. CASE Busy(t)
    <3>1. (CHOOSE u \in T : Busy(u)) = t
      BY <1>1, <2>1
    <3> QED
      BY <2>1, <3>1 DEF InUse
  <2>2. CASE ~Busy(t)
    <3>1. ~ \E u \in T : Busy(u)
      BY <1>1, <2>2
    <3> QED
      BY <2>2, <3>1 DEF InUse
  <2> QED
    BY <2>1, <2>2
<1>2. ASSUME NEW counter PROVE InUse({}, counter) = counter
  BY DEF InUse
<1> QED
  BY <1>1, <1>2, SpscAssumption DEF EndsFacts, PushEnd, PopEnd

\* The ends of the queue are words.
LEMMA EndsAreWords ==
  ASSUME Spsc, head_ \in Word, tail_ \in Word, index \in [Threads -> Word]
  PROVE  PushEnd \in Word /\ PopEnd \in Word
<1> USE DEF Threads
<1>1. PushEnd \in Word
  <2>1. CASE Producers = {}
    BY <2>1, EndsAre DEF EndsFacts
  <2>2. CASE Producers # {}
    BY <2>2, EndsAre DEF EndsFacts
  <2> QED
    BY <2>1, <2>2
<1>2. PopEnd \in Word
  <2>1. CASE Consumers = {}
    BY <2>1, EndsAre DEF EndsFacts
  <2>2. CASE Consumers # {}
    BY <2>2, EndsAre DEF EndsFacts
  <2> QED
    BY <2>1, <2>2
<1> QED
  BY <1>1, <1>2

\* The kinds of steps of a call: it claims an index, or works on the slot of the
\* index it has claimed, or returns.
Claims ==
  \/ \E p \in Producers : ClaimPush(p)
  \/ \E c \in Consumers : ClaimPop(c)

Works(t) ==
  /\ Busy(t) /\ Busy(t)'
  /\ pc' = [pc EXCEPT ![t] = pc'[t]]
  /\ UNCHANGED <<head_, tail_, index>>

Finishes(t) == Busy(t) /\ Return(t) /\ UNCHANGED counters

\* Claiming an index moves a counter, and neither end of the queue.
LEMMA ClaimsKeepEnds ==
  ASSUME Spsc, EndsInv, NEW Steps, pc \in [Threads -> Steps], index \in [Threads -> Word],
         Claims
  PROVE  EndsInv' /\ UNCHANGED <<PushEnd, PopEnd>>
<1>1. EndsFacts /\ EndsFacts'
  <2>1. Spsc' => EndsFacts'
    BY EndsAre, PTL
  <2> QED
    BY <2>1, EndsAre
<1> USE ThreadsAssumption, SpscAssumption DEF Threads, Goto, Return, Own, Busy
<1>2. ASSUME NEW p \in Producers, ClaimPush(p)
      PROVE  /\ EndsInv'
             /\ (IF Busy(p) THEN index[p] ELSE head_)' = IF Busy(p) THEN index[p] ELSE head_
             /\ tail_' = tail_
             /\ \A c \in Consumers : pc'[c] = pc[c] /\ index'[c] = index[c]
  BY <1>2
     DEF ClaimPush, TryPushBegin, TryPushCheck, ClaimHead, ReloadHead, PushBegin, EndsInv
<1>3. ASSUME NEW c \in Consumers, ClaimPop(c)
      PROVE  /\ EndsInv'
             /\ (IF Busy(c) THEN index[c] ELSE tail_)' = IF Busy(c) THEN index[c] ELSE tail_
             /\ head_' = head_
             /\ \A p \in Producers : pc'[p] = pc[p] /\ index'[p] = index[p]
  BY <1>3
     DEF ClaimPop, TryPopBegin, TryPopCheck, ClaimTail, ReloadTail, PopBegin, EndsInv
<1>4. ASSUME NEW p \in Producers, ClaimPush(p)
      PROVE  EndsInv' /\ UNCHANGED <<PushEnd, PopEnd>>
  BY <1>1, <1>2, <1>4 DEF EndsFacts
<1>5. ASSUME NEW c \in Consumers, ClaimPop(c)
      PROVE  EndsInv' /\ UNCHANGED <<PushEnd, PopEnd>>
  BY <1>1, <1>3, <1>5 DEF EndsFacts
<1> QED
  BY <1>4, <1>5 DEF Claims

\* Nor does a step of do_push or do_pop before the call returns.
LEMMA WorkKeepsEnds ==
  ASSUME Spsc, EndsInv, NEW Steps, pc \in [Threads -> Steps], NEW t \in Threads, Works(t)
  PROVE  EndsInv' /\ UNCHANGED <<PushEnd, PopEnd>>
<1>1. EndsFacts /\ EndsFacts'
  <2>1. Spsc' => EndsFacts'
    BY EndsAre, PTL
  <2> QED
    BY <2>1, EndsAre
<1>2. /\ UNCHANGED <<head_, tail_, index>>
      /\ \A u \in Threads : Busy(u)' <=> Busy(u)
      /\ \A u \in Threads : pc'[u] \in {"check", "claim"} => pc[u] \in {"check", "claim"}
  BY DEF Works, Busy
<1> QED
  BY <1>1, <1>2 DEF EndsInv, EndsFacts, Threads

\* A push that returns moves the one end, a pop that returns the other.
LEMMA ReturnsMoveEnds ==
  ASSUME Spsc, EndsInv, NEW Steps, pc \in [Threads -> Steps], index \in [Threads -> Word],
         NEW t \in Threads, Finishes(t)
  PROVE  /\ EndsInv'
         /\ t \in Producers => /\ PushEnd = index[t] /\ PushEnd' = Add(PushEnd, 1)
                               /\ PopEnd' = PopEnd
         /\ t \in Consumers => /\ PopEnd = index[t] /\ PopEnd' = Add(PopEnd, 1)
                               /\ PushEnd' = PushEnd
<1>1. EndsFacts /\ EndsFacts'
  <2>1. Spsc' => EndsFacts'
    BY EndsAre, PTL
  <2> QED
    BY <2>1, EndsAre
<1>2. /\ UNCHANGED <<head_, tail_>>
      /\ Busy(t) /\ pc'[t] = "idle" /\ ~Busy(t)'
      /\ \A u \in Threads \ {t} : pc'[u] = pc[u] /\ index'[u] = index[u] /\ (Busy(u)' <=> Busy(u))
  BY DEF Finishes, Goto, Return, Busy, counters
<1>3. EndsInv'
  BY <1>2, ThreadsAssumption DEF EndsInv, Threads
<1>4. ASSUME t \in Producers
      PROVE  PushEnd = index[t] /\ PushEnd' = Add(PushEnd, 1) /\ PopEnd' = PopEnd
  <2>1. t \notin Consumers /\ \A c \in Consumers : c \in Threads \ {t}
    BY <1>4, ThreadsAssumption DEF Threads
  <2> QED
    BY <1>1, <1>2, <1>4, <2>1 DEF EndsInv, EndsFacts
<1>5. ASSUME t \in Consumers
      PROVE  PopEnd = index[t] /\ PopEnd' = Add(PopEnd, 1) /\ PushEnd' = PushEnd
  <2>1. t \notin Producers /\ \A p \in Producers : p \in Threads \ {t}
    BY <1>5, ThreadsAssumption DEF Threads
  <2> QED
    BY <1>1, <1>2, <1>5, <2>1 DEF EndsInv, EndsFacts
<1> QED
  BY <1>3, <1>4, <1>5

-----------------------------------------------------------------------------
(* The balance of a queue.                                                 *)
\* The threads of T whose index has slot s, and the indices from a up to b
\* that have it.
Holders(T, ix, s) == {t \in T : Slot[ix[t]] = s}
Span(a, b, s) == {i \in Word : Sub(i, a) < Sub(b, a) /\ Slot[i] = s}

\* How many indices with slot s head is ahead of tail, negative when it is
\* behind.
Ahead(head, tail, s) ==
  IF AsSigned(Sub(head, tail)) >= 0
    THEN Cardinality(Span(tail, head, s))
    ELSE -Cardinality(Span(head, tail, s))

\* Of a slot, or of all, head is ahead of tail by the pushes that are under way
\* and the messages stored, less the pops that are under way.  P and C are the
\* threads that have claimed their indices ix and not returned, and full the
\* slots that hold a message.
Balance(head, tail, P, C, ix, full) ==
  /\ AsSigned(Sub(head, tail)) = Cardinality(P) + Cardinality(full) - Cardinality(C)
  /\ \A s \in Slots :
       Ahead(head, tail, s) =
         Cardinality(Holders(P, ix, s)) + Cardinality(full \cap {s})
           - Cardinality(Holders(C, ix, s))

\* 1 if i has slot s.
One(i, s) == IF Slot[i] = s THEN 1 ELSE 0

\* One more thread holds an index of the slot of its own, one less does not.
LEMMA HoldersJoin ==
  ASSUME NEW T, IsFiniteSet(T), NEW x, x \notin T, NEW ix, NEW ix2,
         \A u \in T : ix2[u] = ix[u], NEW s
  PROVE  /\ IsFiniteSet(Holders(T, ix, s))
         /\ Cardinality(Holders(T, ix, s)) \in Nat
         /\ Cardinality(Holders(T \cup {x}, ix2, s)) =
              Cardinality(Holders(T, ix, s)) + One(ix2[x], s)
<1>1. IsFiniteSet(Holders(T, ix, s))
  BY FS_Subset DEF Holders
<1>2. Cardinality(Holders(T, ix, s)) \in Nat
  BY <1>1, FS_CardinalityType
<1>3. x \notin Holders(T, ix, s)
  BY DEF Holders
<1>4. CASE Slot[ix2[x]] = s
  <2>1. Holders(T \cup {x}, ix2, s) = Holders(T, ix, s) \cup {x}
    BY <1>4 DEF Holders
  <2> QED
    BY <1>1, <1>2, <1>3, <1>4, <2>1, FS_AddElement DEF One
<1>5. CASE Slot[ix2[x]] # s
  <2>1. Holders(T \cup {x}, ix2, s) = Holders(T, ix, s)
    BY <1>5 DEF Holders
  <2> QED
    BY <1>1, <1>2, <1>5, <2>1 DEF One
<1> QED
  BY <1>1, <1>2, <1>4, <1>5

\* One thread less: the holders of its slot are one fewer.
LEMMA HoldersLeave ==
  ASSUME NEW T, IsFiniteSet(T), NEW x \in T, NEW ix, NEW ix2,
         \A u \in T \ {x} : ix2[u] = ix[u], NEW s
  PROVE  /\ Cardinality(Holders(T \ {x}, ix2, s)) \in Nat
         /\ Cardinality(Holders(T, ix, s)) =
              Cardinality(Holders(T \ {x}, ix2, s)) + One(ix[x], s)
<1>1. IsFiniteSet(T \ {x}) /\ (T \ {x}) \cup {x} = T
  BY FS_RemoveElement
<1>2. x \notin T \ {x} /\ \A u \in T \ {x} : ix[u] = ix2[u]
  OBVIOUS
<1> DEFINE R == T \ {x}
<1> HIDE DEF R
<1>3. IsFiniteSet(R) /\ x \notin R /\ \A u \in R : ix[u] = ix2[u]
  BY <1>1, <1>2 DEF R
<1>4. Cardinality(Holders(R, ix2, s)) \in Nat
  BY <1>3, HoldersJoin
<1>5. Cardinality(Holders(R \cup {x}, ix, s)) =
        Cardinality(Holders(R, ix2, s)) + One(ix[x], s)
  BY <1>3, HoldersJoin
<1> QED
  BY <1>1, <1>4, <1>5 DEF R

\* Holders depend on the indices of the threads in question only.
LEMMA HoldersSame ==
  ASSUME NEW T, NEW ix, NEW ix2, \A u \in T : ix2[u] = ix[u], NEW s
  PROVE  Holders(T, ix2, s) = Holders(T, ix, s)
BY DEF Holders

\* A stretch of indices is longer by the one after it, or by the one before.
LEMMA SpanIsFinite ==
  ASSUME NEW a, NEW b, NEW s
  PROVE  IsFiniteSet(Span(a, b, s)) /\ Cardinality(Span(a, b, s)) \in Nat
<1>1. IsFiniteSet(Word)
  BY FS_Interval, ModulusAssumption DEF Word
<1>2. IsFiniteSet(Span(a, b, s))
  BY <1>1, FS_Subset DEF Span
<1> QED
  BY <1>2, FS_CardinalityType

\* An index added behind a span adds one to its slot's count.
LEMMA SpanAfter ==
  ASSUME NEW a \in Word, NEW b \in Word, Sub(b, a) # Modulus - 1, NEW s
  PROVE  Cardinality(Span(a, Add(b, 1), s)) =
           Cardinality(Span(a, b, s)) + One(b, s)
<1>1. Sub(Add(b, 1), a) = Sub(b, a) + 1
  BY SubAfter
<1>2. \A i \in Word : Sub(i, a) \in Nat
  BY WordArithmetic, WordNat
<1>3. ASSUME NEW i \in Word
      PROVE  Sub(i, a) < Sub(b, a) + 1 <=> Sub(i, a) < Sub(b, a) \/ i = b
  <2>1. Sub(i, a) < Sub(b, a) + 1 <=> Sub(i, a) < Sub(b, a) \/ Sub(i, a) = Sub(b, a)
    BY <1>2
  <2> QED
    BY <2>1, SubInjective
<1>4. IsFiniteSet(Span(a, b, s)) /\ Cardinality(Span(a, b, s)) \in Nat
  BY SpanIsFinite
<1>5. b \notin Span(a, b, s)
  BY <1>2 DEF Span
<1>6. CASE Slot[b] = s
  <2>1. Span(a, Add(b, 1), s) = Span(a, b, s) \cup {b}
    BY <1>1, <1>3, <1>6 DEF Span
  <2> QED
    BY <1>4, <1>5, <1>6, <2>1, FS_AddElement DEF One
<1>7. CASE Slot[b] # s
  <2>1. Span(a, Add(b, 1), s) = Span(a, b, s)
    BY <1>1, <1>3, <1>7 DEF Span
  <2> QED
    BY <1>4, <1>7, <2>1 DEF One
<1> QED
  BY <1>6, <1>7

\* An index taken off the front of a span takes one off its slot's count.
LEMMA SpanBefore ==
  ASSUME NEW a \in Word, NEW b \in Word, a # b, NEW s
  PROVE  Cardinality(Span(a, b, s)) =
           Cardinality(Span(Add(a, 1), b, s)) + One(a, s)
<1> DEFINE next == Add(a, 1)
<1>1. next \in Word /\ Sub(b, next) = Sub(b, a) - 1
  BY SubFrom, Constants
<1>2. \A i \in Word : Sub(i, a) \in Nat /\ Sub(i, next) \in Nat
  BY <1>1, WordArithmetic, WordNat
<1>3. \A i \in Word : i # a => Sub(i, next) = Sub(i, a) - 1
  BY SubFrom
<1>4. Sub(a, a) = 0 /\ Sub(b, a) > 0
  BY <1>2, SubZero
<1>5. Sub(a, next) = Modulus - 1
  BY ModulusAssumption DEF Word, Add, Sub
<1>6. Sub(b, a) < Modulus
  BY WordArithmetic, WordNat
<1> HIDE DEF next
<1>7. a \notin Span(next, b, s)
  BY <1>1, <1>2, <1>5, <1>6, ModulusAssumption DEF Span
<1>8. IsFiniteSet(Span(next, b, s)) /\ Cardinality(Span(next, b, s)) \in Nat
  BY SpanIsFinite
<1>9. \A i \in Word : i # a => (Sub(i, next) < Sub(b, next) <=> Sub(i, a) < Sub(b, a))
  BY <1>1, <1>2, <1>3
<1>10. CASE Slot[a] = s
  <2>1. Span(a, b, s) = Span(next, b, s) \cup {a}
    BY <1>4, <1>9, <1>10 DEF Span
  <2> QED
    BY <1>7, <1>8, <1>10, <2>1, FS_AddElement DEF One, next
<1>11. CASE Slot[a] # s
  <2>1. Span(a, b, s) = Span(next, b, s)
    BY <1>9, <1>11 DEF Span
  <2> QED
    BY <1>8, <1>11, <2>1 DEF One, next
<1> QED
  BY <1>10, <1>11

\* A counter that moves on is ahead by one index more, or behind by one less.
LEMMA HeadMoves ==
  ASSUME NEW head \in Word, NEW tail \in Word, NEW s,
         2 * (AsSigned(Sub(head, tail)) + 1) < Modulus
  PROVE  /\ AsSigned(Sub(Add(head, 1), tail)) = AsSigned(Sub(head, tail)) + 1
         /\ Ahead(Add(head, 1), tail, s) = Ahead(head, tail, s) + One(head, s)
<1> DEFINE used == Sub(head, tail)
           next == Add(head, 1)
           c == Cardinality(Span(tail, head, s))
           d == Cardinality(Span(head, tail, s))
           c1 == Cardinality(Span(tail, next, s))
           d1 == Cardinality(Span(next, tail, s))
<1>1. used \in Nat /\ used < Modulus /\ Modulus \in Nat /\ next \in Word /\ One(head, s) \in Int
  BY WordArithmetic, WordNat, ModulusAssumption DEF One
<1>2. c \in Nat /\ d \in Nat /\ c1 \in Nat /\ d1 \in Nat
  BY SpanIsFinite
<1>3. used # Modulus - 1 => Sub(next, tail) = used + 1 /\ c1 = c + One(head, s)
  BY SubAfter, SpanAfter
<1>4. head # tail => d = d1 + One(head, s)
  BY SpanBefore
<1>5. used = 0 <=> head = tail
  BY SubZero
<1>6. used = Modulus - 1 => next = tail /\ Sub(next, tail) = 0
  BY ModulusAssumption DEF Word, Add, Sub
<1>7. next = tail => c1 = 0 /\ d1 = 0
  <2>1. \A i \in Word : Sub(i, tail) \in Nat
    BY WordArithmetic, WordNat
  <2>2. next = tail => Span(tail, next, s) = {}
    BY <2>1, SubZero DEF Span
  <2> QED
    BY <2>2, FS_EmptySet
<1>8. /\ Ahead(next, tail, s) = IF AsSigned(Sub(next, tail)) >= 0 THEN c1 ELSE -d1
      /\ Ahead(head, tail, s) = IF AsSigned(used) >= 0 THEN c ELSE -d
  BY DEF Ahead
<1>9. 2 * (AsSigned(used) + 1) < Modulus
  OBVIOUS
<1> HIDE DEF used, next, c, d, c1, d1
<1>10. CASE 2 * used < Modulus
  <2>1. AsSigned(used) = used
    BY <1>10 DEF AsSigned
  <2>2. Sub(next, tail) = used + 1 /\ c1 = c + One(head, s) /\ AsSigned(used + 1) = used + 1
    BY <1>1, <1>3, <1>9, <2>1 DEF AsSigned
  <2> QED
    BY <1>1, <1>8, <2>1, <2>2 DEF used, next
<1>11. CASE ~(2 * used < Modulus)
  <2>1. AsSigned(used) = used - Modulus /\ ~(AsSigned(used) >= 0)
    BY <1>1, <1>11 DEF AsSigned
  <2>2. d = d1 + One(head, s)
    BY <1>1, <1>4, <1>5, <1>11
  <2>3. CASE used = Modulus - 1
    <3>1. AsSigned(Sub(next, tail)) = 0
      BY <1>1, <1>6, <2>3, ModulusAssumption DEF AsSigned
    <3>2. c1 = 0 /\ d1 = 0
      BY <1>6, <1>7, <2>3
    <3> QED
      BY <1>1, <1>2, <1>8, <2>1, <2>2, <2>3, <3>1, <3>2 DEF used, next
  <2>4. CASE used # Modulus - 1
    <3>1. AsSigned(Sub(next, tail)) = used + 1 - Modulus /\ ~(AsSigned(Sub(next, tail)) >= 0)
      BY <1>1, <1>3, <1>11, <2>4 DEF AsSigned
    <3> QED
      BY <1>1, <1>2, <1>8, <2>1, <2>2, <3>1 DEF used, next
  <2> QED
    BY <2>3, <2>4
<1> QED
  BY <1>10, <1>11

\* The same for a tail that counts on.
LEMMA TailMoves ==
  ASSUME NEW head \in Word, NEW tail \in Word, NEW s,
         2 * (AsSigned(Sub(head, tail)) - 1) >= -Modulus
  PROVE  /\ AsSigned(Sub(head, Add(tail, 1))) = AsSigned(Sub(head, tail)) - 1
         /\ Ahead(head, Add(tail, 1), s) = Ahead(head, tail, s) - One(tail, s)
<1> DEFINE used == Sub(head, tail)
           next == Add(tail, 1)
           c == Cardinality(Span(tail, head, s))
           d == Cardinality(Span(head, tail, s))
           c1 == Cardinality(Span(next, head, s))
           d1 == Cardinality(Span(head, next, s))
<1>1. used \in Nat /\ used < Modulus /\ Modulus \in Nat /\ next \in Word /\ One(tail, s) \in Int
  BY WordArithmetic, WordNat, ModulusAssumption DEF One
<1>2. c \in Nat /\ d \in Nat /\ c1 \in Nat /\ d1 \in Nat
  BY SpanIsFinite
<1>3. head # tail => Sub(head, next) = used - 1 /\ c = c1 + One(tail, s)
  BY SubFrom, SpanBefore
<1>4. Sub(tail, head) # Modulus - 1 => d1 = d + One(tail, s)
  BY SpanAfter
<1>5. used = 0 <=> head = tail
  BY SubZero
<1>6. Sub(tail, head) = Modulus - 1 => used = 1
  BY ModulusAssumption DEF Word, Sub
<1>7. head = tail => d = 0 /\ Sub(head, next) = Modulus - 1
  <2>1. \A i \in Word : Sub(i, head) \in Nat
    BY WordArithmetic, WordNat
  <2>2. head = tail => Span(head, tail, s) = {}
    BY <2>1, SubZero DEF Span
  <2>3. head = tail => Sub(head, next) = Modulus - 1
    BY ModulusAssumption DEF Word, Add, Sub
  <2> QED
    BY <2>2, <2>3, FS_EmptySet
<1>8. /\ Ahead(head, next, s) = IF AsSigned(Sub(head, next)) >= 0 THEN c1 ELSE -d1
      /\ Ahead(head, tail, s) = IF AsSigned(used) >= 0 THEN c ELSE -d
  BY DEF Ahead
<1>9. 2 * (AsSigned(used) - 1) >= -Modulus
  OBVIOUS
<1>10. head = tail => Sub(tail, head) = 0 /\ c = 0
  BY <1>5, <1>7
<1> HIDE DEF used, next, c, d, c1, d1
<1>11. CASE 2 * used < Modulus /\ used # 0
  <2>1. AsSigned(used) = used
    BY <1>11 DEF AsSigned
  <2>2. Sub(head, next) = used - 1 /\ c = c1 + One(tail, s) /\ AsSigned(used - 1) = used - 1
    BY <1>1, <1>3, <1>5, <1>11 DEF AsSigned
  <2> QED
    BY <1>1, <1>2, <1>8, <1>11, <2>1, <2>2 DEF used, next
<1>12. CASE used = 0
  <2>1. AsSigned(used) = 0
    BY <1>12, ModulusAssumption DEF AsSigned
  <2>2. /\ AsSigned(Sub(head, next)) = -1 /\ c = 0
        /\ d = 0 /\ d1 = d + One(tail, s)
    BY <1>1, <1>4, <1>5, <1>7, <1>10, <1>12, ModulusAssumption DEF AsSigned
  <2> QED
    BY <1>1, <1>2, <1>8, <1>12, <2>1, <2>2 DEF used, next
<1>13. CASE ~(2 * used < Modulus)
  <2>1. AsSigned(used) = used - Modulus /\ ~(AsSigned(used) >= 0)
    BY <1>1, <1>13 DEF AsSigned
  <2>2. 2 * (used - 1) >= Modulus /\ used # 1 /\ used # 0
    BY <1>1, <1>9, <2>1, ModulusAssumption
  <2>3. d1 = d + One(tail, s) /\ Sub(head, next) = used - 1
    BY <1>3, <1>4, <1>5, <1>6, <2>2
  <2>4. AsSigned(Sub(head, next)) = used - 1 - Modulus /\ ~(AsSigned(Sub(head, next)) >= 0)
    BY <1>1, <2>2, <2>3 DEF AsSigned
  <2> QED
    BY <1>1, <1>2, <1>8, <2>1, <2>3, <2>4 DEF used, next
<1> QED
  BY <1>1, <1>11, <1>12, <1>13

\* The difference of the counters is read correctly as long as all threads and
\* slots together are fewer than the words of one sign.
FewThreads ==
  /\ IsFiniteSet(Producers) /\ IsFiniteSet(Consumers)
  /\ 2 * (Cardinality(Producers) + Cardinality(Consumers) + Size) < Modulus

\* Sets of threads and of slots are small against the words.
LEMMA Sizes ==
  ASSUME FewThreads, NEW P \in SUBSET Producers, NEW C \in SUBSET Consumers,
         NEW full \in SUBSET Slots
  PROVE  /\ IsFiniteSet(P) /\ IsFiniteSet(C) /\ IsFiniteSet(full)
         /\ Cardinality(P) \in Nat /\ Cardinality(P) <= Cardinality(Producers)
         /\ Cardinality(C) \in Nat /\ Cardinality(C) <= Cardinality(Consumers)
         /\ Cardinality(full) \in Nat /\ Cardinality(full) <= Size
         /\ Cardinality(Producers) \in Nat /\ Cardinality(Consumers) \in Nat
         /\ Size \in Nat /\ Modulus \in Nat
<1>1. Size \in Nat /\ Size > 0 /\ Modulus \in Nat
  BY SizeAssumption, WordNat, ModulusAssumption
<1>2. IsFiniteSet(Slots) /\ Cardinality(Slots) = Size
  BY <1>1, FS_Interval DEF Slots
<1>3. IsFiniteSet(P) /\ Cardinality(P) <= Cardinality(Producers)
  BY FS_Subset DEF FewThreads
<1>4. IsFiniteSet(C) /\ Cardinality(C) <= Cardinality(Consumers)
  BY FS_Subset DEF FewThreads
<1>5. IsFiniteSet(full) /\ Cardinality(full) <= Size
  BY <1>2, FS_Subset
<1> QED
  BY <1>1, <1>3, <1>4, <1>5, FS_CardinalityType DEF FewThreads

\* A push or a pop that claims an index moves its counter past it.
LEMMA PushClaimed ==
  ASSUME FewThreads, NEW head \in Word, NEW tail \in Word,
         NEW P \in SUBSET Producers, NEW C \in SUBSET Consumers,
         NEW full \in SUBSET Slots, NEW ix, Balance(head, tail, P, C, ix, full),
         NEW p \in Producers, p \notin P,
         NEW ix2, ix2[p] = head, \A u \in P \cup C : ix2[u] = ix[u]
  PROVE  Balance(Add(head, 1), tail, P \cup {p}, C, ix2, full)
<1>1. /\ IsFiniteSet(P) /\ Cardinality(P \cup {p}) = Cardinality(P) + 1
      /\ P \cup {p} \in SUBSET Producers
  BY Sizes, FS_AddElement
<1>2. 2 * (AsSigned(Sub(head, tail)) + 1) < Modulus
  <2>1. Cardinality(P \cup {p}) <= Cardinality(Producers)
    BY <1>1, Sizes
  <2>2. AsSigned(Sub(head, tail)) = Cardinality(P) + Cardinality(full) - Cardinality(C)
    BY DEF Balance
  <2> QED
    BY <1>1, <2>1, <2>2, Sizes DEF FewThreads
<1>3. AsSigned(Sub(Add(head, 1), tail))
        = Cardinality(P \cup {p}) + Cardinality(full) - Cardinality(C)
  <2>1. AsSigned(Sub(Add(head, 1), tail)) = AsSigned(Sub(head, tail)) + 1
    BY <1>2, HeadMoves
  <2>2. AsSigned(Sub(head, tail)) = Cardinality(P) + Cardinality(full) - Cardinality(C)
    BY DEF Balance
  <2> QED
    BY <1>1, <2>1, <2>2, Sizes
<1>4. ASSUME NEW s \in Slots
      PROVE  Ahead(Add(head, 1), tail, s) =
               Cardinality(Holders(P \cup {p}, ix2, s)) + Cardinality(full \cap {s})
                 - Cardinality(Holders(C, ix2, s))
  <2>1. /\ Cardinality(Holders(P, ix, s)) \in Nat
        /\ Cardinality(Holders(P \cup {p}, ix2, s))
             = Cardinality(Holders(P, ix, s)) + One(head, s)
    <3>1. IsFiniteSet(P) /\ p \notin P /\ \A u \in P : ix2[u] = ix[u]
      BY <1>1
    <3>2. Cardinality(Holders(P, ix, s)) \in Nat
      BY <1>1, <3>1, HoldersJoin
    <3>3. Cardinality(Holders(P \cup {p}, ix2, s))
            = Cardinality(Holders(P, ix, s)) + One(ix2[p], s)
      BY ONLY <3>1, HoldersJoin
    <3> QED
      BY <3>2, <3>3
  <2>2. Holders(C, ix2, s) = Holders(C, ix, s)
    BY HoldersSame
  <2>3. Ahead(Add(head, 1), tail, s) = Ahead(head, tail, s) + One(head, s)
    BY <1>2, HeadMoves
  <2>4. Ahead(head, tail, s) =
          Cardinality(Holders(P, ix, s)) + Cardinality(full \cap {s}) - Cardinality(Holders(C, ix, s))
    BY DEF Balance
  <2>5. Cardinality(full \cap {s}) \in Nat /\ Cardinality(Holders(C, ix, s)) \in Nat
    <3>1. IsFiniteSet(full \cap {s}) /\ IsFiniteSet(Holders(C, ix, s))
      BY Sizes, FS_Subset DEF Holders
    <3> QED
      BY <3>1, FS_CardinalityType
  <2>6. One(head, s) \in Nat
    BY DEF One
  <2> QED
    BY <2>1, <2>2, <2>3, <2>4, <2>5, <2>6
<1> QED
  BY <1>3, <1>4 DEF Balance

\* A pop that claims an index moves the tail and becomes a holder.
LEMMA PopClaimed ==
  ASSUME FewThreads, NEW head \in Word, NEW tail \in Word,
         NEW P \in SUBSET Producers, NEW C \in SUBSET Consumers,
         NEW full \in SUBSET Slots, NEW ix, Balance(head, tail, P, C, ix, full),
         NEW c \in Consumers, c \notin C,
         NEW ix2, ix2[c] = tail, \A u \in P \cup C : ix2[u] = ix[u]
  PROVE  Balance(head, Add(tail, 1), P, C \cup {c}, ix2, full)
<1>1. /\ IsFiniteSet(C) /\ Cardinality(C \cup {c}) = Cardinality(C) + 1
      /\ C \cup {c} \in SUBSET Consumers
  BY Sizes, FS_AddElement
<1>2. 2 * (AsSigned(Sub(head, tail)) - 1) >= -Modulus
  <2>1. Cardinality(C \cup {c}) <= Cardinality(Consumers)
    BY <1>1, Sizes
  <2>2. AsSigned(Sub(head, tail)) = Cardinality(P) + Cardinality(full) - Cardinality(C)
    BY DEF Balance
  <2> QED
    BY <1>1, <2>1, <2>2, Sizes DEF FewThreads
<1>3. AsSigned(Sub(head, Add(tail, 1)))
        = Cardinality(P) + Cardinality(full) - Cardinality(C \cup {c})
  <2>1. AsSigned(Sub(head, Add(tail, 1))) = AsSigned(Sub(head, tail)) - 1
    BY <1>2, TailMoves
  <2>2. AsSigned(Sub(head, tail)) = Cardinality(P) + Cardinality(full) - Cardinality(C)
    BY DEF Balance
  <2> QED
    BY <1>1, <2>1, <2>2, Sizes
<1>4. ASSUME NEW s \in Slots
      PROVE  Ahead(head, Add(tail, 1), s) =
               Cardinality(Holders(P, ix2, s)) + Cardinality(full \cap {s})
                 - Cardinality(Holders(C \cup {c}, ix2, s))
  <2>1. /\ Cardinality(Holders(C, ix, s)) \in Nat
        /\ Cardinality(Holders(C \cup {c}, ix2, s))
             = Cardinality(Holders(C, ix, s)) + One(tail, s)
    <3>1. IsFiniteSet(C) /\ c \notin C /\ \A u \in C : ix2[u] = ix[u]
      BY <1>1
    <3>2. Cardinality(Holders(C, ix, s)) \in Nat
      BY <1>1, <3>1, HoldersJoin
    <3>3. Cardinality(Holders(C \cup {c}, ix2, s))
            = Cardinality(Holders(C, ix, s)) + One(ix2[c], s)
      BY ONLY <3>1, HoldersJoin
    <3> QED
      BY <3>2, <3>3
  <2>2. Holders(P, ix2, s) = Holders(P, ix, s)
    BY HoldersSame
  <2>3. Ahead(head, Add(tail, 1), s) = Ahead(head, tail, s) - One(tail, s)
    BY <1>2, TailMoves
  <2>4. Ahead(head, tail, s) =
          Cardinality(Holders(P, ix, s)) + Cardinality(full \cap {s}) - Cardinality(Holders(C, ix, s))
    BY DEF Balance
  <2>5. Cardinality(full \cap {s}) \in Nat /\ Cardinality(Holders(P, ix, s)) \in Nat
    <3>1. IsFiniteSet(full \cap {s}) /\ IsFiniteSet(Holders(P, ix, s))
      BY Sizes, FS_Subset DEF Holders
    <3> QED
      BY <3>1, FS_CardinalityType
  <2>6. One(tail, s) \in Nat
    BY DEF One
  <2> QED
    BY <2>1, <2>2, <2>3, <2>4, <2>5, <2>6
<1> QED
  BY <1>3, <1>4 DEF Balance

\* A push that returns has filled the slot of its index.
LEMMA PushReturned ==
  ASSUME FewThreads, NEW head \in Word, NEW tail \in Word,
         NEW P \in SUBSET Producers, NEW C \in SUBSET Consumers,
         NEW full \in SUBSET Slots, NEW ix, Balance(head, tail, P, C, ix, full),
         NEW p \in P, NEW slot \in Slots, Slot[ix[p]] = slot, slot \notin full,
         NEW ix2, \A u \in (P \ {p}) \cup C : ix2[u] = ix[u]
  PROVE  Balance(head, tail, P \ {p}, C, ix2, full \cup {slot})
<1>1. /\ IsFiniteSet(P) /\ Cardinality(P \ {p}) = Cardinality(P) - 1
      /\ IsFiniteSet(full) /\ Cardinality(full \cup {slot}) = Cardinality(full) + 1
  <2>1. IsFiniteSet(P) /\ IsFiniteSet(full)
    BY Sizes
  <2>2. Cardinality(P \ {p}) = Cardinality(P) - 1
    BY ONLY <2>1, p \in P, FS_RemoveElement
  <2>3. Cardinality(full \cup {slot}) = Cardinality(full) + 1
    BY ONLY <2>1, slot \notin full, FS_AddElement
  <2> QED
    BY ONLY <2>1, <2>2, <2>3
<1>2. AsSigned(Sub(head, tail))
        = Cardinality(P \ {p}) + Cardinality(full \cup {slot}) - Cardinality(C)
  BY <1>1, Sizes DEF Balance
<1>3. ASSUME NEW s \in Slots
      PROVE  Ahead(head, tail, s) =
               Cardinality(Holders(P \ {p}, ix2, s)) + Cardinality((full \cup {slot}) \cap {s})
                 - Cardinality(Holders(C, ix2, s))
  <2>1. /\ Cardinality(Holders(P \ {p}, ix2, s)) \in Nat
        /\ Cardinality(Holders(P, ix, s))
             = Cardinality(Holders(P \ {p}, ix2, s)) + One(ix[p], s)
    <3>1. \A u \in P \ {p} : ix2[u] = ix[u]
      OBVIOUS
    <3> QED
      BY <1>1, <3>1, HoldersLeave
  <2>2. Holders(C, ix2, s) = Holders(C, ix, s) /\ Cardinality(Holders(C, ix, s)) \in Nat
    <3>1. IsFiniteSet(Holders(C, ix, s))
      BY Sizes, FS_Subset DEF Holders
    <3> QED
      BY <3>1, FS_CardinalityType, HoldersSame
  <2>3. Ahead(head, tail, s) =
          Cardinality(Holders(P, ix, s)) + Cardinality(full \cap {s}) - Cardinality(Holders(C, ix, s))
    BY DEF Balance
  <2>4. CASE s = slot
    <3>1. full \cap {s} = {} /\ (full \cup {slot}) \cap {s} = {s}
      BY <2>4
    <3>2. Cardinality(full \cap {s}) = 0 /\ Cardinality((full \cup {slot}) \cap {s}) = 1
      BY <3>1, FS_EmptySet, FS_Singleton
    <3>3. One(ix[p], s) = 1
      BY <2>4 DEF One
    <3> QED
      BY <2>1, <2>2, <2>3, <3>2, <3>3
  <2>5. CASE s # slot
    <3>1. (full \cup {slot}) \cap {s} = full \cap {s} /\ One(ix[p], s) = 0
      BY <2>5 DEF One
    <3>2. Cardinality(full \cap {s}) \in Nat
      BY Sizes, FS_Subset, FS_CardinalityType
    <3> QED
      BY <2>1, <2>2, <2>3, <3>1, <3>2
  <2> QED
    BY <2>4, <2>5
<1> QED
  BY <1>2, <1>3 DEF Balance

\* A pop that returns has emptied it.
LEMMA PopReturned ==
  ASSUME FewThreads, NEW head \in Word, NEW tail \in Word,
         NEW P \in SUBSET Producers, NEW C \in SUBSET Consumers,
         NEW full \in SUBSET Slots, NEW ix, Balance(head, tail, P, C, ix, full),
         NEW c \in C, NEW slot \in full, Slot[ix[c]] = slot,
         NEW ix2, \A u \in P \cup (C \ {c}) : ix2[u] = ix[u]
  PROVE  Balance(head, tail, P, C \ {c}, ix2, full \ {slot})
<1>1. /\ IsFiniteSet(C) /\ Cardinality(C \ {c}) = Cardinality(C) - 1
      /\ IsFiniteSet(full) /\ Cardinality(full \ {slot}) = Cardinality(full) - 1
  BY Sizes, FS_RemoveElement
<1>2. AsSigned(Sub(head, tail))
        = Cardinality(P) + Cardinality(full \ {slot}) - Cardinality(C \ {c})
  BY <1>1, Sizes DEF Balance
<1>3. ASSUME NEW s \in Slots
      PROVE  Ahead(head, tail, s) =
               Cardinality(Holders(P, ix2, s)) + Cardinality((full \ {slot}) \cap {s})
                 - Cardinality(Holders(C \ {c}, ix2, s))
  <2>1. /\ Cardinality(Holders(C \ {c}, ix2, s)) \in Nat
        /\ Cardinality(Holders(C, ix, s))
             = Cardinality(Holders(C \ {c}, ix2, s)) + One(ix[c], s)
    <3>1. \A u \in C \ {c} : ix2[u] = ix[u]
      OBVIOUS
    <3> QED
      BY <1>1, <3>1, HoldersLeave
  <2>2. Holders(P, ix2, s) = Holders(P, ix, s) /\ Cardinality(Holders(P, ix, s)) \in Nat
    <3>1. IsFiniteSet(Holders(P, ix, s))
      BY Sizes, FS_Subset DEF Holders
    <3> QED
      BY <3>1, FS_CardinalityType, HoldersSame
  <2>3. Ahead(head, tail, s) =
          Cardinality(Holders(P, ix, s)) + Cardinality(full \cap {s}) - Cardinality(Holders(C, ix, s))
    BY DEF Balance
  <2>4. CASE s = slot
    <3>1. full \cap {s} = {s} /\ (full \ {slot}) \cap {s} = {}
      BY <2>4
    <3>2. Cardinality(full \cap {s}) = 1 /\ Cardinality((full \ {slot}) \cap {s}) = 0
      BY <3>1, FS_EmptySet, FS_Singleton
    <3>3. One(ix[c], s) = 1
      BY <2>4 DEF One
    <3> QED
      BY <2>1, <2>2, <2>3, <3>2, <3>3
  <2>5. CASE s # slot
    <3>1. One(ix[c], s) = 0
      BY <2>5 DEF One
    <3>2. Cardinality((full \ {slot}) \cap {s}) = Cardinality(full \cap {s})
      <4>1. (full \ {slot}) \cap {s} = full \cap {s}
        BY <2>5
      <4> QED
        BY <4>1
    <3>3. Cardinality(full \cap {s}) \in Nat
      BY Sizes, FS_Subset, FS_CardinalityType
    <3> QED
      BY <2>1, <2>2, <2>3, <3>1, <3>2, <3>3
  <2> QED
    BY <2>4, <2>5
<1> QED
  BY <1>2, <1>3 DEF Balance

\* Equal counters, no call under way and no message are in balance.
LEMMA NothingBalances ==
  ASSUME NEW i \in Word, NEW ix PROVE Balance(i, i, {}, {}, ix, {})
<1>1. Sub(i, i) = 0 /\ AsSigned(0) = 0
  BY SubZero, ModulusAssumption DEF AsSigned
<1>2. \A s : Holders({}, ix, s) = {} /\ {} \cap {s} = {} /\ Span(i, i, s) = {}
  <2>1. \A j \in Word : Sub(j, i) \in Nat
    BY WordArithmetic, WordNat
  <2> QED
    BY <1>1, <2>1 DEF Holders, Span
<1> QED
  BY <1>1, <1>2, FS_EmptySet DEF Balance, Ahead

\* Only the indices of threads that have claimed theirs matter.
LEMMA BalanceSame ==
  ASSUME NEW head, NEW tail, NEW P, NEW C, NEW full, NEW ix, NEW ix2,
         Balance(head, tail, P, C, ix, full), \A u \in P \cup C : ix2[u] = ix[u]
  PROVE  Balance(head, tail, P, C, ix2, full)
<1>1. \A s \in Slots : Holders(P, ix2, s) = Holders(P, ix, s) /\ Holders(C, ix2, s) = Holders(C, ix, s)
  BY HoldersSame
<1> QED
  BY <1>1 DEF Balance

\* With room for the indices claimed and no pop under way, the slot of a push
\* is free: no more than one of Size consecutive indices has it.
LEMMA PushFindsRoom ==
  ASSUME FewThreads, ApartInWindows(Slot, Size), NEW head \in Word, NEW tail \in Word,
         NEW P \in SUBSET Producers, NEW full \in SUBSET Slots, NEW ix,
         Balance(head, tail, P, {}, ix, full),
         AsSigned(Sub(head, tail)) <= Size,
         NEW p \in P, Slot[ix[p]] \in Slots
  PROVE  Slot[ix[p]] \notin full
<1> DEFINE s == Slot[ix[p]]
           used == Sub(head, tail)
<1>1. /\ Cardinality(P) \in Nat /\ Cardinality(full) \in Nat /\ Size \in Nat
      /\ IsFiniteSet(P) /\ Modulus \in Nat /\ Cardinality({}) = 0
  <2>1. {} \in SUBSET Consumers
    OBVIOUS
  <2> QED
    BY <2>1, Sizes, FS_EmptySet
<1>2. used \in Nat /\ used < Modulus /\ AsSigned(used) >= 0 /\ used <= Size
  <2>1. used \in Nat /\ used < Modulus
    BY WordArithmetic, WordNat
  <2>2. AsSigned(used) = Cardinality(P) + Cardinality(full) - Cardinality({})
    BY DEF Balance
  <2> QED
    BY <1>1, <2>1, <2>2 DEF AsSigned
<1>3. ASSUME NEW i \in Span(tail, head, s), NEW j \in Span(tail, head, s) PROVE i = j
  <2>1. i \in Word /\ j \in Word /\ Slot[i] = Slot[j] /\ Sub(i, tail) < used /\ Sub(j, tail) < used
    BY DEF Span
  <2>2. Sub(i, tail) \in 0 .. Size - 1 /\ Sub(j, tail) \in 0 .. Size - 1
    <3>1. Sub(i, tail) \in Nat /\ Sub(j, tail) \in Nat
      BY <2>1, WordArithmetic, WordNat
    <3> QED
      BY <1>1, <1>2, <2>1, <3>1
  <2>3. Add(tail, Sub(i, tail)) = i /\ Add(tail, Sub(j, tail)) = j
    BY <2>1, AddSub
  <2>4. Sub(i, tail) = Sub(j, tail)
    BY <2>1, <2>2, <2>3 DEF ApartInWindows
  <2> QED
    BY <2>3, <2>4
<1>4. Cardinality(Span(tail, head, s)) <= 1
  <2>1. CASE Span(tail, head, s) = {}
    BY <2>1, FS_EmptySet
  <2>2. CASE Span(tail, head, s) # {}
    <3>1. PICK i \in Span(tail, head, s) : TRUE
      BY <2>2
    <3>2. Span(tail, head, s) = {i}
      BY <1>3, <3>1
    <3> QED
      BY <3>2, FS_Singleton
  <2> QED
    BY <2>1, <2>2
<1>5. Cardinality(Span(tail, head, s))
        = Cardinality(Holders(P, ix, s)) + Cardinality(full \cap {s}) - Cardinality(Holders({}, ix, s))
  BY <1>2 DEF Balance, Ahead
<1>6. Cardinality(Holders({}, ix, s)) = 0
  <2>1. Holders({}, ix, s) = {}
    BY DEF Holders
  <2> QED
    BY <2>1, FS_EmptySet
<1>7. Cardinality(Holders(P, ix, s)) \in Nat /\ Cardinality(Holders(P, ix, s)) # 0
  <2>1. IsFiniteSet(Holders(P, ix, s)) /\ p \in Holders(P, ix, s)
    BY <1>1, FS_Subset DEF Holders
  <2> QED
    BY <2>1, FS_CardinalityType, FS_EmptySet
<1>8. s \in full => Cardinality(full \cap {s}) = 1
  <2>1. s \in full => full \cap {s} = {s}
    OBVIOUS
  <2> QED
    BY <2>1, FS_Singleton
<1> HIDE DEF s
<1>9. s \notin full
  BY <1>4, <1>5, <1>6, <1>7, <1>8
<1> QED
  BY <1>9 DEF s

\* With no index claimed beyond head and no push under way, the slot of a pop
\* has a message.
LEMMA PopFindsMessage ==
  ASSUME FewThreads, NEW head \in Word, NEW tail \in Word,
         NEW C \in SUBSET Consumers, NEW full \in SUBSET Slots, NEW ix,
         Balance(head, tail, {}, C, ix, full),
         AsSigned(Sub(head, tail)) >= 0,
         NEW c \in C, Slot[ix[c]] \in Slots
  PROVE  Slot[ix[c]] \in full
<1> DEFINE s == Slot[ix[c]]
<1>1. Cardinality(Span(tail, head, s)) \in Nat
  BY SpanIsFinite
<1>2. Cardinality(Span(tail, head, s))
        = Cardinality(Holders({}, ix, s)) + Cardinality(full \cap {s}) - Cardinality(Holders(C, ix, s))
  BY DEF Balance, Ahead
<1>3. Cardinality(Holders({}, ix, s)) = 0
  <2>1. Holders({}, ix, s) = {}
    BY DEF Holders
  <2> QED
    BY <2>1, FS_EmptySet
<1>4. Cardinality(Holders(C, ix, s)) \in Nat /\ Cardinality(Holders(C, ix, s)) # 0
  <2>1. IsFiniteSet(C)
    BY FS_Subset DEF FewThreads
  <2>2. IsFiniteSet(Holders(C, ix, s)) /\ c \in Holders(C, ix, s)
    BY <2>1, FS_Subset DEF Holders
  <2> QED
    BY <2>2, FS_CardinalityType, FS_EmptySet
<1>5. s \notin full => Cardinality(full \cap {s}) = 0
  <2>1. s \notin full => full \cap {s} = {}
    OBVIOUS
  <2> QED
    BY <2>1, FS_EmptySet
<1> HIDE DEF s
<1>6. s \in full
  BY <1>1, <1>2, <1>3, <1>4, <1>5
<1> QED
  BY <1>6 DEF s

-----------------------------------------------------------------------------
(* The balance in the steps of a queue.                                    *)
BusyOf(T) == {t \in T : Busy(t)}

\* full are the slots that hold a message.
Balanced(full) ==
  Balance(head_, tail_, BusyOf(Producers), BusyOf(Consumers), index, full)

\* What the steps need to know of the state.
AreWords == head_ \in Word /\ tail_ \in Word /\ index \in [Threads -> Word]

\* What claiming an index does to the counters: nothing yet, or one moves on
\* past the index that its thread then holds.
OthersStay(T) ==
  \A t \in Threads \ T : (Busy(t)' <=> Busy(t)) /\ (Busy(t) => index'[t] = index[t])

Looks == UNCHANGED counters /\ OthersStay({})

HeadClaimed(p) ==
  /\ head_' = Add(head_, 1) /\ tail_' = tail_
  /\ index'[p] = head_ /\ ~Busy(p) /\ Busy(p)'
  /\ OthersStay({p})

TailClaimed(c) ==
  /\ tail_' = Add(tail_, 1) /\ head_' = head_
  /\ index'[c] = tail_ /\ ~Busy(c) /\ Busy(c)'
  /\ OthersStay({c})

\* What the ten claiming actions come to: a thread looks, a producer claims
\* the head or a consumer the tail; no message is pushed or popped.
LEMMA ClaimMoves ==
  ASSUME Spsc => EndsInv, AreWords, NEW Steps, pc \in [Threads -> Steps], Claims
  PROVE  /\ UNCHANGED <<pushed, popped>>
         /\ \/ Looks
            \/ \E p \in Producers : HeadClaimed(p)
            \/ \E c \in Consumers : TailClaimed(c)
<1> USE ThreadsAssumption DEF AreWords, Threads, Goto, Return, Busy, OthersStay, counters
<1>1. ASSUME NEW p \in Producers, ClaimPush(p)
      PROVE  UNCHANGED <<pushed, popped>> /\ (Looks \/ HeadClaimed(p))
  BY <1>1
     DEF ClaimPush, TryPushBegin, TryPushCheck, ClaimHead, ReloadHead, PushBegin, EndsInv,
         Looks, HeadClaimed
<1>2. ASSUME NEW c \in Consumers, ClaimPop(c)
      PROVE  UNCHANGED <<pushed, popped>> /\ (Looks \/ TailClaimed(c))
  BY <1>2
     DEF ClaimPop, TryPopBegin, TryPopCheck, ClaimTail, ReloadTail, PopBegin, EndsInv,
         Looks, TailClaimed
<1> QED
  BY <1>1, <1>2 DEF Claims

\* Claiming an index, working on its slot and returning keep the balance.
LEMMA ClaimsKeepBalance ==
  ASSUME FewThreads, Spsc => EndsInv, AreWords, NEW Steps, pc \in [Threads -> Steps],
         NEW full \in SUBSET Slots, Balanced(full), Claims
  PROVE  Balanced(full)'
<1> DEFINE P == BusyOf(Producers)
           C == BusyOf(Consumers)
<1>1. P \in SUBSET Producers /\ C \in SUBSET Consumers /\ head_ \in Word /\ tail_ \in Word
  BY DEF BusyOf, AreWords
<1>2. Balance(head_, tail_, P, C, index, full)
  BY DEF Balanced
<1>3. ASSUME Looks PROVE Balanced(full)'
  <2>1. P' = P /\ C' = C /\ \A t \in P \cup C : index'[t] = index[t]
    BY <1>3 DEF Looks, OthersStay, BusyOf, Threads
  <2>2. Balance(head_, tail_, P, C, index', full)
    BY <1>2, <2>1, BalanceSame
  <2> QED
    BY <1>3, <2>1, <2>2 DEF Balanced, Looks, counters
<1>4. ASSUME NEW p \in Producers, HeadClaimed(p) PROVE Balanced(full)'
  <2>1. /\ P' = P \cup {p} /\ C' = C /\ p \notin P
        /\ index'[p] = head_ /\ \A t \in P \cup C : index'[t] = index[t]
    BY <1>4, ThreadsAssumption DEF HeadClaimed, OthersStay, BusyOf, Threads
  <2> HIDE DEF P, C
  <2>2. Balance(Add(head_, 1), tail_, P \cup {p}, C, index', full)
    BY <1>1, <1>2, <2>1, PushClaimed
  <2>3. Balance(head_', tail_', P', C', index', full)
    BY <1>4, <2>1, <2>2 DEF HeadClaimed
  <2> QED
    BY <2>3 DEF Balanced, P, C
<1>5. ASSUME NEW c \in Consumers, TailClaimed(c) PROVE Balanced(full)'
  <2>1. /\ P' = P /\ C' = C \cup {c} /\ c \notin C
        /\ index'[c] = tail_ /\ \A t \in P \cup C : index'[t] = index[t]
    BY <1>5, ThreadsAssumption DEF TailClaimed, OthersStay, BusyOf, Threads
  <2> HIDE DEF P, C
  <2>2. Balance(head_, Add(tail_, 1), P, C \cup {c}, index', full)
    BY <1>1, <1>2, <2>1, PopClaimed
  <2>3. Balance(head_', tail_', P', C', index', full)
    BY <1>5, <2>1, <2>2 DEF TailClaimed
  <2> QED
    BY <2>3 DEF Balanced, P, C
<1> QED
  BY <1>3, <1>4, <1>5, ClaimMoves

\* A thread at work on its slot changes no account.
LEMMA WorkKeepsBalance ==
  ASSUME NEW Steps, pc \in [Threads -> Steps], NEW t \in Threads, Works(t),
         NEW full, Balanced(full)
  PROVE  Balanced(full)'
<1>1. /\ UNCHANGED <<head_, tail_, index>>
      /\ \A u \in Threads : Busy(u)' <=> Busy(u)
  BY DEF Works, Busy
<1>2. BusyOf(Producers)' = BusyOf(Producers) /\ BusyOf(Consumers)' = BusyOf(Consumers)
  BY <1>1 DEF BusyOf, Threads
<1> QED
  BY <1>1, <1>2 DEF Balanced

\* A push that fills its slot is replaced by the full slot.
LEMMA PushKeepsBalance ==
  ASSUME FewThreads, AreWords, NEW Steps, pc \in [Threads -> Steps],
         NEW full \in SUBSET Slots, Balanced(full),
         NEW p \in Producers, Finishes(p), SlotOf(p) \notin full,
         NEW full2, full2 = full \cup {SlotOf(p)}
  PROVE  Balanced(full2)'
<1> DEFINE P == BusyOf(Producers)
           C == BusyOf(Consumers)
<1>1. P \in SUBSET Producers /\ C \in SUBSET Consumers /\ head_ \in Word /\ tail_ \in Word
  BY DEF BusyOf, AreWords
<1>2. Balance(head_, tail_, P, C, index, full)
  BY DEF Balanced
<1>3. /\ UNCHANGED <<head_, tail_>>
      /\ Busy(p) /\ ~Busy(p)'
      /\ \A t \in Threads \ {p} : (Busy(t)' <=> Busy(t)) /\ index'[t] = index[t]
  BY DEF Finishes, Return, Goto, Busy, counters, Threads, AreWords
<1>4. /\ p \in P /\ P' = P \ {p} /\ C' = C
      /\ \A t \in (P \ {p}) \cup C : index'[t] = index[t]
  BY <1>3, ThreadsAssumption DEF BusyOf, Threads
<1>5. Slot[index[p]] = SlotOf(p) /\ SlotOf(p) \in Slots
  BY Constants DEF SlotOf, AreWords, Threads
<1> HIDE DEF P, C
<1>6. Balance(head_, tail_, P \ {p}, C, index', full \cup {SlotOf(p)})
  BY <1>1, <1>2, <1>4, <1>5, PushReturned
<1>7. Balance(head_', tail_', P', C', index', full2)
  BY <1>3, <1>4, <1>6
<1> QED
  BY <1>7 DEF Balanced, P, C

\* A pop that empties its slot is paid for by the slot.
LEMMA PopKeepsBalance ==
  ASSUME FewThreads, AreWords, NEW Steps, pc \in [Threads -> Steps],
         NEW full \in SUBSET Slots, Balanced(full),
         NEW c \in Consumers, Finishes(c), SlotOf(c) \in full,
         NEW full2, full2 = full \ {SlotOf(c)}
  PROVE  Balanced(full2)'
<1> DEFINE P == BusyOf(Producers)
           C == BusyOf(Consumers)
<1>1. P \in SUBSET Producers /\ C \in SUBSET Consumers /\ head_ \in Word /\ tail_ \in Word
  BY DEF BusyOf, AreWords
<1>2. Balance(head_, tail_, P, C, index, full)
  BY DEF Balanced
<1>3. /\ UNCHANGED <<head_, tail_>>
      /\ Busy(c) /\ ~Busy(c)'
      /\ \A t \in Threads \ {c} : (Busy(t)' <=> Busy(t)) /\ index'[t] = index[t]
  BY DEF Finishes, Return, Goto, Busy, counters, Threads, AreWords
<1>4. /\ c \in C /\ P' = P /\ C' = C \ {c}
      /\ \A t \in P \cup (C \ {c}) : index'[t] = index[t]
  BY <1>3, ThreadsAssumption DEF BusyOf, Threads
<1>5. Slot[index[c]] = SlotOf(c)
  BY DEF SlotOf
<1> HIDE DEF P, C
<1>6. Balance(head_, tail_, P, C \ {c}, index', full \ {SlotOf(c)})
  BY <1>1, <1>2, <1>4, <1>5, PopReturned
<1>7. Balance(head_', tail_', P', C', index', full2)
  BY <1>3, <1>4, <1>6
<1> QED
  BY <1>7 DEF Balanced, P, C

-----------------------------------------------------------------------------
(* How far the counters have come.                                         *)
Since(i) == Sub(i, Start)

\* The messages that an index has been claimed for.
Numbered ==
  {m \in Message : m[2] <= pushed[m[1]] \/ (Busy(m[1]) /\ m = NextMessage(m[1]))}

\* A bound of the model: no counter comes all the way round.
FewMessages ==
  /\ 2 * Cardinality(Message) < Modulus
  /\ 2 * (Cardinality(Message) + Cardinality(Consumers)) <= Modulus

\* head_ counts them, and tail_ is as far behind it as the counters say.
CountInv ==
  /\ Since(head_) = Cardinality(Numbered)
  /\ Since(tail_) = Since(head_) - Used

\* A value that lies not too far behind another is as far behind it as their
\* signed difference.
LEMMA SignedDifference ==
  ASSUME NEW a \in Word, NEW b \in Word,
         -Modulus <= 2 * (Since(a) - Since(b)), 2 * (Since(a) - Since(b)) < Modulus
  PROVE  AsSigned(Sub(a, b)) = Since(a) - Since(b)
BY ModulusAssumption, StartAssumption DEF Since, Sub, AsSigned, Word

\* What a relaxed load returns is not ahead of the counter.
LEMMA RecentIsBehind ==
  ASSUME NEW counter \in Word, NEW i \in Recent(counter)
  PROVE  /\ i \in Word
         /\ Since(i) <= Since(counter) /\ Since(counter) - Since(i) <= Lag
<1>1. PICK k \in 0 .. Lag : k <= Sub(counter, Start) /\ i = Sub(counter, k)
  BY DEF Recent
<1>2. k \in Nat /\ k <= Lag
  BY LagAssumption
<1> QED
  BY <1>1, <1>2, LagAssumption, ModulusAssumption, StartAssumption DEF Since, Sub, Word

\* Messages can be counted.
LEMMA MessagesAreFinite ==
  ASSUME FewThreads
  PROVE  /\ IsFiniteSet(Message) /\ Cardinality(Message) \in Nat
         /\ IsFiniteSet(Numbered) /\ Cardinality(Numbered) \in Nat
         /\ Cardinality(Numbered) <= Cardinality(Message)
<1>1. IsFiniteSet(1 .. MaxPush)
  BY MaxPushAssumption, FS_Interval
<1>2. IsFiniteSet(Message)
  BY <1>1, FS_Product DEF Message, FewThreads
<1>3. IsFiniteSet(Numbered) /\ Cardinality(Numbered) <= Cardinality(Message)
  BY <1>2, FS_Subset DEF Numbered
<1> QED
  BY <1>2, <1>3, FS_CardinalityType

\* How far the counters can come.
LEMMA CountersInRange ==
  ASSUME FewThreads, AreWords, CountInv, NEW full \in SUBSET Slots, Balanced(full)
  PROVE  /\ Since(head_) \in 0 .. Cardinality(Message)
         /\ Since(tail_) \in 0 .. Cardinality(Message) + Cardinality(BusyOf(Consumers))
         /\ Cardinality(BusyOf(Consumers)) \in 0 .. Cardinality(Consumers)
         /\ Used \in Int
<1>1. BusyOf(Producers) \in SUBSET Producers /\ BusyOf(Consumers) \in SUBSET Consumers
  BY DEF BusyOf
<1>2. Used = Cardinality(BusyOf(Producers)) + Cardinality(full) - Cardinality(BusyOf(Consumers))
  BY DEF Balanced, Balance, Used
<1>3. Since(tail_) \in Nat /\ Since(head_) \in Nat
  BY StartAssumption, WordArithmetic, WordNat DEF Since, AreWords
<1> QED
  BY <1>1, <1>2, <1>3, Sizes, MessagesAreFinite DEF CountInv

\* A step moves no counter, or one of them by one, and back never.
Onward ==
  /\ Since(head_) <= Since(head_') /\ Since(tail_) <= Since(tail_')

PushedType == pushed \in [Producers -> 0 .. MaxPush]

\* A claim keeps the counters' distances, and moves each of them on at most by one.
LEMMA ClaimsCount ==
  ASSUME FewThreads, FewMessages, Spsc => EndsInv, AreWords, PushedType,
         \A p \in Producers : pc'[p] # "idle" => pushed[p] < MaxPush,
         NEW Steps, pc \in [Threads -> Steps], CountInv,
         NEW full \in SUBSET Slots, Balanced(full), Balanced(full)', Claims
  PROVE  CountInv' /\ Onward
<1> DEFINE P == BusyOf(Producers)
           C == BusyOf(Consumers)
<1>1. /\ Since(head_) \in 0 .. Cardinality(Message)
      /\ Since(tail_) \in 0 .. Cardinality(Message) + Cardinality(C)
      /\ Cardinality(C) \in 0 .. Cardinality(Consumers)
      /\ Used \in Int
  BY CountersInRange
<1>2. /\ Cardinality(Message) \in Nat /\ Cardinality(Consumers) \in Nat /\ Modulus \in Nat
      /\ IsFiniteSet(Numbered)
  BY Sizes, MessagesAreFinite
<1>3. /\ Used = Cardinality(P) + Cardinality(full) - Cardinality(C)
      /\ Used' = Cardinality(P') + Cardinality(full) - Cardinality(C')
  BY DEF Balanced, Balance, Used
<1>4. /\ P \in SUBSET Producers /\ C \in SUBSET Consumers
      /\ P' \in SUBSET Producers /\ C' \in SUBSET Consumers
  BY DEF BusyOf
<1>5. UNCHANGED <<pushed, popped>>
  BY ClaimMoves
<1>6. ASSUME Looks PROVE CountInv' /\ Onward
  <2>1. Numbered' = Numbered
    BY <1>5, <1>6
       DEF Looks, OthersStay, Numbered, Message, NextMessage, Threads
  <2> QED
    BY <1>1, <1>6, <2>1 DEF Looks, counters, CountInv, Onward, Since, Used
<1>7. ASSUME NEW p \in Producers, HeadClaimed(p) PROVE CountInv' /\ Onward
  <2>1. /\ Numbered' = Numbered \cup {NextMessage(p)} /\ NextMessage(p) \notin Numbered
    <3>1. pushed[p] < MaxPush /\ NextMessage(p) = <<p, pushed[p] + 1>> /\ NextMessage(p) \in Message
      BY <1>7, MaxPushAssumption DEF HeadClaimed, Busy, PushedType, NextMessage, Message
    <3>2. NextMessage(p) \notin Numbered
      BY <1>7, <3>1 DEF Numbered, HeadClaimed, PushedType
    <3>3. Numbered' = Numbered \cup {NextMessage(p)}
      BY <1>5, <1>7, <3>1
         DEF HeadClaimed, OthersStay, Numbered, Message, NextMessage, Threads
    <3> QED
      BY <3>2, <3>3
  <2>2. Cardinality(Numbered') = Cardinality(Numbered) + 1
    BY <1>2, <2>1, FS_AddElement
  <2>3. P' = P \cup {p} /\ p \notin P /\ C' = C
    BY <1>7, ThreadsAssumption DEF HeadClaimed, OthersStay, BusyOf, Threads
  <2>4. Used' = Used + 1
    <3>1. Cardinality(P \cup {p}) = Cardinality(P) + 1
      BY <1>4, <2>3, Sizes, FS_AddElement
    <3> QED
      BY <1>3, <1>4, <2>3, <3>1, Sizes
  <2>5. Since(head_') = Since(head_) + 1 /\ tail_' = tail_
    <3>1. Since(head_) # Modulus - 1
      BY <1>1, <1>2, ModulusAssumption DEF FewMessages
    <3> QED
      BY <1>7, <3>1, StartAssumption, SubAfter DEF HeadClaimed, Since, AreWords
  <2> QED
    BY <1>1, <2>2, <2>4, <2>5 DEF CountInv, Onward, Since
<1>8. ASSUME NEW c \in Consumers, TailClaimed(c) PROVE CountInv' /\ Onward
  <2>1. Numbered' = Numbered
    BY <1>5, <1>8, ThreadsAssumption
       DEF TailClaimed, OthersStay, Numbered, Message, NextMessage, Threads
  <2>2. C' = C \cup {c} /\ c \notin C /\ P' = P
    BY <1>8, ThreadsAssumption DEF TailClaimed, OthersStay, BusyOf, Threads
  <2>3. Cardinality(C') = Cardinality(C) + 1
    BY <1>4, <2>2, Sizes, FS_AddElement
  <2>4. Used' = Used - 1 /\ Cardinality(C') <= Cardinality(Consumers)
    BY <1>3, <1>4, <2>2, <2>3, Sizes
  <2>5. Since(tail_') = Since(tail_) + 1 /\ head_' = head_
    <3>1. Since(tail_) # Modulus - 1
      BY <1>1, <1>2, <2>3, <2>4, ModulusAssumption DEF FewMessages
    <3> QED
      BY <1>8, <3>1, StartAssumption, SubAfter DEF TailClaimed, Since, AreWords
  <2> QED
    BY <1>1, <2>1, <2>4, <2>5 DEF CountInv, Onward, Since
<1> QED
  BY <1>6, <1>7, <1>8, ClaimMoves

\* Nothing else moves them.
LEMMA WorkKeepsCount ==
  ASSUME NEW Steps, pc \in [Threads -> Steps], CountInv, NEW t \in Threads, Works(t),
         UNCHANGED pushed
  PROVE  CountInv'
<1>1. UNCHANGED <<head_, tail_, pushed>> /\ \A u \in Threads : Busy(u)' <=> Busy(u)
  BY DEF Works, Busy
<1>2. Numbered' = Numbered
  BY <1>1 DEF Numbered, Message, NextMessage, Threads
<1> QED
  BY <1>1, <1>2 DEF CountInv, Since, Used

\* The message of a push that returns has been counted before.
LEMMA ReturnsKeepCount ==
  ASSUME AreWords, PushedType, NEW Steps, pc \in [Threads -> Steps], CountInv,
         NEW t \in Threads, Finishes(t),
         t \in Producers => Accepted(t), t \in Consumers => UNCHANGED pushed
  PROVE  CountInv'
<1>1. /\ UNCHANGED <<head_, tail_>> /\ Busy(t) /\ ~Busy(t)'
      /\ \A u \in Threads \ {t} : Busy(u)' <=> Busy(u)
  BY DEF Finishes, Return, Goto, Busy, counters, AreWords
<1>2. Numbered' = Numbered
  <2>1. CASE t \in Producers
    <3>1. /\ pushed'[t] = pushed[t] + 1
          /\ \A p \in Producers \ {t} : pushed'[p] = pushed[p] /\ (Busy(p)' <=> Busy(p))
      BY <1>1, <2>1 DEF Accepted, PushedType, Threads
    <3>2. ASSUME NEW m \in Message PROVE m \in Numbered' <=> m \in Numbered
      <4>1. m = <<m[1], m[2]>> /\ m[1] \in Producers /\ m[2] \in Int
        BY MaxPushAssumption DEF Message
      <4>2. pushed[m[1]] \in Int
        BY <4>1, MaxPushAssumption DEF PushedType
      <4>3. m = NextMessage(m[1]) <=> m[2] = pushed[m[1]] + 1
        BY <4>1 DEF NextMessage
      <4> QED
        BY <1>1, <2>1, <3>1, <4>1, <4>2, <4>3 DEF Numbered, NextMessage
    <3> QED
      BY <3>2 DEF Numbered
  <2>2. CASE t \in Consumers
    BY <1>1, <2>2, ThreadsAssumption DEF Numbered, Message, NextMessage, Threads
  <2> QED
    BY <2>1, <2>2 DEF Threads
<1> QED
  BY <1>1, <1>2 DEF CountInv, Since, Used

-----------------------------------------------------------------------------
(* What a call has seen of the counters.                                   *)
\* The counter it loaded first was no further then than it is now, and a call
\* that has passed its check has seen room, or a message, with a value of the
\* other counter that was no further either.
Looking(t) == pc[t] \in {"check", "claim"}

RoomSeen(p) ==
  \E tail \in Word : Since(tail) <= Since(tail_) /\ ~IsFull(index[p], tail)

MessageSeen(c) ==
  \E head \in Word : Since(head) <= Since(head_) /\ ~IsEmpty(head, index[c])

SeenInv ==
  /\ \A p \in Producers : Looking(p) => Since(index[p]) <= Since(head_)
  /\ \A c \in Consumers : Looking(c) => Since(index[c]) <= Since(tail_)
  /\ \A p \in Producers : pc[p] = "claim" /\ ~Spsc => RoomSeen(p)
  /\ \A c \in Consumers : pc[c] = "claim" /\ ~Spsc => MessageSeen(c)

\* What one thread has seen does not change by the steps of the others.
LEMMA SeenStays ==
  ASSUME AreWords, AreWords', SeenInv, Onward, NEW t \in Threads,
         pc'[t] = pc[t], index'[t] = index[t]
  PROVE  /\ Looking(t)' /\ t \in Producers => Since(index'[t]) <= Since(head_')
         /\ Looking(t)' /\ t \in Consumers => Since(index'[t]) <= Since(tail_')
         /\ pc'[t] = "claim" /\ ~Spsc /\ t \in Producers => RoomSeen(t)'
         /\ pc'[t] = "claim" /\ ~Spsc /\ t \in Consumers => MessageSeen(t)'
<1>1. \A i \in Word : Since(i) \in Nat
  BY StartAssumption, WordArithmetic, WordNat DEF Since
<1>2. /\ \A i \in Word : Since(i) <= Since(head_) => Since(i) <= Since(head_')
      /\ \A i \in Word : Since(i) <= Since(tail_) => Since(i) <= Since(tail_')
  BY <1>1 DEF Onward, AreWords
<1>3. index[t] \in Word
  BY DEF AreWords
<1> HIDE DEF Since
<1> QED
  BY <1>2, <1>3 DEF SeenInv, Looking, RoomSeen, MessageSeen

\* What a thread has loaded is not later than it may be after a claim ...
LEMMA SeenByClaims ==
  ASSUME AreWords, AreWords', NEW Steps, pc \in [Threads -> Steps],
         SeenInv, Onward, Claims
  PROVE  SeenInv'
<1>1. \A i \in Word : Since(i) \in Nat /\ Since(i) <= Since(i)
  <2>1. \A i \in Word : Since(i) \in Nat
    BY StartAssumption, WordArithmetic, WordNat DEF Since
  <2> QED
    BY <2>1
<1>2. /\ head_ \in Word /\ tail_ \in Word
      /\ Since(head_) <= Since(head_') /\ Since(tail_) <= Since(tail_')
  BY DEF AreWords, Onward
<1>3. /\ \A i \in Own(head_) : Since(i) <= Since(head_)
      /\ \A i \in Own(tail_) : Since(i) <= Since(tail_)
  BY <1>1, <1>2, RecentIsBehind DEF Own
<1>4. ASSUME NEW p \in Producers, ClaimPush(p)
      PROVE  SeenInv'
  <2>1. \A t \in Threads \ {p} : pc'[t] = pc[t] /\ index'[t] = index[t]
    BY <1>4
       DEF ClaimPush, TryPushBegin, TryPushCheck, ClaimHead, ReloadHead, PushBegin, Goto,
           Return, AreWords, Threads
  <2>2. Looking(p)' => Since(index'[p]) <= Since(head_')
    BY <1>1, <1>2, <1>3, <1>4
       DEF ClaimPush, TryPushBegin, TryPushCheck, ClaimHead, ReloadHead, PushBegin, Goto,
           Return, AreWords, Threads, Looking, SeenInv
  <2>3. pc'[p] = "claim" /\ ~Spsc => RoomSeen(p)'
    <3> SUFFICES ASSUME pc'[p] = "claim", ~Spsc PROVE RoomSeen(p)'
      OBVIOUS
    <3>1. PICK tail \in Recent(tail_) : ~IsFull(index[p], tail) /\ index'[p] = index[p]
                                          /\ tail_' = tail_
      BY <1>4
         DEF ClaimPush, TryPushBegin, TryPushCheck, ClaimHead, ReloadHead, PushBegin, Goto,
             Return, AreWords, Threads
    <3>2. tail \in Word /\ Since(tail) <= Since(tail_)
      BY <1>2, RecentIsBehind
    <3> QED
      BY <3>1, <3>2 DEF RoomSeen
  <2> QED
    BY <2>1, <2>2, <2>3, SeenStays, ThreadsAssumption DEF SeenInv, Threads
<1>5. ASSUME NEW c \in Consumers, ClaimPop(c)
      PROVE  SeenInv'
  <2>1. \A t \in Threads \ {c} : pc'[t] = pc[t] /\ index'[t] = index[t]
    BY <1>5
       DEF ClaimPop, TryPopBegin, TryPopCheck, ClaimTail, ReloadTail, PopBegin, Goto,
           Return, AreWords, Threads
  <2>2. Looking(c)' => Since(index'[c]) <= Since(tail_')
    BY <1>1, <1>2, <1>3, <1>5
       DEF ClaimPop, TryPopBegin, TryPopCheck, ClaimTail, ReloadTail, PopBegin, Goto,
           Return, AreWords, Threads, Looking, SeenInv
  <2>3. pc'[c] = "claim" /\ ~Spsc => MessageSeen(c)'
    <3> SUFFICES ASSUME pc'[c] = "claim", ~Spsc PROVE MessageSeen(c)'
      OBVIOUS
    <3>1. PICK head \in Recent(head_) : ~IsEmpty(head, index[c]) /\ index'[c] = index[c]
                                          /\ head_' = head_
      BY <1>5
         DEF ClaimPop, TryPopBegin, TryPopCheck, ClaimTail, ReloadTail, PopBegin, Goto,
             Return, AreWords, Threads
    <3>2. head \in Word /\ Since(head) <= Since(head_)
      BY <1>2, RecentIsBehind
    <3> QED
      BY <3>1, <3>2 DEF MessageSeen
  <2> QED
    BY <2>1, <2>2, <2>3, SeenStays, ThreadsAssumption DEF SeenInv, Threads
<1> QED
  BY <1>4, <1>5 DEF Claims

\* ... and after any other step.
LEMMA SeenByOthers ==
  ASSUME AreWords, AreWords', NEW Steps, pc \in [Threads -> Steps], SeenInv,
         UNCHANGED counters,
         UNCHANGED <<pc, index>> \/ \E t \in Threads : Works(t) \/ Finishes(t)
  PROVE  SeenInv'
<1>1. Onward
  <2>1. Since(head_) \in Nat /\ Since(tail_) \in Nat
    BY StartAssumption, WordArithmetic, WordNat DEF Since, AreWords
  <2> QED
    BY <2>1 DEF Onward, counters
<1>2. \A t \in Threads : \/ pc'[t] = pc[t] /\ index'[t] = index[t]
                         \/ ~Looking(t)'
  BY DEF Works, Finishes, Return, Goto, Busy, Looking, AreWords
<1> QED
  BY <1>1, <1>2, SeenStays DEF SeenInv, Threads, Looking

-----------------------------------------------------------------------------
\* The signed difference of two values in range is how far they are apart.
LEMMA UsedIs ==
  ASSUME FewThreads, FewMessages, AreWords, CountInv,
         NEW full \in SUBSET Slots, Balanced(full),
         NEW a \in Word, NEW b \in Word,
         Since(a) <= Since(head_), Since(b) <= Since(tail_)
  PROVE  /\ AsSigned(Sub(a, b)) = Since(a) - Since(b)
         /\ Since(a) \in Nat /\ Since(b) \in Nat /\ Since(head_) \in Nat /\ Since(tail_) \in Nat
         /\ Used = Since(head_) - Since(tail_)
<1>1. /\ Since(head_) \in 0 .. Cardinality(Message)
      /\ Since(tail_) \in 0 .. Cardinality(Message) + Cardinality(BusyOf(Consumers))
      /\ Cardinality(BusyOf(Consumers)) \in 0 .. Cardinality(Consumers)
      /\ Used \in Int
  BY CountersInRange
<1>2. Cardinality(Message) \in Nat /\ Cardinality(Consumers) \in Nat /\ Modulus \in Nat
  BY Sizes, MessagesAreFinite
<1>3. Since(a) \in Nat /\ Since(b) \in Nat
  BY StartAssumption, WordArithmetic, WordNat DEF Since
<1>4. -Modulus <= 2 * (Since(a) - Since(b)) /\ 2 * (Since(a) - Since(b)) < Modulus
  BY <1>1, <1>2, <1>3 DEF FewMessages
<1>5. AsSigned(Sub(a, b)) = Since(a) - Since(b)
  BY <1>4, SignedDifference
<1> QED
  BY <1>1, <1>3, <1>5 DEF CountInv

\* A size that few threads leave room for is the same signed number.
LEMMA SizeIsPositive ==
  FewThreads => AsSigned(Size) = Size /\ Size \in Nat /\ 2 * Size < Modulus
<1>1. {} \in SUBSET Producers /\ {} \in SUBSET Consumers /\ {} \in SUBSET Slots
  OBVIOUS
<1> QED
  BY <1>1, Sizes DEF FewThreads, AsSigned

\* A call that claims an index is refused at the limit only.
LEMMA ClaimsRefuseAtLimit ==
  ASSUME FewThreads, FewMessages, AreWords, CountInv, NEW Steps, pc \in [Threads -> Steps],
         NEW full \in SUBSET Slots, Balanced(full), SeenInv, Claims
  PROVE  RefusedAtLimit(Lag)
<1>1. ASSUME NEW p \in Producers, Refused(p)
      PROVE  Used >= Size - Lag
  <2>1. PICK tail \in Recent(tail_) : IsFull(index[p], tail) /\ Looking(p)
    BY <1>1, ThreadsAssumption
       DEF Refused, Claims, ClaimPush, TryPushBegin, TryPushCheck, ClaimHead, ReloadHead,
           PushBegin, ClaimPop, TryPopBegin, TryPopCheck, ClaimTail, ReloadTail, PopBegin,
           Goto, Return, Threads, Looking
  <2>2. /\ tail \in Word /\ Since(tail) <= Since(tail_) /\ Since(tail_) - Since(tail) <= Lag
        /\ index[p] \in Word /\ Since(index[p]) <= Since(head_)
    BY <2>1, RecentIsBehind DEF AreWords, SeenInv, Threads
  <2>3. AsSigned(Sub(index[p], tail)) >= Size
    BY <2>1, SizeIsPositive DEF IsFull, Reaches
  <2>4. /\ AsSigned(Sub(index[p], tail)) = Since(index[p]) - Since(tail)
        /\ Since(index[p]) \in Nat /\ Since(tail) \in Nat /\ Since(head_) \in Nat
        /\ Since(tail_) \in Nat /\ Used = Since(head_) - Since(tail_)
    BY <2>2, UsedIs
  <2> QED
    BY <2>2, <2>3, <2>4, SizeIsPositive, LagAssumption
<1>2. ASSUME NEW c \in Consumers, Refused(c)
      PROVE  Used <= Lag
  <2>1. PICK head \in Recent(head_) : IsEmpty(head, index[c]) /\ Looking(c)
    BY <1>2, ThreadsAssumption
       DEF Refused, Claims, ClaimPush, TryPushBegin, TryPushCheck, ClaimHead, ReloadHead,
           PushBegin, ClaimPop, TryPopBegin, TryPopCheck, ClaimTail, ReloadTail, PopBegin,
           Goto, Return, Threads, Looking
  <2>2. /\ head \in Word /\ Since(head) <= Since(head_) /\ Since(head_) - Since(head) <= Lag
        /\ index[c] \in Word /\ Since(index[c]) <= Since(tail_)
    BY <2>1, RecentIsBehind DEF AreWords, SeenInv, Threads
  <2>3. AsSigned(Sub(head, index[c])) <= 0
    BY <2>1 DEF IsEmpty
  <2>4. /\ AsSigned(Sub(head, index[c])) = Since(head) - Since(index[c])
        /\ Since(index[c]) \in Nat /\ Since(head) \in Nat /\ Since(head_) \in Nat
        /\ Since(tail_) \in Nat /\ Used = Since(head_) - Since(tail_)
    BY <2>2, UsedIs
  <2> QED
    BY <2>2, <2>3, <2>4, LagAssumption
<1> QED
  BY <1>1, <1>2 DEF RefusedAtLimit

\* In MPMC mode a compare-exchange succeeds within the limit only.
LEMMA ClaimsStayWithinLimit ==
  ASSUME FewThreads, FewMessages, AreWords, AreWords', CountInv, CountInv',
         NEW Steps, pc \in [Threads -> Steps], ~Spsc,
         NEW full \in SUBSET Slots, Balanced(full), Balanced(full)', SeenInv, Claims
  PROVE  ClaimedWithinLimit
<1>1. ASSUME NEW p \in Producers, pc[p] = "claim", pc'[p] = "push"
      PROVE  Used' <= Size
  <2>1. head_ = index[p] /\ head_' = Add(head_, 1) /\ tail_' = tail_
    BY <1>1, ThreadsAssumption
       DEF Claims, ClaimPush, TryPushBegin, TryPushCheck, ClaimHead, ReloadHead,
           PushBegin, ClaimPop, TryPopBegin, TryPopCheck, ClaimTail, ReloadTail, PopBegin,
           Goto, Return, Threads
  <2>2. PICK tail \in Word : Since(tail) <= Since(tail_) /\ ~IsFull(head_, tail)
    BY <1>1, <2>1 DEF SeenInv, RoomSeen
  <2>3. head_ \in Word /\ tail_ \in Word /\ Since(head_) \in Nat /\ Since(head_) <= Since(head_)
    <3>1. head_ \in Word /\ tail_ \in Word /\ Since(head_) \in Nat
      BY StartAssumption, WordArithmetic, WordNat DEF AreWords, Since
    <3> QED
      BY <3>1
  <2>4. /\ AsSigned(Sub(head_, tail)) = Since(head_) - Since(tail)
        /\ Since(tail) \in Nat /\ Since(tail_) \in Nat /\ Used = Since(head_) - Since(tail_)
    BY <2>2, <2>3, UsedIs
  <2>5. ~(AsSigned(Sub(head_, tail)) >= Size)
    BY <2>2, SizeIsPositive DEF IsFull, Reaches
  <2>6. 2 * (Used + 1) < Modulus
    BY <2>2, <2>3, <2>4, <2>5, SizeIsPositive, ModulusAssumption
  <2>7. Used' = Used + 1
    BY <2>1, <2>3, <2>6, HeadMoves DEF Used
  <2> QED
    BY <2>2, <2>3, <2>4, <2>5, <2>7, SizeIsPositive
<1>2. ASSUME NEW c \in Consumers, pc[c] = "claim", pc'[c] = "pop"
      PROVE  Used' >= 0
  <2>1. tail_ = index[c] /\ tail_' = Add(tail_, 1) /\ head_' = head_
    BY <1>2, ThreadsAssumption
       DEF Claims, ClaimPush, TryPushBegin, TryPushCheck, ClaimHead, ReloadHead,
           PushBegin, ClaimPop, TryPopBegin, TryPopCheck, ClaimTail, ReloadTail, PopBegin,
           Goto, Return, Threads
  <2>2. PICK head \in Word : Since(head) <= Since(head_) /\ ~IsEmpty(head, tail_)
    BY <1>2, <2>1 DEF SeenInv, MessageSeen
  <2>3. head_ \in Word /\ tail_ \in Word /\ Since(tail_) \in Nat /\ Since(tail_) <= Since(tail_)
    <3>1. head_ \in Word /\ tail_ \in Word /\ Since(tail_) \in Nat
      BY StartAssumption, WordArithmetic, WordNat DEF AreWords, Since
    <3> QED
      BY <3>1
  <2>4. /\ AsSigned(Sub(head, tail_)) = Since(head) - Since(tail_)
        /\ Since(head) \in Nat /\ Since(head_) \in Nat /\ Used = Since(head_) - Since(tail_)
    BY <2>2, <2>3, UsedIs
  <2>5. ~(AsSigned(Sub(head, tail_)) <= 0)
    BY <2>2 DEF IsEmpty
  <2>6. Used >= 1 /\ Used \in Int
    BY <2>2, <2>3, <2>4, <2>5
  <2>7. Used' = Used - 1
    BY <2>1, <2>3, <2>6, TailMoves, ModulusAssumption DEF Used
  <2> QED
    BY <2>6, <2>7
<1> QED
  BY <1>1, <1>2 DEF ClaimedWithinLimit

-----------------------------------------------------------------------------
\* What keeps the calls that try within the limit.
LimitInv == CountInv /\ SeenInv

\* Before any call there is nothing to count and nobody has looked.
LEMMA LimitAtStart == FewThreads /\ CommonInit => LimitInv
<1> SUFFICES ASSUME FewThreads, CommonInit PROVE LimitInv
  OBVIOUS
<1>1. \A t \in Threads : pc[t] = "idle" /\ ~Busy(t) /\ ~Looking(t)
  BY DEF CommonInit, Busy, Looking
<1>2. SeenInv
  BY <1>1 DEF SeenInv, Threads
<1>3. Numbered = {}
  <2>1. ASSUME NEW m \in Message PROVE m[1] \in Producers /\ ~(m[2] <= 0)
    BY MaxPushAssumption DEF Message
  <2>2. \A p \in Producers : pushed[p] = 0 /\ ~Busy(p)
    BY <1>1 DEF CommonInit, Threads
  <2>3. \A m \in Message : pushed[m[1]] = 0 /\ ~Busy(m[1]) /\ ~(m[2] <= 0)
    BY <2>1, <2>2
  <2>4. \A m \in Message : ~(m[2] <= pushed[m[1]])
    BY <2>3
  <2> QED
    BY <2>3, <2>4 DEF Numbered
<1>4. Since(head_) = 0 /\ Since(tail_) = 0 /\ Used = 0
  <2>1. Sub(Start, Start) = 0
    BY StartAssumption, SubZero
  <2> QED
    BY <2>1, ModulusAssumption DEF CommonInit, Since, Used, AsSigned
<1> QED
  BY <1>2, <1>3, <1>4, FS_EmptySet DEF LimitInv, CountInv

\* Every kind of step keeps it, and a call that claims an index or is refused
\* keeps to the limit.
LEMMA LimitStep ==
  ASSUME FewThreads, FewMessages, Spsc => EndsInv, AreWords, AreWords', PushedType,
         \A p \in Producers : pc'[p] # "idle" => pushed[p] < MaxPush,
         NEW Steps, pc \in [Threads -> Steps], LimitInv,
         NEW full \in SUBSET Slots, Balanced(full),
         \/ Claims /\ Balanced(full)'
         \/ \E t \in Threads : Works(t) /\ UNCHANGED pushed
         \/ \E p \in Producers : Finishes(p) /\ Accepted(p)
         \/ \E c \in Consumers : Finishes(c) /\ UNCHANGED pushed
         \/ UNCHANGED common
  PROVE  /\ LimitInv'
         /\ RefusedAtLimit(Lag)
         /\ ~Spsc => ClaimedWithinLimit
<1>1. CountInv /\ SeenInv
  BY DEF LimitInv
<1>2. CASE Claims /\ Balanced(full)'
  <2>1. CountInv' /\ Onward
    BY <1>1, <1>2, ClaimsCount
  <2>2. SeenInv'
    BY <1>1, <1>2, <2>1, SeenByClaims
  <2>3. RefusedAtLimit(Lag)
    BY <1>1, <1>2, ClaimsRefuseAtLimit
  <2>4. ASSUME ~Spsc PROVE ClaimedWithinLimit
    BY <1>1, <1>2, <2>1, <2>4, ClaimsStayWithinLimit
  <2> QED
    BY <2>1, <2>2, <2>3, <2>4 DEF LimitInv
<1>3. CASE ~(Claims /\ Balanced(full)')
  <2>1. \/ \E t \in Threads : Works(t) /\ UNCHANGED pushed
        \/ \E p \in Producers : Finishes(p) /\ Accepted(p)
        \/ \E c \in Consumers : Finishes(c) /\ UNCHANGED pushed
        \/ UNCHANGED common
    BY <1>3
  <2>2. UNCHANGED counters
    BY <2>1 DEF Works, Finishes, common, counters
  <2>3. UNCHANGED <<pc, index>> \/ \E t \in Threads : Works(t) \/ Finishes(t)
    BY <2>1 DEF common, Threads
  <2>4. SeenInv'
    BY <1>1, <2>2, <2>3, SeenByOthers
  <2>5. CountInv'
    <3>1. CASE \E t \in Threads : Works(t) /\ UNCHANGED pushed
      BY <1>1, <3>1, WorkKeepsCount
    <3>2. CASE \E p \in Producers : Finishes(p) /\ Accepted(p)
      BY <1>1, <3>2, ReturnsKeepCount, ThreadsAssumption DEF Threads
    <3>3. CASE \E c \in Consumers : Finishes(c) /\ UNCHANGED pushed
      BY <1>1, <3>3, ReturnsKeepCount, ThreadsAssumption DEF Threads
    <3>4. CASE UNCHANGED common
      BY <1>1, <3>4 DEF common, CountInv, Since, Numbered, Used, Busy, NextMessage
    <3> QED
      BY <2>1, <3>1, <3>2, <3>3, <3>4
  <2>6. \A t \in Threads : ~Refused(t) /\ ~(pc[t] = "claim" /\ pc'[t] \in {"push", "pop"})
    BY <2>3 DEF Works, Finishes, Return, Goto, Busy, Refused
  <2> QED
    BY <2>4, <2>5, <2>6 DEF LimitInv, RefusedAtLimit, ClaimedWithinLimit, Threads
<1> QED
  BY <1>2, <1>3

-----------------------------------------------------------------------------
(* The indices of a slot, in order.                                        *)
\* i is the index of slot s that the threads T of a side are working on or, if
\* they hold none of its indices, will claim next.
NextOf(T, ix, counter, s, i) ==
  /\ Slot[i] = s
  /\ IF Holders(T, ix, s) = {}
       THEN Sub(i, counter) < Size
       ELSE Sub(counter, i) \in 1 .. Size /\ \A t \in Holders(T, ix, s) : ix[t] = i

\* Every slot has an index among the next Size ones.
LEMMA EverySlotNext ==
  ASSUME ApartInWindows(Slot, Size), NEW counter \in Word, NEW s \in Slots, NEW ix
  PROVE  \E i \in Word : NextOf({}, ix, counter, s, i)
<1> DEFINE slot == [k \in 0 .. Size - 1 |-> Slot[Add(counter, k)]]
<1>1. Size \in Nat /\ Size > 0 /\ Size < Modulus
  BY SizeAssumption, WordNat
<1>2. \A k \in 0 .. Size - 1 : k \in Nat /\ k \in Word /\ Add(counter, k) \in Word
  <2>1. \A k \in 0 .. Size - 1 : k \in Nat /\ k \in Word
    BY <1>1, ModulusAssumption DEF Word
  <2> QED
    BY <2>1, WordArithmetic
<1>3. slot \in [Slots -> Slots]
  BY <1>2, SlotAssumption DEF Slots
<1>4. slot \in Injection(Slots, Slots)
  <2>1. ASSUME NEW j \in 0 .. Size - 1, NEW k \in 0 .. Size - 1, slot[j] = slot[k]
        PROVE  j = k
    BY <2>1 DEF ApartInWindows
  <2> QED
    BY <1>3, <2>1 DEF Injection, IsInjective, Slots
<1>5. IsFiniteSet(Slots)
  BY <1>1, FS_Interval DEF Slots
<1> HIDE DEF slot
<1>6. slot \in Surjection(Slots, Slots)
  BY <1>4, <1>5, FS_Injection
<1>7. PICK k \in Slots : slot[k] = s
  BY <1>6 DEF Surjection
<1>8. Slot[Add(counter, k)] = s /\ Add(counter, k) \in Word /\ Sub(Add(counter, k), counter) = k /\ k < Size
  BY <1>1, <1>2, <1>7, SubAdd DEF slot, Slots
<1>9. Holders({}, ix, s) = {}
  BY DEF Holders
<1> QED
  BY <1>8, <1>9 DEF NextOf

\* A thread that claims the counter's index, which no other thread of its side
\* shares the slot of, claims what was next.
LEMMA ClaimNext ==
  ASSUME ApartInWindows(Slot, Size), NEW counter \in Word, NEW T, NEW x, NEW ix, NEW ix2,
         ix2[x] = counter, x \notin T,
         \A t \in T : ix2[t] = ix[t] /\ Slot[ix[t]] # Slot[counter],
         NEW s, NEW i \in Word, NextOf(T, ix, counter, s, i)
  PROVE  NextOf(T \cup {x}, ix2, Add(counter, 1), s, i)
<1>1. Size \in Nat /\ Size > 0 /\ Size < Modulus /\ Modulus \in Nat
  BY SizeAssumption, WordNat, ModulusAssumption
<1>2. Slot[i] = s
  BY DEF NextOf
<1>3. CASE Slot[counter] = s
  <2>1. Holders(T, ix, s) = {} /\ Holders(T \cup {x}, ix2, s) = {x}
    BY <1>3 DEF Holders
  <2>2. Sub(i, counter) < Size
    BY <2>1 DEF NextOf
  <2>3. PICK k \in 0 .. Size - 1 : i = Add(counter, k)
    <3>1. Sub(i, counter) \in Nat
      BY WordArithmetic, WordNat
    <3>2. Sub(i, counter) \in 0 .. Size - 1
      BY <1>1, <2>2, <3>1
    <3> QED
      BY <3>2, AddSub
  <2>4. 0 \in 0 .. Size - 1 /\ Add(counter, 0) = counter
    BY <1>1, ModulusAssumption DEF Add, Word
  <2>5. i = counter
    BY <1>2, <1>3, <2>3, <2>4 DEF ApartInWindows
  <2>6. Sub(Add(counter, 1), i) = 1
    BY <2>5, SubAdd, WordNat
  <2> QED
    BY <1>1, <1>2, <2>1, <2>5, <2>6 DEF NextOf
<1>4. CASE Slot[counter] # s
  <2>1. Holders(T \cup {x}, ix2, s) = Holders(T, ix, s) /\ \A t \in Holders(T, ix, s) : ix2[t] = ix[t]
    BY <1>4 DEF Holders
  <2>2. CASE Holders(T, ix, s) = {}
    <3>1. i # counter /\ Sub(i, counter) < Size /\ Sub(i, counter) \in Nat
      BY <1>2, <1>4, <2>2, WordArithmetic, WordNat DEF NextOf
    <3>2. Sub(i, Add(counter, 1)) = Sub(i, counter) - 1
      BY <3>1, SubFrom
    <3>3. Sub(i, Add(counter, 1)) < Size
      BY <1>1, <3>1, <3>2
    <3> QED
      BY <1>2, <2>1, <2>2, <3>3 DEF NextOf
  <2>3. CASE Holders(T, ix, s) # {}
    <3>1. Sub(counter, i) \in 1 .. Size /\ \A t \in Holders(T, ix, s) : ix[t] = i
      BY <2>3 DEF NextOf
    <3>2. Sub(counter, i) # Size
      <4>1. Add(i, Sub(counter, i)) = counter /\ Slot[Add(i, Size)] = Slot[i]
        BY AddSub, SlotComesRound
      <4> QED
        BY <1>2, <1>4, <4>1
    <3>3. Sub(counter, i) # Modulus - 1
      BY <1>1, <3>1, <3>2
    <3>4. Sub(Add(counter, 1), i) = Sub(counter, i) + 1
      BY <3>3, SubAfter
    <3>5. Sub(Add(counter, 1), i) \in 1 .. Size
      BY <1>1, <3>1, <3>2, <3>4
    <3> QED
      BY <1>2, <2>1, <2>3, <3>1, <3>5 DEF NextOf
  <2> QED
    BY <2>2, <2>3
<1> QED
  BY <1>3, <1>4

\* A thread that is done with the slot nobody shares with it was at the index
\* in turn, and its side goes on to the one that has the slot next.
LEMMA ReturnNext ==
  ASSUME ApartInWindows(Slot, Size), NEW counter \in Word, NEW T, NEW x \in T, NEW ix, NEW ix2,
         \A t \in T \ {x} : Slot[ix[t]] # Slot[ix[x]] /\ ix2[t] = ix[t],
         NEW i \in Word, NextOf(T, ix, counter, Slot[ix[x]], i)
  PROVE  /\ ix[x] = i
         /\ NextOf(T \ {x}, ix2, counter, Slot[ix[x]], Add(i, Size))
<1> DEFINE s == Slot[ix[x]]
<1>1. Size \in Nat /\ Size > 0 /\ Size < Modulus /\ Size \in Word /\ Modulus \in Nat
  BY SizeAssumption, WordNat, ModulusAssumption
<1>2. x \in Holders(T, ix, s) /\ Holders(T \ {x}, ix2, s) = {}
  BY DEF Holders
<1>3. Sub(counter, i) \in 1 .. Size /\ ix[x] = i /\ Slot[i] = s
  BY <1>2 DEF NextOf
<1>4. Slot[Add(i, Size)] = s
  BY <1>3, SlotComesRound
<1>5. Sub(Add(i, Size), counter) < Size
  <2>1. PICK d \in 1 .. Size : counter = Add(i, d)
    BY <1>3, AddSub
  <2>2. d \in Nat /\ d > 0 /\ d <= Size /\ i \in 0 .. Modulus - 1
    BY <1>1, <2>1 DEF Word
  <2>3. Sub(Add(i, Size), Add(i, d)) = Size - d
    BY <1>1, <2>2, ModulusAssumption DEF Add, Sub
  <2> QED
    BY <1>1, <2>1, <2>2, <2>3
<1> QED
  BY <1>2, <1>3, <1>4, <1>5 DEF NextOf

\* For the other slots nothing changes.
LEMMA OtherNext ==
  ASSUME NEW counter, NEW T, NEW x, NEW ix, NEW ix2,
         NEW s, Slot[ix[x]] # s, \A t \in T \ {x} : ix2[t] = ix[t],
         NEW i, NextOf(T, ix, counter, s, i)
  PROVE  NextOf(T \ {x}, ix2, counter, s, i)
<1>1. /\ Holders(T \ {x}, ix2, s) = Holders(T, ix, s)
      /\ \A t \in Holders(T, ix, s) : ix2[t] = ix[t]
  BY DEF Holders
<1> QED
  BY <1>1 DEF NextOf

\* Nor does it as long as the same threads hold the same indices.
LEMMA SameNext ==
  ASSUME NEW counter, NEW T, NEW ix, NEW ix2, \A t \in T : ix2[t] = ix[t],
         NEW s, NEW i, NextOf(T, ix, counter, s, i)
  PROVE  NextOf(T, ix2, counter, s, i)
<1>1. /\ Holders(T, ix2, s) = Holders(T, ix, s)
      /\ \A t \in Holders(T, ix, s) : ix2[t] = ix[t]
  BY DEF Holders
<1> QED
  BY <1>1 DEF NextOf
=============================================================================
