--------------------------- MODULE MutexQueueProofs -------------------------
(***************************************************************************)
(* Proofs about the spin locks and the mutex queue.                        *)
(***************************************************************************)
EXTENDS MutexQueue, RingProofs, FiniteSetTheorems

\* The steps of a thread that owns the mutex, and all steps.
Inside == {"locked", "assign", "move", "advance", "unlock"}
Steps == {"idle", "lock", "turn", "exchange"} \cup Inside

\* A thread has a ticket from taking it until it has unlocked.
InLine == {t \in Threads : pc[t] \in {"turn"} \cup Inside}

LockTyped ==
  /\ mutex \in {"Spinlock", "TicketSpinlock", "UnfairSpinlock"}
  /\ lock_ \in BOOLEAN
  /\ ticket_ \in Word
  /\ next_ \in Word
  /\ ticket \in [Threads -> Word]
  /\ pc \in [Threads -> Steps]
  /\ \A t \in Threads : pc[t] = "turn" => mutex = "TicketSpinlock"
  /\ \A t \in Threads : pc[t] = "exchange" => mutex = "UnfairSpinlock"

\* Spinlock and UnfairSpinlock: an owner has set lock_.
FlagHeld ==
  mutex # "TicketSpinlock" => \A t \in Threads : pc[t] \in Inside => lock_

\* TicketSpinlock: the tickets in use are as many as the threads in line, from
\* next_ up, and no two threads have the same.
TicketsInLine ==
  mutex = "TicketSpinlock" =>
    /\ ticket_ = Add(next_, Cardinality(InLine))
    /\ \A t \in InLine : Sub(ticket[t], next_) < Cardinality(InLine)
    /\ \A t, u \in InLine : ticket[t] = ticket[u] => t = u
    /\ \A t \in Threads : pc[t] \in Inside => ticket[t] = next_

LockInv == LockTyped /\ FlagHeld /\ TicketsInLine /\ MutualExclusion

\* The line is finite, and a thread that is not in it leaves room for one more.
LEMMA LineLength ==
  /\ IsFiniteSet(InLine)
  /\ Cardinality(InLine) \in Nat
  /\ \A t \in Threads \ InLine : Cardinality(InLine) < Modulus
<1>1. IsFiniteSet(InLine) /\ Cardinality(InLine) \in Nat
  BY ThreadsAssumption, FS_Subset, FS_CardinalityType DEF InLine
<1>2. ASSUME NEW t \in Threads \ InLine PROVE Cardinality(InLine) < Modulus
  <2>1. InLine \subseteq Threads /\ InLine # Threads
    BY <1>2 DEF InLine
  <2>2. Cardinality(InLine) < Cardinality(Threads)
    BY <1>1, <2>1, ThreadsAssumption, FS_Subset, FS_CardinalityType
  <2> QED
    BY <1>1, <2>2, ThreadsAssumption, FS_CardinalityType, ModulusAssumption
<1> QED
  BY <1>1, <1>2

-----------------------------------------------------------------------------
\* A step within or outside the mutex, other than of the lock itself, changes
\* nothing that the locks rely on.
LEMMA OtherStep ==
  ASSUME LockInv, NEW t \in Threads, UNCHANGED lockVars,
         NEW there,
         \/ pc[t] = "idle" /\ there = "lock"
         \/ pc[t] \in Inside /\ there \in Inside,
         pc' = [pc EXCEPT ![t] = there]
  PROVE  LockInv'
<1> USE DEF LockInv, LockTyped, lockVars, Steps, Inside
<1>1. InLine' = InLine
  BY DEF InLine
<1>2. MutualExclusion' /\ LockTyped'
  BY DEF MutualExclusion
<1>3. FlagHeld' /\ TicketsInLine'
  BY <1>1 DEF FlagHeld, TicketsInLine
<1> QED
  BY <1>2, <1>3

\* Taking a ticket: the line is one longer, and the new ticket is its last.
LEMMA TakeTicketStep ==
  ASSUME LockInv, NEW t \in Threads, TakeTicket(t)
  PROVE  LockInv'
<1> USE DEF LockInv, LockTyped, TakeTicket, From, Steps, Inside
<1>1. /\ mutex = "TicketSpinlock" /\ mutex' = mutex /\ next_' = next_
      /\ t \notin InLine /\ InLine' = InLine \cup {t}
      /\ ticket'[t] = ticket_
      /\ \A u \in InLine : u # t /\ ticket'[u] = ticket[u] /\ ticket[u] \in Word
      /\ \A u \in Threads : pc'[u] \in Inside => u \in InLine /\ pc[u] \in Inside
  BY DEF InLine
<1>2. PICK n \in Word : n = Cardinality(InLine)
  BY <1>1, LineLength, ModulusAssumption DEF Word
<1>3. Cardinality(InLine') = n + 1
  BY <1>1, <1>2, LineLength, FS_AddElement
<1>4. ticket_ = Add(next_, n)
  BY <1>1, <1>2 DEF TicketsInLine
<1>5. ticket_' = Add(next_, n + 1) /\ Sub(ticket_, next_) = n
  BY <1>2, <1>4, AddOne, SubAdd
<1>6. \A u \in InLine : Sub(ticket[u], next_) < n /\ ticket[u] # ticket_
  BY <1>1, <1>2, <1>5 DEF TicketsInLine, Word
<1>7. TicketsInLine'
  <2>1. ASSUME NEW u \in InLine' PROVE Sub(ticket'[u], next_) < n + 1
    <3>1. CASE u = t
      BY <1>1, <1>5, <3>1 DEF Word
    <3>2. CASE u \in InLine
      <4>1. Sub(ticket[u], next_) \in Nat
        BY <1>1, <3>2, WordNat, WordArithmetic
      <4> QED
        BY <1>1, <1>2, <1>6, <3>2, <4>1, WordNat
    <3> QED
      BY <1>1, <3>1, <3>2
  <2>2. ASSUME NEW u \in InLine', NEW w \in InLine', ticket'[u] = ticket'[w]
        PROVE  u = w
    BY <1>1, <1>6, <2>2 DEF TicketsInLine
  <2>3. \A u \in Threads : pc'[u] \in Inside => ticket'[u] = next_
    BY <1>1 DEF TicketsInLine
  <2> QED
    BY <1>1, <1>3, <1>5, <2>1, <2>2, <2>3 DEF TicketsInLine
<1>8. LockTyped'
  BY ModulusAssumption, WordArithmetic
<1>9. MutualExclusion' /\ FlagHeld'
  BY DEF MutualExclusion, FlagHeld
<1> QED
  BY <1>7, <1>8, <1>9

\* The thread that holds the first ticket of the line has its turn.
LEMMA SeeTurnStep ==
  ASSUME LockInv, NEW t \in Threads, SeeTurn(t)
  PROVE  LockInv'
<1> USE DEF LockInv, LockTyped, lockVars, SeeTurn, From, Steps, Inside
<1>1. mutex = "TicketSpinlock" /\ t \in InLine /\ InLine' = InLine
  BY DEF InLine
<1>2. ticket[t] = next_
  BY SubZero
<1>3. \A u \in Threads : pc[u] \in Inside => u = t
  BY <1>1, <1>2 DEF TicketsInLine, InLine
<1>4. MutualExclusion' /\ FlagHeld' /\ LockTyped'
  BY <1>1, <1>3 DEF MutualExclusion, FlagHeld
<1>5. TicketsInLine'
  BY <1>1, <1>2 DEF TicketsInLine
<1> QED
  BY <1>4, <1>5

\* Unlocking ends the turn of the first in line; the ticket after it is the
\* first of those that remain.
LEMMA UnlockStep ==
  ASSUME LockInv, NEW t \in Threads, Unlock(t)
  PROVE  LockInv'
<1> USE DEF LockInv, LockTyped, Unlock, NextAfter, From, Steps, Inside
<1>1. \A u \in Threads : pc'[u] \notin Inside
  BY DEF MutualExclusion
<1>2. LockTyped'
  <2>1. NextAfter(t) \in Word /\ 0 \in Word
    BY WordNat, WordArithmetic
  <2> QED
    BY <2>1
<1>3. MutualExclusion' /\ FlagHeld'
  BY <1>1 DEF MutualExclusion, FlagHeld
<1>4. ASSUME mutex = "TicketSpinlock" PROVE TicketsInLine'
  <2>1. /\ t \in InLine /\ InLine' = InLine \ {t}
        /\ \A u \in InLine : ticket[u] \in Word
        /\ \A u \in InLine' : ticket'[u] = ticket[u]
    BY DEF InLine
  <2>2. PICK n \in Nat : n = Cardinality(InLine)
    BY LineLength
  <2>3. Cardinality(InLine') = n - 1 /\ n - 1 \in Word
    <3>1. Cardinality(InLine') = n - 1 /\ Cardinality(InLine') \in Nat
      BY <2>1, <2>2, LineLength, FS_RemoveElement, FS_CardinalityType
    <3>2. n <= Modulus
      BY <2>2, ThreadsAssumption, FS_Subset, FS_CardinalityType, ModulusAssumption DEF InLine
    <3> QED
      BY <3>1, <3>2, ModulusAssumption DEF Word
  <2>4. ticket[t] = next_ /\ next_' = Add(next_, 1)
    BY <1>4 DEF TicketsInLine
  <2>5. ticket_' = Add(next_', n - 1)
    BY <1>4, <2>2, <2>3, <2>4, AddOne DEF TicketsInLine
  <2>6. ASSUME NEW u \in InLine' PROVE Sub(ticket'[u], next_') < n - 1
    <3>1. u \in InLine /\ u # t /\ ticket[u] # next_
      BY <1>4, <2>1, <2>4 DEF TicketsInLine
    <3>2. Sub(ticket[u], next_) < n /\ Sub(ticket[u], next_) \in Word
      BY <1>4, <2>1, <2>2, <3>1, WordNat, WordArithmetic DEF TicketsInLine
    <3>3. Sub(ticket[u], next_') = Sub(ticket[u], next_) - 1
      BY <2>1, <2>4, <3>1, SubFrom
    <3> QED
      BY <2>1, <3>2, <3>3 DEF Word
  <2>7. ASSUME NEW u \in InLine', NEW w \in InLine', ticket'[u] = ticket'[w]
        PROVE  u = w
    BY <1>4, <2>1, <2>7 DEF TicketsInLine
  <2> QED
    BY <1>1, <2>3, <2>5, <2>6, <2>7 DEF TicketsInLine
<1> QED
  BY <1>2, <1>3, <1>4 DEF TicketsInLine

\* Every step of a lock keeps the invariant.
LEMMA LockStep ==
  ASSUME LockInv, NEW t \in Threads, Lock(t) \/ Unlock(t)
  PROVE  LockInv'
<1> USE DEF LockInv, LockTyped, lockVars, From, Steps, Inside
<1>1. CASE SpinLock(t)
  BY <1>1 DEF SpinLock, MutualExclusion, FlagHeld, TicketsInLine
<1>2. CASE SeeUnlocked(t)
  BY <1>2 DEF SeeUnlocked, MutualExclusion, FlagHeld, TicketsInLine
<1>3. CASE Exchange(t)
  BY <1>3 DEF Exchange, MutualExclusion, FlagHeld, TicketsInLine
<1> QED
  BY <1>1, <1>2, <1>3, TakeTicketStep, SeeTurnStep, UnlockStep DEF Lock

-----------------------------------------------------------------------------
\* The invariant of the locks holds whatever the queue does.
LEMMA LockInvStep == LockInv /\ [Next]_vars => LockInv'
<1> SUFFICES ASSUME LockInv, [Next]_vars PROVE LockInv'
  OBVIOUS
<1>1. ASSUME NEW p \in Producers, Push(p)
      PROVE  LockInv'
  <2>1. p \in Threads
    BY RolesAssumption
  <2> QED
    BY <1>1, <2>1, LockStep, OtherStep
       DEF Push, Mutex, Call, CheckRoom, Assign, AdvanceHead, From, Inside
<1>2. ASSUME NEW c \in Consumers, Pop(c)
      PROVE  LockInv'
  <2>1. c \in Threads
    BY RolesAssumption
  <2> QED
    BY <1>2, <2>1, LockStep, OtherStep
       DEF Pop, Mutex, Call, CheckMessage, Move, AdvanceTail, From, Inside
<1>3. ASSUME NEW o \in Observers, Observe(o)
      PROVE  LockInv'
  <2>1. o \in Threads
    BY RolesAssumption
  <2> QED
    BY <1>3, <2>1, LockStep, OtherStep DEF Observe, Mutex, Call, Look, From, Inside
<1>4. CASE UNCHANGED vars
  <2>1. InLine' = InLine
    BY <1>4 DEF vars, InLine
  <2> QED
    BY <1>4, <2>1 DEF vars, lockVars, LockInv, LockTyped, FlagHeld, TicketsInLine,
                      MutualExclusion, Steps, Inside
<1> QED
  BY <1>1, <1>2, <1>3, <1>4 DEF Next

\* Nobody has the mutex at first.
LEMMA LockInvInit == Init => LockInv
<1> SUFFICES ASSUME Init PROVE LockInv
  OBVIOUS
<1>1. InLine = {}
  BY DEF Init, LockInit, InLine, Inside
<1>2. ticket_ = Add(next_, Cardinality(InLine))
  BY <1>1, FS_EmptySet, StartAssumption, ModulusAssumption
     DEF Init, LockInit, Add, Word
<1> QED
  BY <1>1, <1>2, StartAssumption, WordNat
     DEF Init, LockInit, LockInv, LockTyped, FlagHeld, TicketsInLine,
         MutualExclusion, Steps, Inside

\* MutualExclusion, for the three classes of mutex and as many threads as there
\* are tickets.
THEOREM MutexExcludes == Spec => []MutualExclusion
<1>1. LockInv => MutualExclusion
  BY DEF LockInv
<1> QED
  BY <1>1, LockInvInit, LockInvStep, PTL DEF Spec

-----------------------------------------------------------------------------
\* The queue: what the thread that owns the mutex has found out about the
\* counters is still so when it moves on, and the message that has been assigned
\* stays in the slot of head_.
Element == Message \cup {Blank}

QueueTyped ==
  /\ head_ \in Word
  /\ tail_ \in Word
  /\ elements_ \in [Slots -> Element]
  /\ hand \in [Consumers -> Element]
  /\ pushed \in [Producers -> Nat]
  /\ \A p \in Producers : pc[p] # "move"
  /\ \A c \in Consumers : pc[c] # "assign"
  /\ \A o \in Observers : pc[o] \notin {"assign", "move", "advance"}

Length == Sub(head_, tail_)

CountersHeld ==
  /\ Length <= Size
  /\ \A p \in Producers : pc[p] \in {"assign", "advance"} => Length < Size
  /\ \A c \in Consumers : pc[c] \in {"move", "advance"} => head_ # tail_

Assigned ==
  \A p \in Producers :
    /\ pc[p] \notin {"idle", "unlock"} => pushed[p] < MaxPush
    /\ pc[p] = "advance" => elements_[Slot[head_]] = <<p, pushed[p] + 1>>

QueueInv == LockInv /\ QueueTyped /\ CountersHeld /\ Assigned

\* The constants' types.
LEMMA QueueConstants ==
  /\ Size \in Nat /\ Size < Modulus
  /\ \A i \in Word : Slot[i] \in Slots /\ Add(i, 1) \in Word
BY QueueSizeAssumption, QueueSlotAssumption, WordNat, WordArithmetic

\* The steps of the locks leave all that to the owner of the mutex.
LEMMA QueueInvMutex ==
  ASSUME QueueInv, NEW t \in Threads, Mutex(t)
  PROVE  QueueInv'
<1>1. LockInv'
  BY LockStep DEF QueueInv, Mutex
<1>2. /\ UNCHANGED queueVars
      /\ \E there : /\ pc' = [pc EXCEPT ![t] = there]
                    /\ there \in {"turn", "exchange", "lock", "locked", "idle"}
      /\ pc[t] \notin {"idle", "assign", "move", "advance"}
      /\ pc'[t] # "idle" => pc[t] # "unlock"
  BY DEF Mutex, Lock, Unlock, SpinLock, TakeTicket, SeeTurn, SeeUnlocked, Exchange, From,
         QueueInv, LockInv, LockTyped
<1> QED
  BY <1>1, <1>2, RolesAssumption
     DEF QueueInv, LockInv, LockTyped, QueueTyped, CountersHeld, Assigned, Length, queueVars
\* And so do the steps of try_push and try_pop, in which the owner alone acts.
LEMMA QueueInvStep == QueueInv /\ [Next]_vars => QueueInv'
<1> SUFFICES ASSUME QueueInv, [Next]_vars PROVE QueueInv'
  OBVIOUS
<1>1. LockInv'
  BY LockInvStep DEF QueueInv
<1>2. \A t, u \in Threads : pc[t] \in Inside /\ pc[u] \in Inside => t = u
  BY DEF QueueInv, LockInv, MutualExclusion, Inside
<1> USE <1>2, RolesAssumption, QueueConstants
    DEF QueueInv, LockInv, LockTyped, QueueTyped, CountersHeld, Assigned, Length,
        lockVars, queueVars, From, Inside
<1>3. ASSUME NEW t \in Threads, Call(t)
      PROVE  QueueInv'
  BY <1>1, <1>3 DEF Call
<1>4. ASSUME NEW p \in Producers, CheckRoom(p)
      PROVE  QueueInv'
  BY <1>1, <1>4 DEF CheckRoom, HasRoom
<1>5. ASSUME NEW p \in Producers, Assign(p)
      PROVE  QueueInv'
  <2>1. <<p, pushed[p] + 1>> \in Element
    BY <1>5, QueueMaxPushAssumption DEF Assign, Element, Message
  <2> QED
    BY <1>1, <1>5, <2>1 DEF Assign
<1>6. ASSUME NEW p \in Producers, AdvanceHead(p)
      PROVE  QueueInv'
  <2>1. Length \in Nat /\ Length < Size
    BY <1>6, WordNat, WordArithmetic DEF AdvanceHead
  <2>2. Sub(Add(head_, 1), tail_) = Length + 1
    <3>1. Sub(head_, tail_) # Modulus - 1
      BY <2>1, ModulusAssumption
    <3> QED
      BY <3>1, SubAfter
  <2>3. Length' <= Size
    BY <1>6, <2>1, <2>2 DEF AdvanceHead
  <2>4. \A u \in Threads : pc'[u] \notin {"assign", "move", "advance"}
    BY <1>6 DEF AdvanceHead
  <2>5. QueueTyped'
    BY <1>6, <2>4 DEF AdvanceHead
  <2>6. Assigned'
    BY <1>6, <2>4 DEF AdvanceHead
  <2> QED
    BY <1>1, <2>3, <2>4, <2>5, <2>6
<1>7. ASSUME NEW c \in Consumers, CheckMessage(c)
      PROVE  QueueInv'
  BY <1>1, <1>7 DEF CheckMessage
<1>8. ASSUME NEW c \in Consumers, Move(c)
      PROVE  QueueInv'
  BY <1>1, <1>8 DEF Move, Element
<1>9. ASSUME NEW c \in Consumers, AdvanceTail(c)
      PROVE  QueueInv'
  <2>1. Sub(head_, Add(tail_, 1)) = Length - 1 /\ Length \in Nat
    BY <1>9, SubFrom, WordNat, WordArithmetic DEF AdvanceTail
  <2>2. Length' <= Size
    BY <1>9, <2>1 DEF AdvanceTail
  <2>3. \A u \in Threads : pc'[u] \notin {"assign", "move", "advance"}
    BY <1>9 DEF AdvanceTail
  <2>4. QueueTyped'
    BY <1>9, <2>3 DEF AdvanceTail, Element
  <2>5. Assigned'
    BY <1>9, <2>3 DEF AdvanceTail
  <2> QED
    BY <1>1, <2>2, <2>3, <2>4, <2>5
<1>10. ASSUME NEW o \in Observers, Look(o)
       PROVE  QueueInv'
  BY <1>1, <1>10 DEF Look
<1>11. CASE UNCHANGED vars
  BY <1>1, <1>11 DEF vars
<1> QED
  BY <1>3, <1>4, <1>5, <1>6, <1>7, <1>8, <1>9, <1>10, <1>11, QueueInvMutex
     DEF Next, Push, Pop, Observe

\* The empty queue of the constructor.
LEMMA QueueInvInit == Init => QueueInv
<1> SUFFICES ASSUME Init PROVE QueueInv
  OBVIOUS
<1>1. LockInv
  BY LockInvInit
<1>2. Sub(head_, tail_) = 0
  BY StartAssumption, SubZero DEF Init
<1> QED
  BY <1>1, <1>2, StartAssumption, QueueConstants, RolesAssumption
     DEF Init, LockInit, QueueInv, QueueTyped, CountersHeld, Assigned, Length, Element

\* Throughout, only the owner of the mutex is in the middle of an operation.
LEMMA QueueInvariant == Spec => []QueueInv
BY QueueInvInit, QueueInvStep, PTL DEF Spec

-----------------------------------------------------------------------------
\* The refinement.  The queue as a function of positions, and what it holds at
\* each index: only the index of a message that a consumer has moved is not read
\* off its slot.
Moving == \E c \in Consumers : pc[c] = "advance"

QueueFacts ==
  /\ Length \in Nat
  /\ Queue \in [1 .. Length -> Element]
  /\ \A k \in 1 .. Length : /\ Add(tail_, k - 1) \in Word
                            /\ Queue[k] = Content(Add(tail_, k - 1))
  /\ \A i \in Word : ~Moving \/ i # tail_ => Content(i) = elements_[Slot[i]]
  /\ \A c \in Consumers : pc[c] = "advance" => Content(tail_) = hand[c]

\* The queue has an element at each of its positions, read off a slot or a hand.
LEMMA QueueIs == QueueInv => QueueFacts
<1> SUFFICES ASSUME QueueInv PROVE QueueFacts
  OBVIOUS
<1> USE DEF QueueInv, QueueTyped
<1>1. Length \in Nat
  BY WordArithmetic, WordNat DEF Length
<1>2. ASSUME NEW k \in 1 .. Length PROVE Add(tail_, k - 1) \in Word
  BY <1>1, WordArithmetic
<1>3. ASSUME NEW c \in Consumers, pc[c] = "advance" PROVE Content(tail_) = hand[c]
  <2>1. {d \in Consumers : tail_ = tail_ /\ pc[d] = "advance"} = {c}
    BY <1>3, RolesAssumption DEF LockInv, MutualExclusion
  <2> QED
    BY <2>1 DEF Content
<1>4. ASSUME NEW i \in Word, ~Moving \/ i # tail_ PROVE Content(i) = elements_[Slot[i]]
  BY <1>4 DEF Content, Moving
<1>5. ASSUME NEW i \in Word PROVE Content(i) \in Element
  <2>1. elements_[Slot[i]] \in Element
    BY QueueConstants
  <2>2. Moving => Content(tail_) \in Element
    BY <1>3 DEF Moving
  <2> QED
    BY <1>4, <2>1, <2>2
<1> QED
  BY <1>1, <1>2, <1>3, <1>4, <1>5 DEF Queue, Length, QueueFacts

\* A step that changes neither the counters nor what is at their indices.
LEMMA QueueUnchanged ==
  ASSUME QueueFacts, QueueFacts', UNCHANGED <<head_, tail_>>,
         \A k \in 1 .. Length : \A i \in Word :
           i = Add(tail_, k - 1) => Content(i)' = Content(i)
  PROVE  Queue' = Queue
<1>1. Length' = Length
  BY DEF Length
<1>2. ASSUME NEW k \in 1 .. Length PROVE Queue'[k] = Queue[k]
  BY <1>1 DEF QueueFacts
<1> QED
  BY <1>1, <1>2 DEF QueueFacts

\* Steps outside try_push and try_pop, and those that check the counters.
LEMMA ChecksKeepQueue ==
  ASSUME QueueInv, QueueInv', UNCHANGED queueVars,
         \A c \in Consumers : pc'[c] = "advance" <=> pc[c] = "advance"
  PROVE  UNCHANGED <<Queue, pushed, popped>>
<1>1. QueueFacts /\ QueueFacts'
  BY QueueIs, PTL
<1>2. ASSUME NEW i \in Word PROVE Content(i)' = Content(i)
  <2>1. CASE ~Moving \/ i # tail_
    BY <1>1, <2>1 DEF queueVars, QueueFacts, Moving
  <2>2. CASE Moving /\ i = tail_
    BY <1>1, <2>2 DEF queueVars, QueueFacts, Moving
  <2> QED
    BY <2>1, <2>2
<1> QED
  BY <1>1, <1>2, QueueUnchanged DEF queueVars

\* With room in the queue, the slot of head_ is not the slot of a message, and
\* the slot of tail_ is that of the first message only.
LEMMA SlotsOfQueue ==
  ASSUME ApartInWindows(Slot, Size), QueueInv
  PROVE  /\ Length < Size =>
              \A k \in 1 .. Length : Slot[Add(tail_, k - 1)] # Slot[head_]
         /\ \A k \in 2 .. Length :
              Add(tail_, k - 1) # tail_ /\ Slot[Add(tail_, k - 1)] # Slot[tail_]
<1> USE DEF QueueInv, QueueTyped, CountersHeld
<1>1. Length \in Nat /\ head_ = Add(tail_, Length) /\ tail_ = Add(tail_, 0)
  <2>1. tail_ = Add(tail_, 0)
    BY ModulusAssumption DEF Add, Word
  <2> QED
    BY <2>1, AddSub, WordArithmetic, WordNat DEF Length
<1>2. ASSUME NEW k \in 1 .. Length, Length < Size
      PROVE  Slot[Add(tail_, k - 1)] # Slot[head_]
  <2>1. k - 1 \in 0 .. Size - 1 /\ Length \in 0 .. Size - 1 /\ k - 1 # Length
    BY <1>1, <1>2, QueueConstants
  <2> QED
    BY <1>1, <2>1 DEF ApartInWindows
<1>3. ASSUME NEW k \in 2 .. Length
      PROVE  Slot[Add(tail_, k - 1)] # Slot[tail_]
  <2>1. k - 1 \in 0 .. Size - 1 /\ 0 \in 0 .. Size - 1 /\ k - 1 # 0
    BY <1>1, <1>3, QueueConstants
  <2> QED
    BY <1>1, <2>1 DEF ApartInWindows
<1> QED
  BY <1>2, <1>3

\* The assignment to the slot of head_ reaches no message of the queue.
LEMMA AssignKeepsQueue ==
  ASSUME ApartInWindows(Slot, Size), QueueInv, QueueInv',
         NEW p \in Producers, Assign(p)
  PROVE  UNCHANGED <<Queue, pushed, popped>>
<1>1. QueueFacts /\ QueueFacts'
  BY QueueIs, PTL
<1>2. ~Moving /\ ~Moving'
  BY RolesAssumption
     DEF Assign, From, Moving, QueueInv, LockInv, LockTyped, MutualExclusion
<1>3. Length < Size
  BY DEF Assign, From, QueueInv, CountersHeld
<1>4. ASSUME NEW k \in 1 .. Length, NEW i \in Word, i = Add(tail_, k - 1)
      PROVE  Content(i)' = Content(i)
  <2>1. Slot[i] # Slot[head_]
    BY <1>3, <1>4, SlotsOfQueue
  <2>2. elements_'[Slot[i]] = elements_[Slot[i]]
    BY <2>1, QueueConstants DEF Assign, QueueInv, QueueTyped
  <2> QED
    BY <1>1, <1>2, <2>2 DEF QueueFacts
<1> QED
  BY <1>1, <1>4, QueueUnchanged DEF Assign

\* Moving the first message out of its slot leaves it in the consumer's hand.
LEMMA MoveKeepsQueue ==
  ASSUME ApartInWindows(Slot, Size), QueueInv, QueueInv',
         NEW c \in Consumers, Move(c)
  PROVE  UNCHANGED <<Queue, pushed, popped>>
<1>1. QueueFacts /\ QueueFacts'
  BY QueueIs, PTL
<1>2. ~Moving /\ pc'[c] = "advance"
  BY RolesAssumption
     DEF Move, From, Moving, QueueInv, LockInv, LockTyped, MutualExclusion
<1>3. Content(tail_)' = Content(tail_)
  BY <1>1, <1>2 DEF Move, QueueFacts, QueueInv, QueueTyped
<1>4. ASSUME NEW k \in 1 .. Length, NEW i \in Word, i = Add(tail_, k - 1)
      PROVE  Content(i)' = Content(i)
  <2>1. CASE k = 1
    <3>1. i = tail_
      BY <1>4, <2>1, ModulusAssumption DEF Add, Word, QueueInv, QueueTyped
    <3> QED
      BY <1>3, <3>1 DEF Move
  <2>2. CASE k \in 2 .. Length
    <3>1. i # tail_ /\ Slot[i] # Slot[tail_]
      BY <1>4, <2>2, SlotsOfQueue
    <3>2. elements_'[Slot[i]] = elements_[Slot[i]]
      BY <3>1, QueueConstants DEF Move, QueueInv, QueueTyped
    <3> QED
      BY <1>1, <3>1, <3>2 DEF QueueFacts, Move
  <2> QED
    BY <1>1, <2>1, <2>2 DEF QueueFacts
<1> QED
  BY <1>1, <1>4, QueueUnchanged DEF Move

\* Advancing head_ adds the message that was assigned to the end of the queue.
LEMMA AdvanceHeadSends ==
  ASSUME QueueInv, QueueInv', NEW p \in Producers, AdvanceHead(p)
  PROVE  FifoOfSlots!Send(p)
<1> DEFINE m == <<p, pushed[p] + 1>>
<1>1. QueueFacts /\ QueueFacts'
  BY QueueIs, PTL
<1>2. ~Moving /\ ~Moving'
  BY RolesAssumption
     DEF AdvanceHead, From, Moving, QueueInv, LockInv, LockTyped, MutualExclusion
<1>3. Length < Size /\ pushed[p] < MaxPush /\ elements_[Slot[head_]] = m
  BY DEF AdvanceHead, From, QueueInv, CountersHeld, Assigned
<1>4. m \in Element
  BY <1>3, QueueConstants DEF QueueInv, QueueTyped
<1>5. Length' = Length + 1
  <2>1. Sub(head_, tail_) # Modulus - 1
    BY <1>1, <1>3, QueueConstants, ModulusAssumption DEF QueueFacts, Length
  <2> QED
    BY <2>1, SubAfter DEF AdvanceHead, Length, QueueInv, QueueTyped
<1>6. Len(Queue) = Length /\ Queue \in Seq(Element)
  BY <1>1, IsSequence DEF QueueFacts
<1>7. ASSUME NEW k \in 1 .. Length PROVE Queue'[k] = Queue[k]
  <2>1. PICK i \in Word : i = Add(tail_, k - 1)
    BY <1>1 DEF QueueFacts
  <2>2. Queue'[k] = Content(i)' /\ Queue[k] = Content(i)
    BY <1>1, <1>5, <2>1 DEF QueueFacts, AdvanceHead
  <2> QED
    BY <1>1, <1>2, <2>2 DEF QueueFacts, AdvanceHead
<1>8. Queue'[Length + 1] = m
  <2>1. head_ \in Word /\ head_ = Add(tail_, (Length + 1) - 1)
    BY <1>1, AddSub DEF QueueFacts, Length, QueueInv, QueueTyped
  <2>2. Queue'[Length + 1] = elements_'[Slot[head_]]
    BY <1>1, <1>2, <1>5, <2>1 DEF QueueFacts, AdvanceHead
  <2> QED
    BY <1>3, <2>2 DEF AdvanceHead
<1>9. Queue' = Append(Queue, m)
  BY <1>1, <1>4, <1>5, <1>7, <1>8, IsAppend DEF QueueFacts
<1> QED
  BY <1>3, <1>6, <1>9 DEF FifoOfSlots!Send, AdvanceHead

\* Advancing tail_ takes the message that the pop returns off its start.
LEMMA AdvanceTailReceives ==
  ASSUME QueueInv, QueueInv', NEW c \in Consumers, AdvanceTail(c)
  PROVE  FifoOfSlots!Receive
<1>1. QueueFacts /\ QueueFacts'
  BY QueueIs, PTL
<1>2. pc[c] = "advance" /\ ~Moving'
  BY RolesAssumption
     DEF AdvanceTail, From, Moving, QueueInv, LockInv, LockTyped, MutualExclusion
<1>3. head_ # tail_ /\ head_ \in Word /\ tail_ \in Word
  BY <1>2 DEF QueueInv, QueueTyped, CountersHeld
<1>4. Length \in Nat \ {0} /\ Length' = Length - 1
  BY <1>1, <1>3, SubZero, SubFrom DEF QueueFacts, Length, AdvanceTail
<1>5. Queue[1] = hand[c]
  <2>1. Add(tail_, 1 - 1) = tail_
    BY <1>3, ModulusAssumption DEF Add, Word
  <2> QED
    BY <1>1, <1>2, <1>4, <2>1 DEF QueueFacts
<1>6. ASSUME NEW k \in 1 .. Length - 1 PROVE Queue'[k] = Queue[k + 1]
  <2>1. k - 1 \in Word /\ k \in Word /\ k < Modulus
    BY <1>3, <1>4, WordArithmetic, WordNat, ModulusAssumption DEF Length, Word
  <2>2. Add(Add(tail_, 1), k - 1) = Add(tail_, k)
    BY <1>3, <2>1, AddOne
  <2>3. PICK i \in Word : i = Add(tail_, k)
    BY <1>3, <2>1, WordArithmetic, WordNat
  <2>4. i # tail_
    BY <1>3, <2>1, <2>3, ModulusAssumption DEF Add, Word
  <2>5. Queue'[k] = Content(i)' /\ Queue[k + 1] = Content(i)
    BY <1>1, <1>4, <2>2, <2>3 DEF QueueFacts, AdvanceTail
  <2> QED
    BY <1>1, <1>2, <2>4, <2>5 DEF QueueFacts, AdvanceTail
<1>7. Queue # << >> /\ Head(Queue) = hand[c] /\ Queue' = Tail(Queue)
  BY <1>1, <1>4, <1>5, <1>6, IsTail DEF QueueFacts
<1> QED
  BY <1>7 DEF FifoOfSlots!Receive, AdvanceTail

\* ImplementsFifo: under each of the mutexes, AtomicQueueMutexT is a bounded FIFO
\* queue for any number of producers, consumers and observers, if the slots of
\* any size_ consecutive indices are different.
THEOREM QueueIsFifo ==
  ASSUME ApartInWindows(Slot, Size)
  PROVE  Spec => ImplementsFifo
<1>1. Init => FifoOfSlots!Init
  <2> SUFFICES ASSUME Init PROVE FifoOfSlots!Init
    OBVIOUS
  <2>1. QueueFacts
    BY QueueInvInit, QueueIs
  <2>2. Length = 0
    BY StartAssumption, SubZero DEF Init, Length
  <2>3. Queue = << >>
    BY <2>1, <2>2, IsEmptySequence DEF QueueFacts
  <2> QED
    BY <2>3 DEF Init, FifoOfSlots!Init, Message, FifoOfSlots!Message
<1>2. QueueInv /\ QueueInv' /\ [Next]_vars
        => [FifoOfSlots!Next]_<<Queue, pushed, popped>>
  <2> SUFFICES ASSUME QueueInv, QueueInv', [Next]_vars
               PROVE  [FifoOfSlots!Next]_<<Queue, pushed, popped>>
    OBVIOUS
  <2>1. ASSUME NEW t \in Threads, Call(t) \/ Mutex(t)
        PROVE  UNCHANGED <<Queue, pushed, popped>>
    BY <2>1, ChecksKeepQueue, RolesAssumption
       DEF Call, Mutex, Lock, Unlock, SpinLock, TakeTicket, SeeTurn, SeeUnlocked,
           Exchange, From, QueueInv, LockInv, LockTyped
  <2>2. ASSUME NEW p \in Producers, CheckRoom(p)
        PROVE  UNCHANGED <<Queue, pushed, popped>>
    BY <2>2, ChecksKeepQueue, RolesAssumption
       DEF CheckRoom, From, QueueInv, LockInv, LockTyped
  <2>3. ASSUME NEW c \in Consumers, CheckMessage(c)
        PROVE  UNCHANGED <<Queue, pushed, popped>>
    BY <2>3, ChecksKeepQueue, RolesAssumption
       DEF CheckMessage, From, QueueInv, LockInv, LockTyped
  <2>4. ASSUME NEW o \in Observers, Look(o)
        PROVE  UNCHANGED <<Queue, pushed, popped>>
    BY <2>4, ChecksKeepQueue, RolesAssumption
       DEF Look, From, QueueInv, LockInv, LockTyped
  <2>5. CASE UNCHANGED vars
    BY <2>5, ChecksKeepQueue DEF vars, queueVars
  <2>6. ASSUME NEW p \in Producers, Push(p)
        PROVE  UNCHANGED <<Queue, pushed, popped>> \/ FifoOfSlots!Send(p)
    BY <2>1, <2>2, <2>6, AssignKeepsQueue, AdvanceHeadSends, RolesAssumption DEF Push
  <2>7. ASSUME NEW c \in Consumers, Pop(c)
        PROVE  UNCHANGED <<Queue, pushed, popped>> \/ FifoOfSlots!Receive
    BY <2>1, <2>3, <2>7, MoveKeepsQueue, AdvanceTailReceives, RolesAssumption DEF Pop
  <2>8. ASSUME NEW o \in Observers, Observe(o)
        PROVE  UNCHANGED <<Queue, pushed, popped>>
    BY <2>1, <2>4, <2>8, RolesAssumption DEF Observe
  <2> QED
    BY <2>5, <2>6, <2>7, <2>8 DEF Next, FifoOfSlots!Next
<1> QED
  BY <1>1, <1>2, QueueInvariant, PTL DEF Spec, ImplementsFifo, FifoOfSlots!Spec
=============================================================================
