-------------------------- MODULE AtomicQueueProofs -------------------------
(***************************************************************************)
(* Proofs about AtomicQueue for any numbers of producers, consumers, slots *)
(* and messages, any width of the counters and any mapping of indices to   *)
(* slots, in MPMC and in SPSC mode.                                        *)
(***************************************************************************)
EXTENDS QueueOrder, AtomicQueueCommonProofs

\* A producer within a call has a message left to push.
Unfinished == \A p \in Producers : pc[p] # "idle" => pushed[p] < MaxPush

Typed == TypeOK /\ Unfinished

\* The message a call pushes is one of its producer's messages.
LEMMA NextMessageType ==
  ASSUME Typed, NEW p \in Producers, pc[p] # "idle"
  PROVE  NextMessage(p) \in Message
BY MaxPushAssumption DEF Typed, TypeOK, Unfinished, NextMessage, Message

\* The types are preserved by the claiming of indices.
LEMMA ClaimsTyped ==
  ASSUME Typed, UNCHANGED <<elements, hand>>,
         \/ \E p \in Producers : ClaimPush(p)
         \/ \E c \in Consumers : ClaimPop(c)
  PROVE  Typed'
<1> USE Constants, ThreadsAssumption
    DEF Typed, Unfinished, TypeOK, PushSteps, PopSteps, Threads, Goto, Return, SlotOf
<1>1. ASSUME NEW p \in Producers, ClaimPush(p)
      PROVE  Typed'
  BY <1>1 DEF ClaimPush, TryPushBegin, TryPushCheck, ClaimHead, ReloadHead, PushBegin
<1>2. ASSUME NEW c \in Consumers, ClaimPop(c)
      PROVE  Typed'
  BY <1>2 DEF ClaimPop, TryPopBegin, TryPopCheck, ClaimTail, ReloadTail, PopBegin
<1> QED
  BY <1>1, <1>2

\* A message is stored by the one or by the other form of do_push.
LEMMA StoresTyped ==
  ASSUME Typed, NEW p \in Producers, pc[p] # "idle", StoreNextMessage(p)
  PROVE  Typed'
<1>1. NextMessage(p) \in Message
  BY NextMessageType
<1>2. pushed' \in [Producers -> 0 .. MaxPush]
  BY MaxPushAssumption DEF Typed, TypeOK, Unfinished, StoreNextMessage, Accepted
<1> QED
  BY <1>1, <1>2, Constants, ThreadsAssumption
     DEF StoreNextMessage, Accepted, Return, Goto, Typed, TypeOK, Unfinished,
         PushSteps, PopSteps, Threads, SlotOf

\* Counters and local indices stay words, threads stay within their own
\* functions, and slots hold messages or NIL only.
LEMMA TypedStep == Typed /\ [Next]_vars => Typed'
<1> SUFFICES ASSUME Typed, [Next]_vars PROVE Typed'
  OBVIOUS
<1> USE Constants, ThreadsAssumption
    DEF Typed, Unfinished, TypeOK, PushSteps, PopSteps, Threads, Goto, Return, SlotOf
<1>1. ASSUME NEW p \in Producers, Push(p)
      PROVE  Typed'
  <2>1. CASE ClaimPush(p) /\ UNCHANGED <<elements, hand>>
    BY <2>1, ClaimsTyped
  <2>2. CASE ExchangeNil(p)
    BY <2>2, StoresTyped DEF ExchangeNil
  <2>3. CASE SeeNil(p)
    BY <2>3 DEF SeeNil
  <2>4. CASE StoreElement(p)
    BY <2>4, StoresTyped DEF StoreElement
  <2> QED
    BY <1>1, <2>1, <2>2, <2>3, <2>4 DEF Push
<1>2. ASSUME NEW c \in Consumers, Pop(c)
      PROVE  Typed'
  <2>1. CASE ClaimPop(c) /\ UNCHANGED <<elements, hand>>
    BY <2>1, ClaimsTyped
  <2>2. CASE ExchangeElement(c)
    <3>1. popped' \in [Message -> Nat]
      BY <2>2, CountUp DEF ExchangeElement, Returned
    <3> QED
      BY <2>2, <3>1 DEF ExchangeElement
  <2>3. CASE LoadElement(c)
    BY <2>3 DEF LoadElement
  <2>4. CASE StoreNil(c)
    <3>1. popped' \in [Message -> Nat]
      BY <2>4, CountUp DEF StoreNil, Returned
    <3> QED
      BY <2>4, <3>1 DEF StoreNil
  <2> QED
    BY <1>2, <2>1, <2>2, <2>3, <2>4 DEF Pop
<1>3. CASE UNCHANGED vars
  BY <1>3 DEF vars, common
<1> QED
  BY <1>1, <1>2, <1>3 DEF Next

\* Types hold throughout, and who is inside a push has messages left.
LEMMA TypedInvariant == Spec => []Typed
<1>1. Init => Typed
  BY Constants, StartAssumption, MaxPushAssumption
     DEF Init, CommonInit, Typed, Unfinished, TypeOK, PushSteps, PopSteps, Threads
<1> QED
  BY <1>1, TypedStep, PTL DEF Spec

\* Counters, local indices, thread positions and slots stay within their types.
THEOREM TypeCorrect == Spec => []TypeOK
<1>1. Typed => TypeOK
  BY DEF Typed
<1> QED
  BY <1>1, TypedInvariant, PTL

-----------------------------------------------------------------------------
\* What makes the slots a channel: messages are apart and pushed before, and
\* in SPSC mode, where do_push and do_pop read a slot and write it in two
\* steps, nobody changes the slot between them.
SlotUntouched ==
  /\ \A p \in Producers : pc[p] = "store" => Spsc /\ elements[SlotOf(p)] = NIL
  /\ \A c \in Consumers : pc[c] = "clear" =>
       Spsc /\ elements[SlotOf(c)] = hand[c] /\ hand[c] # NIL

ChannelInv ==
  /\ Typed
  /\ Apart(elements, NIL)
  /\ Past(elements, pushed)
  /\ SlotUntouched

\* Between the read and the write of a slot in SPSC mode, the only other
\* thread that reaches the slot finds it full, or free, and waits.
LEMMA SlotUntouchedStep == ChannelInv /\ [Next]_vars => SlotUntouched'
<1> SUFFICES ASSUME ChannelInv, [Next]_vars PROVE SlotUntouched'
  OBVIOUS
<1> USE Constants, ThreadsAssumption, SpscAssumption
    DEF ChannelInv, SlotUntouched, Typed, TypeOK, PushSteps, PopSteps, Threads,
        Goto, Return, SlotOf
<1>1. ASSUME NEW p \in Producers, Push(p)
      PROVE  SlotUntouched'
  <2>1. CASE ClaimPush(p) /\ UNCHANGED <<elements, hand>>
    BY <2>1 DEF ClaimPush, TryPushBegin, TryPushCheck, ClaimHead, ReloadHead, PushBegin
  <2>2. CASE ExchangeNil(p)
    BY <2>2 DEF ExchangeNil, StoreNextMessage
  <2>3. CASE SeeNil(p)
    BY <2>3 DEF SeeNil
  <2>4. CASE StoreElement(p)
    BY <2>4 DEF StoreElement, StoreNextMessage
  <2> QED
    BY <1>1, <2>1, <2>2, <2>3, <2>4 DEF Push
<1>2. ASSUME NEW c \in Consumers, Pop(c)
      PROVE  SlotUntouched'
  <2>1. CASE ClaimPop(c) /\ UNCHANGED <<elements, hand>>
    BY <2>1 DEF ClaimPop, TryPopBegin, TryPopCheck, ClaimTail, ReloadTail, PopBegin
  <2>2. CASE ExchangeElement(c)
    BY <2>2 DEF ExchangeElement
  <2>3. CASE LoadElement(c)
    BY <2>3 DEF LoadElement
  <2>4. CASE StoreNil(c)
    BY <2>4 DEF StoreNil
  <2> QED
    BY <1>2, <2>1, <2>2, <2>3, <2>4 DEF Pop
<1>3. CASE UNCHANGED vars
  BY <1>3 DEF vars, common
<1> QED
  BY <1>1, <1>2, <1>3 DEF Next

\* What a step does to the slots: nothing, a store into a free slot, or the
\* removal of the message a pop returns.
Keeps == UNCHANGED <<elements, pushed, popped>>

Stores(p) ==
  /\ pc[p] # "idle"
  /\ elements[SlotOf(p)] = NIL
  /\ StoreNextMessage(p)

Takes(s) ==
  /\ elements[s] # NIL
  /\ elements' = [elements EXCEPT ![s] = NIL]
  /\ Returned(elements[s])
  /\ UNCHANGED pushed

\* What a step does to the messages in the slots: nothing, put one, or take one.
LEMMA StepEffects ==
  ASSUME ChannelInv, [Next]_vars
  PROVE  \/ Keeps
         \/ \E p \in Producers : Stores(p)
         \/ \E s \in Slots : Takes(s)
<1>1. ASSUME NEW p \in Producers, Push(p)
      PROVE  Keeps \/ Stores(p)
  BY <1>1
     DEF Push, ClaimPush, TryPushBegin, TryPushCheck, ClaimHead, ReloadHead, PushBegin,
         ExchangeNil, SeeNil, StoreElement, Keeps, Stores, ChannelInv, SlotUntouched
<1>2. ASSUME NEW c \in Consumers, Pop(c)
      PROVE  Keeps \/ \E s \in Slots : Takes(s)
  <2>1. SlotOf(c) \in Slots
    BY Constants DEF SlotOf, ChannelInv, Typed, TypeOK, Threads
  <2>2. Keeps \/ Takes(SlotOf(c))
    BY <1>2
       DEF Pop, ClaimPop, TryPopBegin, TryPopCheck, ClaimTail, ReloadTail, PopBegin,
           ExchangeElement, LoadElement, StoreNil, Keeps, Takes, ChannelInv, SlotUntouched
  <2> QED
    BY <2>1, <2>2
<1>3. CASE UNCHANGED vars
  BY <1>3 DEF vars, common, Keeps
<1> QED
  BY <1>1, <1>2, <1>3 DEF Next

\* The steps of the channel.
Puts(p) ==
  /\ Apart(elements, NIL)' /\ Past(elements, pushed)'
  /\ ChannelOfSlots!Send(p)

Removes(m) ==
  /\ Apart(elements, NIL)' /\ Past(elements, pushed)'
  /\ m \in Stored
  /\ ChannelOfSlots!Receive(m)

\* A push that has found its slot free sends its message ...
LEMMA StoresPut ==
  ASSUME ChannelInv, NEW p \in Producers, Stores(p)
  PROVE  Puts(p)
<1>1. SlotOf(p) \in Slots /\ pushed[p] < MaxPush
  BY Constants DEF Stores, ChannelInv, Typed, TypeOK, Unfinished, SlotOf, Threads
<1>2. /\ elements' = [elements EXCEPT ![SlotOf(p)] = NextMessage(p)]
      /\ pushed' = [pushed EXCEPT ![p] = pushed[p] + 1]
  BY DEF Stores, StoreNextMessage, Accepted
<1>3. Apart(elements', NIL) /\ Past(elements', pushed')
  <2>1. /\ elements \in [Slots -> Message \cup {NIL}] /\ pushed \in [Producers -> 0 .. MaxPush]
        /\ Apart(elements, NIL) /\ Past(elements, pushed)
    BY DEF ChannelInv, Typed, TypeOK
  <2>2. elements[SlotOf(p)] = NIL /\ NextMessage(p) = <<p, pushed[p] + 1>>
    BY DEF Stores, NextMessage
  <2> QED
    BY <1>1, <1>2, <2>1, <2>2, PutMessage, NilAssumption
<1>4. Stored' = Stored \cup {NextMessage(p)}
  <2>1. NextMessage(p) \in Message
    BY NextMessageType DEF Stores, ChannelInv
  <2> QED
    BY <1>1, <1>2, <2>1, NilAssumption DEF Stores, Stored, ChannelInv, Typed, TypeOK
<1> QED
  BY <1>1, <1>3, <1>4
     DEF Puts, Apart, Past, ChannelOfSlots!Send, NextMessage, Stores,
         StoreNextMessage, Accepted

\* ... and a pop that takes a message from its slot receives it.
LEMMA TakesRemove ==
  ASSUME ChannelInv, NEW s \in Slots, Takes(s)
  PROVE  Removes(elements[s])
<1>1. Apart(elements', NIL) /\ Past(elements', pushed)
  <2>1. /\ elements \in [Slots -> Message \cup {NIL}]
        /\ Apart(elements, NIL) /\ Past(elements, pushed)
    BY DEF ChannelInv, Typed, TypeOK
  <2> QED
    BY <2>1, TakeMessage, NilAssumption DEF Takes
<1>2. elements[s] \in Stored /\ Stored' = Stored \ {elements[s]}
  BY DEF Takes, Stored, Apart, ChannelInv, Typed, TypeOK
<1> QED
  BY <1>1, <1>2 DEF Removes, Apart, Past, Takes, Returned, ChannelOfSlots!Receive

\* No message is stored twice, or before it is pushed.
LEMMA ChannelInvariant == Spec => []ChannelInv
<1> DEFINE Rest == Apart(elements, NIL) /\ Past(elements, pushed) /\ SlotUntouched
<1>1. Init => Rest
  BY NilAssumption
     DEF Init, CommonInit, Apart, Past, SlotUntouched, Threads, Message
<1>2. ChannelInv /\ [Next]_vars => Rest'
  <2> SUFFICES ASSUME ChannelInv, [Next]_vars
               PROVE  (Apart(elements, NIL) /\ Past(elements, pushed))'
    BY SlotUntouchedStep
  <2>1. CASE Keeps
    BY <2>1 DEF Keeps, ChannelInv, Apart, Past
  <2>2. ASSUME NEW p \in Producers, Stores(p)
        PROVE  (Apart(elements, NIL) /\ Past(elements, pushed))'
    BY <2>2, StoresPut DEF Puts
  <2>3. ASSUME NEW s \in Slots, Takes(s)
        PROVE  (Apart(elements, NIL) /\ Past(elements, pushed))'
    BY <2>3, TakesRemove DEF Removes
  <2> QED
    BY <2>1, <2>2, <2>3, StepEffects
<1>3. Typed /\ Rest <=> ChannelInv
  BY DEF ChannelInv
<1> HIDE DEF Rest
<1> QED
  BY <1>1, <1>2, <1>3, TypedInvariant, PTL DEF Spec

-----------------------------------------------------------------------------
\* Each effect on the slots is a step of the channel, or none.
LEMMA ChannelStep ==
  ASSUME ChannelInv, [Next]_vars
  PROVE  [ChannelOfSlots!Next]_<<Stored, pushed, popped>>
<1>1. CASE Keeps
  BY <1>1 DEF Keeps, Stored
<1>2. ASSUME NEW p \in Producers, Stores(p)
      PROVE  ChannelOfSlots!Next
  BY <1>2, StoresPut DEF Puts, ChannelOfSlots!Next
<1>3. ASSUME NEW s \in Slots, Takes(s)
      PROVE  ChannelOfSlots!Next
  BY <1>3, TakesRemove DEF Removes, ChannelOfSlots!Next
<1> QED
  BY <1>1, <1>2, <1>3, StepEffects

\* Every message whose push has returned is in exactly one slot until exactly
\* one pop returns it: do_push never overwrites a message and two calls of
\* do_pop never take the same one, in MPMC and in SPSC mode, for any number
\* of threads and slots, and however indices are mapped to slots.
THEOREM QueueIsChannel == Spec => ImplementsChannel
<1>1. Init => ChannelOfSlots!Init
  BY SizeAssumption
     DEF Init, CommonInit, Stored, ChannelOfSlots!Init, ChannelOfSlots!Message, Message
<1> QED
  BY <1>1, ChannelStep, ChannelInvariant, PTL
     DEF Spec, ImplementsChannel, ChannelOfSlots!Spec

-----------------------------------------------------------------------------
\* What makes the slots a queue in SPSC mode: the messages are in the slots of
\* consecutive indices, from the end the consumer is at on.
FifoInv ==
  /\ ChannelInv
  /\ EndsInv
  /\ Ring(elements, NIL, PopEnd, Sub(PushEnd, PopEnd))

\* The kinds of steps and what they do to the slots.
LEMMA StepKinds ==
  ASSUME ChannelInv, [Next]_vars
  PROVE  \/ Claims /\ Keeps
         \/ \E t \in Threads : Works(t) /\ Keeps
         \/ \E p \in Producers : Finishes(p) /\ Stores(p)
         \/ \E c \in Consumers : Finishes(c) /\ Takes(SlotOf(c))
         \/ UNCHANGED common /\ Keeps
<1>1. index \in [Threads -> Word]
  BY DEF ChannelInv, Typed, TypeOK
<1>2. ASSUME NEW p \in Producers, Push(p)
      PROVE  \/ Claims /\ Keeps
             \/ Works(p) /\ Keeps
             \/ Finishes(p) /\ Stores(p)
  <2>1. CASE ClaimPush(p) /\ UNCHANGED <<elements, hand>>
    BY <2>1
       DEF ClaimPush, TryPushBegin, TryPushCheck, ClaimHead, ReloadHead, PushBegin,
           Claims, Keeps
  <2>2. CASE ExchangeNil(p)
    BY <2>2 DEF ExchangeNil, StoreNextMessage, Stores, Finishes, Busy, counters
  <2>3. CASE SeeNil(p)
    BY <1>1, <2>3 DEF SeeNil, Goto, Works, Busy, Keeps, ChannelInv, Typed, TypeOK, Threads
  <2>4. CASE StoreElement(p)
    BY <2>4
       DEF StoreElement, StoreNextMessage, Stores, Finishes, Busy, counters,
           ChannelInv, SlotUntouched
  <2> QED
    BY <1>2, <2>1, <2>2, <2>3, <2>4 DEF Push
<1>3. ASSUME NEW c \in Consumers, Pop(c)
      PROVE  \/ Claims /\ Keeps
             \/ Works(c) /\ Keeps
             \/ Finishes(c) /\ Takes(SlotOf(c))
  <2>1. CASE ClaimPop(c) /\ UNCHANGED <<elements, hand>>
    BY <2>1
       DEF ClaimPop, TryPopBegin, TryPopCheck, ClaimTail, ReloadTail, PopBegin,
           Claims, Keeps
  <2>2. CASE ExchangeElement(c)
    BY <2>2 DEF ExchangeElement, Takes, Finishes, Busy, counters
  <2>3. CASE LoadElement(c)
    BY <1>1, <2>3 DEF LoadElement, Goto, Works, Busy, Keeps, ChannelInv, Typed, TypeOK, Threads
  <2>4. CASE StoreNil(c)
    BY <2>4 DEF StoreNil, Takes, Finishes, Busy, counters, ChannelInv, SlotUntouched
  <2> QED
    BY <1>3, <2>1, <2>2, <2>3, <2>4 DEF Pop
<1>4. CASE UNCHANGED vars
  BY <1>4 DEF vars, common, Keeps
<1> QED
  BY <1>2, <1>3, <1>4 DEF Next, Threads

\* What a step does to the ends of the queue and the slots together: nothing,
\* or the push or the pop that returns works on the slot of its end.
KeepsQueue == UNCHANGED <<elements, pushed, popped, PushEnd, PopEnd>>

StoresLast(p) ==
  /\ Stores(p)
  /\ SlotOf(p) = Slot[PushEnd]
  /\ PushEnd' = Add(PushEnd, 1)
  /\ PopEnd' = PopEnd

TakesFirst ==
  /\ Takes(Slot[PopEnd])
  /\ PopEnd' = Add(PopEnd, 1)
  /\ PushEnd' = PushEnd

\* What a step does to the queue in SPSC mode: nothing, add the newest
\* message, or take the oldest.
LEMMA QueueEffects ==
  ASSUME Spsc, ChannelInv, EndsInv, [Next]_vars
  PROVE  /\ EndsInv'
         /\ \/ KeepsQueue
            \/ \E p \in Producers : StoresLast(p)
            \/ TakesFirst
<1> DEFINE Steps == PushSteps \cup PopSteps
<1>1. pc \in [Threads -> Steps] /\ index \in [Threads -> Word]
  BY DEF ChannelInv, Typed, TypeOK
<1> HIDE DEF Steps
<1>2. CASE Claims /\ Keeps
  BY <1>1, <1>2, ClaimsKeepEnds DEF Keeps, KeepsQueue
<1>3. ASSUME NEW t \in Threads, Works(t), Keeps
      PROVE  EndsInv' /\ KeepsQueue
  BY <1>1, <1>3, WorkKeepsEnds DEF Keeps, KeepsQueue
<1>4. ASSUME NEW p \in Producers, Finishes(p), Stores(p)
      PROVE  EndsInv' /\ StoresLast(p)
  <2>1. EndsInv' /\ PushEnd = index[p] /\ PushEnd' = Add(PushEnd, 1) /\ PopEnd' = PopEnd
    BY <1>1, <1>4, ReturnsMoveEnds DEF Threads
  <2> QED
    BY <1>4, <2>1 DEF StoresLast, SlotOf
<1>5. ASSUME NEW c \in Consumers, Finishes(c), Takes(SlotOf(c))
      PROVE  EndsInv' /\ TakesFirst
  <2>1. EndsInv' /\ PopEnd = index[c] /\ PopEnd' = Add(PopEnd, 1) /\ PushEnd' = PushEnd
    BY <1>1, <1>5, ReturnsMoveEnds DEF Threads
  <2> QED
    BY <1>5, <2>1 DEF TakesFirst, SlotOf
<1>6. CASE UNCHANGED common /\ Keeps
  <2>1. EndsInv'
    BY <1>6 DEF common, EndsInv, Busy
  <2>2. KeepsQueue
    BY <1>6 DEF common, Keeps, KeepsQueue, PushEnd, PopEnd, InUse, Busy
  <2> QED
    BY <2>1, <2>2
<1> QED
  BY <1>2, <1>3, <1>4, <1>5, <1>6, StepKinds

\* Each effect is a step of the bounded queue, or none, and keeps the messages
\* in consecutive slots.
LEMMA FifoStep ==
  ASSUME Spsc, ApartInWindows(Slot, Size), FifoInv, ChannelInv', [Next]_vars
  PROVE  FifoInv' /\ [FifoOfSlots!Next]_<<QueueOfSlots, pushed, popped>>
<1> DEFINE InRing == Ring(elements, NIL, PopEnd, Sub(PushEnd, PopEnd))
<1>1. /\ EndsInv' /\ InRing
      /\ KeepsQueue \/ (\E p \in Producers : StoresLast(p)) \/ TakesFirst
  BY QueueEffects DEF FifoInv
<1>2. PushEnd \in Word /\ PopEnd \in Word /\ elements \in [Slots -> Message \cup {NIL}]
  BY EndsAreWords DEF FifoInv, ChannelInv, Typed, TypeOK
<1>3. CASE KeepsQueue
  BY <1>1, <1>3 DEF KeepsQueue, Ring, QueueOfSlots, QueueOf, FifoInv
<1>4. ASSUME NEW p \in Producers, StoresLast(p)
      PROVE  InRing' /\ FifoOfSlots!Send(p)
  <2>1. /\ NextMessage(p) \in Message /\ pushed[p] < MaxPush
        /\ NextMessage(p) = <<p, pushed[p] + 1>>
    BY <1>4, NextMessageType
       DEF StoresLast, Stores, FifoInv, ChannelInv, Typed, Unfinished, NextMessage
  <2>2. /\ elements[Slot[PushEnd]] = NIL
        /\ elements' = [elements EXCEPT ![Slot[PushEnd]] = NextMessage(p)]
        /\ PushEnd' = Add(PushEnd, 1) /\ PopEnd' = PopEnd
        /\ pushed' = [pushed EXCEPT ![p] = @ + 1] /\ UNCHANGED popped
    BY <1>4 DEF StoresLast, Stores, StoreNextMessage, Accepted
  <2>3. /\ Put(QueueOf(elements, PopEnd, PushEnd), QueueOf(elements', PopEnd, PushEnd'), NextMessage(p))
        /\ Ring(elements', NIL, PopEnd, Sub(PushEnd', PopEnd))
    BY <1>1, <1>2, <2>1, <2>2, PutAtEnd, NilAssumption
  <2>4. InRing'
    BY <2>2, <2>3 DEF Ring
  <2>5. Put(QueueOfSlots, QueueOfSlots', NextMessage(p))
    BY <2>2, <2>3 DEF QueueOfSlots, QueueOf
  <2> QED
    BY <2>1, <2>2, <2>4, <2>5 DEF Put, FifoOfSlots!Send
<1>5. ASSUME TakesFirst
      PROVE  InRing' /\ FifoOfSlots!Receive
  <2>1. /\ elements[Slot[PopEnd]] # NIL
        /\ elements' = [elements EXCEPT ![Slot[PopEnd]] = NIL]
        /\ PopEnd' = Add(PopEnd, 1) /\ PushEnd' = PushEnd
        /\ popped' = [popped EXCEPT ![elements[Slot[PopEnd]]] = @ + 1] /\ UNCHANGED pushed
    BY <1>5 DEF TakesFirst, Takes, Returned
  <2>2. /\ Taken(QueueOf(elements, PopEnd, PushEnd), QueueOf(elements', PopEnd', PushEnd),
                  elements[Slot[PopEnd]])
        /\ Ring(elements', NIL, PopEnd', Sub(PushEnd, PopEnd'))
    BY <1>1, <1>2, <2>1, TakeAtStart
  <2>3. InRing'
    BY <2>1, <2>2 DEF Ring
  <2>4. Taken(QueueOfSlots, QueueOfSlots', elements[Slot[PopEnd]])
    BY <2>1, <2>2 DEF QueueOfSlots, QueueOf
  <2> QED
    BY <2>1, <2>3, <2>4 DEF Taken, FifoOfSlots!Receive
<1>6. ASSUME InRing' PROVE FifoInv'
  BY <1>1, <1>6 DEF FifoInv
<1> HIDE DEF InRing
<1> QED
  BY <1>1, <1>3, <1>4, <1>5, <1>6 DEF FifoOfSlots!Next

\* With one producer and one consumer, a mapping that keeps the slots of Size
\* consecutive indices apart makes the slots a first-in first-out queue of at
\* most Size messages: push waits for room and appends, pop waits for a message
\* and takes the oldest.
THEOREM SpscQueueIsFifo ==
  ASSUME Spsc, ApartInWindows(Slot, Size) PROVE Spec => ImplementsFifo
<1>1. Init => EndsInv /\ Ring(elements, NIL, PopEnd, Sub(PushEnd, PopEnd)) /\ FifoOfSlots!Init
  <2> SUFFICES ASSUME Init
               PROVE  /\ EndsInv /\ Ring(elements, NIL, PopEnd, Sub(PushEnd, PopEnd))
                      /\ FifoOfSlots!Init
    OBVIOUS
  <2>1. \A t \in Threads : pc[t] = "idle" /\ ~Busy(t)
    BY DEF Init, CommonInit, Busy
  <2>2. EndsInv
    BY <2>1 DEF EndsInv, Threads
  <2>3. PushEnd = Start /\ PopEnd = Start
    BY <2>1 DEF PushEnd, PopEnd, InUse, Threads, Init, CommonInit
  <2>4. Sub(Start, Start) = 0
    BY StartAssumption, SubZero
  <2>5. Ring(elements, NIL, PopEnd, 0)
    <3>1. 0 \in 0 .. Size
      BY SizeAssumption, WordNat
    <3>2. ASSUME NEW k \in 0 .. Size - 1
          PROVE  elements[Slot[Add(PopEnd, k)]] = NIL /\ ~(k < 0)
      <4>1. k \in Nat
        BY SizeAssumption, WordNat
      <4> QED
        BY <2>3, <4>1, StartAssumption, WordArithmetic, Constants DEF Init
    <3> QED
      BY <3>1, <3>2 DEF Ring
  <2>6. QueueOfSlots = << >>
    BY <2>3, <2>4 DEF QueueOfSlots, QueueOf
  <2> QED
    BY <2>2, <2>3, <2>4, <2>5, <2>6 DEF FifoOfSlots!Init, FifoOfSlots!Message, Init, CommonInit, Message
<1>2. Spsc /\ FifoInv /\ ChannelInv' /\ [Next]_vars
        => FifoInv' /\ [FifoOfSlots!Next]_<<QueueOfSlots, pushed, popped>>
  BY FifoStep
<1>3. ChannelInv /\ EndsInv /\ Ring(elements, NIL, PopEnd, Sub(PushEnd, PopEnd)) => FifoInv
  BY DEF FifoInv
<1> QED
  BY <1>1, <1>2, <1>3, ChannelInvariant, PTL
     DEF Spec, ImplementsFifo, FifoOfSlots!Spec

-----------------------------------------------------------------------------
\* The slots with a message.
FullSlots == {s \in Slots : elements[s] # NIL}

\* What keeps the counters, the calls under way and the slots in balance.
BalanceInv ==
  /\ ChannelInv
  /\ Spsc => EndsInv
  /\ Balanced(FullSlots)

\* An index claimed, a message stored and a message taken keep the balance.
LEMMA BalanceStep ==
  ASSUME FewThreads, BalanceInv, [Next]_vars
  PROVE  (Spsc => EndsInv') /\ Balanced(FullSlots)'
<1> DEFINE Steps == PushSteps \cup PopSteps
<1>0. PICK full : full = FullSlots
  OBVIOUS
<1>1. /\ pc \in [Threads -> Steps] /\ AreWords
      /\ full \in SUBSET Slots /\ Balanced(full) /\ (Spsc => EndsInv) /\ ChannelInv
  BY <1>0 DEF BalanceInv, ChannelInv, Typed, TypeOK, AreWords, FullSlots, Balanced
<1>2. elements \in [Slots -> Message \cup {NIL}]
  BY <1>1 DEF ChannelInv, Typed, TypeOK
<1>3. \A full2 : full2 = FullSlots' /\ Balanced(full2)' => Balanced(FullSlots)'
  BY DEF Balanced
<1> HIDE DEF Steps
<1>4. ASSUME Spsc PROVE EndsInv'
  BY <1>1, <1>4, QueueEffects
<1>5. ASSUME Claims, Keeps
      PROVE  Balanced(FullSlots)'
  <2>1. Balanced(full)'
    BY <1>1, <1>5, ClaimsKeepBalance
  <2>2. FullSlots' = full
    BY <1>0, <1>5 DEF Keeps, FullSlots
  <2> QED
    BY <1>3, <2>1, <2>2
<1>6. ASSUME NEW t \in Threads, Works(t), Keeps
      PROVE  Balanced(FullSlots)'
  <2>1. Balanced(full)'
    BY <1>1, <1>6, WorkKeepsBalance
  <2>2. FullSlots' = full
    BY <1>0, <1>6 DEF Keeps, FullSlots
  <2> QED
    BY <1>3, <2>1, <2>2
<1>7. ASSUME NEW p \in Producers, Finishes(p), Stores(p)
      PROVE  Balanced(FullSlots)'
  <2>1. SlotOf(p) \in Slots /\ NextMessage(p) \in Message
    BY <1>1, <1>7, Constants, MaxPushAssumption
       DEF Stores, ChannelInv, Typed, TypeOK, Unfinished, NextMessage, Message, SlotOf, Threads
  <2>2. elements[SlotOf(p)] = NIL /\ elements' = [elements EXCEPT ![SlotOf(p)] = NextMessage(p)]
    BY <1>7 DEF Stores, StoreNextMessage
  <2>3. SlotOf(p) \notin full
    BY <1>0, <2>2 DEF FullSlots
  <2>4. FullSlots' = full \cup {SlotOf(p)}
    BY <1>0, <1>2, <2>1, <2>2, NilAssumption DEF FullSlots
  <2>5. \A g : g = full \cup {SlotOf(p)} => Balanced(g)'
    BY <1>1, <1>7, <2>3, PushKeepsBalance
  <2> QED
    BY <1>3, <2>4, <2>5
<1>8. ASSUME NEW c \in Consumers, Finishes(c), Takes(SlotOf(c))
      PROVE  Balanced(FullSlots)'
  <2>1. SlotOf(c) \in Slots
    BY <1>1, Constants DEF ChannelInv, Typed, TypeOK, SlotOf, Threads
  <2>2. elements[SlotOf(c)] # NIL /\ elements' = [elements EXCEPT ![SlotOf(c)] = NIL]
    BY <1>8, NilAssumption DEF Takes
  <2>3. SlotOf(c) \in full
    BY <1>0, <2>1, <2>2 DEF FullSlots
  <2>4. FullSlots' = full \ {SlotOf(c)}
    BY <1>0, <1>2, <2>1, <2>2 DEF FullSlots
  <2>5. \A g : g = full \ {SlotOf(c)} => Balanced(g)'
    BY <1>1, <1>8, <2>3, PopKeepsBalance
  <2> QED
    BY <1>3, <2>4, <2>5
<1>9. ASSUME UNCHANGED common, Keeps
      PROVE  Balanced(FullSlots)'
  BY <1>0, <1>1, <1>9 DEF Keeps, common, FullSlots, Balanced, BusyOf, Busy
<1>10. Balanced(FullSlots)'
  BY <1>1, <1>5, <1>6, <1>7, <1>8, <1>9, StepKinds
<1> QED
  BY <1>4, <1>10

\* With few threads each slot's account balances, in every state.
LEMMA BalanceInvariant == ASSUME FewThreads PROVE Spec => []BalanceInv
<1>1. Init => (Spsc => EndsInv) /\ Balanced(FullSlots)
  <2> SUFFICES ASSUME Init PROVE EndsInv /\ Balanced(FullSlots)
    OBVIOUS
  <2>1. \A t \in Threads : pc[t] = "idle" /\ ~Busy(t)
    BY DEF Init, CommonInit, Busy
  <2>2. EndsInv
    BY <2>1 DEF EndsInv, Threads
  <2>3. BusyOf(Producers) = {} /\ BusyOf(Consumers) = {} /\ FullSlots = {}
    BY <2>1 DEF BusyOf, Threads, FullSlots, Init, CommonInit
  <2>4. Balance(Start, Start, {}, {}, index, {})
    BY StartAssumption, NothingBalances
  <2> QED
    BY <2>2, <2>3, <2>4 DEF Balanced, Init, CommonInit
<1>2. FewThreads /\ BalanceInv /\ [Next]_vars => (Spsc => EndsInv)' /\ Balanced(FullSlots)'
  BY BalanceStep
<1>3. ChannelInv /\ (Spsc => EndsInv) /\ Balanced(FullSlots) <=> BalanceInv
  BY DEF BalanceInv
<1> QED
  BY <1>1, <1>2, <1>3, ChannelInvariant, PTL DEF Spec

\* While no pop is under way, a push whose index is within Size of tail_ does
\* not wait for its slot, for any number of threads and slots, in MPMC and in
\* SPSC mode, as long as the mapping keeps the slots of Size consecutive
\* indices apart.
THEOREM PushNeedNotWait ==
  ASSUME FewThreads, ApartInWindows(Slot, Size)
  PROVE  Spec => []PushWaitsOnlyWhenFull
<1>1. ASSUME BalanceInv, \A c \in Consumers : pc[c] = "idle", Used <= Size,
             NEW p \in Producers, Busy(p)
      PROVE  SlotOf(p) \notin FullSlots /\ SlotOf(p) \in Slots
  <2>1. BusyOf(Consumers) = {} /\ p \in BusyOf(Producers) /\ BusyOf(Producers) \in SUBSET Producers
    BY <1>1 DEF BusyOf, Busy
  <2>2. head_ \in Word /\ tail_ \in Word /\ SlotOf(p) \in Slots /\ FullSlots \in SUBSET Slots
    BY <1>1, Constants DEF BalanceInv, ChannelInv, Typed, TypeOK, SlotOf, FullSlots, Threads
  <2>3. Balance(head_, tail_, BusyOf(Producers), {}, index, FullSlots)
    BY <1>1, <2>1 DEF BalanceInv, Balanced
  <2> QED
    BY <1>1, <2>1, <2>2, <2>3, PushFindsRoom DEF Used, SlotOf
<1>2. ASSUME BalanceInv PROVE PushWaitsOnlyWhenFull
  <2>1. ASSUME \A c \in Consumers : pc[c] = "idle", Used <= Size, NEW p \in Producers, Busy(p)
        PROVE  elements[SlotOf(p)] = NIL
    BY <1>1, <1>2, <2>1 DEF FullSlots
  <2> QED
    BY <2>1 DEF PushWaitsOnlyWhenFull, Busy
<1> QED
  BY <1>2, BalanceInvariant, PTL

\* While no push is under way, a pop whose index is not beyond head_ does not
\* wait for its slot, whatever the mapping of indices to slots.
THEOREM PopNeedNotWait ==
  ASSUME FewThreads PROVE Spec => []PopWaitsOnlyWhenEmpty
<1>1. ASSUME BalanceInv, \A p \in Producers : pc[p] = "idle", Used >= 0,
             NEW c \in Consumers, Busy(c)
      PROVE  SlotOf(c) \in FullSlots /\ SlotOf(c) \in Slots
  <2>1. BusyOf(Producers) = {} /\ c \in BusyOf(Consumers) /\ BusyOf(Consumers) \in SUBSET Consumers
    BY <1>1 DEF BusyOf, Busy
  <2>2. head_ \in Word /\ tail_ \in Word /\ SlotOf(c) \in Slots /\ FullSlots \in SUBSET Slots
    BY <1>1, Constants DEF BalanceInv, ChannelInv, Typed, TypeOK, SlotOf, FullSlots, Threads
  <2>3. Balance(head_, tail_, {}, BusyOf(Consumers), index, FullSlots)
    BY <1>1, <2>1 DEF BalanceInv, Balanced
  <2> QED
    BY <1>1, <2>1, <2>2, <2>3, PopFindsMessage DEF Used, SlotOf
<1>2. ASSUME BalanceInv PROVE PopWaitsOnlyWhenEmpty
  <2>1. ASSUME \A p \in Producers : pc[p] = "idle", Used >= 0, NEW c \in Consumers, Busy(c)
        PROVE  elements[SlotOf(c)] # NIL
    <3>1. SlotOf(c) \in FullSlots /\ SlotOf(c) \in Slots
      BY <1>1, <1>2, <2>1
    <3> QED
      BY <3>1 DEF FullSlots
  <2> QED
    BY <2>1 DEF PopWaitsOnlyWhenEmpty, Busy
<1> QED
  BY <1>2, BalanceInvariant, PTL
-----------------------------------------------------------------------------
\* What the claims need to know: the balance, how far the counters have come
\* and what each call has seen of them.
ClaimInv == BalanceInv /\ LimitInv

\* Every step keeps it, refuses a call at the limit only and, in MPMC mode,
\* claims an index for a try_push or a try_pop within the limit only.
LEMMA ClaimStep ==
  ASSUME FewThreads, FewMessages, ClaimInv, BalanceInv', [Next]_vars
  PROVE  /\ LimitInv'
         /\ RefusedAtLimit(Lag)
         /\ ~Spsc => ClaimedWithinLimit
<1> DEFINE Steps == PushSteps \cup PopSteps
<1>0. PICK full : full = FullSlots
  OBVIOUS
<1>1. /\ pc \in [Threads -> Steps] /\ AreWords /\ AreWords' /\ PushedType /\ ChannelInv
      /\ full \in SUBSET Slots /\ Balanced(full) /\ (Spsc => EndsInv) /\ LimitInv
  BY <1>0
     DEF ClaimInv, BalanceInv, ChannelInv, Typed, TypeOK, AreWords, PushedType, FullSlots,
         Balanced
<1>2. ASSUME UNCHANGED pushed
      PROVE  \A p \in Producers : pc'[p] # "idle" => pushed[p] < MaxPush
  BY <1>2 DEF BalanceInv, ChannelInv, Typed, Unfinished
<1>3. ASSUME NEW p \in Producers, Finishes(p), Accepted(p)
      PROVE  \A q \in Producers : pc'[q] # "idle" => pushed[q] < MaxPush
  <2>1. \A q \in Producers : pc'[q] # "idle" => pc[q] # "idle"
    BY <1>3 DEF Finishes, Return, Goto, AreWords, Threads
  <2> QED
    BY <2>1 DEF ClaimInv, BalanceInv, ChannelInv, Typed, Unfinished
<1> HIDE DEF Steps
<1>4. CASE Claims /\ Keeps
  <2>1. FullSlots' = full
    BY <1>0, <1>4 DEF Keeps, FullSlots
  <2>2. Balanced(full)'
    BY <2>1 DEF BalanceInv, Balanced
  <2> QED
    BY <1>1, <1>2, <1>4, <2>2, LimitStep DEF Keeps
<1>5. ASSUME NEW t \in Threads, Works(t), Keeps
      PROVE  LimitInv' /\ RefusedAtLimit(Lag) /\ (~Spsc => ClaimedWithinLimit)
  BY <1>1, <1>2, <1>5, LimitStep DEF Keeps
<1>6. ASSUME NEW p \in Producers, Finishes(p), Stores(p)
      PROVE  LimitInv' /\ RefusedAtLimit(Lag) /\ (~Spsc => ClaimedWithinLimit)
  <2>1. Accepted(p)
    BY <1>6 DEF Stores, StoreNextMessage
  <2> QED
    BY <1>1, <1>3, <1>6, <2>1, LimitStep
<1>7. ASSUME NEW c \in Consumers, Finishes(c), Takes(SlotOf(c))
      PROVE  LimitInv' /\ RefusedAtLimit(Lag) /\ (~Spsc => ClaimedWithinLimit)
  BY <1>1, <1>2, <1>7, LimitStep DEF Takes
<1>8. CASE UNCHANGED common /\ Keeps
  BY <1>1, <1>2, <1>8, LimitStep DEF Keeps
<1> QED
  BY <1>1, <1>4, <1>5, <1>6, <1>7, <1>8, StepKinds

\* With few threads and few messages the counters stay as far apart as the
\* claims allow, and no load is later than it claims.
LEMMA ClaimInvariant == ASSUME FewThreads, FewMessages PROVE Spec => []ClaimInv
<1>1. Init => LimitInv
  BY LimitAtStart DEF Init
<1>2. ClaimInv /\ BalanceInv' /\ [Next]_vars => LimitInv'
  BY ClaimStep
<1>3. BalanceInv /\ LimitInv <=> ClaimInv
  BY DEF ClaimInv
<1> QED
  BY <1>1, <1>2, <1>3, BalanceInvariant, PTL DEF Spec

\* try_push returns false only when head_ is at least Size - Lag indices beyond
\* tail_ at that moment, and try_pop only when it is at most Lag beyond, in MPMC
\* and in SPSC mode, for any number of threads and slots.  However old the value
\* of the counter is that a call loads first, it does not get the call refused.
THEOREM RefusedOnlyAtTheLimit ==
  ASSUME FewThreads, FewMessages PROVE Spec => RefusedOnlyAtLimit
<1>1. ClaimInv /\ BalanceInv' /\ [Next]_vars => [RefusedAtLimit(Lag)]_vars
  BY ClaimStep
<1> QED
  BY <1>1, BalanceInvariant, ClaimInvariant, PTL DEF Spec, RefusedOnlyAtLimit

\* With any number of producers and consumers, try_push claims an index only
\* where the queue has room and try_pop only where it has a message claimed for
\* it, although a compare-exchange succeeds long after the check and although
\* it tells an index apart by its value only.
THEOREM TryStaysWithinLimit ==
  ASSUME FewThreads, FewMessages PROVE Spec => TryWithinLimit
<1>1. ClaimInv /\ BalanceInv' /\ [Next]_vars => [~Spsc => ClaimedWithinLimit]_vars
  BY ClaimStep
<1> QED
  BY <1>1, BalanceInvariant, ClaimInvariant, PTL DEF Spec, TryWithinLimit

-----------------------------------------------------------------------------
(* The order of delivery.                                                  *)
\* The index that is in turn at slot s: its pop is next, and so is its push,
\* unless the message it was pushed with is in the slot.  The push that comes
\* after that one has the index Size further on.
InTurn(s) ==
  \E i \in Word :
    /\ NextOf(BusyOf(Consumers), index, tail_, s, i)
    /\ IF elements[s] = NIL
         THEN NextOf(BusyOf(Producers), index, head_, s, i)
         ELSE /\ turn[elements[s]] = i
              /\ NextOf(BusyOf(Producers), index, head_, s, Add(i, Size))

\* No two threads of a side hold one slot.
SlotsApart(T) == \A t, u \in BusyOf(T) : t # u => SlotOf(t) # SlotOf(u)

OrderInv ==
  /\ ChannelInv
  /\ Spsc => EndsInv
  /\ Lapped => lapped
  /\ ~lapped => \A s \in Slots : InTurn(s)

\* Threads that have not been lapped are at slots of their own.
LEMMA UnlappedApart ==
  ASSUME ChannelInv, ~Lapped PROVE SlotsApart(Producers) /\ SlotsApart(Consumers)
BY DEF ChannelInv, Typed, TypeOK, PushSteps, PopSteps, Lapped, Waits, Busy, BusyOf, SlotsApart

\* Only the message pushed gets a turn.
LEMMA TurnsKept ==
  ASSUME ChannelInv, Remember
  PROVE  /\ UNCHANGED pushed => \A m \in Message : turn'[m] = turn[m]
         /\ \A p \in Producers : Stores(p) =>
              /\ turn'[NextMessage(p)] = index[p]
              /\ \A m \in Message \ {NextMessage(p)} : turn'[m] = turn[m]
<1>1. pushed \in [Producers -> 0 .. MaxPush] /\ MaxPush \in Nat
  BY MaxPushAssumption DEF ChannelInv, Typed, TypeOK
<1>2. \A m \in Message : turn'[m] =
        IF \E p \in Producers : m = NextMessage(p) /\ pushed'[p] # pushed[p]
          THEN index[m[1]] ELSE turn[m]
  BY DEF Remember
<1>3. UNCHANGED pushed => \A m \in Message : turn'[m] = turn[m]
  BY <1>2
<1>4. ASSUME NEW p \in Producers, Stores(p)
      PROVE  /\ turn'[NextMessage(p)] = index[p]
             /\ \A m \in Message \ {NextMessage(p)} : turn'[m] = turn[m]
  <2>1. \A q \in Producers : pushed'[q] # pushed[q] <=> q = p
    BY <1>1, <1>4 DEF Stores, StoreNextMessage, Accepted
  <2>2. NextMessage(p) \in Message /\ NextMessage(p)[1] = p
    BY <1>1, <1>4 DEF Stores, ChannelInv, Typed, Unfinished, NextMessage, Message
  <2> QED
    BY <1>2, <2>1, <2>2
<1> QED
  BY <1>3, <1>4

\* Claims, pushes and pops keep each slot in turn, unless threads are lapped.
LEMMA TurnStep ==
  ASSUME ApartInWindows(Slot, Size), OrderInv, ChannelInv', ~lapped', Next, Remember
  PROVE  \A s \in Slots : InTurn(s)'
<1> DEFINE Steps == PushSteps \cup PopSteps
           P == BusyOf(Producers)
           C == BusyOf(Consumers)
<1>1. /\ pc \in [Threads -> Steps] /\ AreWords /\ ChannelInv /\ (Spsc => EndsInv)
      /\ elements \in [Slots -> Message \cup {NIL}]
      /\ P \in SUBSET Threads /\ C \in SUBSET Threads /\ P \cap C = {}
      /\ P \in SUBSET Producers /\ C \in SUBSET Consumers
  BY ThreadsAssumption DEF OrderInv, ChannelInv, Typed, TypeOK, AreWords, BusyOf, Threads
<1>2. ~lapped /\ ~Lapped'
  BY DEF Remember
<1>3. /\ SlotsApart(Producers) /\ SlotsApart(Consumers)
      /\ SlotsApart(Producers)' /\ SlotsApart(Consumers)'
  <2>1. ChannelInv /\ ~Lapped => SlotsApart(Producers) /\ SlotsApart(Consumers)
    BY UnlappedApart
  <2>2. (ChannelInv /\ ~Lapped => SlotsApart(Producers) /\ SlotsApart(Consumers))'
    BY <2>1, UnlappedApart, PTL
  <2> QED
    BY <1>2, <2>1, <2>2 DEF OrderInv
<1>4. ASSUME NEW s \in Slots PROVE InTurn(s)
  BY <1>2 DEF OrderInv
<1>5. Size \in Nat /\ \A i \in Word : Add(i, Size) \in Word
  BY WordArithmetic, SizeAssumption, WordNat
<1> HIDE DEF Steps
<1>6. ASSUME UNCHANGED <<head_, tail_, elements, pushed>>, P' = P, C' = C,
             \A t \in P \cup C : index'[t] = index[t],
             NEW s \in Slots
      PROVE  InTurn(s)'
  <2>1. PICK i \in Word :
          /\ NextOf(C, index, tail_, s, i)
          /\ IF elements[s] = NIL THEN NextOf(P, index, head_, s, i)
             ELSE turn[elements[s]] = i /\ NextOf(P, index, head_, s, Add(i, Size))
    BY <1>4 DEF InTurn
  <2> HIDE DEF P, C
  <2>2. NextOf(C', index', tail_', s, i)
    BY <1>6, <2>1, SameNext
  <2>3. \A j : NextOf(P, index, head_, s, j) => NextOf(P', index', head_', s, j)
    BY <1>6, SameNext
  <2>4. elements[s] # NIL => turn'[elements[s]] = turn[elements[s]]
    BY <1>1, <1>6, TurnsKept
  <2> QED
    BY <1>6, <2>1, <2>2, <2>3, <2>4 DEF InTurn, P, C
<1>7. ASSUME NEW p \in Producers, HeadClaimed(p), Keeps, NEW s \in Slots
      PROVE  InTurn(s)'
  <2>1. PICK i \in Word :
          /\ NextOf(C, index, tail_, s, i)
          /\ IF elements[s] = NIL THEN NextOf(P, index, head_, s, i)
             ELSE turn[elements[s]] = i /\ NextOf(P, index, head_, s, Add(i, Size))
    BY <1>4 DEF InTurn
  <2>2. /\ P' = P \cup {p} /\ C' = C /\ p \notin P /\ p \notin C
        /\ \A t \in P \cup C : index'[t] = index[t]
        /\ index'[p] = head_ /\ head_' = Add(head_, 1) /\ tail_' = tail_
        /\ elements' = elements /\ pushed' = pushed
    BY <1>1, <1>7, ThreadsAssumption DEF HeadClaimed, OthersStay, BusyOf, Threads, Keeps
  <2>3. \A q \in P : Slot[index[q]] # Slot[head_]
    <3>1. \A t, u \in P' : t # u => Slot[index'[t]] # Slot[index'[u]]
      BY <1>3 DEF SlotsApart, SlotOf
    <3> QED
      BY <2>2, <3>1
  <2>4. head_ \in Word
    BY <1>1 DEF AreWords
  <2> HIDE DEF P, C
  <2>5. NextOf(C', index', tail_', s, i)
    BY <2>1, <2>2, SameNext
  <2>6. \A j \in Word : NextOf(P, index, head_, s, j) => NextOf(P', index', head_', s, j)
    <3> SUFFICES ASSUME NEW j \in Word, NextOf(P, index, head_, s, j)
                 PROVE  NextOf(P', index', head_', s, j)
      OBVIOUS
    <3>1. PICK ix2 : ix2 = index'
      OBVIOUS
    <3>2. NextOf(P \cup {p}, ix2, Add(head_, 1), s, j)
      BY <2>2, <2>3, <2>4, <3>1, ClaimNext
    <3> QED
      BY <2>2, <3>1, <3>2
  <2>7. elements[s] # NIL => turn'[elements[s]] = turn[elements[s]]
    BY <1>1, <2>2, TurnsKept
  <2> QED
    BY <1>5, <2>1, <2>2, <2>5, <2>6, <2>7 DEF InTurn, P, C
<1>8. ASSUME NEW c \in Consumers, TailClaimed(c), Keeps, NEW s \in Slots
      PROVE  InTurn(s)'
  <2>1. PICK i \in Word :
          /\ NextOf(C, index, tail_, s, i)
          /\ IF elements[s] = NIL THEN NextOf(P, index, head_, s, i)
             ELSE turn[elements[s]] = i /\ NextOf(P, index, head_, s, Add(i, Size))
    BY <1>4 DEF InTurn
  <2>2. /\ C' = C \cup {c} /\ P' = P /\ c \notin P /\ c \notin C
        /\ \A t \in P \cup C : index'[t] = index[t]
        /\ index'[c] = tail_ /\ tail_' = Add(tail_, 1) /\ head_' = head_
        /\ elements' = elements /\ pushed' = pushed
    BY <1>1, <1>8, ThreadsAssumption DEF TailClaimed, OthersStay, BusyOf, Threads, Keeps
  <2>3. \A d \in C : Slot[index[d]] # Slot[tail_]
    <3>1. \A t, u \in C' : t # u => Slot[index'[t]] # Slot[index'[u]]
      BY <1>3 DEF SlotsApart, SlotOf
    <3> QED
      BY <2>2, <3>1
  <2>4. tail_ \in Word
    BY <1>1 DEF AreWords
  <2> HIDE DEF P, C
  <2>5. NextOf(C', index', tail_', s, i)
    <3>1. PICK ix2 : ix2 = index'
      OBVIOUS
    <3>2. NextOf(C \cup {c}, ix2, Add(tail_, 1), s, i)
      BY <2>1, <2>2, <2>3, <2>4, <3>1, ClaimNext
    <3> QED
      BY <2>2, <3>1, <3>2
  <2>6. \A j : NextOf(P, index, head_, s, j) => NextOf(P', index', head_', s, j)
    BY <2>2, SameNext
  <2>7. elements[s] # NIL => turn'[elements[s]] = turn[elements[s]]
    BY <1>1, <2>2, TurnsKept
  <2> QED
    BY <2>1, <2>2, <2>5, <2>6, <2>7 DEF InTurn, P, C
<1>9. ASSUME NEW p \in Producers, Finishes(p), Stores(p), NEW s \in Slots
      PROVE  InTurn(s)'
  <2>1. PICK i \in Word :
          /\ NextOf(C, index, tail_, s, i)
          /\ IF elements[s] = NIL THEN NextOf(P, index, head_, s, i)
             ELSE turn[elements[s]] = i /\ NextOf(P, index, head_, s, Add(i, Size))
    BY <1>4 DEF InTurn
  <2>2. /\ P' = P \ {p} /\ C' = C /\ p \in P /\ p \notin C
        /\ \A t \in (P \ {p}) \cup C : index'[t] = index[t]
        /\ head_' = head_ /\ tail_' = tail_
        /\ elements[Slot[index[p]]] = NIL
        /\ elements' = [elements EXCEPT ![Slot[index[p]]] = NextMessage(p)]
    BY <1>1, <1>9, ThreadsAssumption
       DEF Finishes, Stores, StoreNextMessage, Return, Goto, Busy, BusyOf, Threads, counters,
           AreWords, SlotOf
  <2>3. NextMessage(p) \in Message /\ NextMessage(p) # NIL
    BY <1>1, <1>9, NextMessageType, NilAssumption DEF Stores, ChannelInv
  <2>4. turn'[NextMessage(p)] = index[p] /\ \A m \in Message \ {NextMessage(p)} : turn'[m] = turn[m]
    BY <1>1, <1>9, TurnsKept
  <2>5. \A q \in P \ {p} : Slot[index[q]] # Slot[index[p]]
    BY <1>3, <2>2 DEF SlotsApart, SlotOf
  <2>6. head_ \in Word /\ Slot[index[p]] \in Slots
    BY <1>1, Constants, <1>9 DEF AreWords, Threads
  <2>7. elements[s] # NIL => elements[s] # NextMessage(p)
    <3>1. Past(elements, pushed) /\ pushed \in [Producers -> 0 .. MaxPush] /\ MaxPush \in Nat
      BY <1>1, MaxPushAssumption DEF ChannelInv, Typed, TypeOK
    <3> QED
      BY <2>3, <3>1 DEF Past, NextMessage, Message
  <2> HIDE DEF P, C
  <2>8. NextOf(C', index', tail_', s, i)
    BY <2>1, <2>2, SameNext
  <2>9. CASE s = Slot[index[p]]
    <3>1. PICK ix2 : ix2 = index'
      OBVIOUS
    <3>2. NextOf(P, index, head_, Slot[index[p]], i)
      BY <2>1, <2>2, <2>9
    <3>5. \A t \in P \ {p} : Slot[index[t]] # Slot[index[p]] /\ ix2[t] = index[t]
      BY <2>2, <2>5, <3>1
    <3>6. p \in P
      BY <2>2
    <3>7. PICK ix : ix = index
      OBVIOUS
    <3>8. NextOf(P, ix, head_, Slot[ix[p]], i)
      BY <3>2, <3>7
    <3>9. \A t \in P \ {p} : Slot[ix[t]] # Slot[ix[p]] /\ ix2[t] = ix[t]
      BY <3>5, <3>7
    <3>3. index[p] = i /\ NextOf(P \ {p}, ix2, head_, Slot[index[p]], Add(i, Size))
      <4>1. ix[p] = i /\ NextOf(P \ {p}, ix2, head_, Slot[ix[p]], Add(i, Size))
        BY ONLY ApartInWindows(Slot, Size), <2>1, <2>6, <3>6, <3>8, <3>9, ReturnNext
      <4> QED
        BY <3>7, <4>1
    <3>4. elements'[s] = NextMessage(p)
      BY <1>1, <2>2, <2>6, <2>9
    <3> QED
      BY <2>2, <2>3, <2>4, <2>8, <2>9, <3>1, <3>3, <3>4 DEF InTurn, P, C
  <2>10. CASE s # Slot[index[p]]
    <3>1. \A j : NextOf(P, index, head_, s, j) => NextOf(P', index', head_', s, j)
      BY <2>2, <2>10, OtherNext
    <3>2. elements'[s] = elements[s]
      BY <1>1, <2>2, <2>10
    <3>3. elements[s] # NIL => turn'[elements[s]] = turn[elements[s]]
      BY <1>1, <2>4, <2>7
    <3> QED
      BY <2>1, <2>2, <2>8, <3>1, <3>2, <3>3 DEF InTurn, P, C
  <2> QED
    BY <2>9, <2>10
<1>10. ASSUME NEW c \in Consumers, Finishes(c), Takes(SlotOf(c)), NEW s \in Slots
       PROVE  InTurn(s)'
  <2>1. PICK i \in Word :
          /\ NextOf(C, index, tail_, s, i)
          /\ IF elements[s] = NIL THEN NextOf(P, index, head_, s, i)
             ELSE turn[elements[s]] = i /\ NextOf(P, index, head_, s, Add(i, Size))
    BY <1>4 DEF InTurn
  <2>2. /\ C' = C \ {c} /\ P' = P /\ c \in C /\ c \notin P
        /\ \A t \in (C \ {c}) \cup P : index'[t] = index[t]
        /\ head_' = head_ /\ tail_' = tail_ /\ pushed' = pushed
        /\ elements[Slot[index[c]]] # NIL
        /\ elements' = [elements EXCEPT ![Slot[index[c]]] = NIL]
    BY <1>1, <1>10, ThreadsAssumption
       DEF Finishes, Takes, Return, Goto, Busy, BusyOf, Threads, counters, AreWords, SlotOf
  <2>3. elements[s] # NIL => turn'[elements[s]] = turn[elements[s]]
    BY <1>1, <2>2, TurnsKept
  <2>5. \A d \in C \ {c} : Slot[index[d]] # Slot[index[c]]
    BY <1>3, <2>2 DEF SlotsApart, SlotOf
  <2>6. tail_ \in Word /\ Slot[index[c]] \in Slots
    BY <1>1, <1>10, Constants DEF AreWords, Threads
  <2> HIDE DEF P, C
  <2>7. \A j : NextOf(P, index, head_, s, j) => NextOf(P', index', head_', s, j)
    BY <2>2, SameNext
  <2>8. CASE s = Slot[index[c]]
    <3>1. PICK ix2 : ix2 = index'
      OBVIOUS
    <3>2. NextOf(C \ {c}, ix2, tail_, Slot[index[c]], Add(i, Size))
      <4>1. NextOf(C, index, tail_, Slot[index[c]], i)
        BY <2>1, <2>8
      <4>2. /\ c \in C /\ tail_ \in Word /\ i \in Word
            /\ \A t \in C \ {c} : Slot[index[t]] # Slot[index[c]] /\ ix2[t] = index[t]
        BY <2>2, <2>5, <2>6, <3>1
      <4> QED
        BY ONLY <4>1, <4>2, ApartInWindows(Slot, Size), ReturnNext
    <3>3. NextOf(C', index', tail_', s, Add(i, Size)) /\ NextOf(P', index', head_', s, Add(i, Size))
      BY <2>1, <2>2, <2>7, <2>8, <3>1, <3>2
    <3>4. elements'[s] = NIL
      BY <1>1, <2>2, <2>6, <2>8
    <3> QED
      BY <1>5, <3>3, <3>4 DEF InTurn, P, C
  <2>9. CASE s # Slot[index[c]]
    <3>1. NextOf(C', index', tail_', s, i)
      BY <2>1, <2>2, <2>9, OtherNext
    <3>2. elements'[s] = elements[s]
      BY <1>1, <2>2, <2>9
    <3> QED
      BY <2>1, <2>3, <2>7, <3>1, <3>2 DEF InTurn, P, C
  <2> QED
    BY <2>8, <2>9
<1>11. CASE Claims /\ Keeps
  <2>1. Looks \/ (\E p \in Producers : HeadClaimed(p)) \/ (\E c \in Consumers : TailClaimed(c))
    BY <1>1, <1>11, ClaimMoves
  <2>2. ASSUME Looks
        PROVE  /\ UNCHANGED <<head_, tail_, elements, pushed>> /\ P' = P /\ C' = C
               /\ \A t \in P \cup C : index'[t] = index[t]
    BY <1>1, <1>11, <2>2 DEF Looks, OthersStay, counters, BusyOf, Threads, Keeps
  <2> HIDE DEF P, C
  <2> QED
    BY <1>6, <1>7, <1>8, <1>11, <2>1, <2>2
<1>12. ASSUME NEW t \in Threads, Works(t), Keeps
       PROVE  /\ UNCHANGED <<head_, tail_, elements, pushed>> /\ P' = P /\ C' = C
              /\ \A u \in P \cup C : index'[u] = index[u]
  BY <1>1, <1>12 DEF Works, Busy, BusyOf, Threads, Keeps
<1>13. ASSUME UNCHANGED common, Keeps
       PROVE  /\ UNCHANGED <<head_, tail_, elements, pushed>> /\ P' = P /\ C' = C
              /\ \A u \in P \cup C : index'[u] = index[u]
  BY <1>13 DEF common, Busy, BusyOf, Keeps
<1> HIDE DEF P, C
<1> QED
  BY <1>1, <1>6, <1>9, <1>10, <1>11, <1>12, <1>13, StepKinds

\* In SPSC mode the ends of the queue stay where the single threads are.
LEMMA EndsInvariant == Spec => [](Spsc => EndsInv)
<1>1. Init => (Spsc => EndsInv)
  BY DEF Init, CommonInit, EndsInv, Busy, Threads
<1>2. ChannelInv /\ (Spsc => EndsInv) /\ [Next]_vars => (Spsc => EndsInv)'
  <2> SUFFICES ASSUME ChannelInv, Spsc => EndsInv, [Next]_vars PROVE (Spsc => EndsInv)'
    OBVIOUS
  <2>1. Spsc => EndsInv'
    BY QueueEffects
  <2> QED
    BY <2>1
<1> QED
  BY <1>1, <1>2, ChannelInvariant, PTL DEF Spec

\* Until a thread is lapped, each slot has an index in turn.
LEMMA OrderInvariant == ASSUME ApartInWindows(Slot, Size) PROVE OrderSpec => []OrderInv
<1> DEFINE Turns == ~lapped => \A s \in Slots : InTurn(s)
           LapSeen == Lapped => lapped
<1>1. OrderInit => LapSeen /\ Turns
  <2> SUFFICES ASSUME OrderInit PROVE ~Lapped /\ \A s \in Slots : InTurn(s)
    OBVIOUS
  <2>1. \A t \in Threads : pc[t] = "idle"
    BY DEF OrderInit, Init, CommonInit
  <2>2. ~Lapped
    BY <2>1 DEF Lapped, Waits, Threads
  <2>3. BusyOf(Producers) = {} /\ BusyOf(Consumers) = {}
    BY <2>1 DEF BusyOf, Busy, Threads
  <2>4. head_ = tail_ /\ tail_ \in Word /\ elements = [s \in Slots |-> NIL]
    BY StartAssumption DEF OrderInit, Init, CommonInit
  <2>5. ASSUME NEW s \in Slots PROVE InTurn(s)
    <3>1. PICK i \in Word : NextOf({}, index, tail_, s, i)
      BY <2>4, EverySlotNext
    <3> QED
      BY <2>3, <2>4, <3>1 DEF InTurn
  <2> QED
    BY <2>2, <2>5
<1>2. [OrderNext]_orderVars /\ LapSeen => LapSeen'
  <2>1. OrderNext => LapSeen'
    BY DEF OrderNext, Remember
  <2>2. UNCHANGED orderVars => lapped' = lapped /\ UNCHANGED <<pc, index>>
    BY DEF orderVars, vars, common
  <2>3. UNCHANGED <<pc, index>> => Lapped' = Lapped
    BY DEF Lapped, Waits, SlotOf
  <2> QED
    BY <2>1, <2>2, <2>3
<1>3. ASSUME OrderInv, ChannelInv', [OrderNext]_orderVars PROVE Turns'
  <2>1. CASE OrderNext
    <3>1. ~lapped' => \A s \in Slots : InTurn(s)'
      BY <1>3, <2>1, TurnStep DEF OrderNext
    <3> QED
      BY <3>1
  <2>2. CASE UNCHANGED orderVars
    BY <1>3, <2>2 DEF orderVars, vars, common, OrderInv, InTurn, BusyOf, Busy
  <2> QED
    BY <1>3, <2>1, <2>2
<1>4. OrderSpec => Spec
  <2>1. OrderInit => Init
    BY DEF OrderInit
  <2>2. [OrderNext]_orderVars => [Next]_vars
    BY DEF OrderNext, orderVars
  <2> QED
    BY <2>1, <2>2, PTL DEF OrderSpec, Spec
<1>5. ChannelInv /\ (Spsc => EndsInv) /\ LapSeen /\ Turns <=> OrderInv
  BY DEF OrderInv
<1>6. OrderInv /\ ChannelInv' /\ [OrderNext]_orderVars => Turns'
  BY <1>3
<1> HIDE DEF Turns, LapSeen
<1> QED
  BY <1>1, <1>2, <1>4, <1>5, <1>6, ChannelInvariant, EndsInvariant, PTL DEF OrderSpec

\* Until a thread is lapped, the pop that claimed an index returns the message
\* that was pushed with it: do_push and do_pop wait on slots only, and yet the
\* order of the claims is the order of delivery, for any number of threads,
\* slots and messages.
THEOREM PopsReturnInTurn ==
  ASSUME ApartInWindows(Slot, Size) PROVE OrderSpec => OwnTurnUnlessLapped
<1> DEFINE InItsTurn == \A c \in Consumers : pc[c] = "pop" /\ pc'[c] = "idle" =>
                          lapped \/ turn[elements[SlotOf(c)]] = index[c]
<1>1. ASSUME OrderInv, [OrderNext]_orderVars PROVE [InItsTurn]_orderVars
  <2> SUFFICES ASSUME OrderNext, NEW c \in Consumers, pc[c] = "pop", pc'[c] = "idle", ~lapped
               PROVE  turn[elements[SlotOf(c)]] = index[c]
    BY <1>1
  <2>1. c \in Threads /\ SlotOf(c) \in Slots /\ pc \in [Threads -> PushSteps \cup PopSteps]
    BY <1>1, Constants DEF OrderInv, ChannelInv, Typed, TypeOK, Threads, SlotOf
  <2>2. elements[SlotOf(c)] # NIL
    <3>1. ASSUME NEW p \in Producers, Push(p) PROVE pc'[c] = pc[c]
      BY <2>1, <3>1, ThreadsAssumption
         DEF Push, ClaimPush, TryPushBegin, TryPushCheck, ClaimHead, ReloadHead, PushBegin,
             ExchangeNil, SeeNil, StoreElement, StoreNextMessage, Return, Goto, Threads
    <3>2. ASSUME NEW d \in Consumers, d # c, Pop(d) PROVE pc'[c] = pc[c]
      BY <2>1, <3>2
         DEF Pop, ClaimPop, TryPopBegin, TryPopCheck, ClaimTail, ReloadTail, PopBegin,
             ExchangeElement, LoadElement, StoreNil, Return, Goto, Threads
    <3>3. Pop(c)
      BY <3>1, <3>2 DEF OrderNext, Next
    <3> QED
      BY <2>1, <3>3
         DEF Pop, ClaimPop, TryPopBegin, TryPopCheck, ClaimTail, ReloadTail, PopBegin,
             ExchangeElement, LoadElement, StoreNil, Return, Goto
  <2>3. c \in Holders(BusyOf(Consumers), index, SlotOf(c))
    BY <2>1 DEF Holders, BusyOf, Busy, SlotOf
  <2>4. InTurn(SlotOf(c))
    BY <1>1, <2>1 DEF OrderInv
  <2> QED
    BY <2>2, <2>3, <2>4 DEF InTurn, NextOf
<1>2. OrderInv /\ [OrderNext]_orderVars => [InItsTurn]_orderVars
  BY <1>1
<1> QED
  BY <1>2, OrderInvariant, PTL DEF OrderSpec, OwnTurnUnlessLapped

-----------------------------------------------------------------------------
(* The order of delivery as a whole.                                       *)
\* The messages that have been pushed.
Sent == {m \in Message : m[2] <= pushed[m[1]]}

\* Of two indices, the one that a push has claimed earlier.
Before(i, j) == Since(i) < Since(j)

\* Every index is the turn of one message at most, and each producer's messages
\* take their turns in the order in which they are pushed.  sent are the messages
\* that have taken the turns tn, P the producers that have claimed the indices ix.
Turns(sent, tn, P, ix, head) ==
  /\ \A m \in sent : tn[m] \in Word /\ Before(tn[m], head)
  /\ \A m, o \in sent : m # o => tn[m] # tn[o]
  /\ \A m, o \in sent : m[1] = o[1] /\ m[2] < o[2] => Before(tn[m], tn[o])
  /\ \A p \in P : ix[p] \in Word /\ Before(ix[p], head)
  /\ \A p, q \in P : p # q => ix[p] # ix[q]
  /\ \A m \in sent : \A p \in P :
       /\ tn[m] # ix[p]
       /\ m[1] = p => Before(tn[m], ix[p])

TurnsInv == Turns(Sent, turn, BusyOf(Producers), index, head_)

\* Consumers hold different indices, and what has been popped are the messages of
\* all others up to tail_.
DeliveryInv ==
  /\ \A m \in Message : popped[m] > 0 => m \in Sent
  /\ \A c \in BusyOf(Consumers) : Before(index[c], tail_)
  /\ \A c, d \in BusyOf(Consumers) : c # d => index[c] # index[d]
  /\ (\A c, d \in Consumers : c = d) => \A c \in BusyOf(Consumers) : tail_ = Add(index[c], 1)
  /\ ~lapped =>
       /\ \A m \in Sent : popped[m] > 0 <=>
            Before(turn[m], tail_) /\ \A c \in BusyOf(Consumers) : turn[m] # index[c]
       /\ \A i \in Word : Before(i, tail_) =>
            \/ \E c \in BusyOf(Consumers) : index[c] = i
            \/ \E m \in Sent : turn[m] = i

\* Indices are told apart by their distances from the first one.
LEMMA SinceWords ==
  /\ \A i \in Word : Since(i) \in Word /\ Since(i) \in Int /\ Since(i) >= 0
  /\ \A i, j \in Word : Since(i) = Since(j) => i = j
  /\ Since(Start) = 0
<1>1. \A i \in Word : Since(i) \in Word
  BY StartAssumption, WordNat, WordArithmetic DEF Since
<1>2. \A i \in Word : Since(i) \in Int /\ Since(i) >= 0
  BY <1>1, WordNat
<1>3. ASSUME NEW i \in Word, NEW j \in Word, Since(i) = Since(j) PROVE i = j
  BY <1>3, StartAssumption, SubInjective DEF Since
<1>4. Since(Start) = 0
  BY StartAssumption, SubZero DEF Since
<1> QED
  BY <1>1, <1>2, <1>3, <1>4

\* Each index is claimed after all others on its side.
LEMMA CountersCountOn ==
  ASSUME FewThreads, FewMessages, ClaimInv
  PROVE  Since(Add(head_, 1)) = Since(head_) + 1 /\ Since(Add(tail_, 1)) = Since(tail_) + 1
<1>1. AreWords /\ CountInv /\ FullSlots \in SUBSET Slots /\ Balanced(FullSlots)
  BY DEF ClaimInv, BalanceInv, LimitInv, ChannelInv, Typed, TypeOK, AreWords, FullSlots
<1>2. /\ Since(head_) \in 0 .. Cardinality(Message)
      /\ Since(tail_) \in 0 .. Cardinality(Message) + Cardinality(BusyOf(Consumers))
      /\ Cardinality(BusyOf(Consumers)) \in 0 .. Cardinality(Consumers)
  <2> PICK full : full = FullSlots
    OBVIOUS
  <2>1. full \in SUBSET Slots /\ Balanced(full)
    BY <1>1
  <2> QED
    BY ONLY <1>1, <2>1, FewThreads, CountersInRange
<1>3. Cardinality(Message) \in Nat /\ Cardinality(Consumers) \in Nat
  BY MessagesAreFinite, FS_CardinalityType DEF FewThreads
<1>4. Modulus \in Nat /\ Modulus > 2
  <2>1. Size > 0 /\ Size \in Nat
    BY SizeAssumption, WordNat
  <2>2. Cardinality(Producers) \in Nat
    BY FS_CardinalityType DEF FewThreads
  <2> QED
    BY <1>3, <2>1, <2>2, ModulusAssumption DEF FewThreads
<1>5. Since(head_) # Modulus - 1 /\ Since(tail_) # Modulus - 1
  BY <1>2, <1>3, <1>4 DEF FewMessages
<1> QED
  BY <1>1, <1>5, StartAssumption, SubAfter DEF Since, AreWords

\* A pushed message keeps its turn.
LEMMA SentTurns ==
  ASSUME ChannelInv, Remember
  PROVE  /\ UNCHANGED pushed => Sent' = Sent /\ \A m \in Sent : turn'[m] = turn[m]
         /\ \A p \in Producers : Stores(p) =>
              /\ Sent' = Sent \cup {NextMessage(p)} /\ NextMessage(p) \in Message \ Sent
              /\ turn'[NextMessage(p)] = index[p]
              /\ \A m \in Sent : turn'[m] = turn[m]
              /\ \A m \in Sent : m[1] = p => m[2] < NextMessage(p)[2]
              /\ NextMessage(p)[1] = p
<1>1. pushed \in [Producers -> 0 .. MaxPush] /\ MaxPush \in Nat
  BY MaxPushAssumption DEF ChannelInv, Typed, TypeOK
<1>2. UNCHANGED pushed => Sent' = Sent /\ \A m \in Sent : turn'[m] = turn[m]
  BY TurnsKept DEF Sent
<1>3. ASSUME NEW p \in Producers, Stores(p)
      PROVE  /\ Sent' = Sent \cup {NextMessage(p)} /\ NextMessage(p) \in Message \ Sent
             /\ turn'[NextMessage(p)] = index[p]
             /\ \A m \in Sent : turn'[m] = turn[m]
             /\ \A m \in Sent : m[1] = p => m[2] < NextMessage(p)[2]
             /\ NextMessage(p)[1] = p
  <2>1. NextMessage(p) \in Message
    BY <1>3, NextMessageType DEF Stores, ChannelInv
  <2>2. NextMessage(p)[1] = p /\ NextMessage(p)[2] = pushed[p] + 1 /\ pushed[p] \in 0 .. MaxPush
    BY <1>1 DEF NextMessage
  <2>3. pushed' = [pushed EXCEPT ![p] = pushed[p] + 1]
    BY <1>3 DEF Stores, StoreNextMessage, Accepted
  <2>4. \A m \in Message : m[1] \in Producers /\ m[2] \in 1 .. MaxPush /\ m = <<m[1], m[2]>>
    BY DEF Message
  <2>5. NextMessage(p) \notin Sent
    BY <2>1, <2>2 DEF Sent
  <2>6. \A m \in Message : m \in Sent' <=> m \in Sent \/ m = NextMessage(p)
    <3> SUFFICES ASSUME NEW m \in Message PROVE m \in Sent' <=> m \in Sent \/ m = NextMessage(p)
      OBVIOUS
    <3>1. m \in Sent' <=> m[2] <= pushed'[m[1]]
      BY DEF Sent
    <3>2. m \in Sent <=> m[2] <= pushed[m[1]]
      BY DEF Sent
    <3>3. CASE m[1] = p
      <4>1. pushed'[m[1]] = pushed[p] + 1
        BY <1>1, <2>3, <3>3
      <4>2. m = NextMessage(p) <=> m[2] = pushed[p] + 1
        BY <2>2, <2>4, <3>3 DEF NextMessage
      <4> QED
        BY <1>1, <2>2, <2>4, <3>1, <3>2, <3>3, <4>1, <4>2
    <3>4. CASE m[1] # p
      <4>1. pushed'[m[1]] = pushed[m[1]] /\ m # NextMessage(p)
        BY <1>1, <2>2, <2>3, <2>4, <3>4
      <4> QED
        BY <3>1, <3>2, <4>1
    <3> QED
      BY <3>3, <3>4
  <2>7. Sent' = Sent \cup {NextMessage(p)}
    BY <2>1, <2>6 DEF Sent
  <2>8. turn'[NextMessage(p)] = index[p] /\ \A m \in Sent : turn'[m] = turn[m]
    BY <1>3, <2>5, TurnsKept DEF Sent
  <2>9. \A m \in Sent : m[1] = p => m[2] < NextMessage(p)[2]
    BY <2>2, <2>4 DEF Sent
  <2> QED
    BY <2>1, <2>2, <2>5, <2>7, <2>8, <2>9
<1> QED
  BY <1>2, <1>3

\* Nothing changes.
LEMMA TurnsStay ==
  ASSUME NEW sent, NEW tn, NEW P, NEW ix, NEW head, Turns(sent, tn, P, ix, head),
         NEW tn2, \A m \in sent : tn2[m] = tn[m],
         NEW ix2, \A p \in P : ix2[p] = ix[p]
  PROVE  Turns(sent, tn2, P, ix2, head)
BY DEF Turns

\* A producer claims the next index.
LEMMA TurnClaimed ==
  ASSUME NEW sent, NEW tn, NEW P, NEW ix, NEW head \in Word, Turns(sent, tn, P, ix, head),
         NEW tn2, \A m \in sent : tn2[m] = tn[m],
         NEW p, p \notin P, NEW ix2, ix2[p] = head, \A q \in P : ix2[q] = ix[q],
         NEW head2, Since(head2) = Since(head) + 1
  PROVE  Turns(sent, tn2, P \cup {p}, ix2, head2)
<1>1. \A i \in Word : Since(i) \in Int
  BY SinceWords
<1>2. /\ \A i \in Word : Before(i, head) => Before(i, head2) /\ i # head
      /\ Before(head, head2)
  BY <1>1 DEF Before
<1>3. /\ \A m \in sent : tn2[m] \in Word /\ Before(tn2[m], head)
      /\ \A q \in P : ix2[q] \in Word /\ Before(ix2[q], head)
  BY DEF Turns
<1>4. /\ \A m \in sent : Before(tn2[m], head2) /\ tn2[m] # head
      /\ \A q \in P : Before(ix2[q], head2) /\ ix2[q] # head
  BY <1>2, <1>3
<1>5. /\ \A m, o \in sent : m # o => tn2[m] # tn2[o]
      /\ \A m, o \in sent : m[1] = o[1] /\ m[2] < o[2] => Before(tn2[m], tn2[o])
      /\ \A q, r \in P : q # r => ix2[q] # ix2[r]
      /\ \A m \in sent : \A q \in P :
           tn2[m] # ix2[q] /\ (m[1] = q => Before(tn2[m], ix2[q]))
  BY DEF Turns
<1> QED
  BY <1>2, <1>3, <1>4, <1>5 DEF Turns

\* A producer stores the message of the index it holds.
LEMMA TurnTaken ==
  ASSUME NEW sent, NEW tn, NEW P, NEW ix, NEW head, Turns(sent, tn, P, ix, head),
         NEW p \in P, NEW m, m[1] = p, m[2] \in Nat,
         \A o \in sent : o[2] \in Nat /\ (o[1] = p => o[2] < m[2]),
         NEW tn2, tn2[m] = ix[p], \A o \in sent : tn2[o] = tn[o],
         NEW ix2, \A q \in P \ {p} : ix2[q] = ix[q]
  PROVE  Turns(sent \cup {m}, tn2, P \ {p}, ix2, head)
<1>1. tn2[m] \in Word /\ Before(tn2[m], head)
  BY DEF Turns
<1>2. ASSUME NEW o \in sent
      PROVE  /\ tn2[o] \in Word /\ Before(tn2[o], head) /\ tn2[o] # tn2[m]
             /\ m[1] = o[1] => Before(tn2[o], tn2[m]) /\ ~(m[2] < o[2])
  BY DEF Turns
<1>3. /\ \A o, r \in sent : o # r => tn2[o] # tn2[r]
      /\ \A o, r \in sent : o[1] = r[1] /\ o[2] < r[2] => Before(tn2[o], tn2[r])
  BY DEF Turns
<1>4. ~(m[2] < m[2])
  OBVIOUS
<1>5. ASSUME NEW q \in P \ {p}
      PROVE  /\ ix2[q] \in Word /\ Before(ix2[q], head) /\ tn2[m] # ix2[q] /\ m[1] # q
             /\ \A r \in P \ {p} : q # r => ix2[q] # ix2[r]
             /\ \A o \in sent : tn2[o] # ix2[q] /\ (o[1] = q => Before(tn2[o], ix2[q]))
  BY DEF Turns
<1> QED
  BY <1>1, <1>2, <1>3, <1>4, <1>5 DEF Turns

\* Every step keeps the turns.
LEMMA TurnsStep ==
  ASSUME FewThreads, FewMessages, ClaimInv, TurnsInv, [Next]_vars,
         Remember \/ UNCHANGED <<vars, turn>>
  PROVE  TurnsInv'
<1> DEFINE P == BusyOf(Producers)
           C == BusyOf(Consumers)
           Steps == PushSteps \cup PopSteps
<1>1. /\ pc \in [Threads -> Steps] /\ AreWords /\ ChannelInv /\ (Spsc => EndsInv)
      /\ P \in SUBSET Producers /\ Producers \in SUBSET Threads
  BY DEF ClaimInv, BalanceInv, ChannelInv, Typed, TypeOK, AreWords, BusyOf, Threads
<1> HIDE DEF Steps
<1>2. Turns(Sent, turn, P, index, head_)
  BY DEF TurnsInv
<1>3. Turns(Sent', turn', P', index', head_') => TurnsInv'
  BY DEF TurnsInv
<1>4. CASE UNCHANGED <<vars, turn>>
  <2>1. Sent' = Sent /\ turn' = turn /\ P' = P /\ index' = index /\ head_' = head_
    BY <1>4 DEF vars, common, Sent, BusyOf, Busy
  <2> HIDE DEF P
  <2> QED
    BY <1>2, <1>3, <2>1
<1>5. CASE Remember
  <2>1. ASSUME UNCHANGED pushed, P' = P, \A p \in P : index'[p] = index[p], head_' = head_
        PROVE  TurnsInv'
    <3>1. Sent' = Sent /\ \A m \in Sent : turn'[m] = turn[m]
      BY <1>1, <1>5, <2>1, SentTurns
    <3> PICK tn2, ix2 : tn2 = turn' /\ ix2 = index'
      OBVIOUS
    <3> HIDE DEF P
    <3>2. Turns(Sent, tn2, P, ix2, head_)
      BY <1>2, <2>1, <3>1, TurnsStay
    <3> QED
      BY <1>3, <2>1, <3>1, <3>2
  <2>2. ASSUME NEW p \in Producers, HeadClaimed(p), UNCHANGED pushed
        PROVE  TurnsInv'
    <3>1. Sent' = Sent /\ \A m \in Sent : turn'[m] = turn[m]
      BY <1>1, <1>5, <2>2, SentTurns
    <3>2. /\ P' = P \cup {p} /\ p \notin P /\ index'[p] = head_ /\ head_' = Add(head_, 1)
          /\ \A q \in P : index'[q] = index[q]
      BY <1>1, <2>2 DEF HeadClaimed, OthersStay, BusyOf
    <3>3. head_ \in Word /\ Since(Add(head_, 1)) = Since(head_) + 1
      BY <1>1, CountersCountOn DEF AreWords
    <3> PICK tn2, ix2, head2 : tn2 = turn' /\ ix2 = index' /\ head2 = head_'
      OBVIOUS
    <3> HIDE DEF P
    <3>4. Turns(Sent, tn2, P \cup {p}, ix2, head2)
      BY <1>2, <3>1, <3>2, <3>3, TurnClaimed
    <3> QED
      BY <1>3, <3>1, <3>2, <3>4
  <2>3. ASSUME NEW p \in Producers, Finishes(p), Stores(p)
        PROVE  TurnsInv'
    <3>1. /\ Sent' = Sent \cup {NextMessage(p)} /\ NextMessage(p) \in Message
          /\ turn'[NextMessage(p)] = index[p]
          /\ \A m \in Sent : turn'[m] = turn[m]
          /\ \A m \in Sent : m[1] = p => m[2] < NextMessage(p)[2]
          /\ NextMessage(p)[1] = p
      BY <1>1, <1>5, <2>3, SentTurns
    <3>2. \A m \in Message : m[2] \in Nat
      BY MaxPushAssumption DEF Message
    <3>3. \A m \in Sent : m[2] \in Nat
      BY <3>2 DEF Sent
    <3>4. P' = P \ {p} /\ p \in P /\ head_' = head_ /\ \A q \in P \ {p} : index'[q] = index[q]
      BY <1>1, <2>3 DEF Finishes, Return, Goto, Busy, BusyOf, counters, AreWords
    <3> PICK tn2, ix2, m : tn2 = turn' /\ ix2 = index' /\ m = NextMessage(p)
      OBVIOUS
    <3> HIDE DEF P
    <3>5. Turns(Sent \cup {m}, tn2, P \ {p}, ix2, head_)
      <4>1. /\ p \in P /\ m[1] = p /\ m[2] \in Nat /\ tn2[m] = index[p]
            /\ \A o \in Sent : o[2] \in Nat /\ (o[1] = p => o[2] < m[2])
        BY <3>1, <3>2, <3>3, <3>4
      <4>2. /\ \A o \in Sent : tn2[o] = turn[o]
            /\ \A q \in P \ {p} : ix2[q] = index[q]
        BY <3>1, <3>4
      <4> QED
        BY ONLY <1>2, <4>1, <4>2, TurnTaken
    <3> QED
      BY <1>3, <3>1, <3>4, <3>5
  <2>4. CASE Claims /\ Keeps
    <3>1. Looks \/ (\E p \in Producers : HeadClaimed(p)) \/ (\E c \in Consumers : TailClaimed(c))
      BY <1>1, <2>4, ClaimMoves
    <3>2. ASSUME Looks PROVE TurnsInv'
      BY <1>1, <2>1, <2>4, <3>2 DEF Looks, OthersStay, counters, BusyOf, Keeps
    <3>3. ASSUME NEW c \in Consumers, TailClaimed(c) PROVE TurnsInv'
      BY <1>1, <2>1, <2>4, <3>3, ThreadsAssumption DEF TailClaimed, OthersStay, BusyOf, Keeps
    <3> QED
      BY <2>2, <2>4, <3>1, <3>2, <3>3 DEF Keeps
  <2>5. ASSUME NEW t \in Threads, Works(t), Keeps PROVE TurnsInv'
    BY <1>1, <2>1, <2>5 DEF Works, Busy, BusyOf, Keeps
  <2>6. ASSUME NEW c \in Consumers, Finishes(c), Takes(SlotOf(c)) PROVE TurnsInv'
    <3>1. P' = P /\ \A p \in P : index'[p] = index[p]
      BY <1>1, <2>6, ThreadsAssumption
         DEF Finishes, Return, Goto, Busy, BusyOf, AreWords, Threads
    <3> QED
      BY <2>1, <2>6, <3>1 DEF Finishes, counters, Takes
  <2>7. ASSUME UNCHANGED common, Keeps PROVE TurnsInv'
    BY <2>1, <2>7 DEF common, Busy, BusyOf, Keeps
  <2> QED
    BY <1>1, <2>3, <2>4, <2>5, <2>6, <2>7, StepKinds
<1> QED
  BY <1>4, <1>5

\* Every step keeps what has been popped.
LEMMA DeliveryStep ==
  ASSUME FewThreads, FewMessages, ClaimInv, OrderInv, TurnsInv, DeliveryInv, [Next]_vars,
         Remember \/ UNCHANGED <<vars, turn, lapped>>
  PROVE  DeliveryInv'
<1> DEFINE Steps == PushSteps \cup PopSteps
           C == BusyOf(Consumers)
           Places(P, ix, tail) ==
             /\ \A c \in P : Before(ix[c], tail)
             /\ \A c, d \in P : c # d => ix[c] # ix[d]
             /\ (\A c, d \in Consumers : c = d) => \A c \in P : tail = Add(ix[c], 1)
           PoppedSent == \A m \in Message : popped[m] > 0 => m \in Sent
           Delivered(sent, tn, pops, P, ix, tail) ==
             /\ \A m \in sent : pops[m] > 0 <=>
                  Before(tn[m], tail) /\ \A c \in P : tn[m] # ix[c]
             /\ \A i \in Word : Before(i, tail) =>
                  (\E c \in P : ix[c] = i) \/ \E m \in sent : tn[m] = i
<1>1. /\ pc \in [Threads -> Steps] /\ AreWords /\ ChannelInv /\ (Spsc => EndsInv)
      /\ Sent \subseteq Message /\ popped \in [Message -> Nat]
      /\ elements \in [Slots -> Message \cup {NIL}]
      /\ C \subseteq Consumers /\ Consumers \subseteq Threads
  BY DEF ClaimInv, BalanceInv, ChannelInv, Typed, TypeOK, AreWords, Threads, Sent, BusyOf
<1> HIDE DEF Steps
<1>2. /\ Places(C, index, tail_) /\ PoppedSent
      /\ ~lapped => Delivered(Sent, turn, popped, C, index, tail_)
  BY DEF DeliveryInv
<1>3. /\ Places(C', index', tail_') /\ PoppedSent'
      /\ ~lapped' => Delivered(Sent', turn', popped', C', index', tail_')
      => DeliveryInv'
  BY DEF DeliveryInv
<1>4. CASE UNCHANGED <<vars, turn, lapped>>
  BY <1>4 DEF vars, common, DeliveryInv, Sent, BusyOf, Busy
<1>5. CASE Remember
  <2>0. ~lapped' => ~lapped
    BY <1>5 DEF Remember
  <2>1. ASSUME UNCHANGED <<pushed, popped, tail_>>, C' = C, \A c \in C : index'[c] = index[c]
        PROVE  DeliveryInv'
    <3> HIDE DEF C
    <3>1. Sent' = Sent /\ \A m \in Sent : turn'[m] = turn[m]
      BY <1>1, <1>5, <2>1, SentTurns
    <3>2. PoppedSent'
      BY <1>2, <2>1, <3>1
    <3>3. Places(C', index', tail_')
      BY <1>2, <2>1
    <3>4. ~lapped' => Delivered(Sent', turn', popped', C', index', tail_')
      BY <1>2, <2>0, <2>1, <3>1
    <3> HIDE DEF Places, PoppedSent, Delivered
    <3> QED
      BY <1>3, <3>2, <3>3, <3>4
  <2>2. ASSUME NEW p \in Producers, Finishes(p), Stores(p)
        PROVE  DeliveryInv'
    <3> PICK m : m = NextMessage(p)
      OBVIOUS
    <3>1. /\ Sent' = Sent \cup {m} /\ m \in Message \ Sent /\ turn'[m] = index[p]
          /\ \A o \in Sent : turn'[o] = turn[o]
      BY <1>1, <1>5, <2>2, SentTurns
    <3>2. /\ popped' = popped /\ tail_' = tail_ /\ C' = C /\ p \in BusyOf(Producers)
          /\ \A c \in C : index'[c] = index[c]
      BY <1>1, <2>2, ThreadsAssumption
         DEF Stores, StoreNextMessage, Finishes, Return, Goto, Busy, BusyOf, counters,
             AreWords, Threads
    <3> HIDE DEF C
    <3>3. PoppedSent' /\ ~(popped[m] > 0)
      BY <1>2, <3>1, <3>2
    <3>4. index[p] \in Word /\ \A o \in Sent : turn[o] # index[p]
      BY <1>1, <3>2 DEF AreWords, Threads, TurnsInv, Turns
    <3>5. Places(C', index', tail_')
      BY <1>2, <3>2
    <3>6. ASSUME ~lapped' PROVE Delivered(Sent', turn', popped', C', index', tail_')
      <4>1. Delivered(Sent, turn, popped, C, index, tail_)
        BY <1>2, <2>0, <3>6
      <4>2. ~(Before(index[p], tail_) /\ \A c \in C : index[p] # index[c])
        BY <3>4, <4>1
      <4> QED
        BY <3>1, <3>2, <3>3, <4>1, <4>2
    <3> HIDE DEF Places, PoppedSent, Delivered
    <3> QED
      BY <1>3, <3>3, <3>5, <3>6
  <2>3. ASSUME NEW c \in Consumers, Finishes(c), Takes(SlotOf(c))
        PROVE  DeliveryInv'
    <3> PICK s, m : s = SlotOf(c) /\ m = elements[s]
      OBVIOUS
    <3>1. s \in Slots /\ m \in Message /\ m \in Sent
      <4>1. s \in Slots
        BY <1>1, Constants DEF SlotOf, AreWords
      <4>2. m \in Message
        BY <1>1, <2>3, <4>1 DEF Takes
      <4>3. m = <<m[1], m[2]>> /\ m[1] \in Producers /\ m[2] \in 1 .. MaxPush
        BY <4>2 DEF Message
      <4> QED
        BY <1>1, <4>1, <4>2, <4>3 DEF ChannelInv, Past, Sent
    <3>2. /\ Sent' = Sent /\ \A o \in Sent : turn'[o] = turn[o]
          /\ popped' = [popped EXCEPT ![m] = popped[m] + 1]
      BY <1>1, <1>5, <2>3, SentTurns DEF Takes, Returned
    <3>3. /\ C' = C \ {c} /\ c \in C /\ tail_' = tail_ /\ index[c] \in Word
          /\ \A d \in C \ {c} : index'[d] = index[d]
      BY <1>1, <2>3 DEF Finishes, Return, Goto, Busy, BusyOf, counters, AreWords
    <3>4. /\ popped'[m] > 0 /\ \A o \in Message \ {m} : popped'[o] = popped[o]
      BY <1>1, <3>1, <3>2
    <3>5. PoppedSent'
      BY <1>2, <3>1, <3>2, <3>4
    <3>6. c \in Holders(C, index, s)
      BY <3>3 DEF Holders, SlotOf
    <3>7. InTurn(s) /\ ~lapped => turn[m] = index[c]
      BY <2>3, <3>6 DEF InTurn, NextOf, Takes
    <3> HIDE DEF C
    <3>8. Places(C', index', tail_')
      BY <1>2, <3>3
    <3>9. ASSUME ~lapped' PROVE Delivered(Sent', turn', popped', C', index', tail_')
      <4>1. Delivered(Sent, turn, popped, C, index, tail_)
        BY <1>2, <2>0, <3>9
      <4>2. turn[m] = index[c]
        BY <2>0, <3>1, <3>7, <3>9 DEF OrderInv
      <4>3. /\ \A o \in Sent : turn[o] \in Word /\ (o # m => turn[o] # index[c])
            /\ Before(index[c], tail_) /\ \A d \in C \ {c} : index[d] # index[c]
        BY <1>2, <3>1, <3>3, <4>2 DEF TurnsInv, Turns
      <4>4. ASSUME NEW o \in Sent
            PROVE  popped'[o] > 0 <=> Before(turn[o], tail_) /\ \A d \in C \ {c} : turn[o] # index[d]
        <5>1. CASE o = m
          BY <3>4, <4>2, <4>3, <5>1
        <5>2. CASE o # m
          BY <1>1, <3>4, <4>1, <4>3, <5>2
        <5> QED
          BY <5>1, <5>2
      <4>5. \A i \in Word : Before(i, tail_) =>
              (\E d \in C \ {c} : index[d] = i) \/ \E o \in Sent : turn[o] = i
        BY <3>1, <4>1, <4>2
      <4> QED
        BY <3>2, <3>3, <4>4, <4>5
    <3> HIDE DEF Places, PoppedSent, Delivered
    <3> QED
      BY <1>3, <3>5, <3>8, <3>9
  <2>4. ASSUME NEW c \in Consumers, TailClaimed(c), Keeps
        PROVE  DeliveryInv'
    <3>1. Sent' = Sent /\ \A m \in Sent : turn'[m] = turn[m]
      BY <1>1, <1>5, <2>4, SentTurns DEF Keeps
    <3>2. /\ C' = C \cup {c} /\ c \notin C /\ index'[c] = tail_ /\ tail_' = Add(tail_, 1)
          /\ \A d \in C : index'[d] = index[d]
      BY <1>1, <2>4 DEF TailClaimed, OthersStay, BusyOf
    <3>3. /\ tail_ \in Word /\ Since(Add(tail_, 1)) = Since(tail_) + 1
          /\ \A i \in Word : Since(i) \in Int /\ (Since(i) = Since(tail_) => i = tail_)
      <4>1. tail_ \in Word /\ Since(Add(tail_, 1)) = Since(tail_) + 1
        BY <1>1, CountersCountOn DEF AreWords
      <4> QED
        BY <4>1, SinceWords
    <3>4. \A i \in Word : /\ Before(i, tail_') <=> Before(i, tail_) \/ i = tail_
                          /\ Before(i, tail_) => i # tail_
      BY <3>2, <3>3 DEF Before
    <3>5. \A d \in C : index[d] \in Word
      BY <1>1 DEF AreWords
    <3> HIDE DEF C
    <3>6. PoppedSent'
      BY <1>2, <2>4, <3>1 DEF Keeps
    <3>7. Places(C', index', tail_')
      BY <1>1, <1>2, <3>2, <3>3, <3>4, <3>5
    <3>8. ASSUME ~lapped' PROVE Delivered(Sent', turn', popped', C', index', tail_')
      <4>1. Delivered(Sent, turn, popped, C, index, tail_)
        BY <1>2, <2>0, <3>8
      <4>2. \A m \in Sent : turn[m] \in Word
        BY DEF TurnsInv, Turns
      <4>3. \A m \in Sent :
              Before(turn[m], tail_') /\ (\A d \in C \cup {c} : turn[m] # index'[d])
                <=> Before(turn[m], tail_) /\ \A d \in C : turn[m] # index[d]
        BY <3>2, <3>4, <4>2
      <4>4. \A i \in Word : Before(i, tail_') =>
              (\E d \in C \cup {c} : index'[d] = i) \/ \E m \in Sent : turn[m] = i
        BY <3>2, <3>4, <4>1
      <4> QED
        BY <2>4, <3>1, <3>2, <4>1, <4>3, <4>4 DEF Keeps
    <3> HIDE DEF Places, PoppedSent, Delivered
    <3> QED
      BY <1>3, <3>6, <3>7, <3>8
  <2>5. CASE Claims /\ Keeps
    <3>1. Looks \/ (\E p \in Producers : HeadClaimed(p)) \/ (\E c \in Consumers : TailClaimed(c))
      BY <1>1, <2>5, ClaimMoves
    <3>2. ASSUME Looks PROVE DeliveryInv'
      BY <1>1, <2>1, <2>5, <3>2 DEF Looks, OthersStay, counters, BusyOf, Keeps
    <3>3. ASSUME NEW p \in Producers, HeadClaimed(p) PROVE DeliveryInv'
      BY <1>1, <2>1, <2>5, <3>3, ThreadsAssumption DEF HeadClaimed, OthersStay, BusyOf, Keeps
    <3> QED
      BY <2>4, <2>5, <3>1, <3>2, <3>3
  <2>6. ASSUME NEW t \in Threads, Works(t), Keeps PROVE DeliveryInv'
    BY <1>1, <2>1, <2>6 DEF Works, Busy, BusyOf, Keeps
  <2>7. ASSUME UNCHANGED common, Keeps PROVE DeliveryInv'
    BY <2>1, <2>7 DEF common, Busy, BusyOf, Keeps
  <2> QED
    BY <1>1, <2>2, <2>3, <2>5, <2>6, <2>7, StepKinds
<1> QED
  BY <1>4, <1>5

\* All turns are taken and all messages popped by the rules, in every state.
LEMMA DeliveryInvariant ==
  ASSUME FewThreads, FewMessages, ApartInWindows(Slot, Size)
  PROVE  OrderSpec => [](ClaimInv /\ TurnsInv /\ DeliveryInv)
<1>1. OrderInit => TurnsInv /\ DeliveryInv
  <2> SUFFICES ASSUME OrderInit PROVE TurnsInv /\ DeliveryInv
    OBVIOUS
  <2>1. /\ \A t \in Threads : pc[t] = "idle" /\ ~Busy(t)
        /\ tail_ = Start /\ pushed = [p \in Producers |-> 0] /\ popped = [m \in Message |-> 0]
    BY DEF OrderInit, Init, CommonInit, Busy
  <2>2. Sent = {} /\ BusyOf(Producers) = {} /\ BusyOf(Consumers) = {}
    <3>1. \A m \in Message : m[1] \in Producers /\ ~(m[2] <= 0)
      BY MaxPushAssumption DEF Message
    <3> QED
      BY <2>1, <3>1 DEF Sent, BusyOf, Threads
  <2>3. \A i \in Word : ~Before(i, Start)
    BY SinceWords DEF Before
  <2>4. \A m \in Message : ~(popped[m] > 0)
    BY <2>1
  <2>5. TurnsInv
    BY <2>2 DEF TurnsInv, Turns
  <2> QED
    BY <2>1, <2>2, <2>3, <2>4, <2>5 DEF DeliveryInv
<1>2. ClaimInv /\ TurnsInv /\ [OrderNext]_orderVars => TurnsInv'
  BY TurnsStep DEF OrderNext, orderVars
<1>3. ClaimInv /\ OrderInv /\ TurnsInv /\ DeliveryInv /\ [OrderNext]_orderVars => DeliveryInv'
  BY DeliveryStep DEF OrderNext, orderVars
<1>4. OrderSpec => []ClaimInv
  <2>1. OrderInit => Init
    BY DEF OrderInit
  <2>2. [OrderNext]_orderVars => [Next]_vars
    BY DEF OrderNext, orderVars
  <2> QED
    BY <2>1, <2>2, ClaimInvariant, PTL DEF OrderSpec, Spec
<1> QED
  BY <1>1, <1>2, <1>3, <1>4, OrderInvariant, PTL DEF OrderSpec

\* What a message before a popped one of its producer is up to.
LEMMA EarlierMessage ==
  ASSUME ClaimInv, TurnsInv, DeliveryInv, ~lapped,
         NEW p \in Producers, NEW n \in 2 .. MaxPush, popped[<<p, n>>] > 0
  PROVE  /\ <<p, n>> \in Sent /\ <<p, n - 1>> \in Sent
         /\ Before(turn[<<p, n - 1>>], turn[<<p, n>>]) /\ Before(turn[<<p, n>>], tail_)
         /\ turn[<<p, n - 1>>] \in Word /\ turn[<<p, n>>] \in Word /\ tail_ \in Word
         /\ \/ popped[<<p, n - 1>>] > 0
            \/ \E c \in BusyOf(Consumers) : index[c] = turn[<<p, n - 1>>]
<1> PICK m, o : m = <<p, n>> /\ o = <<p, n - 1>>
  OBVIOUS
<1>1. /\ m \in Message /\ o \in Message /\ m[1] = p /\ o[1] = p /\ m[2] = n /\ o[2] = n - 1
      /\ n - 1 < n /\ pushed[p] \in Nat /\ tail_ \in Word
  BY MaxPushAssumption DEF Message, ClaimInv, BalanceInv, ChannelInv, Typed, TypeOK
<1>2. m \in Sent /\ o \in Sent
  <2>1. m \in Sent
    BY <1>1 DEF DeliveryInv
  <2> QED
    BY <1>1, <2>1 DEF Sent
<1>3. Before(turn[o], turn[m]) /\ turn[o] \in Word /\ turn[m] \in Word
  BY <1>1, <1>2 DEF TurnsInv, Turns
<1>4. Before(turn[m], tail_)
  BY <1>2 DEF DeliveryInv
<1>5. Before(turn[o], tail_)
  <2>1. Since(turn[o]) \in Int /\ Since(turn[m]) \in Int /\ Since(tail_) \in Int
    BY <1>1, <1>3, SinceWords
  <2> QED
    BY <1>3, <1>4, <2>1 DEF Before
<1>6. popped[o] > 0 \/ \E c \in BusyOf(Consumers) : index[c] = turn[o]
  BY <1>2, <1>5 DEF DeliveryInv
<1> QED
  BY <1>1, <1>2, <1>3, <1>4, <1>6

\* Until a thread is lapped, a message overtakes an earlier one of its producer
\* only because another consumer that has claimed the earlier one before is still
\* on its way (do_pop), for any numbers of threads, slots and messages.
THEOREM OvertakenInHandsOnly ==
  ASSUME FewThreads, FewMessages, ApartInWindows(Slot, Size)
  PROVE  OrderSpec => []InOrderUnlessLapped
<1>1. ClaimInv /\ TurnsInv /\ DeliveryInv => InOrderUnlessLapped
  BY EarlierMessage DEF InOrderUnlessLapped, BusyOf
<1> QED
  BY <1>1, DeliveryInvariant, PTL

\* In a queue with a single consumer, the messages of each producer are popped in
\* the order in which they were pushed, as long as no thread is lapped: what
\* README.md says of the totally ordered mode fails in no other way.
THEOREM SingleConsumerInOrder ==
  ASSUME FewThreads, FewMessages, ApartInWindows(Slot, Size), \A c, d \in Consumers : c = d
  PROVE  OrderSpec => [](~lapped => TotalOrder)
<1>1. ClaimInv /\ TurnsInv /\ DeliveryInv => (~lapped => TotalOrder)
  <2> SUFFICES ASSUME ClaimInv, TurnsInv, DeliveryInv, ~lapped,
                      NEW p \in Producers, NEW n \in 2 .. MaxPush, popped[<<p, n>>] > 0,
                      ~(popped[<<p, n - 1>>] > 0)
               PROVE  FALSE
    BY DEF TotalOrder
  <2> PICK i, j : i = turn[<<p, n - 1>>] /\ j = turn[<<p, n>>]
    OBVIOUS
  <2>1. /\ i \in Word /\ j \in Word /\ tail_ \in Word /\ Before(i, j) /\ Before(j, tail_)
        /\ \E c \in BusyOf(Consumers) : index[c] = i
    BY EarlierMessage
  <2>2. tail_ = Add(i, 1)
    BY <2>1 DEF DeliveryInv
  <2>3. /\ Since(i) \in Word /\ Since(j) \in Word /\ Since(tail_) \in Word
    BY <2>1, SinceWords
  <2>4. Since(i) # Modulus - 1
    BY <2>1, <2>3, WordNat, ModulusAssumption DEF Before, Word
  <2>5. Since(tail_) = Since(i) + 1
    BY <2>1, <2>2, <2>4, StartAssumption, SubAfter DEF Since
  <2> QED
    BY <2>1, <2>3, <2>5, WordNat DEF Before
<1> QED
  BY <1>1, DeliveryInvariant, PTL
=============================================================================
