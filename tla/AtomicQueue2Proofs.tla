------------------------- MODULE AtomicQueue2Proofs -------------------------
(***************************************************************************)
(* Proofs about AtomicQueue2 for any numbers of producers, consumers,      *)
(* slots and messages, any width of the counters and any mapping of        *)
(* indices to slots.                                                       *)
(***************************************************************************)
EXTENDS AtomicQueue2, AtomicQueueCommonProofs

-----------------------------------------------------------------------------
\* A producer within a call has a message left to push.
Unfinished == \A p \in Producers : pc[p] # "idle" => pushed[p] < MaxPush

Typed == TypeOK /\ Unfinished

\* The types are preserved by the claiming of indices, shared by all queues.
LEMMA ClaimsTyped ==
  ASSUME Typed, UNCHANGED <<states, elements, hand>>,
         \/ \E p \in Producers : ClaimPush(p)
         \/ \E c \in Consumers : ClaimPop(c)
  PROVE  Typed'
<1> USE Constants, ThreadsAssumption
    DEF Typed, Unfinished, TypeOK, PushSteps, PopSteps, Threads, Goto, Return, SlotOf
<1>1. ASSUME NEW p \in Producers, ClaimPush(p)
      PROVE  Typed'
  BY <1>1 DEF ClaimPush, TryPushBegin, TryPushCheck, ClaimHead, ReloadHead, PushBegin
<1>2. ASSUME NEW c \in Consumers, ClaimPop(c)
      PROVE  Typed'
  BY <1>2 DEF ClaimPop, TryPopBegin, TryPopCheck, ClaimTail, ReloadTail, PopBegin
<1> QED
  BY <1>1, <1>2

\* Counters and local indices stay words, threads stay within their own
\* functions, and slots hold messages or blanks only.
LEMMA TypedStep == Typed /\ [Next]_vars => Typed'
<1> SUFFICES ASSUME Typed, [Next]_vars PROVE Typed'
  OBVIOUS
<1> USE Constants, ThreadsAssumption
    DEF Typed, Unfinished, TypeOK, PushSteps, PopSteps, Threads, Goto, Return, SlotOf, SetState
<1>1. ASSUME NEW p \in Producers, Push(p)
      PROVE  Typed'
  <2>1. CASE ClaimPush(p) /\ UNCHANGED <<states, elements, hand>>
    BY <2>1, ClaimsTyped
  <2>2. CASE AcquireToStore(p)
    BY <2>2 DEF AcquireToStore
  <2>3. CASE Assign(p)
    <3>1. NextMessage(p) \in Message
      BY <2>3, MaxPushAssumption DEF Assign, NextMessage, Message
    <3> QED
      BY <2>3, <3>1 DEF Assign
  <2>4. CASE Publish(p)
    BY <2>4, MaxPushAssumption DEF Publish, Accepted
  <2> QED
    BY <1>1, <2>1, <2>2, <2>3, <2>4 DEF Push
<1>2. ASSUME NEW c \in Consumers, Pop(c)
      PROVE  Typed'
  <2>1. CASE ClaimPop(c) /\ UNCHANGED <<states, elements, hand>>
    BY <2>1, ClaimsTyped
  <2>2. CASE AcquireToLoad(c)
    BY <2>2 DEF AcquireToLoad
  <2>3. CASE Move(c)
    BY <2>3 DEF Move
  <2>4. CASE Free(c)
    <3>1. popped' \in [Message -> Nat]
      BY <2>4, CountUp DEF Free, Returned
    <3> QED
      BY <2>4, <3>1 DEF Free
  <2> QED
    BY <1>2, <2>1, <2>2, <2>3, <2>4 DEF Pop
<1>3. CASE UNCHANGED vars
  BY <1>3 DEF vars, common
<1> QED
  BY <1>1, <1>2, <1>3 DEF Next

\* Types hold throughout, and who is inside a push has messages left.
LEMMA TypedInvariant == Spec => []Typed
<1>1. Init => Typed
  BY Constants, StartAssumption, MaxPushAssumption
     DEF Init, CommonInit, Typed, Unfinished, TypeOK, PushSteps, PopSteps, Threads
<1> QED
  BY <1>1, TypedStep, PTL DEF Spec

\* Counters, local indices, thread positions and slots stay within their types.
THEOREM TypeCorrect == Spec => []TypeOK
<1>1. Typed => TypeOK
  BY DEF Typed
<1> QED
  BY <1>1, TypedInvariant, PTL

-----------------------------------------------------------------------------
\* A slot is locked from the moment its state is exchanged until it is
\* stored again, by one producer or by one consumer.  In SPSC mode the state
\* does not change and the slot is the only producer's while it is EMPTY, the
\* only consumer's while it is STORED.
Storing(p) == pc[p] \in {"assign", "publish"}
Loading(c) == pc[c] \in {"move", "free"}

StoringLock == IF Spsc THEN "EMPTY" ELSE "STORING"
LoadingLock == IF Spsc THEN "STORED" ELSE "LOADING"

Locked ==
  /\ \A p \in Producers : Storing(p) => states[SlotOf(p)] = StoringLock
  /\ \A c \in Consumers : Loading(c) => states[SlotOf(c)] = LoadingLock

LockedByOne ==
  /\ \A p, q \in Producers : Storing(p) /\ Storing(q) /\ SlotOf(p) = SlotOf(q) => p = q
  /\ \A c, d \in Consumers : Loading(c) /\ Loading(d) /\ SlotOf(c) = SlotOf(d) => c = d

LockInv == TypeOK /\ Locked /\ LockedByOne

\* The lock protects the element: the invariant implies what the runs check.
LEMMA LockExcludes == LockInv => NoDataRace
<1> SUFFICES ASSUME LockInv,
                    NEW t \in Threads, NEW u \in Threads, NEW s \in Slots,
                    Accesses(t, s), Accesses(u, s)
             PROVE  t = u
  BY DEF NoDataRace
<1>1. /\ pc[t] \in {"assign", "move"} /\ SlotOf(t) = s
      /\ pc[u] \in {"assign", "move"} /\ SlotOf(u) = s
  BY DEF Accesses
<1>2. \A v \in Threads : /\ pc[v] = "assign" => v \in Producers
                         /\ pc[v] = "move" => v \in Consumers
  BY DEF LockInv, TypeOK, PushSteps, PopSteps, Threads
<1>3. StoringLock # LoadingLock
  BY DEF StoringLock, LoadingLock
<1> QED
  BY <1>1, <1>2, <1>3 DEF LockInv, Locked, LockedByOne, Storing, Loading

\* Claiming an index neither takes nor releases the lock of a slot.
LEMMA ClaimsKeepLocks ==
  ASSUME LockInv, UNCHANGED <<states, elements, hand>>,
         \/ \E p \in Producers : ClaimPush(p)
         \/ \E c \in Consumers : ClaimPop(c)
  PROVE  (Locked /\ LockedByOne)'
<1> USE ThreadsAssumption
    DEF LockInv, Locked, LockedByOne, Storing, Loading, StoringLock, LoadingLock,
        TypeOK, Threads, Goto, Return, SlotOf
<1>1. ASSUME NEW p \in Producers, ClaimPush(p)
      PROVE  (Locked /\ LockedByOne)'
  BY <1>1 DEF ClaimPush, TryPushBegin, TryPushCheck, ClaimHead, ReloadHead, PushBegin
<1>2. ASSUME NEW c \in Consumers, ClaimPop(c)
      PROVE  (Locked /\ LockedByOne)'
  BY <1>2 DEF ClaimPop, TryPopBegin, TryPopCheck, ClaimTail, ReloadTail, PopBegin
<1> QED
  BY <1>1, <1>2

\* A thread gets the lock only of a slot whose state says that nobody has
\* it, and gives up its own.
LEMMA LockStep == LockInv /\ [Next]_vars => (Locked /\ LockedByOne)'
<1> SUFFICES ASSUME LockInv, [Next]_vars PROVE (Locked /\ LockedByOne)'
  OBVIOUS
<1> USE Constants, ThreadsAssumption, SpscAssumption
    DEF LockInv, Locked, LockedByOne, Storing, Loading, StoringLock, LoadingLock,
        TypeOK, Threads, Goto, Return, SlotOf, SetState
<1>1. ASSUME NEW p \in Producers, Push(p)
      PROVE  (Locked /\ LockedByOne)'
  <2>1. CASE ClaimPush(p) /\ UNCHANGED <<states, elements, hand>>
    BY <2>1, ClaimsKeepLocks
  <2>2. CASE AcquireToStore(p)
    BY <2>2 DEF AcquireToStore
  <2>3. CASE Assign(p)
    BY <2>3 DEF Assign
  <2>4. CASE Publish(p)
    BY <2>4 DEF Publish
  <2> QED
    BY <1>1, <2>1, <2>2, <2>3, <2>4 DEF Push
<1>2. ASSUME NEW c \in Consumers, Pop(c)
      PROVE  (Locked /\ LockedByOne)'
  <2>1. CASE ClaimPop(c) /\ UNCHANGED <<states, elements, hand>>
    BY <2>1, ClaimsKeepLocks
  <2>2. CASE AcquireToLoad(c)
    BY <2>2 DEF AcquireToLoad
  <2>3. CASE Move(c)
    BY <2>3 DEF Move
  <2>4. CASE Free(c)
    BY <2>4 DEF Free
  <2> QED
    BY <1>2, <2>1, <2>2, <2>3, <2>4 DEF Pop
<1>3. CASE UNCHANGED vars
  BY <1>3 DEF vars, common
<1> QED
  BY <1>1, <1>2, <1>3 DEF Next

\* No two threads ever access the element of one slot at the same time,
\* whatever the number of threads, the size and the mapping of indices.
THEOREM DataRaceFree == Spec => []NoDataRace
<1>1. Init => Locked /\ LockedByOne
  BY DEF Init, CommonInit, Locked, LockedByOne, Storing, Loading, Threads
<1>2. TypeOK /\ Locked /\ LockedByOne => LockInv
  BY DEF LockInv
<1> QED
  BY <1>1, <1>2, TypeCorrect, LockStep, LockExcludes, PTL DEF Spec

-----------------------------------------------------------------------------
\* The message in a slot is the one in the hand of the consumer that has moved
\* it out, if there is one, and then there is only one.
Located ==
  \A s \in Slots :
    /\ states[s] \in {"EMPTY", "STORING"} => Contents[s] = Blank
    /\ \A c \in Consumers : pc[c] = "free" /\ SlotOf(c) = s => Contents[s] = hand[c]
    /\ /\ states[s] \notin {"EMPTY", "STORING"}
       /\ ~ \E c \in Consumers : pc[c] = "free" /\ SlotOf(c) = s
       => Contents[s] = elements[s]

\* Without a data race the lock of a slot says where its message is.
LEMMA LocateContents == LockInv => Located
BY DEF LockInv, Locked, LockedByOne, Loading, LoadingLock, Located, Contents, Content

\* What makes the slots a channel.  A slot is full exactly while it is STORED
\* or LOADING, and the message a producer publishes is its next one.
Full(s) == states[s] \notin {"EMPTY", "STORING"}

Filled == \A s \in Slots : Full(s) => Contents[s] \in Message

Ready ==
  \A p \in Producers : pc[p] = "publish" => elements[SlotOf(p)] = NextMessage(p)

ChannelInv ==
  /\ Typed
  /\ LockInv
  /\ Filled
  /\ Ready
  /\ Apart(Contents, Blank)
  /\ Past(Contents, pushed)

\* What a step does to the contents of the slots: nothing, a store into a free
\* slot, or the removal of the message a pop returns.
Keeps ==
  /\ UNCHANGED <<Contents, pushed, popped>>
  /\ \A s \in Slots : Full(s)' => Full(s)

Stores(p) ==
  /\ pc[p] = "publish"
  /\ Contents[SlotOf(p)] = Blank
  /\ Contents' = [Contents EXCEPT ![SlotOf(p)] = NextMessage(p)]
  /\ \A s \in Slots : Full(s)' => Full(s) \/ s = SlotOf(p)
  /\ Accepted(p)
  /\ UNCHANGED popped

Takes(s) ==
  /\ Contents[s] \in Message
  /\ Contents' = [Contents EXCEPT ![s] = Blank]
  /\ \A r \in Slots : Full(r)' => Full(r) /\ r # s
  /\ Returned(Contents[s])
  /\ UNCHANGED pushed

\* Contents is a function of the slots, equal in two states if it is at each.
LEMMA SameContents ==
  ASSUME \A s \in Slots : Contents'[s] = Contents[s]
  PROVE  Contents' = Contents
BY DEF Contents

\* Putting the contents of a slot to m.
LEMMA OneContent ==
  ASSUME NEW slot \in Slots, NEW m, Contents'[slot] = m,
         \A s \in Slots \ {slot} : Contents'[s] = Contents[s]
  PROVE  Contents' = [Contents EXCEPT ![slot] = m]
BY DEF Contents

\* A push changes the contents when it publishes its message.
LEMMA PushEffects ==
  ASSUME ChannelInv, LockInv', NEW p \in Producers, Push(p)
  PROVE  IF pc[p] = "publish" THEN Stores(p) ELSE Keeps
<1>1. Located /\ Located'
  <2>1. Located'
    BY LocateContents, PTL
  <2> QED
    BY <2>1, LocateContents DEF ChannelInv
<1> USE ThreadsAssumption, Constants
    DEF ChannelInv, Typed, TypeOK, PushSteps, PopSteps, Threads, Goto, Return, SlotOf, Full
<1>2. CASE ClaimPush(p) /\ UNCHANGED <<states, elements, hand>>
  <2>1. /\ pc[p] # "publish" /\ UNCHANGED <<pushed, popped>>
        /\ \A c \in Consumers : pc'[c] = pc[c] /\ index'[c] = index[c]
    BY <1>2 DEF ClaimPush, TryPushBegin, TryPushCheck, ClaimHead, ReloadHead, PushBegin
  <2>2. \A s \in Slots : Contents'[s] = Contents[s]
    BY <2>1, <1>2, <1>1 DEF Located
  <2> QED
    BY <1>2, <2>1, <2>2, SameContents DEF Keeps
<1>3. CASE AcquireToStore(p)
  BY <1>3, <1>1, SameContents DEF AcquireToStore, SetState, Located, Keeps
<1>4. CASE Assign(p)
  BY <1>4, <1>1, SameContents
     DEF Assign, Located, Keeps, LockInv, Locked, Storing, StoringLock
<1>5. CASE Publish(p)
  <2>1. Contents'[SlotOf(p)] = NextMessage(p)
    <3>1. ~ \E c \in Consumers : pc'[c] = "free" /\ Slot[index'[c]] = SlotOf(p)
      BY <1>5 DEF Publish, LockInv, Locked, Storing, Loading, StoringLock, LoadingLock
    <3>2. states'[SlotOf(p)] = "STORED" /\ elements'[SlotOf(p)] = NextMessage(p)
      BY <1>5 DEF Publish, SetState, Ready
    <3> QED
      BY <3>1, <3>2, <1>1 DEF Located
  <2>2. \A s \in Slots \ {SlotOf(p)} : Contents'[s] = Contents[s]
    BY <1>5, <1>1 DEF Publish, SetState, Located
  <2>3. Contents[SlotOf(p)] = Blank
    BY <1>5, <1>1 DEF Publish, Located, LockInv, Locked, Storing, StoringLock
  <2>4. \A s \in Slots : Full(s)' => Full(s) \/ s = SlotOf(p)
    BY <1>5 DEF Publish, SetState
  <2>5. Contents' = [Contents EXCEPT ![SlotOf(p)] = NextMessage(p)]
    BY <2>1, <2>2, OneContent
  <2> QED
    BY <1>5, <2>3, <2>4, <2>5 DEF Publish, Stores
<1> QED
  BY <1>2, <1>3, <1>4, <1>5 DEF Push

\* A pop changes them when it frees its slot.
LEMMA PopEffects ==
  ASSUME ChannelInv, LockInv', NEW c \in Consumers, Pop(c)
  PROVE  IF pc[c] = "free" THEN Takes(SlotOf(c)) ELSE Keeps
<1>1. Located /\ Located'
  <2>1. Located'
    BY LocateContents, PTL
  <2> QED
    BY <2>1, LocateContents DEF ChannelInv
<1> USE ThreadsAssumption, Constants
    DEF ChannelInv, Typed, TypeOK, PushSteps, PopSteps, Threads, Goto, Return, SlotOf, Full
<1>2. CASE ClaimPop(c) /\ UNCHANGED <<states, elements, hand>>
  <2>1. /\ pc[c] # "free" /\ UNCHANGED <<pushed, popped>>
        /\ \A d \in Consumers : (pc'[d] = "free" <=> pc[d] = "free")
              /\ (pc[d] = "free" => index'[d] = index[d])
    BY <1>2 DEF ClaimPop, TryPopBegin, TryPopCheck, ClaimTail, ReloadTail, PopBegin
  <2> QED
    BY <2>1, <1>2, <1>1, SameContents DEF Located, Keeps
<1>3. CASE AcquireToLoad(c)
  BY <1>3, <1>1, SameContents DEF AcquireToLoad, SetState, Located, Keeps
<1>4. CASE Move(c)
  <2>1. /\ UNCHANGED states /\ pc[c] = "move" /\ pc'[c] = "free" /\ SlotOf(c) \in Slots
        /\ \A d \in Consumers : SlotOf(d)' = SlotOf(d)
        /\ \A d \in Consumers \ {c} : pc'[d] = pc[d] /\ hand'[d] = hand[d]
        /\ \A s \in Slots \ {SlotOf(c)} : elements'[s] = elements[s]
        /\ hand'[c] = elements[SlotOf(c)]
    BY <1>4 DEF Move
  <2>2. pc[c] # "free" /\ UNCHANGED <<states, pushed, popped>>
    BY <1>4 DEF Move
  <2>3. /\ states[SlotOf(c)] \notin {"EMPTY", "STORING"}
        /\ \A d \in Consumers : pc[d] = "free" => SlotOf(d) # SlotOf(c)
    BY <2>1 DEF LockInv, Locked, LockedByOne, Loading, LoadingLock
  <2>4. Contents'[SlotOf(c)] = Contents[SlotOf(c)]
    <3>1. Contents[SlotOf(c)] = elements[SlotOf(c)]
      BY ONLY <1>1, <2>1, <2>3 DEF Located
    <3>2. Contents'[SlotOf(c)] = hand'[c]
      BY ONLY <1>1, <2>1, c \in Consumers DEF Located
    <3> QED
      BY ONLY <2>1, <3>1, <3>2
  <2>5. ASSUME NEW s \in Slots \ {SlotOf(c)} PROVE Contents'[s] = Contents[s]
    <3>1. \A d \in Consumers : SlotOf(d) = s => (pc'[d] = pc[d] /\ hand'[d] = hand[d])
      BY ONLY <2>1, <2>5
    <3>2. states'[s] = states[s] /\ elements'[s] = elements[s]
      BY ONLY <2>1, <2>5
    <3>3. CASE states[s] \in {"EMPTY", "STORING"}
      BY ONLY <1>1, <2>5, <3>2, <3>3 DEF Located
    <3>4. CASE \E d \in Consumers : pc[d] = "free" /\ SlotOf(d) = s
      BY ONLY <1>1, <2>1, <2>5, <3>1, <3>4 DEF Located
    <3>5. CASE /\ states[s] \notin {"EMPTY", "STORING"}
               /\ ~\E d \in Consumers : pc[d] = "free" /\ SlotOf(d) = s
      BY ONLY <1>1, <2>1, <2>5, <3>1, <3>2, <3>5 DEF Located
    <3> QED
      BY <3>3, <3>4, <3>5
  <2>6. \A s \in Slots : Contents'[s] = Contents[s]
    BY ONLY <2>4, <2>5
  <2>7. Contents' = Contents
    BY ONLY <2>6, SameContents
  <2> QED
    BY ONLY <2>2, <2>7 DEF Keeps, Full
<1>5. CASE Free(c)
  <2>1. Contents'[SlotOf(c)] = Blank
    BY <1>5, <1>1 DEF Free, SetState, Located
  <2>2. \A s \in Slots \ {SlotOf(c)} : Contents'[s] = Contents[s]
    BY <1>5, <1>1 DEF Free, SetState, Located
  <2>3. Contents[SlotOf(c)] = hand[c] /\ hand[c] \in Message
    BY <1>5, <1>1 DEF Free, Located, Filled, LockInv, Locked, Loading, LoadingLock
  <2>4. \A s \in Slots : Full(s)' => Full(s) /\ s # SlotOf(c)
    BY <1>5 DEF Free, SetState
  <2>5. Contents' = [Contents EXCEPT ![SlotOf(c)] = Blank]
    BY <2>1, <2>2, OneContent
  <2> QED
    BY <1>5, <2>3, <2>4, <2>5 DEF Free, Takes
<1> QED
  BY <1>2, <1>3, <1>4, <1>5 DEF Pop

\* What a step does to the messages in the slots: nothing, put one, or take one.
LEMMA StepEffects ==
  ASSUME ChannelInv, LockInv', [Next]_vars
  PROVE  \/ Keeps
         \/ \E p \in Producers : Stores(p)
         \/ \E s \in Slots : Takes(s)
<1>1. \A c \in Consumers : SlotOf(c) \in Slots
  BY Constants DEF ChannelInv, Typed, TypeOK, Threads, SlotOf
<1>2. CASE UNCHANGED vars
  BY <1>2 DEF vars, common, Keeps, Contents, Content, SlotOf, Full
<1> QED
  BY <1>1, <1>2, PushEffects, PopEffects DEF Next

\* A slot holds a message or nothing.
LEMMA ContentsType ==
  ASSUME ChannelInv PROVE Contents \in [Slots -> Message \cup {Blank}]
<1>1. \A s \in Slots : Contents[s] \in Message \cup {Blank}
  BY LocateContents DEF ChannelInv, Filled, Located, Full
<1> QED
  BY <1>1 DEF Contents

\* Each effect keeps the messages apart.
LEMMA ApartStep ==
  ASSUME ChannelInv, LockInv', [Next]_vars
  PROVE  Apart(Contents', Blank) /\ Past(Contents', pushed')
<1>1. /\ Contents \in [Slots -> Message \cup {Blank}] /\ pushed \in [Producers -> 0 .. MaxPush]
      /\ Apart(Contents, Blank) /\ Past(Contents, pushed)
  BY ContentsType DEF ChannelInv, Typed, TypeOK
<1>2. CASE Keeps
  BY <1>1, <1>2 DEF Keeps
<1>3. ASSUME NEW p \in Producers, Stores(p)
      PROVE  Apart(Contents', Blank) /\ Past(Contents', pushed')
  <2>1. SlotOf(p) \in Slots /\ pushed[p] < MaxPush /\ NextMessage(p) = <<p, pushed[p] + 1>>
    BY <1>3, Constants
       DEF Stores, ChannelInv, Typed, TypeOK, Unfinished, SlotOf, Threads, NextMessage
  <2>2. /\ Contents[SlotOf(p)] = Blank
        /\ Contents' = [Contents EXCEPT ![SlotOf(p)] = <<p, pushed[p] + 1>>]
        /\ pushed' = [pushed EXCEPT ![p] = pushed[p] + 1]
    BY <1>3, <2>1 DEF Stores, Accepted
  <2> QED
    BY <1>1, <2>1, <2>2, PutMessage, BlankAssumption
<1>4. ASSUME NEW s \in Slots, Takes(s)
      PROVE  Apart(Contents', Blank) /\ Past(Contents', pushed')
  BY <1>1, <1>4, TakeMessage, BlankAssumption DEF Takes
<1> QED
  BY <1>2, <1>3, <1>4, StepEffects

\* A full slot keeps its message, and a slot becomes full with the message of
\* the producer that has locked it.
LEMMA FilledStep ==
  ASSUME ChannelInv, LockInv', [Next]_vars
  PROVE  (Filled /\ Ready)'
<1>1. Located /\ Located'
  <2>1. Located'
    BY LocateContents, PTL
  <2> QED
    BY <2>1, LocateContents DEF ChannelInv
<1> USE ThreadsAssumption, Constants
    DEF ChannelInv, Typed, TypeOK, PushSteps, PopSteps, Threads, Goto, Return, SlotOf
<1>2. ASSUME NEW p \in Producers, Push(p)
      PROVE  Ready'
  <2>1. CASE ClaimPush(p) /\ UNCHANGED <<states, elements, hand>>
    BY <2>1
       DEF ClaimPush, TryPushBegin, TryPushCheck, ClaimHead, ReloadHead, PushBegin,
           Ready, NextMessage
  <2>2. CASE AcquireToStore(p)
    BY <2>2 DEF AcquireToStore, Ready, NextMessage
  <2>3. CASE Assign(p)
    BY <2>3 DEF Assign, Ready, NextMessage, LockInv, LockedByOne, Storing
  <2>4. CASE Publish(p)
    BY <2>4 DEF Publish, Accepted, Ready, NextMessage
  <2> QED
    BY <1>2, <2>1, <2>2, <2>3, <2>4 DEF Push
<1>3. ASSUME NEW c \in Consumers, Pop(c)
      PROVE  Ready'
  <2>1. CASE ClaimPop(c) /\ UNCHANGED <<states, elements, hand>>
    BY <2>1
       DEF ClaimPop, TryPopBegin, TryPopCheck, ClaimTail, ReloadTail, PopBegin,
           Ready, NextMessage
  <2>2. CASE AcquireToLoad(c)
    BY <2>2 DEF AcquireToLoad, Ready, NextMessage
  <2>3. CASE Move(c)
    <3>1. /\ pc[c] = "move" /\ UNCHANGED <<pushed, states>>
          /\ \A s \in Slots \ {SlotOf(c)} : elements'[s] = elements[s]
          /\ \A p \in Producers : pc'[p] = pc[p] /\ SlotOf(p)' = SlotOf(p) /\ SlotOf(p) \in Slots
      BY <2>3 DEF Move
    <3>2. \A p \in Producers : pc[p] = "publish" => SlotOf(p) # SlotOf(c)
      BY <3>1 DEF LockInv, Locked, Storing, Loading, StoringLock, LoadingLock
    <3> QED
      BY <3>1, <3>2 DEF Ready, NextMessage
  <2>4. CASE Free(c)
    BY <2>4 DEF Free, Ready, NextMessage
  <2> QED
    BY <1>3, <2>1, <2>2, <2>3, <2>4 DEF Pop
<1>4. ASSUME UNCHANGED vars
      PROVE  Ready'
  BY <1>4 DEF vars, common, Ready, NextMessage
<1>5. Ready'
  BY <1>2, <1>3, <1>4 DEF Next
<1>6. Filled'
  <2> SUFFICES ASSUME NEW s \in Slots, Full(s)' PROVE Contents'[s] \in Message
    BY DEF Filled
  <2>1. CASE Keeps
    BY <2>1 DEF Keeps, Filled
  <2>2. ASSUME NEW p \in Producers, Stores(p) PROVE Contents'[s] \in Message
    <3>1. NextMessage(p) \in Message
      BY <2>2, MaxPushAssumption DEF Stores, Unfinished, NextMessage, Message
    <3> QED
      BY <2>2, <3>1 DEF Stores, Filled, Contents
  <2>3. ASSUME NEW r \in Slots, Takes(r) PROVE Contents'[s] \in Message
    BY <2>3 DEF Takes, Filled, Contents
  <2> QED
    BY <2>1, <2>2, <2>3, StepEffects
<1> QED
  BY <1>5, <1>6

\* The states lock the slots, and messages stay where they can be found.
LEMMA ChannelInvariant == Spec => []ChannelInv
<1> DEFINE Rest == Filled /\ Ready /\ Apart(Contents, Blank) /\ Past(Contents, pushed)
<1>1. Init => LockInv /\ Rest
  <2> SUFFICES ASSUME Init PROVE LockInv /\ Rest
    OBVIOUS
  <2>1. TypeOK
    BY Constants, StartAssumption, MaxPushAssumption
       DEF Init, CommonInit, TypeOK, PushSteps, PopSteps, Threads
  <2>2. Locked /\ LockedByOne /\ Ready /\ Filled
    BY DEF Init, CommonInit, Locked, LockedByOne, Storing, Loading, Threads, Ready,
           Filled, Full
  <2>3. \A s \in Slots : Contents[s] = Blank
    BY DEF Init, Contents, Content
  <2>4. Apart(Contents, Blank) /\ Past(Contents, pushed)
    BY <2>3, BlankAssumption DEF Apart, Past, Message
  <2> QED
    BY <2>1, <2>2, <2>4 DEF LockInv
<1>2. LockInv /\ [Next]_vars /\ TypeOK' => LockInv'
  BY LockStep DEF LockInv
<1>3. ChannelInv /\ LockInv' /\ [Next]_vars => Rest'
  BY ApartStep, FilledStep DEF Apart, Past
<1>4. Typed /\ LockInv /\ Rest <=> ChannelInv
  BY DEF ChannelInv
<1>5. Typed => TypeOK
  BY DEF Typed
<1> HIDE DEF Rest
<1> QED
  BY <1>1, <1>2, <1>3, <1>4, <1>5, TypedInvariant, PTL DEF Spec

\* Each effect on the slots is a step of the channel, or none.
LEMMA ChannelStep ==
  ASSUME ChannelInv, LockInv', [Next]_vars
  PROVE  [ChannelOfSlots!Next]_<<Stored, pushed, popped>>
<1>1. CASE Keeps
  BY <1>1 DEF Keeps, Stored
<1>2. ASSUME NEW p \in Producers, Stores(p)
      PROVE  ChannelOfSlots!Next
  <2>1. SlotOf(p) \in Slots /\ pushed[p] < MaxPush /\ NextMessage(p) # Blank
    BY <1>2, Constants, BlankAssumption, MaxPushAssumption
       DEF Stores, ChannelInv, Typed, TypeOK, Unfinished, SlotOf, Threads,
           NextMessage, Message
  <2>2. Stored' = Stored \cup {NextMessage(p)}
    BY <1>2, <2>1 DEF Stores, Stored, Contents
  <2>3. ChannelOfSlots!Send(p)
    BY <1>2, <2>1, <2>2 DEF Stores, Accepted, ChannelOfSlots!Send, NextMessage
  <2> QED
    BY <2>3 DEF ChannelOfSlots!Next
<1>3. ASSUME NEW s \in Slots, Takes(s)
      PROVE  ChannelOfSlots!Next
  <2>1. Contents[s] \in Stored
    BY <1>3, BlankAssumption DEF Takes, Stored
  <2>2. Stored' = Stored \ {Contents[s]}
    BY <1>3 DEF Takes, Stored, Contents, ChannelInv, Apart
  <2>3. ChannelOfSlots!Receive(Contents[s])
    BY <1>3, <2>2 DEF Takes, Returned, ChannelOfSlots!Receive
  <2> QED
    BY <2>1, <2>3 DEF ChannelOfSlots!Next
<1> QED
  BY <1>1, <1>2, <1>3, StepEffects

\* Every message whose push has returned is in exactly one slot, published, or
\* in the hand of the consumer moving it out, until exactly one pop returns
\* it, for any number of threads and slots, and however indices are mapped.
THEOREM QueueIsChannel == Spec => ImplementsChannel
<1>1. Init => ChannelOfSlots!Init
  BY SizeAssumption
     DEF Init, CommonInit, Stored, Contents, Content, ChannelOfSlots!Init,
         ChannelOfSlots!Message, Message
<1>2. ChannelInv => LockInv
  BY DEF ChannelInv
<1> QED
  BY <1>1, <1>2, ChannelStep, ChannelInvariant, PTL
     DEF Spec, ImplementsChannel, ChannelOfSlots!Spec

-----------------------------------------------------------------------------
\* What makes the slots a queue in SPSC mode: the messages are in the slots of
\* consecutive indices, from the end the consumer is at on.
FifoInv ==
  /\ ChannelInv
  /\ EndsInv
  /\ Ring(Contents, Blank, PopEnd, Sub(PushEnd, PopEnd))

\* The kinds of steps and what they do to the slots.
LEMMA StepKinds ==
  ASSUME ChannelInv, LockInv', [Next]_vars
  PROVE  \/ Claims /\ Keeps
         \/ \E t \in Threads : Works(t) /\ Keeps
         \/ \E p \in Producers : Finishes(p) /\ Stores(p)
         \/ \E c \in Consumers : Finishes(c) /\ Takes(SlotOf(c))
         \/ UNCHANGED common /\ Keeps
<1>1. index \in [Threads -> Word]
  BY DEF ChannelInv, Typed, TypeOK
<1>2. ASSUME NEW p \in Producers, Push(p)
      PROVE  \/ Claims /\ Keeps
             \/ Works(p) /\ Keeps
             \/ Finishes(p) /\ Stores(p)
  <2>1. CASE ClaimPush(p)
    <3>1. pc[p] # "publish"
      BY <2>1 DEF ClaimPush, TryPushBegin, TryPushCheck, ClaimHead, ReloadHead, PushBegin
    <3> QED
      BY <1>2, <2>1, <3>1, PushEffects DEF Claims
  <2>2. CASE AcquireToStore(p) \/ Assign(p)
    <3>1. pc[p] # "publish" /\ Works(p)
      BY <1>1, <2>2
         DEF AcquireToStore, Assign, Goto, Works, Busy, ChannelInv, Typed, TypeOK, Threads
    <3> QED
      BY <1>2, <3>1, PushEffects
  <2>3. CASE Publish(p)
    <3>1. pc[p] = "publish" /\ Finishes(p)
      BY <2>3 DEF Publish, Finishes, Busy, counters
    <3> QED
      BY <1>2, <3>1, PushEffects
  <2> QED
    BY <1>2, <2>1, <2>2, <2>3 DEF Push
<1>3. ASSUME NEW c \in Consumers, Pop(c)
      PROVE  \/ Claims /\ Keeps
             \/ Works(c) /\ Keeps
             \/ Finishes(c) /\ Takes(SlotOf(c))
  <2>1. CASE ClaimPop(c)
    <3>1. pc[c] # "free"
      BY <2>1 DEF ClaimPop, TryPopBegin, TryPopCheck, ClaimTail, ReloadTail, PopBegin
    <3> QED
      BY <1>3, <2>1, <3>1, PopEffects DEF Claims
  <2>2. CASE AcquireToLoad(c) \/ Move(c)
    <3>1. pc[c] # "free" /\ Works(c)
      BY <1>1, <2>2
         DEF AcquireToLoad, Move, Goto, Works, Busy, ChannelInv, Typed, TypeOK, Threads
    <3> QED
      BY <1>3, <3>1, PopEffects
  <2>3. CASE Free(c)
    <3>1. pc[c] = "free" /\ Finishes(c)
      BY <2>3 DEF Free, Finishes, Busy, counters
    <3> QED
      BY <1>3, <3>1, PopEffects
  <2> QED
    BY <1>3, <2>1, <2>2, <2>3 DEF Pop
<1>4. CASE UNCHANGED vars
  BY <1>4 DEF vars, common, Keeps, Contents, Content, SlotOf, Full
<1> QED
  BY <1>2, <1>3, <1>4 DEF Next, Threads

\* What a step does to the ends of the queue and the slots together: nothing,
\* or the push or the pop that returns works on the slot of its end.
KeepsQueue == UNCHANGED <<Contents, pushed, popped, PushEnd, PopEnd>>

StoresLast(p) ==
  /\ Stores(p)
  /\ SlotOf(p) = Slot[PushEnd]
  /\ PushEnd' = Add(PushEnd, 1)
  /\ PopEnd' = PopEnd

TakesFirst ==
  /\ Takes(Slot[PopEnd])
  /\ PopEnd' = Add(PopEnd, 1)
  /\ PushEnd' = PushEnd

\* What a step does to the queue in SPSC mode: nothing, add the newest
\* message, or take the oldest.
LEMMA QueueEffects ==
  ASSUME Spsc, ChannelInv, LockInv', EndsInv, [Next]_vars
  PROVE  /\ EndsInv'
         /\ \/ KeepsQueue
            \/ \E p \in Producers : StoresLast(p)
            \/ TakesFirst
<1> DEFINE Steps == PushSteps \cup PopSteps
<1>1. pc \in [Threads -> Steps] /\ index \in [Threads -> Word]
  BY DEF ChannelInv, Typed, TypeOK
<1> HIDE DEF Steps
<1>2. CASE Claims /\ Keeps
  BY <1>1, <1>2, ClaimsKeepEnds DEF Keeps, KeepsQueue
<1>3. ASSUME NEW t \in Threads, Works(t), Keeps
      PROVE  EndsInv' /\ KeepsQueue
  BY <1>1, <1>3, WorkKeepsEnds DEF Keeps, KeepsQueue
<1>4. ASSUME NEW p \in Producers, Finishes(p), Stores(p)
      PROVE  EndsInv' /\ StoresLast(p)
  <2>1. EndsInv' /\ PushEnd = index[p] /\ PushEnd' = Add(PushEnd, 1) /\ PopEnd' = PopEnd
    BY <1>1, <1>4, ReturnsMoveEnds DEF Threads
  <2> QED
    BY <1>4, <2>1 DEF StoresLast, SlotOf
<1>5. ASSUME NEW c \in Consumers, Finishes(c), Takes(SlotOf(c))
      PROVE  EndsInv' /\ TakesFirst
  <2>1. EndsInv' /\ PopEnd = index[c] /\ PopEnd' = Add(PopEnd, 1) /\ PushEnd' = PushEnd
    BY <1>1, <1>5, ReturnsMoveEnds DEF Threads
  <2> QED
    BY <1>5, <2>1 DEF TakesFirst, SlotOf
<1>6. CASE UNCHANGED common /\ Keeps
  <2>1. EndsInv'
    BY <1>6 DEF common, EndsInv, Busy
  <2>2. KeepsQueue
    BY <1>6 DEF common, Keeps, KeepsQueue, PushEnd, PopEnd, InUse, Busy
  <2> QED
    BY <2>1, <2>2
<1> QED
  BY <1>2, <1>3, <1>4, <1>5, <1>6, StepKinds

\* Each effect is a step of the bounded queue, or none, and keeps the messages
\* in consecutive slots.
LEMMA FifoStep ==
  ASSUME Spsc, ApartInWindows(Slot, Size), FifoInv, ChannelInv', [Next]_vars
  PROVE  FifoInv' /\ [FifoOfSlots!Next]_<<QueueOfSlots, pushed, popped>>
<1> DEFINE InRing == Ring(Contents, Blank, PopEnd, Sub(PushEnd, PopEnd))
<1>1. /\ EndsInv' /\ InRing
      /\ KeepsQueue \/ (\E p \in Producers : StoresLast(p)) \/ TakesFirst
  BY QueueEffects DEF FifoInv, ChannelInv
<1>2. PushEnd \in Word /\ PopEnd \in Word /\ Contents \in [Slots -> Message \cup {Blank}]
  BY EndsAreWords, ContentsType DEF FifoInv, ChannelInv, Typed, TypeOK
<1>3. CASE KeepsQueue
  BY <1>1, <1>3 DEF KeepsQueue, Ring, QueueOfSlots, QueueOf, FifoInv
<1>4. ASSUME NEW p \in Producers, StoresLast(p)
      PROVE  InRing' /\ FifoOfSlots!Send(p)
  <2>1. /\ NextMessage(p) \in Message /\ pushed[p] < MaxPush
        /\ NextMessage(p) = <<p, pushed[p] + 1>>
    BY <1>4, MaxPushAssumption
       DEF StoresLast, Stores, FifoInv, ChannelInv, Typed, TypeOK, Unfinished, NextMessage,
           Message
  <2>2. /\ Contents[Slot[PushEnd]] = Blank
        /\ Contents' = [Contents EXCEPT ![Slot[PushEnd]] = NextMessage(p)]
        /\ PushEnd' = Add(PushEnd, 1) /\ PopEnd' = PopEnd
        /\ pushed' = [pushed EXCEPT ![p] = @ + 1] /\ UNCHANGED popped
    BY <1>4 DEF StoresLast, Stores, Accepted
  <2>3. /\ Put(QueueOf(Contents, PopEnd, PushEnd), QueueOf(Contents', PopEnd, PushEnd'), NextMessage(p))
        /\ Ring(Contents', Blank, PopEnd, Sub(PushEnd', PopEnd))
    BY <1>1, <1>2, <2>1, <2>2, PutAtEnd, BlankAssumption
  <2>4. InRing'
    BY <2>2, <2>3 DEF Ring
  <2>5. Put(QueueOfSlots, QueueOfSlots', NextMessage(p))
    BY <2>2, <2>3 DEF QueueOfSlots, QueueOf
  <2> QED
    BY <2>1, <2>2, <2>4, <2>5 DEF Put, FifoOfSlots!Send
<1>5. ASSUME TakesFirst
      PROVE  InRing' /\ FifoOfSlots!Receive
  <2>1. /\ Contents[Slot[PopEnd]] # Blank
        /\ Contents' = [Contents EXCEPT ![Slot[PopEnd]] = Blank]
        /\ PopEnd' = Add(PopEnd, 1) /\ PushEnd' = PushEnd
        /\ popped' = [popped EXCEPT ![Contents[Slot[PopEnd]]] = @ + 1] /\ UNCHANGED pushed
    BY <1>5, BlankAssumption DEF TakesFirst, Takes, Returned
  <2>2. /\ Taken(QueueOf(Contents, PopEnd, PushEnd), QueueOf(Contents', PopEnd', PushEnd),
                  Contents[Slot[PopEnd]])
        /\ Ring(Contents', Blank, PopEnd', Sub(PushEnd, PopEnd'))
    BY <1>1, <1>2, <2>1, TakeAtStart
  <2>3. InRing'
    BY <2>1, <2>2 DEF Ring
  <2>4. Taken(QueueOfSlots, QueueOfSlots', Contents[Slot[PopEnd]])
    BY <2>1, <2>2 DEF QueueOfSlots, QueueOf
  <2> QED
    BY <2>1, <2>3, <2>4 DEF Taken, FifoOfSlots!Receive
<1>6. ASSUME InRing' PROVE FifoInv'
  BY <1>1, <1>6 DEF FifoInv
<1> HIDE DEF InRing
<1> QED
  BY <1>1, <1>3, <1>4, <1>5, <1>6 DEF FifoOfSlots!Next

\* With one producer and one consumer, a mapping that keeps the slots of Size
\* consecutive indices apart makes the slots a first-in first-out queue of at
\* most Size messages: push waits for room and appends, pop waits for a message
\* and takes the oldest.
THEOREM SpscQueueIsFifo ==
  ASSUME Spsc, ApartInWindows(Slot, Size) PROVE Spec => ImplementsFifo
<1>1. Init => EndsInv /\ Ring(Contents, Blank, PopEnd, Sub(PushEnd, PopEnd)) /\ FifoOfSlots!Init
  <2> SUFFICES ASSUME Init
               PROVE  /\ EndsInv /\ Ring(Contents, Blank, PopEnd, Sub(PushEnd, PopEnd))
                      /\ FifoOfSlots!Init
    OBVIOUS
  <2>1. \A t \in Threads : pc[t] = "idle" /\ ~Busy(t)
    BY DEF Init, CommonInit, Busy
  <2>2. EndsInv
    BY <2>1 DEF EndsInv, Threads
  <2>3. PushEnd = Start /\ PopEnd = Start
    BY <2>1 DEF PushEnd, PopEnd, InUse, Threads, Init, CommonInit
  <2>4. Sub(Start, Start) = 0
    BY StartAssumption, SubZero
  <2>5. Ring(Contents, Blank, PopEnd, 0)
    <3>1. 0 \in 0 .. Size
      BY SizeAssumption, WordNat
    <3>2. ASSUME NEW k \in 0 .. Size - 1
          PROVE  Contents[Slot[Add(PopEnd, k)]] = Blank /\ ~(k < 0)
      <4>1. k \in Nat
        BY SizeAssumption, WordNat
      <4> QED
        BY <2>3, <4>1, StartAssumption, WordArithmetic, Constants DEF Init, Contents, Content
    <3> QED
      BY <3>1, <3>2 DEF Ring
  <2>6. QueueOfSlots = << >>
    BY <2>3, <2>4 DEF QueueOfSlots, QueueOf
  <2> QED
    BY <2>2, <2>3, <2>4, <2>5, <2>6 DEF FifoOfSlots!Init, FifoOfSlots!Message, Init, CommonInit, Message
<1>2. Spsc /\ FifoInv /\ ChannelInv' /\ [Next]_vars
        => FifoInv' /\ [FifoOfSlots!Next]_<<QueueOfSlots, pushed, popped>>
  BY FifoStep
<1>3. ChannelInv /\ EndsInv /\ Ring(Contents, Blank, PopEnd, Sub(PushEnd, PopEnd)) => FifoInv
  BY DEF FifoInv
<1> QED
  BY <1>1, <1>2, <1>3, ChannelInvariant, PTL
     DEF Spec, ImplementsFifo, FifoOfSlots!Spec

-----------------------------------------------------------------------------
\* The slots with a message.
FullSlots == {s \in Slots : Contents[s] # Blank}

\* What keeps the counters, the calls under way and the slots in balance.
BalanceInv ==
  /\ ChannelInv
  /\ Spsc => EndsInv
  /\ Balanced(FullSlots)

\* They are those whose state says so.
LEMMA FullHasMessage ==
  ASSUME BalanceInv
  PROVE  \A s \in Slots :
           states[s] \in IF s \in FullSlots THEN {"STORED", "LOADING"} ELSE {"EMPTY", "STORING"}
<1>1. /\ \A s \in Slots : Full(s) => Contents[s] \in Message
      /\ \A s \in Slots : ~Full(s) => Contents[s] = Blank
      /\ \A s \in Slots : states[s] \in {"EMPTY", "STORING", "STORED", "LOADING"}
  BY LocateContents DEF BalanceInv, ChannelInv, Filled, Located, Full, Typed, TypeOK
<1> QED
  BY <1>1, BlankAssumption DEF FullSlots, Full

\* An index claimed, a message stored and a message taken keep the balance.
LEMMA BalanceStep ==
  ASSUME FewThreads, BalanceInv, LockInv', [Next]_vars
  PROVE  (Spsc => EndsInv') /\ Balanced(FullSlots)'
<1> DEFINE Steps == PushSteps \cup PopSteps
<1>0. PICK full : full = FullSlots
  OBVIOUS
<1>1. /\ pc \in [Threads -> Steps] /\ AreWords
      /\ full \in SUBSET Slots /\ Balanced(full) /\ (Spsc => EndsInv) /\ ChannelInv
  BY <1>0 DEF BalanceInv, ChannelInv, Typed, TypeOK, AreWords, FullSlots, Balanced
<1>2. Contents \in [Slots -> Message \cup {Blank}]
  BY <1>1, ContentsType DEF ChannelInv, Typed, TypeOK
<1>3. \A full2 : full2 = FullSlots' /\ Balanced(full2)' => Balanced(FullSlots)'
  BY DEF Balanced
<1> HIDE DEF Steps
<1>4. ASSUME Spsc PROVE EndsInv'
  BY <1>1, <1>4, QueueEffects
<1>5. ASSUME Claims, Keeps
      PROVE  Balanced(FullSlots)'
  <2>1. Balanced(full)'
    BY <1>1, <1>5, ClaimsKeepBalance
  <2>2. FullSlots' = full
    BY <1>0, <1>5 DEF Keeps, FullSlots
  <2> QED
    BY <1>3, <2>1, <2>2
<1>6. ASSUME NEW t \in Threads, Works(t), Keeps
      PROVE  Balanced(FullSlots)'
  <2>1. Balanced(full)'
    BY <1>1, <1>6, WorkKeepsBalance
  <2>2. FullSlots' = full
    BY <1>0, <1>6 DEF Keeps, FullSlots
  <2> QED
    BY <1>3, <2>1, <2>2
<1>7. ASSUME NEW p \in Producers, Finishes(p), Stores(p)
      PROVE  Balanced(FullSlots)'
  <2>1. SlotOf(p) \in Slots /\ NextMessage(p) \in Message
    BY <1>1, <1>7, Constants, MaxPushAssumption
       DEF Stores, ChannelInv, Typed, TypeOK, Unfinished, NextMessage, Message, SlotOf, Threads
  <2>2. Contents[SlotOf(p)] = Blank /\ Contents' = [Contents EXCEPT ![SlotOf(p)] = NextMessage(p)]
    BY <1>7 DEF Stores
  <2>3. SlotOf(p) \notin full
    BY <1>0, <2>2 DEF FullSlots
  <2>4. FullSlots' = full \cup {SlotOf(p)}
    BY <1>0, <1>2, <2>1, <2>2, BlankAssumption DEF FullSlots
  <2>5. \A g : g = full \cup {SlotOf(p)} => Balanced(g)'
    BY <1>1, <1>7, <2>3, PushKeepsBalance
  <2> QED
    BY <1>3, <2>4, <2>5
<1>8. ASSUME NEW c \in Consumers, Finishes(c), Takes(SlotOf(c))
      PROVE  Balanced(FullSlots)'
  <2>1. SlotOf(c) \in Slots
    BY <1>1, Constants DEF ChannelInv, Typed, TypeOK, SlotOf, Threads
  <2>2. Contents[SlotOf(c)] # Blank /\ Contents' = [Contents EXCEPT ![SlotOf(c)] = Blank]
    BY <1>8, BlankAssumption DEF Takes
  <2>3. SlotOf(c) \in full
    BY <1>0, <2>1, <2>2 DEF FullSlots
  <2>4. FullSlots' = full \ {SlotOf(c)}
    BY <1>0, <1>2, <2>1, <2>2 DEF FullSlots
  <2>5. \A g : g = full \ {SlotOf(c)} => Balanced(g)'
    BY <1>1, <1>8, <2>3, PopKeepsBalance
  <2> QED
    BY <1>3, <2>4, <2>5
<1>9. ASSUME UNCHANGED common, Keeps
      PROVE  Balanced(FullSlots)'
  BY <1>0, <1>1, <1>9 DEF Keeps, common, FullSlots, Balanced, BusyOf, Busy
<1>10. Balanced(FullSlots)'
  BY <1>1, <1>5, <1>6, <1>7, <1>8, <1>9, StepKinds
<1> QED
  BY <1>4, <1>10

\* With few threads each slot's account balances, in every state.
LEMMA BalanceInvariant == ASSUME FewThreads PROVE Spec => []BalanceInv
<1>1. Init => (Spsc => EndsInv) /\ Balanced(FullSlots)
  <2> SUFFICES ASSUME Init PROVE EndsInv /\ Balanced(FullSlots)
    OBVIOUS
  <2>1. \A t \in Threads : pc[t] = "idle" /\ ~Busy(t)
    BY DEF Init, CommonInit, Busy
  <2>2. EndsInv
    BY <2>1 DEF EndsInv, Threads
  <2>3. BusyOf(Producers) = {} /\ BusyOf(Consumers) = {} /\ FullSlots = {}
    BY <2>1 DEF BusyOf, Threads, FullSlots, Init, CommonInit, Contents, Content
  <2>4. Balance(Start, Start, {}, {}, index, {})
    BY StartAssumption, NothingBalances
  <2> QED
    BY <2>2, <2>3, <2>4 DEF Balanced, Init, CommonInit
<1>2. FewThreads /\ BalanceInv /\ LockInv' /\ [Next]_vars => (Spsc => EndsInv)' /\ Balanced(FullSlots)'
  BY BalanceStep
<1>3. ChannelInv /\ (Spsc => EndsInv) /\ Balanced(FullSlots) <=> BalanceInv
  BY DEF BalanceInv
<1>4. ChannelInv => LockInv
  BY DEF ChannelInv
<1> QED
  BY <1>1, <1>2, <1>3, <1>4, ChannelInvariant, PTL DEF Spec

\* While no pop is under way, a push whose index is within Size of tail_ does
\* not wait for its slot, for any number of threads and slots, in MPMC and in
\* SPSC mode, as long as the mapping keeps the slots of Size consecutive
\* indices apart.
THEOREM PushNeedNotWait ==
  ASSUME FewThreads, ApartInWindows(Slot, Size)
  PROVE  Spec => []PushWaitsOnlyWhenFull
<1>1. ASSUME BalanceInv, \A c \in Consumers : pc[c] = "idle", Used <= Size,
             NEW p \in Producers, Busy(p)
      PROVE  SlotOf(p) \notin FullSlots /\ SlotOf(p) \in Slots
  <2>1. BusyOf(Consumers) = {} /\ p \in BusyOf(Producers) /\ BusyOf(Producers) \in SUBSET Producers
    BY <1>1 DEF BusyOf, Busy
  <2>2. head_ \in Word /\ tail_ \in Word /\ SlotOf(p) \in Slots /\ FullSlots \in SUBSET Slots
    BY <1>1, Constants DEF BalanceInv, ChannelInv, Typed, TypeOK, SlotOf, FullSlots, Threads
  <2>3. Balance(head_, tail_, BusyOf(Producers), {}, index, FullSlots)
    BY <1>1, <2>1 DEF BalanceInv, Balanced
  <2> QED
    BY <1>1, <2>1, <2>2, <2>3, PushFindsRoom DEF Used, SlotOf
<1>2. ASSUME BalanceInv PROVE PushWaitsOnlyWhenFull
  <2>1. ASSUME \A c \in Consumers : pc[c] = "idle", Used <= Size, NEW p \in Producers, Busy(p)
        PROVE  states[SlotOf(p)] \in {"EMPTY", "STORING"}
    BY <1>1, <1>2, <2>1, FullHasMessage
  <2> QED
    BY <2>1 DEF PushWaitsOnlyWhenFull, Busy
<1> QED
  BY <1>2, BalanceInvariant, PTL

\* While no push is under way, a pop whose index is not beyond head_ does not
\* wait for its slot, whatever the mapping of indices to slots.
THEOREM PopNeedNotWait ==
  ASSUME FewThreads PROVE Spec => []PopWaitsOnlyWhenEmpty
<1>1. ASSUME BalanceInv, \A p \in Producers : pc[p] = "idle", Used >= 0,
             NEW c \in Consumers, Busy(c)
      PROVE  SlotOf(c) \in FullSlots /\ SlotOf(c) \in Slots
  <2>1. BusyOf(Producers) = {} /\ c \in BusyOf(Consumers) /\ BusyOf(Consumers) \in SUBSET Consumers
    BY <1>1 DEF BusyOf, Busy
  <2>2. head_ \in Word /\ tail_ \in Word /\ SlotOf(c) \in Slots /\ FullSlots \in SUBSET Slots
    BY <1>1, Constants DEF BalanceInv, ChannelInv, Typed, TypeOK, SlotOf, FullSlots, Threads
  <2>3. Balance(head_, tail_, {}, BusyOf(Consumers), index, FullSlots)
    BY <1>1, <2>1 DEF BalanceInv, Balanced
  <2> QED
    BY <1>1, <2>1, <2>2, <2>3, PopFindsMessage DEF Used, SlotOf
<1>2. ASSUME BalanceInv PROVE PopWaitsOnlyWhenEmpty
  <2>1. ASSUME \A p \in Producers : pc[p] = "idle", Used >= 0, NEW c \in Consumers, Busy(c)
        PROVE  states[SlotOf(c)] \in {"STORED", "LOADING"}
    <3>1. SlotOf(c) \in FullSlots /\ SlotOf(c) \in Slots
      BY <1>1, <1>2, <2>1
    <3> QED
      BY <1>2, <3>1, FullHasMessage
  <2> QED
    BY <2>1 DEF PopWaitsOnlyWhenEmpty, Busy
<1> QED
  BY <1>2, BalanceInvariant, PTL
-----------------------------------------------------------------------------
\* What the claims need to know: the balance, how far the counters have come
\* and what each call has seen of them.
ClaimInv == BalanceInv /\ LimitInv

\* Every step keeps it, refuses a call at the limit only and, in MPMC mode,
\* claims an index for a try_push or a try_pop within the limit only.
LEMMA ClaimStep ==
  ASSUME FewThreads, FewMessages, ClaimInv, BalanceInv', [Next]_vars, LockInv'
  PROVE  /\ LimitInv'
         /\ RefusedAtLimit(Lag)
         /\ ~Spsc => ClaimedWithinLimit
<1> DEFINE Steps == PushSteps \cup PopSteps
<1>0. PICK full : full = FullSlots
  OBVIOUS
<1>1. /\ pc \in [Threads -> Steps] /\ AreWords /\ AreWords' /\ PushedType /\ ChannelInv
      /\ full \in SUBSET Slots /\ Balanced(full) /\ (Spsc => EndsInv) /\ LimitInv
  BY <1>0
     DEF ClaimInv, BalanceInv, ChannelInv, Typed, TypeOK, AreWords, PushedType, FullSlots,
         Balanced
<1>2. ASSUME UNCHANGED pushed
      PROVE  \A p \in Producers : pc'[p] # "idle" => pushed[p] < MaxPush
  BY <1>2 DEF BalanceInv, ChannelInv, Typed, Unfinished
<1>3. ASSUME NEW p \in Producers, Finishes(p), Accepted(p)
      PROVE  \A q \in Producers : pc'[q] # "idle" => pushed[q] < MaxPush
  <2>1. \A q \in Producers : pc'[q] # "idle" => pc[q] # "idle"
    BY <1>3 DEF Finishes, Return, Goto, AreWords, Threads
  <2> QED
    BY <2>1 DEF ClaimInv, BalanceInv, ChannelInv, Typed, Unfinished
<1> HIDE DEF Steps
<1>4. CASE Claims /\ Keeps
  <2>1. FullSlots' = full
    BY <1>0, <1>4 DEF Keeps, FullSlots
  <2>2. Balanced(full)'
    BY <2>1 DEF BalanceInv, Balanced
  <2> QED
    BY <1>1, <1>2, <1>4, <2>2, LimitStep DEF Keeps
<1>5. ASSUME NEW t \in Threads, Works(t), Keeps
      PROVE  LimitInv' /\ RefusedAtLimit(Lag) /\ (~Spsc => ClaimedWithinLimit)
  BY <1>1, <1>2, <1>5, LimitStep DEF Keeps
<1>6. ASSUME NEW p \in Producers, Finishes(p), Stores(p)
      PROVE  LimitInv' /\ RefusedAtLimit(Lag) /\ (~Spsc => ClaimedWithinLimit)
  <2>1. Accepted(p)
    BY <1>6 DEF Stores
  <2> QED
    BY <1>1, <1>3, <1>6, <2>1, LimitStep
<1>7. ASSUME NEW c \in Consumers, Finishes(c), Takes(SlotOf(c))
      PROVE  LimitInv' /\ RefusedAtLimit(Lag) /\ (~Spsc => ClaimedWithinLimit)
  BY <1>1, <1>2, <1>7, LimitStep DEF Takes
<1>8. CASE UNCHANGED common /\ Keeps
  BY <1>1, <1>2, <1>8, LimitStep DEF Keeps
<1> QED
  BY <1>1, <1>4, <1>5, <1>6, <1>7, <1>8, StepKinds

\* With few threads and few messages the counters stay as far apart as the
\* claims allow, and no load is later than it claims.
LEMMA ClaimInvariant == ASSUME FewThreads, FewMessages PROVE Spec => []ClaimInv
<1>1. Init => LimitInv
  BY LimitAtStart DEF Init
<1>2. ClaimInv /\ BalanceInv' /\ [Next]_vars /\ LockInv' => LimitInv'
  BY ClaimStep
<1>3. BalanceInv /\ LimitInv <=> ClaimInv
  BY DEF ClaimInv
<1>4. BalanceInv => LockInv
  BY DEF BalanceInv, ChannelInv
<1> QED
  BY <1>1, <1>2, <1>3, <1>4, BalanceInvariant, PTL DEF Spec

\* try_push returns false only when head_ is at least Size - Lag indices beyond
\* tail_ at that moment, and try_pop only when it is at most Lag beyond, in MPMC
\* and in SPSC mode, for any number of threads and slots.  However old the value
\* of the counter is that a call loads first, it does not get the call refused.
THEOREM RefusedOnlyAtTheLimit ==
  ASSUME FewThreads, FewMessages PROVE Spec => [][RefusedAtLimit(Lag)]_vars
<1>1. ClaimInv /\ BalanceInv' /\ [Next]_vars /\ LockInv' => [RefusedAtLimit(Lag)]_vars
  BY ClaimStep
<1>2. BalanceInv => LockInv
  BY DEF BalanceInv, ChannelInv
<1> QED
  BY <1>1, <1>2, BalanceInvariant, ClaimInvariant, PTL DEF Spec

\* With any number of producers and consumers, try_push claims an index only
\* where the queue has room and try_pop only where it has a message claimed for
\* it, although a compare-exchange succeeds long after the check and although
\* it tells an index apart by its value only.
THEOREM TryStaysWithinLimit ==
  ASSUME FewThreads, FewMessages PROVE Spec => [][~Spsc => ClaimedWithinLimit]_vars
<1>1. ClaimInv /\ BalanceInv' /\ [Next]_vars /\ LockInv' => [~Spsc => ClaimedWithinLimit]_vars
  BY ClaimStep
<1>2. BalanceInv => LockInv
  BY DEF BalanceInv, ChannelInv
<1> QED
  BY <1>1, <1>2, BalanceInvariant, ClaimInvariant, PTL DEF Spec
=============================================================================
