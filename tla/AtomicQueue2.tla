---------------------------- MODULE AtomicQueue2 ----------------------------
(***************************************************************************)
(* AtomicQueue2 and AtomicQueueB2: the elements are not atomic, and each   *)
(* slot has an atomic state that locks it: EMPTY -> STORING -> STORED on a *)
(* push, STORED -> LOADING -> EMPTY on a pop.  In SPSC mode the two        *)
(* intermediate states are not used and the only producer and the only     *)
(* consumer rely on EMPTY and STORED alone.                                *)
(***************************************************************************)
EXTENDS AtomicQueueCommon

CONSTANT Blank          \* a default-constructed or moved-from element

ASSUME BlankAssumption == Blank \notin Message

VARIABLES
  states,         \* states_
  elements,       \* elements_
  hand            \* hand[c]: the element a pop has moved out

vars == <<common, states, elements, hand>>

Init ==
  /\ CommonInit
  /\ states = [s \in Slots |-> "EMPTY"]
  /\ elements = [s \in Slots |-> Blank]
  /\ hand = [c \in Consumers |-> Blank]

PushSteps == {"idle", "check", "claim", "push", "assign", "publish"}
PopSteps == {"idle", "check", "claim", "pop", "move", "free"}

TypeOK ==
  /\ head_ \in Word
  /\ tail_ \in Word
  /\ pc \in [Threads -> PushSteps \cup PopSteps]
  /\ \A p \in Producers : pc[p] \in PushSteps
  /\ \A c \in Consumers : pc[c] \in PopSteps
  /\ index \in [Threads -> Word]
  /\ pushed \in [Producers -> 0 .. MaxPush]
  /\ popped \in [Message -> Nat]
  /\ states \in [Slots -> {"EMPTY", "STORING", "STORED", "LOADING"}]
  /\ elements \in [Slots -> Message \cup {Blank}]
  /\ hand \in [Consumers -> Message \cup {Blank}]

SetState(t, state) == states' = [states EXCEPT ![SlotOf(t)] = state]

-----------------------------------------------------------------------------
(* do_push.                                                                *)
\* Mutant: the slot is seen to be EMPTY but not locked.
SeeEmpty(p) ==
  /\ pc[p] = "push"
  /\ states[SlotOf(p)] = "EMPTY"
  /\ Goto(p, "assign", index[p])
  /\ UNCHANGED <<head_, tail_, pushed, popped, states, elements, hand>>

\* Mutant: the slot is published before the element is assigned.
PublishFirst(p) ==
  /\ pc[p] = "push"
  /\ states[SlotOf(p)] = "EMPTY"
  /\ SetState(p, "STORED")
  /\ Goto(p, "assign", index[p])
  /\ UNCHANGED <<head_, tail_, pushed, popped, elements, hand>>

\* MPMC: the compare-exchange of EMPTY for STORING succeeds.
\* SPSC: the load that ends the wait.
AcquireToStore(p) ==
  /\ pc[p] = "push"
  /\ states[SlotOf(p)] = "EMPTY"
  /\ IF Spsc THEN UNCHANGED states ELSE SetState(p, "STORING")
  /\ Goto(p, "assign", index[p])
  /\ UNCHANGED <<head_, tail_, pushed, popped, elements, hand>>

\* elements[index] = std::forward<U>(element), not atomic.
Assign(p) ==
  /\ pc[p] = "assign"
  /\ elements' = [elements EXCEPT ![SlotOf(p)] = NextMessage(p)]
  /\ Goto(p, "publish", index[p])
  /\ UNCHANGED <<head_, tail_, pushed, popped, states, hand>>

\* Mutant: the store of STORED is missing.
PublishNot(p) ==
  /\ pc[p] = "publish"
  /\ Accepted(p)
  /\ Return(p)
  /\ UNCHANGED <<head_, tail_, popped, states, elements, hand>>

Publish(p) ==
  /\ pc[p] = "publish"
  /\ SetState(p, "STORED")
  /\ Accepted(p)
  /\ Return(p)
  /\ UNCHANGED <<head_, tail_, popped, elements, hand>>

-----------------------------------------------------------------------------
(* do_pop.                                                                 *)
\* Mutant: the consumer does not wait for STORED.
LoadAnyway(c) ==
  /\ pc[c] = "pop"
  /\ Goto(c, "move", index[c])
  /\ UNCHANGED <<head_, tail_, pushed, popped, states, elements, hand>>

AcquireToLoad(c) ==
  /\ pc[c] = "pop"
  /\ states[SlotOf(c)] = "STORED"
  /\ IF Spsc THEN UNCHANGED states ELSE SetState(c, "LOADING")
  /\ Goto(c, "move", index[c])
  /\ UNCHANGED <<head_, tail_, pushed, popped, elements, hand>>

\* T element{std::move(elements[index])}, not atomic.  What the move leaves
\* behind is up to T: the old value, or any other.
Move(c) ==
  /\ pc[c] = "move"
  /\ hand' = [hand EXCEPT ![c] = elements[SlotOf(c)]]
  /\ \E rest \in {elements[SlotOf(c)], Blank} :
       elements' = [elements EXCEPT ![SlotOf(c)] = rest]
  /\ Goto(c, "free", index[c])
  /\ UNCHANGED <<head_, tail_, pushed, popped, states>>

\* Mutant: the store of EMPTY is missing.
FreeNot(c) ==
  /\ pc[c] = "free"
  /\ Returned(hand[c])
  /\ hand' = [hand EXCEPT ![c] = Blank]
  /\ Return(c)
  /\ UNCHANGED <<head_, tail_, pushed, states, elements>>

Free(c) ==
  /\ pc[c] = "free"
  /\ SetState(c, "EMPTY")
  /\ Returned(hand[c])
  /\ hand' = [hand EXCEPT ![c] = Blank]
  /\ Return(c)
  /\ UNCHANGED <<head_, tail_, pushed, elements>>

-----------------------------------------------------------------------------
Push(p) ==
  \/ ClaimPush(p) /\ UNCHANGED <<states, elements, hand>>
  \/ AcquireToStore(p)
  \/ Assign(p)
  \/ Publish(p)

Pop(c) ==
  \/ ClaimPop(c) /\ UNCHANGED <<states, elements, hand>>
  \/ AcquireToLoad(c)
  \/ Move(c)
  \/ Free(c)

Next ==
  \/ \E p \in Producers : Push(p)
  \/ \E c \in Consumers : Pop(c)

Spec == Init /\ [][Next]_vars

\* As in AtomicQueue: every thread runs, producers push all their messages
\* and consumers keep calling pop or try_pop.
Fairness ==
  /\ \A p \in Producers : WF_vars(Push(p))
  /\ \A c \in Consumers : WF_vars(Pop(c))

\* Relaxed or not, a store becomes visible to other threads in finite time: in
\* the end nobody is refused because of an old value.
Visibility == <>[][RefusedAtLimit(0)]_vars

FairSpec == Spec /\ Fairness /\ Visibility

-----------------------------------------------------------------------------
(* Properties.                                                             *)

\* At most one thread accesses the non-atomic element of a slot at a time,
\* although any number of producers and consumers may hold indices of the
\* same slot.
Accesses(t, s) == pc[t] \in {"assign", "move"} /\ SlotOf(t) = s

NoDataRace ==
  \A t, u \in Threads : \A s \in Slots :
    Accesses(t, s) /\ Accesses(u, s) => t = u

\* The message in a slot: published, and not returned by a pop yet.  What a
\* producer has assigned but not published does not count, nor what a move
\* has left behind: then the message is in the hand of the consumer.
Content(s) ==
  LET movers == {c \in Consumers : pc[c] = "free" /\ SlotOf(c) = s}
  IN  IF states[s] \in {"EMPTY", "STORING"} THEN Blank
      ELSE IF movers = {} THEN elements[s]
      ELSE hand[CHOOSE c \in movers : TRUE]

Contents == [s \in Slots |-> Content(s)]

\* The messages in the slots are a channel: a push that returns has put its
\* message in it, once, and each message leaves it by one pop.
Stored == {Contents[s] : s \in Slots} \ {Blank}

ChannelOfSlots == INSTANCE Channel WITH chan <- Stored
ImplementsChannel == ChannelOfSlots!Spec

\* With one producer and one consumer the slots are a bounded FIFO queue.
QueueOfSlots == QueueOf(Contents, PopEnd, PushEnd)

FifoOfSlots == INSTANCE Fifo WITH queue <- QueueOfSlots, Capacity <- Size
ImplementsFifo == FifoOfSlots!Spec

\* push waits for its slot only because the queue is full, and pop only
\* because it is empty: with no pop under way and at most Size indices
\* claimed beyond tail_, no push finds its slot occupied by a message; with
\* no push under way and no index claimed beyond head_, no pop finds its slot
\* without one, unless another push or pop is at work on it.
PushWaitsOnlyWhenFull ==
  (\A c \in Consumers : pc[c] = "idle") /\ Used <= Size =>
    \A p \in Producers : pc[p] # "idle" /\ pc[p] \notin {"check", "claim"} =>
      states[SlotOf(p)] \in {"EMPTY", "STORING"}

PopWaitsOnlyWhenEmpty ==
  (\A p \in Producers : pc[p] = "idle") /\ Used >= 0 =>
    \A c \in Consumers : pc[c] # "idle" /\ pc[c] \notin {"check", "claim"} =>
      states[SlotOf(c)] \in {"STORED", "LOADING"}

\* Every message is pushed and returned by a pop, in the end.
AllDelivered == <>(\A m \in Message : popped[m] = 1)
=============================================================================
