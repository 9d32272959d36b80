----------------------------- MODULE AtomicQueue ----------------------------
(***************************************************************************)
(* AtomicQueue and AtomicQueueB: a slot holds one atomic element, and NIL  *)
(* means that the slot is free.  Pushing swaps NIL for the message, popping *)
(* swaps the message for NIL; each waits, on its own slot only, until it   *)
(* can.                                                                    *)
(***************************************************************************)
EXTENDS AtomicQueueCommon

CONSTANT NIL            \* nil_, never pushed (assert in do_push; README)

ASSUME NilAssumption == NIL \notin Message

VARIABLES
  elements,       \* elements_
  hand            \* hand[c]: the element an SPSC pop has loaded

vars == <<common, elements, hand>>

Init ==
  /\ CommonInit
  /\ elements = [s \in Slots |-> NIL]
  /\ hand = [c \in Consumers |-> NIL]

PushSteps == {"idle", "check", "claim", "push", "store"}
PopSteps == {"idle", "check", "claim", "pop", "clear"}

TypeOK ==
  /\ head_ \in Word
  /\ tail_ \in Word
  /\ pc \in [Threads -> PushSteps \cup PopSteps]
  /\ \A p \in Producers : pc[p] \in PushSteps
  /\ \A c \in Consumers : pc[c] \in PopSteps
  /\ index \in [Threads -> Word]
  /\ pushed \in [Producers -> 0 .. MaxPush]
  /\ popped \in [Message -> Nat]
  /\ elements \in [Slots -> Message \cup {NIL}]
  /\ hand \in [Consumers -> Message \cup {NIL}]

-----------------------------------------------------------------------------
(* do_push.                                                                *)
\* Mutant: the slot of head_ in place of the slot of the claimed index.
StoreAtHead(p) ==
  /\ elements' = [elements EXCEPT ![Slot[head_]] = NextMessage(p)]
  /\ Accepted(p)
  /\ Return(p)
  /\ UNCHANGED <<head_, tail_, popped, hand>>

StoreNextMessage(p) ==
  /\ elements' = [elements EXCEPT ![SlotOf(p)] = NextMessage(p)]
  /\ Accepted(p)
  /\ Return(p)
  /\ UNCHANGED <<head_, tail_, popped, hand>>

\* Mutant: a store that does not wait for NIL.
StoreAnyway(p) == ~Spsc /\ pc[p] = "push" /\ StoreNextMessage(p)

\* Mutant: pushes complete in the order of their indices.
ExchangeNilInOrder(p) ==
  /\ ~Spsc
  /\ pc[p] = "push"
  /\ elements[SlotOf(p)] = NIL
  /\ \A q \in Producers : pc[q] = "push" => AsSigned(Sub(index[p], index[q])) <= 0
  /\ StoreNextMessage(p)

\* MPMC: the compare-exchange of NIL for the message succeeds.
ExchangeNil(p) ==
  /\ ~Spsc
  /\ pc[p] = "push"
  /\ elements[SlotOf(p)] = NIL
  /\ StoreNextMessage(p)

\* Mutant: the producer does not wait for the slot.
SeeAnything(p) ==
  /\ Spsc
  /\ pc[p] = "push"
  /\ Goto(p, "store", index[p])
  /\ UNCHANGED <<head_, tail_, pushed, popped, elements, hand>>

\* SPSC: the load that ends the wait, then a plain store.
SeeNil(p) ==
  /\ Spsc
  /\ pc[p] = "push"
  /\ elements[SlotOf(p)] = NIL
  /\ Goto(p, "store", index[p])
  /\ UNCHANGED <<head_, tail_, pushed, popped, elements, hand>>

StoreElement(p) ==
  /\ pc[p] = "store"
  /\ StoreNextMessage(p)

-----------------------------------------------------------------------------
(* do_pop.                                                                 *)
\* Mutant: pops complete in the order of their indices.
ExchangeElementInOrder(c) ==
  /\ ~Spsc
  /\ pc[c] = "pop"
  /\ elements[SlotOf(c)] # NIL
  /\ \A d \in Consumers : pc[d] = "pop" => AsSigned(Sub(index[c], index[d])) <= 0
  /\ elements' = [elements EXCEPT ![SlotOf(c)] = NIL]
  /\ Returned(elements[SlotOf(c)])
  /\ Return(c)
  /\ UNCHANGED <<head_, tail_, pushed, hand>>

\* MPMC: an exchange that finds a message.  One that finds NIL puts NIL
\* back and changes nothing.
ExchangeElement(c) ==
  /\ ~Spsc
  /\ pc[c] = "pop"
  /\ elements[SlotOf(c)] # NIL
  /\ elements' = [elements EXCEPT ![SlotOf(c)] = NIL]
  /\ Returned(elements[SlotOf(c)])
  /\ Return(c)
  /\ UNCHANGED <<head_, tail_, pushed, hand>>

\* SPSC: the load that ends the wait, then a plain store of NIL.
LoadElement(c) ==
  /\ Spsc
  /\ pc[c] = "pop"
  /\ elements[SlotOf(c)] # NIL
  /\ hand' = [hand EXCEPT ![c] = elements[SlotOf(c)]]
  /\ Goto(c, "clear", index[c])
  /\ UNCHANGED <<head_, tail_, pushed, popped, elements>>

StoreNil(c) ==
  /\ pc[c] = "clear"
  /\ elements' = [elements EXCEPT ![SlotOf(c)] = NIL]
  /\ Returned(hand[c])
  /\ hand' = [hand EXCEPT ![c] = NIL]
  /\ Return(c)
  /\ UNCHANGED <<head_, tail_, pushed>>

-----------------------------------------------------------------------------
Push(p) ==
  \/ ClaimPush(p) /\ UNCHANGED <<elements, hand>>
  \/ ExchangeNil(p)
  \/ SeeNil(p)
  \/ StoreElement(p)

Pop(c) ==
  \/ ClaimPop(c) /\ UNCHANGED <<elements, hand>>
  \/ ExchangeElement(c)
  \/ LoadElement(c)
  \/ StoreNil(c)

Next ==
  \/ \E p \in Producers : Push(p)
  \/ \E c \in Consumers : Pop(c)

Spec == Init /\ [][Next]_vars

\* The scheduler runs every thread, producers push all their messages and
\* consumers keep calling pop or try_pop: what the tests and benchmarks do.
Fairness ==
  /\ \A p \in Producers : WF_vars(Push(p))
  /\ \A c \in Consumers : WF_vars(Pop(c))

\* Relaxed or not, a store becomes visible to other threads in finite time: in
\* the end nobody is refused because of an old value.
Visibility == <>[][RefusedAtLimit(0)]_vars

FairSpec == Spec /\ Fairness /\ Visibility

-----------------------------------------------------------------------------
(* Properties.                                                             *)

\* The messages in the slots are a channel: a push that returns has put its
\* message in it, once, and each message leaves it by one pop, in every
\* interleaving of do_push and do_pop and however the counters wrap.
Stored == {elements[s] : s \in Slots} \ {NIL}

ChannelOfSlots == INSTANCE Channel WITH chan <- Stored
ImplementsChannel == ChannelOfSlots!Spec

\* With one producer and one consumer the slots are a bounded FIFO queue: a
\* push appends its message and a pop takes the oldest.
QueueOfSlots == QueueOf(elements, PopEnd, PushEnd)

FifoOfSlots == INSTANCE Fifo WITH queue <- QueueOfSlots, Capacity <- Size
ImplementsFifo == FifoOfSlots!Spec

\* push waits only because the queue is full, and pop only because it is
\* empty.  With no pop under way and at most Size indices claimed beyond
\* tail_, no push is waiting for its slot; with no push under way and no
\* index claimed by a pop beyond head_, no pop is waiting for its slot.
\* This is what remap and the pairing of indices with slots must achieve.
PushWaitsOnlyWhenFull ==
  (\A c \in Consumers : pc[c] = "idle") /\ Used <= Size =>
    \A p \in Producers : pc[p] = "push" => elements[SlotOf(p)] = NIL

PopWaitsOnlyWhenEmpty ==
  (\A p \in Producers : pc[p] = "idle") /\ Used >= 0 =>
    \A c \in Consumers : pc[c] = "pop" => elements[SlotOf(c)] # NIL

\* try_push returns false only while the queue is full, and try_pop only
\* while it is empty, although each loads the two counters at different
\* times: the counter loaded first is the older one, and an old head_ makes
\* the queue look emptier, an old tail_ fuller, than it is.  Only an old value
\* of the counter loaded last is mistaken, and by no more than it is old.
RefusedOnlyAtLimit == [][RefusedAtLimit(Lag)]_vars

\* try_push claims an index only while the queue has room, and try_pop only
\* while there is something to pop, however old the values are that they
\* check and however often their compare-exchanges fail: neither ends up
\* waiting for the other side to make room or to push.
TryWithinLimit == [][~Spsc => ClaimedWithinLimit]_vars

\* Every message is pushed and returned by a pop, in the end: no thread is
\* left waiting on a slot that nobody else will free or fill.
AllDelivered == <>(\A m \in Message : popped[m] = 1)
=============================================================================
