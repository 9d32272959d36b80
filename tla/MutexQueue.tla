----------------------------- MODULE MutexQueue -----------------------------
(***************************************************************************)
(* AtomicQueueMutexT: a ring buffer with plain counters and elements,      *)
(* every operation of which runs under a mutex of SpinLocks.  Its push and *)
(* pop are those of RetryDecorator, which call try_push and try_pop until  *)
(* they succeed.                                                           *)
(***************************************************************************)
EXTENDS SpinLocks

CONSTANTS
  Producers,      \* threads that call try_push
  Consumers,      \* threads that call try_pop
  Observers,      \* threads that call was_empty and was_full
  Size,           \* size_
  Slot,           \* Slot[i] is the slot of index i: remap(i, size_, B{})
  MaxPush,        \* bound: messages each producer pushes
  Blank           \* a default-constructed or moved-from element

Slots == 0 .. Size - 1
Message == Producers \X (1 .. MaxPush)

ASSUME RolesAssumption ==
  /\ Threads = Producers \cup Consumers \cup Observers
  /\ Producers \cap Consumers = {}
  /\ Observers \cap (Producers \cup Consumers) = {}
ASSUME QueueSizeAssumption == Size \in Word /\ Size > 0
ASSUME QueueSlotAssumption == Slot \in [Word -> Slots]
ASSUME QueueMaxPushAssumption == MaxPush \in Nat

VARIABLES
  head_, tail_, elements_,
  hand,           \* hand[c]: the element a pop has moved out
  pushed,         \* pushed[p]: messages p has pushed
  popped          \* popped[m]: how many times a pop has returned m

queueVars == <<head_, tail_, elements_, hand, pushed, popped>>
vars == <<lockVars, pc, queueVars>>

Init ==
  /\ LockInit
  /\ head_ = Start
  /\ tail_ = Start
  /\ elements_ = [s \in Slots |-> Blank]
  /\ hand = [c \in Consumers |-> Blank]
  /\ pushed = [p \in Producers |-> 0]
  /\ popped = [m \in Message |-> 0]

\* The scoped lock at the start of each operation.
Call(t) ==
  /\ From(t, "idle", "lock")
  /\ t \in Producers => pushed[t] < MaxPush
  /\ UNCHANGED <<lockVars, queueVars>>

-----------------------------------------------------------------------------
(* try_push, with the mutex locked.                                        *)
\* Mutant: a queue that is full takes one more.
HasRoomLate == Sub(head_, tail_) <= Size

HasRoom == Sub(head_, tail_) < Size

CheckRoom(p) ==
  /\ From(p, "locked", IF HasRoom THEN "assign" ELSE "unlock")
  /\ UNCHANGED <<lockVars, queueVars>>

Assign(p) ==
  /\ From(p, "assign", "advance")
  /\ elements_' = [elements_ EXCEPT ![Slot[head_]] = <<p, pushed[p] + 1>>]
  /\ UNCHANGED <<lockVars, head_, tail_, hand, pushed, popped>>

AdvanceHead(p) ==
  /\ From(p, "advance", "unlock")
  /\ head_' = Add(head_, 1)
  /\ pushed' = [pushed EXCEPT ![p] = @ + 1]
  /\ UNCHANGED <<lockVars, tail_, elements_, hand, popped>>

-----------------------------------------------------------------------------
(* try_pop, with the mutex locked.                                         *)
CheckMessage(c) ==
  /\ From(c, "locked", IF head_ # tail_ THEN "move" ELSE "unlock")
  /\ UNCHANGED <<lockVars, queueVars>>

\* What the move leaves behind is up to the element type.
Move(c) ==
  /\ From(c, "move", "advance")
  /\ hand' = [hand EXCEPT ![c] = elements_[Slot[tail_]]]
  /\ \E rest \in {elements_[Slot[tail_]], Blank} :
       elements_' = [elements_ EXCEPT ![Slot[tail_]] = rest]
  /\ UNCHANGED <<lockVars, head_, tail_, pushed, popped>>

AdvanceTail(c) ==
  /\ From(c, "advance", "unlock")
  /\ tail_' = Add(tail_, 1)
  /\ popped' = [popped EXCEPT ![hand[c]] = @ + 1]
  /\ hand' = [hand EXCEPT ![c] = Blank]
  /\ UNCHANGED <<lockVars, head_, elements_, pushed>>

\* was_empty and was_full read the counters.
Look(o) ==
  /\ From(o, "locked", "unlock")
  /\ UNCHANGED <<lockVars, queueVars>>

-----------------------------------------------------------------------------
Mutex(t) == (Lock(t) \/ Unlock(t)) /\ UNCHANGED queueVars

Push(p) == Call(p) \/ Mutex(p) \/ CheckRoom(p) \/ Assign(p) \/ AdvanceHead(p)
Pop(c) == Call(c) \/ Mutex(c) \/ CheckMessage(c) \/ Move(c) \/ AdvanceTail(c)
Observe(o) == Call(o) \/ Mutex(o) \/ Look(o)

Next ==
  \/ \E p \in Producers : Push(p)
  \/ \E c \in Consumers : Pop(c)
  \/ \E o \in Observers : Observe(o)

Spec == Init /\ [][Next]_vars

\* The scheduler runs every thread; producers and consumers retry.
Fairness ==
  /\ \A p \in Producers : WF_vars(Push(p))
  /\ \A c \in Consumers : WF_vars(Pop(c))
  /\ \A o \in Observers : WF_vars(Observe(o))

FairSpec == Spec /\ Fairness

-----------------------------------------------------------------------------
(* Properties.                                                             *)

\* At most one thread is between the lock and the unlock of any class of mutex,
\* across the wrap of its ticket counters.
MutualExclusion ==
  \A t, u \in Threads :
    pc[t] \in {"locked", "assign", "move", "advance", "unlock"}
      /\ pc[u] \in {"locked", "assign", "move", "advance", "unlock"} => t = u

\* The queue is a bounded FIFO queue, whatever the mutex: the slots from tail_
\* up to head_, the first of them in the hand of the consumer that moves it.
Content(i) ==
  LET movers == {c \in Consumers : i = tail_ /\ pc[c] = "advance"}
  IN  IF movers = {} THEN elements_[Slot[i]] ELSE hand[CHOOSE c \in movers : TRUE]

Queue == [k \in 1 .. Sub(head_, tail_) |-> Content(Add(tail_, k - 1))]

FifoOfSlots == INSTANCE Fifo WITH queue <- Queue, Capacity <- Size
ImplementsFifo == FifoOfSlots!Spec

\* With the ticket lock nobody is starved: producers that retry on a full
\* queue, consumers that retry on an empty one and observers do not keep the
\* lock from the thread the others wait for.  The other mutexes do not promise
\* it.
TicketHoldersDeliver ==
  mutex = "TicketSpinlock" => <>(\A m \in Message : popped[m] = 1)
=============================================================================
