------------------------- MODULE AtomicQueueCommon --------------------------
(***************************************************************************)
(* The part every lock-free queue inherits: the two counters head_ and     *)
(* tail_, and the first half of try_push, try_pop, push and pop, which     *)
(* claims an index.  The second half, do_push and do_pop on the slot of    *)
(* the claimed index, belongs to the derived queue: AtomicQueue.tla and    *)
(* AtomicQueue2.tla extend this module the way the classes do.             *)
(*                                                                         *)
(* One action per access of a shared variable.  The loads of the counters  *)
(* are relaxed: they may return an old value, while a read-modify-write    *)
(* always finds the last one.  A weak compare-exchange                     *)
(* that fails spuriously reloads the value it had and repeats the check it *)
(* passed, which a stutter stands for: tail_ and head_ only move on, so    *)
(* the repeated check passes again.                                        *)
(***************************************************************************)
EXTENDS Unsigned

CONSTANTS
  Producers,      \* threads that call push and try_push
  Consumers,      \* threads that call pop and try_pop
  Size,           \* size_, the number of slots
  Slot,           \* Slot[i] is the slot of index i: remap(i, size_, B{})
  Spsc,           \* the SPSC template argument
  Start,          \* both counters' value after earlier, completed use
  Lag,            \* bound: how many values behind a relaxed load may be
  MaxPush         \* bound: messages each producer pushes

Threads == Producers \cup Consumers
Slots == 0 .. Size - 1

ASSUME ThreadsAssumption == Producers \cap Consumers = {}
ASSUME SizeAssumption == Size \in Word /\ Size > 0
ASSUME SlotAssumption == Slot \in [Word -> Slots]
ASSUME StartAssumption == Start \in Word
ASSUME LagAssumption == Lag \in Nat
ASSUME MaxPushAssumption == MaxPush \in Nat
\* README: an SPSC queue has a single producer thread and a single consumer
\* thread.
ASSUME SpscAssumption ==
  /\ Spsc \in BOOLEAN
  /\ Spsc => /\ \A p, q \in Producers : p = q
             /\ \A c, d \in Consumers : c = d

\* The n-th message of producer p.
Message == Producers \X (1 .. MaxPush)

VARIABLES
  head_,          \* the next index to push
  tail_,          \* the next index to pop
  pc,             \* pc[t]: where thread t is within its call
  index,          \* index[t]: t's local head (producer) or tail (consumer)
  pushed,         \* pushed[p]: messages p has pushed
  popped          \* popped[m]: how many times a pop has returned m

counters == <<head_, tail_>>
common == <<head_, tail_, pc, index, pushed, popped>>

CommonInit ==
  /\ head_ = Start
  /\ tail_ = Start
  /\ pc = [t \in Threads |-> "idle"]
  /\ index = [t \in Threads |-> 0]
  /\ pushed = [p \in Producers |-> 0]
  /\ popped = [m \in Message |-> 0]

\* What a relaxed load of a counter may return: the last value, or one of the
\* Lag values before it.
Recent(counter) == {Sub(counter, k) : k \in {j \in 0 .. Lag : j <= Sub(counter, Start)}}

\* The only thread that writes a counter sees its own stores.
Own(counter) == IF Spsc THEN {counter} ELSE Recent(counter)

-----------------------------------------------------------------------------
(* A thread moves to a step of its call, with the index it holds.          *)
Goto(t, step, i) ==
  /\ pc' = [pc EXCEPT ![t] = step]
  /\ index' = [index EXCEPT ![t] = i]

\* The call ends and its local index with it.
Return(t) == Goto(t, "idle", 0)

SlotOf(t) == Slot[index[t]]

\* The message p is pushing, or will push next.
NextMessage(p) == <<p, pushed[p] + 1>>
Accepted(p) == pushed' = [pushed EXCEPT ![p] = @ + 1]
Returned(m) == popped' = [popped EXCEPT ![m] = @ + 1]

-----------------------------------------------------------------------------
(* Claiming an index to push.                                              *)
\* Mutant: one slot is left unused.
IsFullEarly(head, tail) == AsSigned(Sub(head, tail)) >= AsSigned(Size) - 1

IsFull(head, tail) == Reaches(Sub(head, tail), Size)

TryPushBegin(p) ==
  /\ pc[p] = "idle"
  /\ pushed[p] < MaxPush
  /\ \E head \in Own(head_) : Goto(p, "check", head)
  /\ UNCHANGED <<head_, tail_, pushed, popped>>

\* Loads tail_; head_ was loaded before.
TryPushCheck(p) ==
  /\ pc[p] = "check"
  /\ \E tail \in Recent(tail_) :
       IF IsFull(index[p], tail) THEN Return(p) ELSE Goto(p, "claim", index[p])
  /\ UNCHANGED <<head_, tail_, pushed, popped>>

\* MPMC: the compare-exchange succeeds.  SPSC: a plain store.
ClaimHead(p) ==
  /\ pc[p] = "claim"
  /\ Spsc \/ head_ = index[p]
  /\ head_' = Add(index[p], 1)
  /\ Goto(p, "push", index[p])
  /\ UNCHANGED <<tail_, pushed, popped>>

\* Mutant: the failed compare-exchange does not update the expected value.
ReloadHeadNot(p) ==
  /\ pc[p] = "claim"
  /\ ~Spsc
  /\ head_ # index[p]
  /\ UNCHANGED common

\* Mutant: the failed compare-exchange is repeated without the check.
ReloadHeadUnchecked(p) ==
  /\ pc[p] = "claim"
  /\ ~Spsc
  /\ head_ # index[p]
  /\ Goto(p, "claim", head_)
  /\ UNCHANGED <<head_, tail_, pushed, popped>>

\* The compare-exchange fails and reloads head_.
ReloadHead(p) ==
  /\ pc[p] = "claim"
  /\ ~Spsc
  /\ head_ # index[p]
  /\ Goto(p, "check", head_)
  /\ UNCHANGED <<head_, tail_, pushed, popped>>

\* Mutant: ++head_ in place of head_++.
PushBeginNext(p) ==
  /\ pc[p] = "idle"
  /\ pushed[p] < MaxPush
  /\ head_' = Add(head_, 1)
  /\ Goto(p, "push", Add(head_, 1))
  /\ UNCHANGED <<tail_, pushed, popped>>

\* push: fetch_add, or in SPSC mode a load, with the store in ClaimHead.
PushBegin(p) ==
  /\ pc[p] = "idle"
  /\ pushed[p] < MaxPush
  /\ IF Spsc
       THEN Goto(p, "claim", head_) /\ UNCHANGED head_
       ELSE Goto(p, "push", head_) /\ head_' = Add(head_, 1)
  /\ UNCHANGED <<tail_, pushed, popped>>

ClaimPush(p) ==
  \/ TryPushBegin(p)
  \/ TryPushCheck(p)
  \/ ClaimHead(p)
  \/ ReloadHead(p)
  \/ PushBegin(p)

-----------------------------------------------------------------------------
(* Claiming an index to pop.                                               *)
IsEmpty(head, tail) == AsSigned(Sub(head, tail)) <= 0

TryPopBegin(c) ==
  /\ pc[c] = "idle"
  /\ \E tail \in Own(tail_) : Goto(c, "check", tail)
  /\ UNCHANGED <<head_, tail_, pushed, popped>>

\* Loads head_; tail_ was loaded before.
TryPopCheck(c) ==
  /\ pc[c] = "check"
  /\ \E head \in Recent(head_) :
       IF IsEmpty(head, index[c]) THEN Return(c) ELSE Goto(c, "claim", index[c])
  /\ UNCHANGED <<head_, tail_, pushed, popped>>

\* Mutant: the tail_ that was loaded is stored again.
ClaimTailSame(c) ==
  /\ pc[c] = "claim"
  /\ Goto(c, "pop", index[c])
  /\ UNCHANGED <<head_, tail_, pushed, popped>>

ClaimTail(c) ==
  /\ pc[c] = "claim"
  /\ Spsc \/ tail_ = index[c]
  /\ tail_' = Add(index[c], 1)
  /\ Goto(c, "pop", index[c])
  /\ UNCHANGED <<head_, pushed, popped>>

ReloadTail(c) ==
  /\ pc[c] = "claim"
  /\ ~Spsc
  /\ tail_ # index[c]
  /\ Goto(c, "check", tail_)
  /\ UNCHANGED <<head_, tail_, pushed, popped>>

PopBegin(c) ==
  /\ pc[c] = "idle"
  /\ IF Spsc
       THEN Goto(c, "claim", tail_) /\ UNCHANGED tail_
       ELSE Goto(c, "pop", tail_) /\ tail_' = Add(tail_, 1)
  /\ UNCHANGED <<head_, pushed, popped>>

ClaimPop(c) ==
  \/ TryPopBegin(c)
  \/ TryPopCheck(c)
  \/ ClaimTail(c)
  \/ ReloadTail(c)
  \/ PopBegin(c)

-----------------------------------------------------------------------------
(* What the claims promise, in steps of any of the queues.                 *)
Used == AsSigned(Sub(head_, tail_))

Refused(t) == pc[t] = "check" /\ pc'[t] = "idle"

\* A refused call finds its queue full, or empty, but for lag values.
RefusedAtLimit(lag) ==
  /\ \A p \in Producers : Refused(p) => Used >= Size - lag
  /\ \A c \in Consumers : Refused(c) => Used <= lag

\* In MPMC mode only try_push and try_pop reach the compare-exchange.
ClaimedWithinLimit ==
  /\ \A p \in Producers : pc[p] = "claim" /\ pc'[p] = "push" => Used' <= Size
  /\ \A c \in Consumers : pc[c] = "claim" /\ pc'[c] = "pop" => Used' >= 0

-----------------------------------------------------------------------------
(* The queue of an SPSC mode, read off the slots from the index the        *)
(* consumer pops next, or is popping, up to the index the producer pushes  *)
(* next, or is pushing.  f gives each slot the message it holds.           *)
Busy(t) == pc[t] \notin {"idle", "check", "claim"}

InUse(T, counter) ==
  IF \E t \in T : Busy(t) THEN index[CHOOSE t \in T : Busy(t)] ELSE counter

PopEnd == InUse(Consumers, tail_)
PushEnd == InUse(Producers, head_)

QueueOf(f, first, last) ==
  [k \in 1 .. Sub(last, first) |-> f[Slot[Add(first, k - 1)]]]
=============================================================================
