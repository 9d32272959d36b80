----------------------------- MODULE QueueObjects ---------------------------
(***************************************************************************)
(* The special member functions of AtomicQueueB and AtomicQueueB2, which   *)
(* own their ring buffers: construction, move, swap and destruction, with  *)
(* pushes and pops in between.  One thread: none of them is thread-safe,   *)
(* and each is one action.  Two programs use them: one keeps objects as it *)
(* likes, with standard allocators; the other, the benchmarks, creates     *)
(* them in HugePages and destroys them in reverse order.                   *)
(***************************************************************************)
EXTENDS Unsigned, Heap, IndexRemap, SequencesExt

CONSTANTS
  Objects,        \* the variables that may hold a queue
  Sizes,          \* the sizes constructors round to (QueueSize, IndexBits)
  ShuffleBits,    \* SHUFFLE_BITS
  Emptied,        \* the elements of AtomicQueueB2 that a move leaves blank
  MaxPush         \* bound: pushes, the n-th of them of message n

\* A cache line has 2 to 2^8 elements or states, or the queue does not compile;
\* 6 bits are shuffled by AtomicQueueB2.  The sizes are the powers of 2 from
\* 1u << (2 * SHUFFLE_BITS) on that unsigned has.
ASSUME SizesAssumption ==
  /\ ShuffleBits \in 1 .. 8
  /\ \A n \in Sizes : n \in Word /\ \E k \in 2 * ShuffleBits .. 31 : n = 2^k

Null == -1              \* nullptr
Junk == -1              \* what uninitialized memory holds
Blank == 0              \* NIL, EMPTY, and a default-constructed element
STORED == 1

VARIABLES
  class,          \* "AtomicQueueB" or "AtomicQueueB2", constant
  program,        \* "values" or "scopes", constant
  type,           \* the pages to try next, "mapped" or "threw"
  heap, memory,   \* the allocators, and memory[a] for each address a
  scope,          \* the objects that exist, in the order of creation
  self,           \* self[q]: where the object itself is, in HugePages
  obj,            \* obj[q]: the data members
  pushes,         \* how many messages have been pushed
  lost            \* blocks of constructors that threw

vars == <<class, program, type, heap, memory, scope, self, obj, pushes, lost>>

alive == {scope[k] : k \in DOMAIN scope}

NoObject == [allocator |-> Huge, head_ |-> 0, tail_ |-> 0, size_ |-> 0,
             states_ |-> Null, elements_ |-> Null]

Init ==
  /\ class \in {"AtomicQueueB", "AtomicQueueB2"}
  /\ program \in {"values", "scopes"}
  /\ type = "PAGE_1GB"
  /\ heap = NewHeap
  /\ memory = [a \in Address |-> Junk]
  /\ scope = << >>
  /\ self = [q \in Objects |-> Null]
  /\ obj = [q \in Objects |-> NoObject]
  /\ pushes = 0
  /\ lost = {}

-----------------------------------------------------------------------------
\* The blocks an object owns, and the cells in them.
Arrays(o) == {p \in {o.states_, o.elements_} : p # Null}
Owned(o) == {Block(p, o.size_, o.allocator) : p \in Arrays(o)}
OwnedCells(o) == UNION {Cells(p, o.size_) : p \in Arrays(o)}

\* Mutant: the array is not filled.
FilledNot(o) == memory

\* std::uninitialized_fill_n with NIL or EMPTY, construct of each element.
Filled(o) == [a \in Address |-> IF a \in OwnedCells(o) THEN Blank ELSE memory[a]]

\* What the constructor of HugePages tries after a type of pages.
Smaller == [PAGE_1GB |-> "PAGE_2MB", PAGE_2MB |-> "PAGE_DEFAULT", PAGE_DEFAULT |-> "threw"]

\* One mmap of the constructor of HugePages, which the system may refuse.
Map ==
  /\ program = "scopes"
  /\ type \in DOMAIN Smaller
  /\ \/ type' = "mapped" /\ heap' = Mapped(heap, type)
     \/ type' = Smaller[type] /\ UNCHANGED heap
  /\ UNCHANGED <<class, program, memory, scope, self, obj, pushes, lost>>

\* The heap before the constructor: create_unique_ptr places the object first.
Around(a) == IF a = Huge THEN Allocated(heap, 1, Huge) ELSE heap

Construct(q, n, a) ==
  LET first == Around(a)
      second == Allocated(first, n, a)
      B2 == class = "AtomicQueueB2"
      o == [allocator |-> a, head_ |-> 0, tail_ |-> 0, size_ |-> n,
            states_ |-> IF B2 THEN Place(first, n, a) ELSE Null,
            elements_ |-> IF B2 THEN Place(second, n, a) ELSE Place(first, n, a)]
  IN  /\ q \notin alive
      /\ (a = Huge) = (program = "scopes")
      /\ Fits(first, n, a) /\ (B2 => Fits(second, n, a))
      /\ heap' = IF B2 THEN Allocated(second, n, a) ELSE second
      /\ memory' = Filled(o)
      /\ scope' = Append(scope, q)
      /\ self' = [self EXCEPT ![q] = IF a = Huge THEN heap.cur ELSE Null]
      /\ obj' = [obj EXCEPT ![q] = o]
      /\ UNCHANGED <<class, program, type, pushes, lost>>

\* AtomicQueueB2 allocates twice.  When the second allocation throws, nobody
\* deallocates the first.  (When the only one throws, nothing has happened.
\* In the benchmarks nothing catches bad_alloc.)
ConstructThrows(q, n, a) ==
  /\ class = "AtomicQueueB2"
  /\ program = "values"
  /\ lost = {}                          \* bound: one such constructor
  /\ q \notin alive
  /\ a # Huge
  /\ Fits(heap, n, a)
  /\ heap' = Allocated(heap, n, a)
  /\ lost' = lost \cup {Block(Place(heap, n, a), n, a)}
  /\ UNCHANGED <<class, program, type, memory, scope, self, obj, pushes>>

\* Mutant: the moved-from object keeps its pointers.
MovedKept(o) == [o EXCEPT !.size_ = 0]

\* Mutant: the moved-from object keeps its size.
MovedSized(o) == [o EXCEPT !.states_ = Null, !.elements_ = Null]

\* What a move leaves: no memory, but the counters and the allocator stay.
Moved(o) == [o EXCEPT !.size_ = 0, !.states_ = Null, !.elements_ = Null]

MoveConstruct(q, r) ==
  /\ program = "values"
  /\ q \notin alive
  /\ r \in alive
  /\ obj' = [obj EXCEPT ![q] = obj[r], ![r] = Moved(obj[r])]
  /\ scope' = Append(scope, q)
  /\ UNCHANGED <<class, program, type, heap, memory, self, pushes, lost>>

\* Mutant: the counters of the base class are not swapped.
SwappedWithoutBase(o, with) == [with EXCEPT !.head_ = o.head_, !.tail_ = o.tail_]

\* What o becomes when it is swapped with another object: all members change.
SwappedWith(o, with) == with

\* swap, and move assignment, which swaps.
Swap(q, r) ==
  /\ program = "values"
  /\ q \in alive
  /\ r \in alive
  /\ obj' = [obj EXCEPT ![q] = SwappedWith(obj[q], obj[r]), ![r] = SwappedWith(obj[r], obj[q])]
  /\ UNCHANGED <<class, program, type, heap, memory, scope, self, pushes, lost>>

\* Mutant: the arrays are deallocated in the order of allocation.
FreedInOrder(o) ==
  LET states == IF o.states_ = Null THEN heap
                ELSE Freed(heap, o.states_, o.size_, o.allocator)
  IN  Freed(states, o.elements_, o.size_, o.allocator)

\* The destructor's deallocations: elements_, then states_.
FreedArrays(o) ==
  LET elements == Freed(heap, o.elements_, o.size_, o.allocator)
  IN  IF o.states_ = Null THEN elements
      ELSE Freed(elements, o.states_, o.size_, o.allocator)

\* Nothing is done for a moved-from object.  In HugePages, destroy then gives
\* back the memory of the object itself.
Destroy(q) ==
  LET o == obj[q]
      freed == IF o.elements_ = Null THEN heap ELSE FreedArrays(o)
  IN  /\ q \in alive
      /\ program = "scopes" => q = Last(scope)
      /\ heap' = IF program = "scopes" THEN Freed(freed, self[q], 1, Huge) ELSE freed
      /\ memory' = [a \in Address |-> IF a \in OwnedCells(o) THEN Junk ELSE memory[a]]
      /\ \E k \in DOMAIN scope : scope[k] = q /\ scope' = RemoveAt(scope, k)
      /\ self' = [self EXCEPT ![q] = Null]
      /\ obj' = [obj EXCEPT ![q] = NoObject]
      /\ UNCHANGED <<class, program, type, pushes, lost>>

-----------------------------------------------------------------------------
(* A whole try_push and try_pop, by the thread that has the object.        *)
SlotIn(o, index) == Remap(index, o.size_, ShuffleBits)

\* Where the element of an index is, and its state.
ElementAt(o, index) == o.elements_ + SlotIn(o, index)
StateAt(o, index) == o.states_ + SlotIn(o, index)

\* The slot is free: do_push need not wait.
SlotFree(o, index) ==
  /\ class = "AtomicQueueB" => memory[ElementAt(o, index)] = Blank
  /\ class = "AtomicQueueB2" => memory[StateAt(o, index)] = Blank

\* A moved-from queue has no room: its size is 0.
HasRoom(o) == AsSigned(Sub(o.head_, o.tail_)) < AsSigned(o.size_)

TryPush(q) ==
  LET o == obj[q]
  IN  /\ q \in alive
      /\ pushes < MaxPush
      /\ HasRoom(o)
      /\ SlotFree(o, o.head_)
      /\ pushes' = pushes + 1
      /\ memory' = [a \in Address |->
           IF a = ElementAt(o, o.head_) THEN pushes + 1
           ELSE IF class = "AtomicQueueB2" /\ a = StateAt(o, o.head_) THEN STORED
           ELSE memory[a]]
      /\ obj' = [obj EXCEPT ![q].head_ = Add(@, 1)]
      /\ UNCHANGED <<class, program, type, heap, scope, self, lost>>

\* What a pop leaves in the slot of an element: NIL, or what a move leaves of a
\* T, which may be the old value.
Left(element) ==
  IF class = "AtomicQueueB" \/ element \in Emptied THEN Blank ELSE element

\* A moved-from queue keeps its counters.  If it held messages try_pop would
\* go through a null pointer: elements_ # Null is up to the caller.
TryPop(q) ==
  LET o == obj[q]
  IN  /\ q \in alive
      /\ o.elements_ # Null
      /\ AsSigned(Sub(o.head_, o.tail_)) > 0
      /\ class = "AtomicQueueB2" => memory[StateAt(o, o.tail_)] = STORED
      /\ memory' = [a \in Address |->
           IF a = ElementAt(o, o.tail_) THEN Left(memory[a])
           ELSE IF class = "AtomicQueueB2" /\ a = StateAt(o, o.tail_) THEN Blank
           ELSE memory[a]]
      /\ obj' = [obj EXCEPT ![q].tail_ = Add(@, 1)]
      /\ UNCHANGED <<class, program, type, heap, scope, self, pushes, lost>>

-----------------------------------------------------------------------------
Next ==
  \/ Map
  \/ \E q \in Objects, n \in Sizes, a \in Allocators \cup {Huge} :
       Construct(q, n, a) \/ ConstructThrows(q, n, a)
  \/ \E q, r \in Objects : MoveConstruct(q, r) \/ Swap(q, r)
  \/ \E q \in Objects : Destroy(q) \/ TryPush(q) \/ TryPop(q)

Spec == Init /\ [][Next]_vars

-----------------------------------------------------------------------------
(* Properties.                                                             *)
holding == {q \in alive : obj[q].elements_ # Null}

\* The indices of a queue's messages, oldest first.
InTransit(o) == [k \in 1 .. Sub(o.head_, o.tail_) |-> Add(o.tail_, k - 1)]

contents == [q \in Objects |->
  IF q \in holding
    THEN [k \in DOMAIN InTransit(obj[q]) |-> memory[ElementAt(obj[q], InTransit(obj[q])[k])]]
    ELSE << >>]

\* Construction, moves, swaps and destruction treat a queue as one value:
\* what is pushed into an object follows it through moves and swaps, in
\* order, and reaches no other object, although six members are exchanged one
\* by one and memory is used again.
Values == INSTANCE Containers
ImplementsContainers == Values!Spec

\* Every slot outside a queue's messages is ready for a push, in each object
\* that holds memory, newly made of used memory, moved or swapped: no push
\* waits for a slot nobody will free.
FreeSlotsAreReady ==
  \A q \in holding :
    LET o == obj[q]
    IN  \A k \in Sub(o.head_, o.tail_) .. o.size_ - 1 : SlotFree(o, Add(o.tail_, k))

\* Each block of memory is owned by one object, with the size and the allocator
\* it was allocated with, until that object's destructor deallocates it, once,
\* with the same size, by the same allocator.  Only the first block of a
\* constructor that threw is lost.
BlocksHaveOneOwner ==
  program = "values" =>
    /\ ~heap.broken
    /\ heap.live = lost \cup UNION {Owned(obj[q]) : q \in alive}
    /\ \A q, r \in alive : q # r => Owned(obj[q]) \cap Owned(obj[r]) = {}

\* try_push refuses an object that has been moved from, whatever its counters
\* say, which it keeps: there is no slot it could write to.
MovedFromRefuses == \A q \in alive \ holding : ~HasRoom(obj[q])

\* The benchmarks, which destroy queues in reverse order, never make HugePages
\* abort, whose deallocate accepts only what was allocated last, and leave it
\* empty: check_huge_pages_leaks has nothing to report.  They have the memory
\* that they asked for, whichever pages there are.
HugePagesUnwound ==
  program = "scopes" =>
    /\ ~heap.broken
    /\ alive = {} => heap.cur = 0
    /\ type = "mapped" => heap.end >= Requested /\ heap.cur <= heap.end
=============================================================================
