--------------------------------- MODULE Heap -------------------------------
(***************************************************************************)
(* Where the ring buffers of AtomicQueueB and AtomicQueueB2 come from: a   *)
(* stateful standard allocator, or HugePages, which hands out memory from  *)
(* one end and takes back only what it handed out last.  A heap is a       *)
(* record, and each call of an allocator a function of it.                 *)
(***************************************************************************)
EXTENDS Integers, FiniteSetsExt

CONSTANTS
  Total,          \* bound: the addresses are 0 .. Total - 1
  Allocators,     \* the standard allocators, which are not equal
  Huge,           \* HugePageAllocator, all of which are equal
  PageSize,       \* of the types of pages there are
  Requested       \* what HugePages is asked for

ASSUME TotalAssumption == Total \in Nat /\ Requested \in Nat
ASSUME PageSizeAssumption ==
  /\ DOMAIN PageSize = {"PAGE_DEFAULT", "PAGE_2MB", "PAGE_1GB"}
  /\ \A type \in DOMAIN PageSize :
       PageSize[type] \in Nat \ {0} /\ Requested + PageSize[type] - 1 <= Total
ASSUME HugeAssumption == Huge \notin Allocators

Address == 0 .. Total - 1

\* cur, end: HugePages::cur_ and end_.  live: the blocks of memory in use.  broken: a
\* deallocation was given what had not been allocated like that: HugePages
\* aborts, and a standard allocator's behaviour is undefined.
NewHeap == [cur |-> 0, end |-> 0, live |-> {}, broken |-> FALSE]

\* HugePages maps what was requested, rounded up to the page size.
Mapped(heap, type) ==
  [heap EXCEPT !.end = ((Requested + PageSize[type] - 1) \div PageSize[type]) * PageSize[type]]

Cells(at, count) == at .. at + count - 1

Used(heap) == UNION {Cells(b.at, b.count) : b \in heap.live}

\* The address that allocate returns.  The standard allocators are not part
\* of the repository; these return the lowest address that is free, 0 or
\* the end of a block, so that memory is soon used again.
Place(heap, count, by) ==
  IF by = Huge THEN heap.cur
  ELSE Min({at \in {0} \cup {b.at + b.count : b \in heap.live} :
              Cells(at, count) \cap Used(heap) = {}})

\* HugePages throws when end_ - cur_ is less than the size.
Fits(heap, count, by) ==
  Place(heap, count, by) + count <= IF by = Huge THEN heap.end ELSE Total

Block(at, count, by) == [at |-> at, count |-> count, by |-> by]

Allocated(heap, count, by) ==
  LET at == Place(heap, count, by)
  IN  [heap EXCEPT !.live = @ \cup {Block(at, count, by)},
                   !.cur = IF by = Huge THEN at + count ELSE @]

\* deallocate(at, count).
Freed(heap, at, count, by) ==
  LET known == IF by = Huge THEN at = heap.cur - count
                            ELSE Block(at, count, by) \in heap.live
  IN  IF known
        THEN [heap EXCEPT !.live = @ \ {Block(at, count, by)},
                          !.cur = IF by = Huge THEN at ELSE @]
        ELSE [heap EXCEPT !.broken = TRUE]
=============================================================================
